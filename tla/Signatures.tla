----------------------------- MODULE Signatures ------------------------------
(* Sdk::GameData and the signature scanner: what a gamedata file gives this     *)
(* platform, where its patterns are found in the game's library, and what the   *)
(* lookups answer.  Pure operators; Startup keeps their results.                *)
(*                                                                              *)
(* A loaded object of the process is [file, addr, segments], a segment a mapped *)
(* range [base, bytes], in the order the loader lists them.  A pattern is a     *)
(* sequence of byte values, Wild or Garbage (a token that is no hex number).    *)
EXTENDS Integers, Sequences, FiniteSetsExt

CONSTANTS
  None,           \* a null pointer, an entry a file does not have
  Broken          \* a value of another JSON type than the loader asks for

Wild == -1
Garbage == -2

(* ---- the scanner ----------------------------------------------------------- *)

\* stoul throws what nobody on the way out of ResolveAll catches.
ParsePattern(tokens) ==
  [ throws |-> \E i \in DOMAIN tokens : tokens[i] = Garbage,
    bytes |-> [i \in DOMAIN tokens |-> IF tokens[i] = Wild THEN Wild ELSE tokens[i] % 256] ]

MatchesAt(range, at, pattern) ==
  \A j \in DOMAIN pattern : pattern[j] \in {Wild, range.bytes[at + j]}

\* The first place of the range, at or after `from`, where the pattern matches.
ScanMemory(range, from, pattern) ==
  LET found == {at \in from .. Len(range.bytes) - Len(pattern) : MatchesAt(range, at, pattern)}
  IN IF pattern = << >> \/ found = {} THEN None ELSE Min(found)

EndOf(segment) == segment.base + Len(segment.bytes)
Span(object) == Max({EndOf(s) : s \in Range(object.segments)}) - object.addr

\* The widest object of that name, the first of equals.
DlIterateCallback(best, object, file) ==
  IF object.file # file \/ (best # None /\ Span(object) <= Span(best)) THEN best ELSE object

Selected(objects, file) ==
  LET best[n \in 0 .. Len(objects)] ==
        IF n = 0 THEN None ELSE DlIterateCallback(best[n - 1], objects[n], file)
  IN best[Len(objects)]

\* Windows: its whole image as one range, the space between sections included.  Linux: its segments.
ImageRange(object) ==
  LET segments == Range(object.segments)
      SegmentAt(a) == {s \in segments : a \in s.base .. EndOf(s) - 1}
      ByteAt(a) == IF SegmentAt(a) = {} THEN 0
                   ELSE LET s == CHOOSE s \in SegmentAt(a) : TRUE IN s.bytes[a - s.base + 1]
  IN [base |-> object.addr, bytes |-> [i \in 1 .. Span(object) |-> ByteAt(object.addr + i - 1)]]

GetScanRanges(process, file) ==
  LET object == Selected(process.objects, file)
  IN IF object = None THEN << >>
     ELSE IF process.platform = "windows" THEN << ImageRange(object) >> ELSE object.segments

\* Mutant of HitsIn: the scan resumes behind the whole match.
HitsInBehind(range, pattern) ==
  LET hits[from \in 0 .. Len(range.bytes)] ==
        LET at == ScanMemory(range, from, pattern)
        IN IF at = None THEN << >> ELSE << range.base + at >> \o hits[at + Len(pattern)]
  IN hits[0]

\* The hits of one range: the scan resumes one byte behind the last.
HitsIn(range, pattern) ==
  LET hits[from \in 0 .. Len(range.bytes)] ==
        LET at == ScanMemory(range, from, pattern)
        IN IF at = None THEN << >> ELSE << range.base + at >> \o hits[at + 1]
  IN hits[0]

FindPatternEx(process, library, pattern) ==
  LET ranges == GetScanRanges(process, library)
      upTo[r \in 0 .. Len(ranges)] ==
        IF r = 0 THEN << >> ELSE upTo[r - 1] \o HitsIn(ranges[r], ParsePattern(pattern).bytes)
      hits == upTo[Len(ranges)]
  IN [address |-> IF hits = << >> THEN None ELSE Head(hits), unique |-> Len(hits) < 2]

\* The little-endian two's complement word of four bytes at an address of the library.
WordAt(process, library, address) ==
  LET ranges == GetScanRanges(process, library)
      r == CHOOSE r \in Range(ranges) : address \in r.base .. EndOf(r) - 1
      b(i) == r.bytes[address - r.base + 1 + i]
  IN b(0) + 256 * b(1) + 65536 * b(2) + 16777216 * (IF b(3) < 128 THEN b(3) ELSE b(3) - 256)

ResolveRelativeAddress(process, library, address) == address + 4 + WordAt(process, library, address)

(* ---- GameData -------------------------------------------------------------- *)

NoGameData == [offsets |-> << >>, signatures |-> << >>, resolved |-> << >>]

\* The entries of a section in front of the first that throws, those this platform has.
Stored(section, platform) ==
  LET broken == {i \in DOMAIN section : section[i][platform] = Broken}
      read == IF broken = {} THEN DOMAIN section ELSE 1 .. Min(broken) - 1
      of(name) == CHOOSE i \in read : section[i].name = name
  IN [name \in {section[i].name : i \in {i \in read : section[i][platform] # None}}
        |-> section[of(name)][platform]]

Throws(section, platform) == \E i \in DOMAIN section : section[i][platform] = Broken

\* What Load leaves in the tables, and its answer.  An exception keeps what was stored.
LoadGameData(file, platform) ==
  LET halfway == Throws(file.offsets, platform)
  IN IF ~file.opens \/ ~file.parses
     THEN [data |-> NoGameData, ok |-> FALSE]
     ELSE [data |-> [NoGameData EXCEPT
                       !.offsets = Stored(file.offsets, platform),
                       !.signatures = IF halfway THEN << >> ELSE Stored(file.signatures, platform)],
           ok |-> ~halfway /\ ~Throws(file.signatures, platform)]

GetOffset(data, name) == IF name \in DOMAIN data.offsets THEN data.offsets[name] ELSE -1

\* An address of 0 is a null pointer.
Target(process, sig, match) ==
  IF sig.offset = 0 THEN match
  ELSE LET address == ResolveRelativeAddress(process, sig.library, match + sig.offset)
       IN IF address = 0 THEN None ELSE address

\* One entry of ResolveAll.
Resolve(process, sig) ==
  LET scan == FindPatternEx(process, sig.library, sig.pattern)
  IN IF sig.pattern = << >>
     THEN [match |-> None, target |-> None, unique |-> TRUE, error |-> "empty pattern"]
     ELSE IF scan.address = None
     THEN [match |-> None, target |-> None, unique |-> scan.unique, error |-> "pattern not found"]
     ELSE LET target == Target(process, sig, scan.address)
          IN [match |-> scan.address, target |-> target, unique |-> scan.unique,
              error |-> IF target = None THEN "rel32 resolution failed" ELSE ""]

ScanThrows(data, name) ==
  /\ name \in DOMAIN data.signatures
  /\ ParsePattern(data.signatures[name].pattern).throws

ResolveAllThrows(data) == \E name \in DOMAIN data.signatures : ScanThrows(data, name)

ResolveAll(process, data) ==
  [data EXCEPT !.resolved = [name \in DOMAIN data.signatures |-> Resolve(process, data.signatures[name])]]

\* Mutant of FailureSummary: an entry counts as failed only when its pattern is empty.
FailureSummaryOfEmpty(data) ==
  [ failed |-> {n \in DOMAIN data.resolved : data.resolved[n].error = "empty pattern"},
    ambiguous |-> {n \in DOMAIN data.resolved : data.resolved[n].error = "" /\ ~data.resolved[n].unique} ]

FailureSummary(data) ==
  [ failed |-> {n \in DOMAIN data.resolved : data.resolved[n].error # ""},
    ambiguous |-> {n \in DOMAIN data.resolved : data.resolved[n].error = "" /\ ~data.resolved[n].unique} ]

\* From the cache, or on demand when ResolveAll did not run.
FindSignature(process, data, name) ==
  IF name \in DOMAIN data.resolved THEN data.resolved[name].match
  ELSE IF name \notin DOMAIN data.signatures THEN None
  ELSE FindPatternEx(process, data.signatures[name].library, data.signatures[name].pattern).address

ResolveSignature(process, data, name) ==
  LET match == FindSignature(process, data, name)
  IN IF name \in DOMAIN data.resolved THEN data.resolved[name].target
     ELSE IF match = None THEN None ELSE Target(process, data.signatures[name], match)

=============================================================================
