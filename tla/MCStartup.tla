------------------------------ MODULE MCStartup ------------------------------
EXTENDS Kit, TLC

LOCAL INSTANCE SequencesExt

Names == << "CEntityInstance_AcceptInput", "CEntitySystem_AddEntityIOEvent", "CreateEntityByName",
            "DispatchSpawn", "GameEventManager", "LegacyGameEventListener", "UTIL_Remove" >> 
         \o SetToSeq(OpNames \ {"CEntityInstance_AcceptInput", "CEntitySystem_AddEntityIOEvent",
                                "CreateEntityByName", "DispatchSpawn", "UTIL_Remove"})
         \o SetToSeq(PrecacheNames)

(* The game's library: three bytes a function, two segments and a gap, a run of  *)
(* equal bytes, and a displacement behind the first, of -4 or one that leads to  *)
(* address 0.  The stub of the same name has one of the patterns, too.           *)
Code(from, to) == FlattenSeq([i \in 1 .. to - from + 1 |-> << 20 + from + i, 9, 20 + from + i >>])
ServerLibrary(low) ==
        [file |-> "server", addr |-> 100,
         segments |-> << [base |-> 100, bytes |-> Code(0, 6) \o << low, 255, 255, 255, 7, 7, 7 >>],
                         [base |-> 132, bytes |-> << 5, 6 >> \o Code(7, 12)] >>]
Real == ServerLibrary(252)
Stub == [file |-> "server", addr |-> 40, segments |-> << [base |-> 40, bytes |-> << 21, 9, 21 >>] >>]
Other == [file |-> "engine2", addr |-> 0, segments |-> << [base |-> 0, bytes |-> << 21, 9, 21 >>] >>]

Sig(pattern, offset) == [library |-> "server", pattern |-> pattern, offset |-> offset]
Plain(i) == Sig(<< 20 + i, Wild, 276 + i >>, IF Names[i] = "GameEventManager" THEN 9 ELSE 0)
Entry(name, value) == [name |-> name, linux |-> value, windows |-> value]

\* The file with the entry of one signature changed; offsets with one changed.
Signed(odd, value) == [i \in DOMAIN Names |-> Entry(Names[i], IF Names[i] = odd THEN value ELSE Plain(i))]
Offsets(odd, value) ==
  LET all == << "CheckTransmitPlayerSlot", "CommitSuicide", "GameEntitySystem", "Respawn" >>
  IN [i \in DOMAIN all |-> Entry(all[i], IF all[i] = odd THEN value ELSE 10 + i)]
File(offsets, signatures) == [opens |-> TRUE, parses |-> TRUE, offsets |-> offsets, signatures |-> signatures]

Whole == File(Offsets("", 0), Signed("", None))
NoFile == [Whole EXCEPT !.opens = FALSE]
BadSyntax == [Whole EXCEPT !.parses = FALSE]
Odd(name, value) == File(Offsets("", 0), Signed(name, value))
OddOffset(name, value) == File(Offsets(name, value), Signed("", None))

Host(file, scene) ==
  [ process |-> [platform |-> "linux", objects |-> << Stub, Other, Real >>], file |-> file, missing |-> {},
    entitySystem |-> TRUE, eventManager |-> TRUE, scene |-> scene,
    plugin |-> IF scene = "" THEN {"ok", "degraded", "failed"} ELSE {"ok"},
    fields |-> IF scene = "players" THEN {"m_hPlayerPawn", "m_iHealth"} \cup MovementFields
               ELSE {"m_vecEndPos"},
    languages |-> ("en" :> {"hello", "bye"} @@ "de" :> {"hello", "bye"} @@ "fr" :> {"hello"} @@ "xx" :> Broken) ]

OnWindows(h) == [h EXCEPT !.process.platform = "windows"]

Odds == { Sig(<< 7, 7 >>, 0), Sig(<< 7, 5 >>, 0), Sig(<< 7, 0 >>, 0), Sig(<< >>, 0), Sig(<< 99, Wild >>, 0), Sig(<< Wild >>, 0),
          None, Broken, Sig(<< 21, Garbage >>, 0) }

MCHosts ==
  {Host(Whole, scene) : scene \in {"effects", "players", "console", "languages"}}
  \cup {Host(Odd(name, value), "effects") :
          name \in {"CreateEntityByName", "CEntitySystem_AddEntityIOEvent", "UTIL_Remove"}, value \in Odds}
  \cup {OnWindows(Host(Odd("CreateEntityByName", value), "")) : value \in Odds}
  \cup {Host(file, "effects") : file \in {NoFile, BadSyntax, OddOffset("CommitSuicide", Broken),
                                          OddOffset("GameEntitySystem", None)}}
  \cup {[Host(OddOffset("Respawn", None), "players") EXCEPT !.entitySystem = FALSE, !.fields = {"m_iHealth"}]}
  \cup {Host(Odd("LegacyGameEventListener", None), ""), Host(Odd("GameEventManager", Broken), ""),
        [Host(Whole, "") EXCEPT !.eventManager = FALSE],
        [Host(Whole, "") EXCEPT !.process.objects = << Stub, Other, ServerLibrary(131) >>]}
  \cup {[Host(Whole, "") EXCEPT !.missing = {name}] : name \in {"ServerGameDLL", "GameResourceService"}}

Slots == {0, 1}
Lines2 == {<< "a" >>, << "b", NewLine >>, << >>}
ASSUME SingleLinesAssumption == SingleLines

=============================================================================
