---------------------------- MODULE EffectsProofs ----------------------------
(***************************************************************************)
(* Safety of effects under full re-entrancy, for any slots, ids,           *)
(* descriptors, verbs of plugin code, numbers of effects and clock bound.  *)
(***************************************************************************)
EXTENDS Effects, SequenceTheorems, WellFoundedInduction, TLAPS

-----------------------------------------------------------------------------
(* The call stack.                                                         *)

FrameRecs == [fn : {"Frame"}]
CallRecs == [fn : {"OnTick", "OnStop"}, inst : Instance]
ApplyRecs == [fn : {"Apply"}, key : Key, spec : Specs, inst : Instance]
StoreRecs == [fn : {"Store"}, key : Key, inst : Instance]
AssignRecs == [fn : {"Assign"}, key : Key, inst : Instance, old : Instance]
SweepRecs ==
  [fn : {"Sweep"}, which : {"all", "perLife", "round"}, slots : SUBSET Slot,
   slot : Slot \cup {None}, ids : SUBSET EffectId,
   victims : SUBSET Instance, others : SUBSET Instance]

Records == FrameRecs \cup CallRecs \cup ApplyRecs \cup StoreRecs \cup AssignRecs \cup SweepRecs

\* A record r may stand anywhere above a record q: no two Apply build the same
\* effect, and what is being stored inside a sweep began after the sweep did.
Over(r, q) ==
  /\ r.fn # "Frame"
  /\ r.fn = "Apply" /\ q.fn = "Apply" => r.inst # q.inst
  /\ r.fn \in {"Store", "Assign"} /\ q.fn = "Sweep" => r.inst \notin q.others

Nested(s) ==
  /\ s \in Seq(Records)
  /\ \A n, m \in 1 .. Len(s) : n < m => Over(s[n], s[m])

Stores(r, i) == r.fn \in {"Store", "Assign"} /\ r.inst = i

-----------------------------------------------------------------------------
(* The invariant.                                                          *)

States == [key : Key, spec : Specs, stopped : BOOLEAN, tickTimer : Nat, stopTimer : Nat]
TimerRecs == [next : Int, interval : Int, inst : Instance, kind : {"tick", "stop"}]

\* Counters, and the effects constructed so far.
CoreInv ==
  /\ clock \in Nat /\ now \in Nat /\ interval \in Int /\ dangling \in BOOLEAN
  /\ nextTimer \in Nat \ {0} /\ nextInst \in 1 .. MaxEffects + 1
  /\ Constructed \subseteq 1 .. nextInst - 1
  /\ \A i \in Constructed : inst[i] \in States
  /\ applied \in [Key -> Instance \cup {None}]

\* A timer in the scheduler is the one its effect remembers, and the effect is
\* live.
TimerOwned(t) ==
  /\ timers[t] \in TimerRecs
  /\ timers[t].inst \in Constructed
  /\ Live(timers[t].inst)
  /\ t = IF timers[t].kind = "tick" THEN inst[timers[t].inst].tickTimer
                                    ELSE inst[timers[t].inst].stopTimer

TimersInv ==
  /\ DOMAIN timers \subseteq 1 .. nextTimer - 1
  /\ \A t \in DOMAIN timers : TimerOwned(t)

\* An entry of the map is under the key of its effect.
EntryInv ==
  /\ effects \in [Key -> Constructed \cup {None}]
  /\ \A k \in Key : effects[k] # None => inst[effects[k]].key = k

\* No OnStop ran for an effect that does not exist yet.
StopsInv ==
  /\ stops \in [Instance -> Nat]
  /\ StopsExactlyOnce
  /\ \A i \in Instance \ Constructed : stops[i] = 0

\* What a sweep under way still has to do, and what it must not do: a victim
\* that is live is still the entry of its key, to which the sweep has still to
\* come; another effect is not the entry of a key that the sweep will cancel.
SweepMeant(r) ==
  /\ r.victims \subseteq Constructed /\ r.others \subseteq Constructed
  /\ r.ids # {} => r.slot \in Slot
  /\ \A i \in r.victims :
       Matches(r.which, i) /\ (Live(i) => Pending(r, i) /\ effects[inst[i].key] = i)
  /\ \A i \in r.others :
       /\ inst[i].key[1] \in r.slots => ~Matches(r.which, i)
       /\ Live(i) /\ inst[i].key[1] = r.slot /\ inst[i].key[2] \in r.ids =>
            effects[inst[i].key] # i

\* What each activation record says about the effects.
Meant(r) ==
  /\ r.fn = "Apply" => r.inst < nextInst /\ r.inst \notin Constructed
  /\ r.fn \in {"Store", "Assign"} => r.inst \in Constructed /\ inst[r.inst].key = r.key
  /\ r.fn = "Assign" => r.old \in Constructed /\ ~Live(r.old)
  /\ r.fn = "Sweep" => SweepMeant(r)

StackInv == Nested(stack) /\ \A r \in Range(stack) : Meant(r)

\* LiveEffectsAreOwned, with the records of the stack as a set.
OwnedInv ==
  ~dangling =>
    \A i \in Constructed :
      Live(i) => effects[inst[i].key] = i \/ \E r \in Range(stack) : Stores(r, i)

IInv == CoreInv /\ TimersInv /\ EntryInv /\ StopsInv /\ OwnedInv /\ StackInv

-----------------------------------------------------------------------------
(* Lemmas about the stack.                                                 *)

\* A record pushed over a nested stack that it may stand above.
LEMMA PushNests ==
  ASSUME NEW s, Nested(s), NEW r \in Records, \A q \in Range(s) : Over(r, q)
  PROVE  Nested(Push(r, s)) /\ Range(Push(r, s)) = Range(s) \cup {r}
<1>. DEFINE t == Push(r, s)
<1>1. /\ s \in Seq(Records) /\ Len(s) \in Nat /\ DOMAIN s = 1 .. Len(s)
      /\ t \in Seq(Records) /\ Len(t) = Len(s) + 1 /\ DOMAIN t = 1 .. Len(s) + 1
  BY DEF Nested, Push
<1>2. t[1] = r /\ \A n \in 1 .. Len(s) : t[n + 1] = s[n]
  BY <1>1 DEF Push
<1>3. \A n \in 1 .. Len(s) + 1 : n = 1 \/ (n - 1 \in 1 .. Len(s) /\ n = (n - 1) + 1)
  BY <1>1
<1>. HIDE DEF t
<1>4. \A n \in 1 .. Len(s) + 1 : n = 1 \/ (n - 1 \in 1 .. Len(s) /\ t[n] = s[n - 1])
  BY <1>2, <1>3
<1>5. Range(t) = Range(s) \cup {r}
  <2>1. \A x \in Range(t) : x \in Range(s) \cup {r}
    BY <1>1, <1>2, <1>4 DEF Range
  <2>2. r \in Range(t)
    BY <1>1, <1>2 DEF Range
  <2>3. \A x \in Range(s) : x \in Range(t)
    <3>. SUFFICES ASSUME NEW n \in 1 .. Len(s)
                  PROVE  s[n] \in Range(t)
      BY <1>1 DEF Range
    <3>1. n + 1 \in 1 .. Len(s) + 1 /\ t[n + 1] = s[n]
      BY <1>1, <1>2
    <3>. QED BY <1>1, <3>1 DEF Range
  <2>. QED BY <2>1, <2>2, <2>3
<1>6. ASSUME NEW n \in 1 .. Len(t), NEW m \in 1 .. Len(t), n < m
      PROVE  Over(t[n], t[m])
  <2>1. n \in 1 .. Len(s) + 1 /\ m \in 1 .. Len(s) + 1 /\ m # 1
    BY <1>1, <1>6
  <2>2. m - 1 \in 1 .. Len(s) /\ t[m] = s[m - 1]
    BY <1>4, <2>1
  <2>3. CASE n = 1
    <3>1. s[m - 1] \in Range(s)
      BY <1>1, <2>2 DEF Range
    <3>. QED BY <1>2, <2>2, <2>3, <3>1
  <2>4. CASE n # 1
    <3>1. n - 1 \in 1 .. Len(s) /\ t[n] = s[n - 1]
      BY <1>4, <2>1, <2>4
    <3>2. n - 1 < m - 1
      BY <1>6, <2>1
    <3>. QED BY <2>2, <3>1, <3>2 DEF Nested
  <2>. QED BY <2>3, <2>4
<1>7. Nested(t)
  BY <1>1, <1>6 DEF Nested
<1>. QED BY <1>5, <1>7 DEF t

\* What is left when the innermost record is gone.
LEMMA PopNests ==
  ASSUME NEW s, Nested(s), s # <<>>
  PROVE  /\ Nested(Tail(s)) /\ Head(s) \in Records
         /\ Range(s) = Range(Tail(s)) \cup {Head(s)}
         /\ \A q \in Range(Tail(s)) : Over(Head(s), q)
<1>. DEFINE t == Tail(s)
<1>1. /\ s \in Seq(Records) /\ Len(s) \in Nat /\ Len(s) # 0 /\ DOMAIN s = 1 .. Len(s)
      /\ t \in Seq(Records) /\ Len(t) = Len(s) - 1 /\ DOMAIN t = 1 .. Len(s) - 1
  BY DEF Nested
<1>2. Head(s) = s[1] /\ \A n \in 1 .. Len(s) - 1 : t[n] = s[n + 1]
  BY <1>1
<1>. HIDE DEF t
<1>3. \A n \in 1 .. Len(s) - 1 : n + 1 \in 1 .. Len(s) /\ 1 \in 1 .. Len(s) /\ 1 < n + 1
  BY <1>1
<1>4. 1 \in 1 .. Len(s) /\ Head(s) \in Records
  BY <1>1, <1>2
<1>5. Range(s) = Range(t) \cup {Head(s)}
  <2>1. \A n \in 1 .. Len(s) : n = 1 \/ (n - 1 \in 1 .. Len(s) - 1 /\ (n - 1) + 1 = n)
    BY <1>1
  <2>2. \A n \in 1 .. Len(s) : n = 1 \/ (n - 1 \in 1 .. Len(s) - 1 /\ t[n - 1] = s[n])
    BY <1>2, <2>1
  <2>3. \A x \in Range(s) : x \in Range(t) \cup {Head(s)}
    BY <1>1, <1>2, <2>2 DEF Range
  <2>4. \A x \in Range(t) : x \in Range(s)
    BY <1>1, <1>2, <1>3 DEF Range
  <2>5. Head(s) \in Range(s)
    BY <1>1, <1>2, <1>4 DEF Range
  <2>. QED BY <2>3, <2>4, <2>5
<1>6. \A q \in Range(t) : Over(Head(s), q)
  BY <1>1, <1>2, <1>3 DEF Range, Nested
<1>7. Nested(t)
  <2>1. \A n, m \in 1 .. Len(t) : n < m =>
          n + 1 \in 1 .. Len(s) /\ m + 1 \in 1 .. Len(s) /\ n + 1 < m + 1
    BY <1>1
  <2>2. \A n, m \in 1 .. Len(t) : n < m => Over(s[n + 1], s[m + 1])
    BY <2>1 DEF Nested
  <2>. QED BY <1>1, <1>2, <2>2 DEF Nested
<1>. QED BY <1>4, <1>5, <1>6, <1>7 DEF t

\* The empty stack.
LEMMA EmptyNests == Nested(<<>>) /\ Range(<<>>) = {}
BY DEF Nested, Range

\* The owner of an effect on the stack, by place and by record.
LEMMA BeingStoredByRange ==
  ASSUME Nested(stack), NEW i
  PROVE  BeingStored(i) <=> \E r \in Range(stack) : Stores(r, i)
<1>1. DOMAIN stack = 1 .. Len(stack)
  BY DEF Nested
<1>. QED BY <1>1 DEF BeingStored, Stores, Range

-----------------------------------------------------------------------------
(* What a step leaves of the effects.                                      *)

\* A larger bound, a larger interval.
LEMMA Widens ==
  ASSUME NEW a \in Int, NEW b \in Int, a <= b
  PROVE  1 .. a - 1 \subseteq 1 .. b - 1
OBVIOUS

\* Effects are numbers in the bound, and None is none of them.
LEMMA InstancesInRange ==
  ASSUME CoreInv
  PROVE  Constructed \subseteq Instance /\ None \notin Constructed /\ None \notin Instance
<1>1. Constructed \subseteq 1 .. nextInst - 1 /\ nextInst \in 1 .. MaxEffects + 1 /\ MaxEffects \in Nat
  BY BoundsAssumption DEF CoreInv
<1>2. 1 .. nextInst - 1 \subseteq Instance /\ \A i \in Instance : i \in Nat
  BY <1>1 DEF Instance
<1>. QED BY <1>1, <1>2, NoneAssumption

\* The effect i is the one it was, but may have ended.
Kept(i) ==
  /\ i \in Constructed'
  /\ inst'[i].key = inst[i].key /\ inst'[i].spec = inst[i].spec
  /\ Live(i)' => Live(i)

\* A record keeps its meaning in a step that keeps the effects, takes no entry
\* from a live effect, and gives none to the others of a sweep.
LEMMA MeantKept ==
  ASSUME CoreInv, EntryInv, NEW r \in Records, Meant(r), nextInst' \in Nat, nextInst <= nextInst',
         \A i \in Constructed : Kept(i),
         r.fn = "Apply" => r.inst \notin Constructed',
         \A i \in Constructed : Live(i)' /\ effects[inst[i].key] = i => effects'[inst[i].key] = i,
         r.fn = "Sweep" =>
           \A i \in r.others : Live(i)' /\ effects'[inst[i].key] = i => effects[inst[i].key] = i
  PROVE  Meant(r)'
<1>1. r.fn = "Apply" => r.inst < nextInst' /\ r.inst \notin Constructed'
  <2>. SUFFICES ASSUME r.fn = "Apply"
                PROVE  r.inst < nextInst'
    OBVIOUS
  <2>1. r \in ApplyRecs
    BY DEF Records, FrameRecs, CallRecs, ApplyRecs, StoreRecs, AssignRecs, SweepRecs
  <2>2. r.inst \in Int /\ nextInst \in Int /\ r.inst < nextInst
    BY <2>1 DEF ApplyRecs, Instance, Meant, CoreInv
  <2>. QED BY <2>2
<1>2. r.fn \in {"Store", "Assign"} => r.inst \in Constructed' /\ inst'[r.inst].key = r.key
  BY DEF Meant, Kept
<1>3. r.fn = "Assign" => r.old \in Constructed' /\ ~Live(r.old)'
  BY DEF Meant, Kept
<1>4. r.fn = "Sweep" => SweepMeant(r)'
  <2>. SUFFICES ASSUME r.fn = "Sweep"
                PROVE  SweepMeant(r)'
    OBVIOUS
  <2>1. SweepMeant(r)
    BY DEF Meant
  <2>2. r.victims \subseteq Constructed' /\ r.others \subseteq Constructed'
    BY <2>1 DEF SweepMeant, Kept
  <2>3. ASSUME NEW i \in Constructed
        PROVE  (Matches(r.which, i)' <=> Matches(r.which, i)) /\ (Pending(r, i)' <=> Pending(r, i))
    BY <2>3 DEF Kept, Matches, Pending
  <2>4. ASSUME NEW i \in r.victims
        PROVE  /\ Matches(r.which, i)'
               /\ Live(i)' => Pending(r, i)' /\ effects'[inst'[i].key] = i
    BY <2>1, <2>3, <2>4 DEF SweepMeant, Kept
  <2>5. ASSUME NEW i \in r.others
        PROVE  /\ inst'[i].key[1] \in r.slots => ~Matches(r.which, i)'
               /\ Live(i)' /\ inst'[i].key[1] = r.slot /\ inst'[i].key[2] \in r.ids =>
                    effects'[inst'[i].key] # i
    BY <2>1, <2>3, <2>5 DEF SweepMeant, Kept
  <2>6. r.ids # {} => r.slot \in Slot
    BY <2>1 DEF SweepMeant
  <2>. QED BY <2>2, <2>4, <2>5, <2>6 DEF SweepMeant
<1>. QED BY <1>1, <1>2, <1>3, <1>4 DEF Meant

\* A stack whose records have their meaning, with or without an OnStop on top.
LEMMA StackAfter ==
  ASSUME NEW below, Nested(below), \A r \in Range(below) : Meant(r)',
         Constructed \subseteq Instance,
         \/ stack' = below
         \/ \E i \in Constructed : stack' = Push(InOnStop(i), below)
  PROVE  StackInv' /\ Range(below) \subseteq Range(stack')
<1>1. CASE stack' = below
  BY <1>1 DEF StackInv
<1>2. ASSUME NEW i \in Constructed, stack' = Push(InOnStop(i), below)
      PROVE  StackInv' /\ Range(below) \subseteq Range(stack')
  <2>1. PICK r : r = InOnStop(i)
    OBVIOUS
  <2>2. r \in Records /\ r.fn = "OnStop"
    BY <2>1 DEF InOnStop, Records, CallRecs
  <2>3. \A q \in Range(below) : Over(r, q)
    BY <2>2 DEF Over
  <2>4. Nested(stack') /\ Range(stack') = Range(below) \cup {r}
    BY <1>2, <2>1, <2>2, <2>3, PushNests
  <2>5. Meant(r)'
    BY <2>2 DEF Meant
  <2>. QED BY <2>4, <2>5 DEF StackInv
<1>. QED BY <1>1, <1>2

\* The step ends the effects of S and leaves the others as they are.
Ends(S) ==
  /\ Constructed' = Constructed
  /\ \A i \in Constructed :
       inst'[i] \in States /\ inst'[i].key = inst[i].key /\ inst'[i].spec = inst[i].spec
  /\ \A i \in Constructed \ S : inst'[i] = inst[i]
  /\ \A i \in S : ~Live(i)'
  /\ stops' \in [Instance -> Nat]
  /\ \A i \in Instance \ S : stops'[i] = stops[i]
  /\ \A i \in S : stops'[i] = IF inst'[i].spec.undo THEN 1 ELSE 0

\* Their timers go with them.
TimersEnd(S) ==
  /\ DOMAIN timers' \subseteq DOMAIN timers
  /\ \A t \in DOMAIN timers' : timers'[t] = timers[t] /\ timers[t].inst \notin S

Counters ==
  /\ clock \in Nat /\ now \in Nat /\ interval \in Int /\ dangling \in BOOLEAN
  /\ applied \in [Key -> Instance \cup {None}]

\* The timers that are left are still owned.
LEMMA TimersAfter ==
  ASSUME CoreInv, TimersInv, NEW S, Ends(S), TimersEnd(S), nextTimer' = nextTimer
  PROVE  TimersInv'
<1>1. DOMAIN timers' \subseteq 1 .. nextTimer' - 1
  BY DEF TimersInv, TimersEnd
<1>2. ASSUME NEW t \in DOMAIN timers'
      PROVE  TimerOwned(t)'
  <2>1. t \in DOMAIN timers /\ timers'[t] = timers[t] /\ TimerOwned(t)
    BY DEF TimersInv, TimersEnd
  <2>2. timers[t].inst \in Constructed \ S
    BY <2>1 DEF TimersEnd, TimerOwned
  <2>3. inst'[timers[t].inst] = inst[timers[t].inst] /\ Constructed' = Constructed
    BY <2>2 DEF Ends
  <2>. QED BY <2>1, <2>2, <2>3 DEF TimerOwned, Live
<1>. QED BY <1>1, <1>2 DEF TimersInv

\* A step that ends some effects, and may drop their entries, over any stack
\* that keeps what is being stored.
LEMMA AfterEnding ==
  ASSUME IInv, NEW S \in SUBSET Constructed, Ends(S), TimersInv', Counters',
         nextTimer' \in Nat \ {0}, nextInst' \in 1 .. MaxEffects + 1, nextInst <= nextInst',
         ~dangling' => ~dangling,
         effects' \in [Key -> Constructed \cup {None}],
         \A k \in Key : effects'[k] = effects[k] \/ (effects'[k] = None /\ effects[k] \in S),
         NEW below, Nested(below),
         ~dangling' =>
           \A r \in Range(stack) : \A i : Stores(r, i) => \E q \in Range(below) : Stores(q, i),
         \A r \in Range(below) : r \in Range(stack) \/ Meant(r)',
         \/ stack' = below
         \/ \E i \in Constructed : stack' = Push(InOnStop(i), below)
  PROVE  IInv'
<1>. USE DEF IInv
<1>1. Constructed' = Constructed /\ \A i \in Constructed : Kept(i)
  BY DEF Ends, Kept, Live
<1>2. Constructed \subseteq Instance /\ None \notin Constructed
  BY InstancesInRange
<1>3. \A i \in Constructed : inst[i].key \in Key
  BY DEF CoreInv, States
<1>4. \A i \in Constructed :
        Live(i)' => (effects[inst[i].key] = i <=> effects'[inst[i].key] = i)
  BY <1>2, <1>3 DEF Ends
<1>5. CoreInv'
  <2>1. nextInst \in Int /\ nextInst' \in Int /\ nextInst <= nextInst'
    BY DEF CoreInv
  <2>2. Constructed' \subseteq 1 .. nextInst' - 1
    <3>1. Constructed \subseteq 1 .. nextInst - 1
      BY DEF CoreInv
    <3>2. 1 .. nextInst - 1 \subseteq 1 .. nextInst' - 1
      BY <2>1, Widens
    <3>. QED BY <1>1, <3>1, <3>2
  <2>3. \A i \in Constructed' : inst'[i] \in States
    BY <1>1 DEF Ends
  <2>. QED BY <2>2, <2>3 DEF CoreInv, Counters
<1>6. EntryInv'
  <2>1. \A k \in Key : effects'[k] # None => effects'[k] = effects[k] /\ effects[k] \in Constructed
    BY DEF EntryInv
  <2>. QED BY <1>1, <2>1 DEF EntryInv, Kept
<1>7. StopsInv'
  <2>1. ASSUME NEW i \in Constructed
        PROVE  stops'[i] = IF inst'[i].stopped /\ inst'[i].spec.undo THEN 1 ELSE 0
    <3>1. CASE i \in S
      BY <3>1 DEF Ends, Live
    <3>2. CASE i \notin S
      BY <1>2, <3>2 DEF Ends, StopsInv, StopsExactlyOnce
    <3>. QED BY <3>1, <3>2
  <2>2. \A i \in Instance \ Constructed : stops'[i] = 0
    BY DEF Ends, StopsInv
  <2>. QED BY <1>1, <2>1, <2>2 DEF StopsInv, StopsExactlyOnce, Ends
<1>8. \A r \in Range(below) : Meant(r)'
  <2>. SUFFICES ASSUME NEW r \in Range(below), r \in Range(stack)
                PROVE  Meant(r)'
    OBVIOUS
  <2>1. r \in Records
    BY DEF StackInv, Nested, Range
  <2>2. Meant(r)
    BY DEF StackInv
  <2>3. r.fn = "Apply" => r.inst \notin Constructed'
    BY <1>1, <2>2 DEF Meant
  <2>4. r.fn = "Sweep" => r.others \subseteq Constructed
    BY <2>2 DEF Meant, SweepMeant
  <2>5. nextInst' \in Nat
    BY DEF CoreInv
  <2>. QED BY <1>1, <1>4, <2>1, <2>2, <2>3, <2>4, <2>5, MeantKept
<1>9. StackInv' /\ Range(below) \subseteq Range(stack')
  BY <1>2, <1>8, StackAfter
<1>10. OwnedInv'
  <2>. SUFFICES ASSUME ~dangling', NEW i \in Constructed, Live(i)'
                PROVE  effects'[inst'[i].key] = i \/ \E r \in Range(stack') : Stores(r, i)
    BY <1>1 DEF OwnedInv
  <2>1. inst'[i].key = inst[i].key /\ Live(i)
    BY <1>1 DEF Kept
  <2>2. effects[inst[i].key] = i \/ \E r \in Range(stack) : Stores(r, i)
    BY <2>1 DEF OwnedInv
  <2>. QED BY <1>4, <1>9, <2>1, <2>2
<1>. QED BY <1>5, <1>6, <1>7, <1>9, <1>10

-----------------------------------------------------------------------------
(* Stop and Cancel.                                                        *)

\* A step that touches no effect ends none.
LEMMA NothingEnds ==
  ASSUME CoreInv, StopsInv, UNCHANGED <<inst, stops>>
  PROVE  Ends({})
BY DEF CoreInv, StopsInv, Ends, Constructed

\* Nor does it disturb the timers.
LEMMA TimersStand ==
  ASSUME CoreInv, TimersInv, UNCHANGED <<inst, timers, nextTimer>>
  PROVE  TimersInv'
BY DEF TimersInv, TimerOwned, Live, Constructed

\* Stop ends its effect, once, and the timers of it are gone.
LEMMA StopEnds ==
  ASSUME CoreInv, TimersInv, StopsInv, NEW i \in Constructed, NEW below,
         NEW marks \in [Key -> Instance \cup {None}], Stop(i, below, marks)
  PROVE  /\ Ends({i}) /\ TimersEnd({i})
         /\ applied' \in [Key -> Instance \cup {None}]
         /\ stack' = below \/ \E j \in Constructed : stack' = Push(InOnStop(j), below)
<1>1. inst[i] \in States /\ i \in Instance /\ inst[i].key \in Key
  BY InstancesInRange DEF CoreInv, States
<1>2. stops[i] = IF inst[i].stopped /\ inst[i].spec.undo THEN 1 ELSE 0
  BY DEF StopsInv, StopsExactlyOnce
<1>3. CASE inst[i].stopped
  <2>1. UNCHANGED <<inst, timers, stops>> /\ stack' = below /\ applied' = marks
    BY <1>3 DEF Stop
  <2>2. Ends({i})
    BY <1>1, <1>2, <1>3, <2>1 DEF Ends, CoreInv, StopsInv, Live, Constructed
  <2>3. TimersEnd({i})
    BY <1>3, <2>1 DEF TimersEnd, TimersInv, TimerOwned, Live
  <2>. QED BY <2>1, <2>2, <2>3
<1>4. CASE ~inst[i].stopped
  <2>1. /\ inst' = [inst EXCEPT ![i].stopped = TRUE,
                                ![i].tickTimer = NoHandle, ![i].stopTimer = NoHandle]
        /\ timers' = Remove(timers, {inst[i].tickTimer, inst[i].stopTimer})
    BY <1>4 DEF Stop
  <2>2. /\ DOMAIN inst' = DOMAIN inst
        /\ \A j \in DOMAIN inst \ {i} : inst'[j] = inst[j]
        /\ inst'[i] \in States /\ inst'[i].key = inst[i].key /\ inst'[i].spec = inst[i].spec
        /\ inst'[i].stopped
    BY <1>1, <2>1 DEF States, NoHandle, Constructed
  <2>3. stops' \in [Instance -> Nat] /\ \A j \in Instance \ {i} : stops'[j] = stops[j]
    BY <1>1, <1>4 DEF Stop, StopsInv
  <2>4. stops'[i] = IF inst'[i].spec.undo THEN 1 ELSE 0
    BY <1>1, <1>2, <1>4, <2>2 DEF Stop, StopsInv
  <2>5. Ends({i})
    BY <2>2, <2>3, <2>4 DEF Ends, CoreInv, Live, Constructed
  <2>6. TimersEnd({i})
    <3>1. /\ DOMAIN timers' = DOMAIN timers \ {inst[i].tickTimer, inst[i].stopTimer}
          /\ \A t \in DOMAIN timers' : timers'[t] = timers[t]
      BY <2>1 DEF Remove, Restrict
    <3>2. \A t \in DOMAIN timers' : timers[t].inst # i
      BY <3>1 DEF TimersInv, TimerOwned
    <3>. QED BY <3>1, <3>2 DEF TimersEnd
  <2>7. applied' \in [Key -> Instance \cup {None}]
    BY <1>1, <1>4 DEF Stop
  <2>8. stack' = below \/ stack' = Push(InOnStop(i), below)
    BY <1>4 DEF Stop
  <2>. QED BY <2>5, <2>6, <2>7, <2>8
<1>. QED BY <1>3, <1>4

\* Cancel takes an entry out of the map and ends its effect.
LEMMA CancelEnds ==
  ASSUME CoreInv, TimersInv, StopsInv, EntryInv, NEW k \in Key, NEW below,
         NEW marks \in [Key -> Instance \cup {None}], Cancel(k, below, marks)
  PROVE  \E S \in SUBSET Constructed :
           /\ Ends(S) /\ TimersEnd(S)
           /\ effects' \in [Key -> Constructed \cup {None}]
           /\ effects'[k] = None
           /\ \A l \in Key : effects'[l] = effects[l] \/ (effects'[l] = None /\ effects[l] \in S)
           /\ applied' \in [Key -> Instance \cup {None}]
           /\ stack' = below \/ \E j \in Constructed : stack' = Push(InOnStop(j), below)
           /\ \A i \in S : i = effects[k]
<1>1. CASE effects[k] = None
  <2>1. UNCHANGED <<effects, inst, timers, stops>> /\ stack' = below /\ applied' = marks
    BY <1>1 DEF Cancel
  <2>2. Ends({}) /\ TimersEnd({})
    BY <2>1, NothingEnds DEF TimersEnd
  <2>. QED BY <1>1, <2>1, <2>2 DEF EntryInv
<1>2. CASE effects[k] # None
  <2>1. PICK i \in Constructed : i = effects[k]
    BY <1>2 DEF EntryInv
  <2>2. effects' = [effects EXCEPT ![k] = None] /\ Stop(i, below, marks)
    BY <1>2, <2>1 DEF Cancel
  <2>3. /\ Ends({i}) /\ TimersEnd({i}) /\ applied' \in [Key -> Instance \cup {None}]
        /\ stack' = below \/ \E j \in Constructed : stack' = Push(InOnStop(j), below)
    BY <2>2, StopEnds
  <2>4. effects' \in [Key -> Constructed \cup {None}] /\ effects'[k] = None
    BY <2>2 DEF EntryInv
  <2>5. \A l \in Key : effects'[l] = effects[l] \/ (effects'[l] = None /\ effects[l] \in {i})
    BY <2>1, <2>2 DEF EntryInv
  <2>. QED BY <2>1, <2>3, <2>4, <2>5
<1>. QED BY <1>1, <1>2

-----------------------------------------------------------------------------
(* Calls of the plugin.                                                    *)

\* A record has the shape of its function.
LEMMA RecordKinds ==
  ASSUME NEW r \in Records
  PROVE  /\ r.fn = "Apply" => r \in ApplyRecs
         /\ r.fn = "Store" => r \in StoreRecs
         /\ r.fn = "Assign" => r \in AssignRecs
         /\ r.fn = "Sweep" => r \in SweepRecs
BY DEF Records, FrameRecs, CallRecs, ApplyRecs, StoreRecs, AssignRecs, SweepRecs

\* The record on top and the stack under it.
LEMMA TopStands ==
  ASSUME StackInv, stack # <<>>
  PROVE  /\ Top \in Records /\ Meant(Top)
         /\ Nested(Tail(stack)) /\ Range(stack) = Range(Tail(stack)) \cup {Top}
         /\ \A q \in Range(Tail(stack)) : Over(Top, q) /\ Meant(q)
BY PopNests DEF StackInv, Top

\* The records of the stack, and those of a stack under them.
LEMMA RangeIsRecords ==
  ASSUME NEW s, Nested(s)
  PROVE  Range(s) \subseteq Records
BY DEF Nested, Range

\* A step that leaves the effects and the timers alone.
LEMMA QuietStep ==
  ASSUME IInv, UNCHANGED <<inst, stops, effects, nextInst, timers, nextTimer>>, Counters',
         ~dangling' => ~dangling,
         NEW below, Nested(below),
         ~dangling' =>
           \A r \in Range(stack) : \A i : Stores(r, i) => \E q \in Range(below) : Stores(q, i),
         \A r \in Range(below) : r \in Range(stack) \/ Meant(r)',
         stack' = below
  PROVE  IInv'
<1>1. Ends({}) /\ TimersInv'
  BY NothingEnds, TimersStand DEF IInv
<1>2. /\ nextTimer' \in Nat \ {0} /\ nextInst' \in 1 .. MaxEffects + 1 /\ nextInst <= nextInst'
      /\ effects' \in [Key -> Constructed \cup {None}]
  BY DEF IInv, CoreInv, EntryInv
<1>3. PICK S \in SUBSET Constructed : S = {}
  OBVIOUS
<1>4. Ends(S)
  BY <1>1, <1>3
<1>. QED BY <1>1, <1>2, <1>4, AfterEnding

\* Apply: the old effect ends, the record of the new one goes on the stack.
LEMMA ApplyBodyIInv ==
  ASSUME IInv, NEW k \in Key, NEW spec \in Specs, ApplyBody(k, spec)
  PROVE  IInv'
<1>. USE DEF IInv
<1>1. PICK r : r = InApply(k, spec, nextInst)
  OBVIOUS
<1>2. nextInst \in Instance /\ nextInst' = nextInst + 1 /\ nextInst' \in 1 .. MaxEffects + 1
  BY BoundsAssumption DEF ApplyBody, CoreInv, Instance
<1>3. /\ r \in Records /\ r.fn = "Apply" /\ r.inst = nextInst
  BY <1>1, <1>2 DEF InApply, Records, ApplyRecs
<1>4. ASSUME NEW q \in Range(stack)
      PROVE  Over(r, q)
  <2>1. q \in Records /\ Meant(q)
    BY RangeIsRecords DEF StackInv
  <2>2. q.fn = "Apply" => q.inst \in Instance /\ q.inst < nextInst
    BY <2>1, RecordKinds DEF ApplyRecs, Meant
  <2>3. q.fn = "Apply" => q.inst # nextInst
    BY <1>2, <2>2 DEF Instance
  <2>. QED BY <1>3, <2>3 DEF Over
<1>5. PICK below : below = Push(r, stack)
  OBVIOUS
<1>6. Nested(below) /\ Range(below) = Range(stack) \cup {r}
  BY <1>3, <1>4, <1>5, PushNests DEF StackInv
<1>7. PICK marks \in [Key -> Instance \cup {None}] : marks = [applied EXCEPT ![k] = nextInst]
  BY <1>2 DEF CoreInv
<1>8. Cancel(k, below, marks)
  BY <1>1, <1>5, <1>7 DEF ApplyBody
<1>9. PICK S \in SUBSET Constructed :
        /\ Ends(S) /\ TimersEnd(S)
        /\ effects' \in [Key -> Constructed \cup {None}]
        /\ \A l \in Key : effects'[l] = effects[l] \/ (effects'[l] = None /\ effects[l] \in S)
        /\ applied' \in [Key -> Instance \cup {None}]
        /\ stack' = below \/ \E j \in Constructed : stack' = Push(InOnStop(j), below)
  BY <1>8, CancelEnds
<1>10. UNCHANGED <<clock, nextTimer, now, interval, dangling>>
  BY DEF ApplyBody
<1>11. TimersInv' /\ Counters' /\ nextTimer' \in Nat \ {0}
  BY <1>9, <1>10, TimersAfter DEF Counters, CoreInv
<1>12. nextInst <= nextInst' /\ nextInst < nextInst'
  BY <1>2 DEF Instance
<1>13. Meant(r)'
  <2>1. nextInst \notin Constructed
    BY DEF CoreInv
  <2>2. r.inst < nextInst' /\ r.inst \notin Constructed'
    BY <1>3, <1>9, <1>12, <2>1 DEF Ends
  <2>. QED BY <1>3, <2>2 DEF Meant
<1>14. \A q \in Range(stack) : \A i : Stores(q, i) => \E p \in Range(below) : Stores(p, i)
  BY <1>6
<1>15. \A q \in Range(below) : q \in Range(stack) \/ Meant(q)'
  BY <1>6, <1>13
<1>. QED BY <1>2, <1>6, <1>9, <1>10, <1>11, <1>12, <1>14, <1>15, AfterEnding

\* A cancel between calls or from plugin code.
LEMMA CancelBodyIInv ==
  ASSUME IInv, NEW k \in Key, CancelBody(k)
  PROVE  IInv'
<1>. USE DEF IInv
<1>1. PICK below : below = stack
  OBVIOUS
<1>2. PICK marks \in [Key -> Instance \cup {None}] : marks = applied
  BY DEF CoreInv
<1>3. Cancel(k, below, marks)
  BY <1>1, <1>2 DEF CancelBody
<1>4. PICK S \in SUBSET Constructed :
        /\ Ends(S) /\ TimersEnd(S)
        /\ effects' \in [Key -> Constructed \cup {None}]
        /\ \A l \in Key : effects'[l] = effects[l] \/ (effects'[l] = None /\ effects[l] \in S)
        /\ applied' \in [Key -> Instance \cup {None}]
        /\ stack' = below \/ \E j \in Constructed : stack' = Push(InOnStop(j), below)
  BY <1>3, CancelEnds
<1>5. UNCHANGED <<clock, nextTimer, now, interval, dangling, nextInst>>
  BY DEF CancelBody
<1>6. /\ TimersInv' /\ Counters' /\ nextTimer' \in Nat \ {0}
      /\ nextInst' \in 1 .. MaxEffects + 1 /\ nextInst <= nextInst'
  BY <1>4, <1>5, TimersAfter DEF Counters, CoreInv
<1>7. Nested(below) /\ Range(below) = Range(stack)
  BY <1>1 DEF StackInv
<1>. QED BY <1>4, <1>5, <1>6, <1>7, AfterEnding

\* A sweep begins: its victims are entries it will come to, its others are not.
LEMMA SweepIInv ==
  ASSUME IInv, NEW slots \in SUBSET Slot, NEW which \in {"all", "perLife", "round"},
         Sweep(which, slots)
  PROVE  IInv'
<1>. USE DEF IInv
<1>1. PICK r : r = InSweep(which, slots, None, {}, Victims(which, slots), Others(which, slots))
  OBVIOUS
<1>2. /\ Victims(which, slots) \subseteq Constructed /\ Others(which, slots) \subseteq Constructed
      /\ Constructed \subseteq Instance
  <2>1. Victims(which, slots) \subseteq Constructed
    BY DEF Victims, IsActive, EntryInv
  <2>. QED BY <2>1, InstancesInRange DEF Others, Constructed
<1>3. /\ r \in Records /\ r.fn = "Sweep" /\ r.which = which /\ r.slots = slots
      /\ r.ids = {} /\ r.victims = Victims(which, slots) /\ r.others = Others(which, slots)
  <2>1. Victims(which, slots) \in SUBSET Instance /\ Others(which, slots) \in SUBSET Instance
    BY <1>2
  <2>2. r \in SweepRecs
    BY <1>1, <2>1 DEF InSweep, SweepRecs
  <2>. QED BY <1>1, <2>2 DEF InSweep, Records
<1>4. UNCHANGED <<inst, stops, effects, nextInst, dangling, timers, nextTimer>> /\ Counters'
  BY DEF Sweep, sched, Counters, CoreInv
<1>5. PICK below : below = Push(r, stack)
  OBVIOUS
<1>6. stack' = below
  BY <1>1, <1>5 DEF Sweep
<1>7. Nested(below) /\ Range(below) = Range(stack) \cup {r}
  <2>1. \A q \in Range(stack) : Over(r, q)
    BY <1>3 DEF Over
  <2>. QED BY <1>3, <1>5, <2>1, PushNests DEF StackInv
<1>8. SweepMeant(r)
  <2>1. ASSUME NEW i \in r.victims
        PROVE  Matches(r.which, i) /\ Pending(r, i) /\ effects[inst[i].key] = i
    <3>1. PICK k \in Key : /\ k[1] \in slots /\ k[2] \in Selected(which, k[1]) /\ IsActive(k)
                           /\ i = effects[k]
      BY <1>3 DEF Victims
    <3>2. inst[i].key = k
      BY <3>1 DEF IsActive, EntryInv
    <3>3. k = <<k[1], k[2]>>
      BY DEF Key
    <3>4. Matches(which, i)
      BY <3>1, <3>3 DEF Selected
    <3>. QED BY <1>3, <3>1, <3>2, <3>4 DEF Pending
  <2>2. \A i \in r.others : inst[i].key[1] \in r.slots => ~Matches(r.which, i)
    BY <1>3 DEF Others
  <2>. QED BY <1>2, <1>3, <2>1, <2>2 DEF SweepMeant
<1>9. Meant(r)'
  <2>1. SweepMeant(r)'
    BY <1>4, <1>8 DEF SweepMeant, Matches, Pending, Live, Constructed
  <2>. QED BY <1>3, <2>1 DEF Meant
<1>10. \A q \in Range(stack) : \A i : Stores(q, i) => \E p \in Range(below) : Stores(p, i)
  BY <1>7
<1>11. \A q \in Range(below) : q \in Range(stack) \/ Meant(q)'
  BY <1>7, <1>9
<1>. QED BY <1>4, <1>6, <1>7, <1>10, <1>11, QuietStep

-----------------------------------------------------------------------------
(* The constructor, and the entry of the map.                              *)

\* The timers of a new effect are its own, under the handles it remembers.
LEMMA ConstructTimers ==
  ASSUME CoreInv, TimersInv, NEW spec \in Specs, NEW i \in Instance, i \notin Constructed,
         Constructed' = Constructed \cup {i},
         \A j \in Constructed : inst'[j] = inst[j],
         Live(i)', inst'[i].tickTimer = TickHandle(spec), inst'[i].stopTimer = StopHandle(spec),
         NEW ticking,
         ticking = IF Ticks(spec) THEN Add(timers, TickHandle(spec), TickTimer(spec, i)) ELSE timers,
         timers' = IF Expires(spec) THEN Add(ticking, StopHandle(spec), StopTimer(spec, i))
                                    ELSE ticking,
         nextTimer' = nextTimer + (IF Ticks(spec) THEN 1 ELSE 0) + (IF Expires(spec) THEN 1 ELSE 0)
  PROVE  TimersInv' /\ nextTimer' \in Nat \ {0}
<1>1. spec \in DescriptorType /\ nextTimer \in Nat \ {0} /\ clock \in Nat
  BY SpecsAssumption DEF CoreInv
<1>2. Ticks(spec) \in BOOLEAN /\ Expires(spec) \in BOOLEAN
  BY DEF Ticks, Expires
<1>3. /\ TickTimer(spec, i) \in TimerRecs /\ TickTimer(spec, i).inst = i
      /\ TickTimer(spec, i).kind = "tick"
      /\ StopTimer(spec, i) \in TimerRecs /\ StopTimer(spec, i).inst = i
      /\ StopTimer(spec, i).kind = "stop"
  BY <1>1 DEF TickTimer, StopTimer, TimerRecs, DescriptorType, OneShot
<1>4. DOMAIN timers \subseteq 1 .. nextTimer - 1
  BY DEF TimersInv
<1>5. /\ DOMAIN ticking \subseteq DOMAIN timers \cup {nextTimer}
      /\ DOMAIN timers \subseteq DOMAIN ticking
      /\ nextTimer \in DOMAIN ticking => Ticks(spec) /\ ticking[nextTimer] = TickTimer(spec, i)
      /\ \A t \in DOMAIN timers : ticking[t] = timers[t]
  <2>1. nextTimer \notin DOMAIN timers
    BY <1>1, <1>4
  <2>2. CASE Ticks(spec)
    <3>1. ticking = Add(timers, nextTimer, TickTimer(spec, i))
      BY <2>2 DEF TickHandle
    <3>. QED BY <2>1, <2>2, <3>1 DEF Add
  <2>3. CASE ~Ticks(spec)
    BY <2>1, <2>3
  <2>. QED BY <2>2, <2>3
<1>6. CASE ~Expires(spec)
  <2>1. timers' = ticking /\ nextTimer' = nextTimer + (IF Ticks(spec) THEN 1 ELSE 0)
    BY <1>1, <1>6
  <2>2. DOMAIN timers' \subseteq 1 .. nextTimer' - 1 /\ nextTimer' \in Nat \ {0}
    BY <1>1, <1>4, <1>5, <2>1
  <2>3. ASSUME NEW t \in DOMAIN timers'
        PROVE  TimerOwned(t)'
    <3>1. CASE t \in DOMAIN timers
      <4>1. timers'[t] = timers[t] /\ TimerOwned(t)
        BY <1>5, <2>1, <3>1 DEF TimersInv
      <4>. QED BY <4>1 DEF TimerOwned, Live
    <3>2. CASE t \notin DOMAIN timers
      <4>1. t = nextTimer /\ timers'[t] = TickTimer(spec, i) /\ Ticks(spec)
        BY <1>5, <2>1, <3>2
      <4>. QED BY <1>3, <4>1 DEF TimerOwned, TickHandle
    <3>. QED BY <3>1, <3>2
  <2>. QED BY <2>2, <2>3 DEF TimersInv
<1>7. CASE Expires(spec)
  <2>. DEFINE h == StopHandle(spec)
  <2>1. /\ h = IF Ticks(spec) THEN nextTimer + 1 ELSE nextTimer
        /\ nextTimer' = h + 1
    BY <1>1, <1>7 DEF StopHandle
  <2>2. h \in Nat /\ h \notin DOMAIN ticking
    BY <1>1, <1>4, <1>5, <2>1
  <2>3. timers' = Add(ticking, h, StopTimer(spec, i))
    BY <1>7
  <2>4. /\ DOMAIN timers' = DOMAIN ticking \cup {h} /\ timers'[h] = StopTimer(spec, i)
        /\ \A t \in DOMAIN ticking : timers'[t] = ticking[t]
    BY <2>2, <2>3 DEF Add
  <2>. HIDE DEF h
  <2>5. DOMAIN timers' \subseteq 1 .. nextTimer' - 1 /\ nextTimer' \in Nat \ {0}
    BY <1>1, <1>4, <1>5, <2>1, <2>2, <2>4
  <2>6. ASSUME NEW t \in DOMAIN timers'
        PROVE  TimerOwned(t)'
    <3>1. CASE t \in DOMAIN timers
      <4>1. t \in DOMAIN ticking
        BY <1>5, <3>1
      <4>2. timers'[t] = timers[t] /\ TimerOwned(t)
        BY <1>5, <2>4, <3>1, <4>1 DEF TimersInv
      <4>. QED BY <4>2 DEF TimerOwned, Live
    <3>2. CASE t = h
      <4>1. timers'[t] = StopTimer(spec, i) /\ t = StopHandle(spec)
        BY <2>4, <3>2 DEF h
      <4>. QED BY <1>3, <4>1 DEF TimerOwned
    <3>3. CASE t \notin DOMAIN timers /\ t # h
      <4>1. t = nextTimer /\ timers'[t] = TickTimer(spec, i) /\ Ticks(spec)
        BY <1>5, <2>4, <3>3
      <4>. QED BY <1>3, <4>1 DEF TimerOwned, TickHandle
    <3>. QED BY <3>1, <3>2, <3>3
  <2>. QED BY <2>5, <2>6 DEF TimersInv
<1>. QED BY <1>2, <1>6, <1>7

\* The new effect is live, owned by its Store record, and younger than every sweep.
LEMMA ConstructIInv ==
  ASSUME IInv, Construct
  PROVE  IInv'
<1>. USE DEF IInv
<1>1. PICK r, rest : r = Top /\ rest = Tail(stack)
  OBVIOUS
<1>2. stack # <<>> /\ r.fn = "Apply"
  BY <1>1 DEF Construct, Running
<1>3. /\ r \in Records /\ Meant(r) /\ Nested(rest) /\ Range(stack) = Range(rest) \cup {r}
      /\ \A q \in Range(rest) : Over(r, q) /\ Meant(q)
  BY <1>1, <1>2, TopStands
<1>4. r.key \in Key /\ r.spec \in Specs /\ r.inst \in Instance
  BY <1>2, <1>3, RecordKinds DEF ApplyRecs
<1>5. PICK i \in Instance, spec \in Specs, k \in Key : i = r.inst /\ spec = r.spec /\ k = r.key
  BY <1>4
<1>6. i < nextInst /\ i \notin Constructed
  BY <1>2, <1>3, <1>5 DEF Meant
<1>7. PICK st : st = [key |-> k, spec |-> spec, stopped |-> FALSE,
                      tickTimer |-> TickHandle(spec), stopTimer |-> StopHandle(spec)]
  OBVIOUS
<1>8. /\ st.key = k /\ st.spec = spec /\ ~st.stopped
      /\ st.tickTimer = TickHandle(spec) /\ st.stopTimer = StopHandle(spec)
  BY <1>7
<1>9. st \in States
  <2>1. nextTimer \in Nat
    BY DEF CoreInv
  <2>2. TickHandle(spec) \in Nat /\ StopHandle(spec) \in Nat
    BY <2>1 DEF TickHandle, StopHandle, NoHandle
  <2>. QED BY <1>7, <2>2 DEF States
<1>10. inst' = Add(inst, i, st)
  BY <1>1, <1>5, <1>7 DEF Construct
<1>11. /\ Constructed' = Constructed \cup {i} /\ inst'[i] = st
       /\ \A j \in Constructed : inst'[j] = inst[j]
  BY <1>6, <1>10 DEF Add, Constructed
<1>12. UNCHANGED <<clock, now, interval, nextInst, effects, applied, stops, dangling>>
  BY DEF Construct
<1>13. TimersInv' /\ nextTimer' \in Nat \ {0}
  <2>1. PICK ticking :
          ticking = IF Ticks(spec) THEN Add(timers, TickHandle(spec), TickTimer(spec, i)) ELSE timers
    OBVIOUS
  <2>2. timers' = IF Expires(spec) THEN Add(ticking, StopHandle(spec), StopTimer(spec, i))
                                   ELSE ticking
    BY <1>1, <1>5, <2>1 DEF Construct
  <2>3. nextTimer' = nextTimer + (IF Ticks(spec) THEN 1 ELSE 0) + (IF Expires(spec) THEN 1 ELSE 0)
    BY <1>1, <1>5 DEF Construct
  <2>4. Live(i)' /\ inst'[i].tickTimer = TickHandle(spec) /\ inst'[i].stopTimer = StopHandle(spec)
    BY <1>8, <1>11 DEF Live
  <2>. QED BY <1>6, <1>11, <2>1, <2>2, <2>3, <2>4, ConstructTimers
<1>14. CoreInv'
  <2>1. i \in 1 .. nextInst - 1
    BY <1>6 DEF CoreInv, Instance
  <2>2. Constructed' \subseteq 1 .. nextInst' - 1
    BY <1>11, <1>12, <2>1 DEF CoreInv
  <2>3. \A j \in Constructed' : inst'[j] \in States
    BY <1>9, <1>11 DEF CoreInv
  <2>. QED BY <1>12, <1>13, <2>2, <2>3 DEF CoreInv
<1>15. EntryInv'
  BY <1>11, <1>12 DEF EntryInv
<1>16. StopsInv'
  <2>1. stops[i] = 0
    BY <1>6 DEF StopsInv
  <2>2. \A j \in Constructed' : stops'[j] = IF inst'[j].stopped /\ inst'[j].spec.undo THEN 1 ELSE 0
    BY <1>8, <1>11, <1>12, <2>1 DEF StopsInv, StopsExactlyOnce
  <2>. QED BY <1>11, <1>12, <2>2 DEF StopsInv, StopsExactlyOnce
<1>17. PICK n : n = InStore(k, i)
  OBVIOUS
<1>18. n \in Records /\ n.fn = "Store" /\ n.inst = i /\ n.key = k
  BY <1>17 DEF InStore, Records, StoreRecs
<1>19. stack' = Push(n, rest)
  BY <1>1, <1>5, <1>17 DEF Construct
<1>20. Nested(stack') /\ Range(stack') = Range(rest) \cup {n}
  <2>1. ASSUME NEW q \in Range(rest)
        PROVE  Over(n, q)
    <3>1. q.fn = "Sweep" => q.others \subseteq Constructed
      BY <1>3 DEF Meant, SweepMeant
    <3>. QED BY <1>6, <1>18, <3>1 DEF Over
  <2>. QED BY <1>3, <1>18, <1>19, <2>1, PushNests
<1>21. Meant(n)'
  BY <1>8, <1>11, <1>18 DEF Meant
<1>22. ASSUME NEW q \in Range(rest)
       PROVE  Meant(q)'
  <2>1. q \in Records /\ Meant(q) /\ Over(r, q)
    BY <1>3, RangeIsRecords
  <2>2. q.fn = "Apply" => q.inst \notin Constructed'
    <3>1. q.fn = "Apply" => q.inst # i /\ q.inst \notin Constructed
      BY <1>2, <1>5, <2>1 DEF Over, Meant
    <3>. QED BY <1>11, <3>1
  <2>3. \A j \in Constructed : Kept(j)
    BY <1>11 DEF Kept, Live
  <2>4. nextInst' \in Nat /\ nextInst <= nextInst'
    BY <1>12 DEF CoreInv
  <2>. QED BY <1>12, <2>1, <2>2, <2>3, <2>4, MeantKept
<1>23. StackInv'
  BY <1>20, <1>21, <1>22 DEF StackInv
<1>24. OwnedInv'
  <2>. SUFFICES ASSUME ~dangling, NEW j \in Constructed', Live(j)'
                PROVE  effects'[inst'[j].key] = j \/ \E q \in Range(stack') : Stores(q, j)
    BY <1>12 DEF OwnedInv
  <2>1. CASE j = i
    BY <1>18, <1>20, <2>1 DEF Stores
  <2>2. CASE j \in Constructed
    <3>1. effects[inst[j].key] = j \/ \E q \in Range(stack) : Stores(q, j)
      BY <1>11, <2>2 DEF OwnedInv, Live
    <3>2. ~Stores(r, j)
      BY <1>2 DEF Stores
    <3>. QED BY <1>3, <1>11, <1>12, <1>20, <2>2, <3>1, <3>2
  <2>. QED BY <1>11, <2>1, <2>2
<1>. QED BY <1>13, <1>14, <1>15, <1>16, <1>23, <1>24

\* An effect takes an entry that no live effect holds.
LEMMA EntryTaken ==
  ASSUME IInv, NEW r, NEW rest, NEW i \in Constructed, NEW k \in Key,
         r.fn \in {"Store", "Assign"}, r.inst = i, inst[i].key = k,
         Nested(rest), Range(stack) = Range(rest) \cup {r},
         \A q \in Range(rest) : Over(r, q) /\ Meant(q),
         effects[k] # None => ~Live(effects[k]),
         effects' = [effects EXCEPT ![k] = i], stack' = rest,
         UNCHANGED <<inst, stops, nextInst, dangling, timers, nextTimer, applied,
                     clock, now, interval>>
  PROVE  IInv'
<1>. USE DEF IInv
<1>1. TimersInv'
  BY TimersStand
<1>2. CoreInv' /\ StopsInv'
  BY DEF CoreInv, StopsInv, StopsExactlyOnce, Constructed
<1>3. /\ effects' \in [Key -> Constructed \cup {None}] /\ effects'[k] = i
      /\ \A l \in Key \ {k} : effects'[l] = effects[l]
  BY DEF EntryInv
<1>4. EntryInv'
  <2>1. \A l \in Key : effects'[l] # None => inst[effects'[l]].key = l
    BY <1>3 DEF EntryInv
  <2>. QED BY <1>3, <2>1 DEF EntryInv, Constructed
<1>5. /\ None \notin Constructed
      /\ \A j \in Constructed : inst[j].key \in Key /\ Kept(j)
  BY InstancesInRange DEF CoreInv, States, Kept, Live, Constructed
<1>6. \A j \in Constructed : Live(j) /\ effects[inst[j].key] = j => effects'[inst[j].key] = j
  BY <1>3, <1>5
<1>7. \A j \in Constructed : j # i /\ effects'[inst[j].key] = j => effects[inst[j].key] = j
  BY <1>3, <1>5
<1>8. ASSUME NEW q \in Range(rest)
      PROVE  Meant(q)'
  <2>1. q \in Records /\ Meant(q) /\ Over(r, q)
    BY RangeIsRecords
  <2>2. q.fn = "Sweep" => q.others \subseteq Constructed /\ i \notin q.others
    BY <2>1 DEF Meant, SweepMeant, Over
  <2>3. q.fn = "Apply" => q.inst \notin Constructed'
    BY <2>1 DEF Meant, Constructed
  <2>4. nextInst' \in Nat /\ nextInst <= nextInst'
    BY DEF CoreInv
  <2>. QED BY <1>5, <1>6, <1>7, <2>1, <2>2, <2>3, <2>4, MeantKept DEF Live
<1>9. StackInv'
  BY <1>8 DEF StackInv
<1>10. OwnedInv'
  <2>. SUFFICES ASSUME ~dangling, NEW j \in Constructed, Live(j)
                PROVE  effects'[inst[j].key] = j \/ \E q \in Range(rest) : Stores(q, j)
    BY DEF OwnedInv, Live, Constructed
  <2>1. effects[inst[j].key] = j \/ \E q \in Range(stack) : Stores(q, j)
    BY DEF OwnedInv
  <2>2. Stores(r, j) => effects'[inst[j].key] = j
    BY <1>3 DEF Stores
  <2>. QED BY <1>6, <2>1, <2>2
<1>. QED BY <1>1, <1>2, <1>4, <1>9, <1>10

\* insert_or_assign into a fresh node, or over an effect that it ends first.
LEMMA StoreIInv ==
  ASSUME IInv, Store
  PROVE  IInv'
<1>. USE DEF IInv
<1>1. PICK r, rest : r = Top /\ rest = Tail(stack)
  OBVIOUS
<1>2. stack # <<>> /\ r.fn = "Store"
  BY <1>1 DEF Store, Running
<1>3. /\ r \in Records /\ Meant(r) /\ Nested(rest) /\ Range(stack) = Range(rest) \cup {r}
      /\ \A q \in Range(rest) : Over(r, q) /\ Meant(q)
  BY <1>1, <1>2, TopStands
<1>4. r.key \in Key /\ r.inst \in Constructed /\ inst[r.inst].key = r.key
  BY <1>2, <1>3, RecordKinds DEF StoreRecs, Meant
<1>5. PICK i \in Constructed, k \in Key : i = r.inst /\ k = r.key
  BY <1>4
<1>6. UNCHANGED <<clock, nextTimer, now, interval, nextInst, dangling>>
  BY DEF Store
<1>7. CASE effects[k] = None
  <2>1. /\ effects' = [effects EXCEPT ![k] = i] /\ stack' = rest
        /\ UNCHANGED <<inst, timers, applied, stops>>
    BY <1>1, <1>5, <1>7 DEF Store
  <2>. QED BY <1>2, <1>3, <1>4, <1>5, <1>6, <1>7, <2>1, EntryTaken
<1>8. CASE effects[k] # None
  <2>1. PICK old \in Constructed : old = effects[k]
    BY <1>8 DEF EntryInv
  <2>2. PICK n, below : n = InAssign(k, i, old) /\ below = Push(n, rest)
    OBVIOUS
  <2>3. PICK marks \in [Key -> Instance \cup {None}] : marks = applied
    BY DEF CoreInv
  <2>4. Stop(old, below, marks) /\ UNCHANGED effects
    BY <1>1, <1>5, <1>8, <2>1, <2>2, <2>3 DEF Store
  <2>5. PICK S \in SUBSET Constructed : S = {old}
    OBVIOUS
  <2>6. /\ Ends(S) /\ TimersEnd(S) /\ applied' \in [Key -> Instance \cup {None}]
        /\ stack' = below \/ \E j \in Constructed : stack' = Push(InOnStop(j), below)
    BY <2>4, <2>5, StopEnds
  <2>7. /\ TimersInv' /\ Counters' /\ nextTimer' \in Nat \ {0}
        /\ nextInst' \in 1 .. MaxEffects + 1 /\ nextInst <= nextInst'
    BY <1>6, <2>6, TimersAfter DEF Counters, CoreInv
  <2>8. n \in Records /\ n.fn = "Assign" /\ n.inst = i /\ n.key = k /\ n.old = old
    BY <2>2, InstancesInRange DEF InAssign, Records, AssignRecs
  <2>9. \A q \in Range(rest) : Over(n, q)
    BY <1>2, <1>3, <1>5, <2>8 DEF Over
  <2>10. Nested(below) /\ Range(below) = Range(rest) \cup {n}
    BY <1>3, <2>2, <2>8, <2>9, PushNests
  <2>11. Meant(n)'
    <3>1. Constructed' = Constructed /\ inst'[i].key = k /\ ~Live(old)'
      BY <1>4, <1>5, <2>5, <2>6 DEF Ends
    <3>. QED BY <2>8, <3>1 DEF Meant
  <2>12. \A q \in Range(stack) : \A j : Stores(q, j) => \E p \in Range(below) : Stores(p, j)
    BY <1>3, <1>5, <2>8, <2>10 DEF Stores
  <2>13. \A q \in Range(below) : q \in Range(stack) \/ Meant(q)'
    BY <1>3, <2>10, <2>11
  <2>14. /\ effects' \in [Key -> Constructed \cup {None}]
         /\ \A l \in Key : effects'[l] = effects[l]
    BY <2>4 DEF EntryInv
  <2>. QED BY <1>6, <2>6, <2>7, <2>10, <2>12, <2>13, <2>14, AfterEnding
<1>. QED BY <1>7, <1>8

\* The rest of the assignment, which may find the node erased.
LEMMA FinishAssignIInv ==
  ASSUME IInv, FinishAssign
  PROVE  IInv'
<1>. USE DEF IInv
<1>1. PICK r, rest : r = Top /\ rest = Tail(stack)
  OBVIOUS
<1>2. stack # <<>> /\ r.fn = "Assign" /\ stack' = rest
  BY <1>1 DEF FinishAssign, Running
<1>3. /\ r \in Records /\ Meant(r) /\ Nested(rest) /\ Range(stack) = Range(rest) \cup {r}
      /\ \A q \in Range(rest) : Over(r, q) /\ Meant(q)
  BY <1>1, <1>2, TopStands
<1>4. /\ r.key \in Key /\ r.inst \in Constructed /\ inst[r.inst].key = r.key
      /\ r.old \in Constructed /\ ~Live(r.old)
  BY <1>2, <1>3, RecordKinds DEF AssignRecs, Meant
<1>5. PICK i \in Constructed, k \in Key : i = r.inst /\ k = r.key
  BY <1>4
<1>6. UNCHANGED <<inst, stops, nextInst, timers, nextTimer, applied, clock, now, interval>>
  BY DEF FinishAssign, sched
<1>7. CASE effects[k] = r.old
  <2>1. effects' = [effects EXCEPT ![k] = i] /\ dangling' = dangling
    BY <1>1, <1>5, <1>7 DEF FinishAssign
  <2>. QED BY <1>2, <1>3, <1>4, <1>5, <1>6, <1>7, <2>1, EntryTaken
<1>8. CASE effects[k] # r.old
  <2>1. dangling' = TRUE /\ effects' = effects
    BY <1>1, <1>5, <1>8 DEF FinishAssign
  <2>2. Counters'
    BY <1>6, <2>1 DEF Counters, CoreInv
  <2>. QED BY <1>2, <1>3, <1>6, <2>1, <2>2, QuietStep
<1>. QED BY <1>7, <1>8

-----------------------------------------------------------------------------
(* The sweeps.                                                             *)

\* A set of naturals that is not empty has a least member.
LEMMA LeastOf ==
  ASSUME NEW A, A \subseteq Nat, A # {}
  PROVE  (CHOOSE s \in A : \A t \in A : s <= t) \in A
<1>. DEFINE R == {p \in Nat \X Nat : p[1] < p[2]}
<1>1. IsWellFoundedOn(R, Nat)
  BY NatLessThanWellFounded DEF OpToRel
<1>. HIDE DEF R
<1>2. PICK s \in A : \A t \in A : ~(<<t, s>> \in R)
  BY <1>1, WFMin
<1>3. ASSUME NEW t \in A
      PROVE  s <= t
  <2>1. s \in Nat /\ t \in Nat /\ <<t, s>> \notin R
    BY <1>2
  <2>2. <<t, s>> \in R <=> t < s
    BY <2>1 DEF R
  <2>. QED BY <2>1, <2>2
<1>. QED BY <1>3

\* The sweep snapshots the ids of its next slot.
LEMMA SweepSlotIInv ==
  ASSUME IInv, SweepSlot
  PROVE  IInv'
<1>. USE DEF IInv
<1>1. PICK r, rest : r = Top /\ rest = Tail(stack)
  OBVIOUS
<1>2. stack # <<>> /\ r.fn = "Sweep" /\ r.ids = {} /\ r.slots # {}
  BY <1>1 DEF SweepSlot, Running
<1>3. /\ r \in Records /\ Meant(r) /\ Nested(rest) /\ Range(stack) = Range(rest) \cup {r}
      /\ \A q \in Range(rest) : Over(r, q) /\ Meant(q)
  BY <1>1, <1>2, TopStands
<1>4. r \in SweepRecs /\ SweepMeant(r)
  BY <1>2, <1>3, RecordKinds DEF Meant
<1>5. PICK s : s = CHOOSE u \in r.slots : \A t \in r.slots : u <= t
  OBVIOUS
<1>6. s \in r.slots /\ s \in Slot
  <2>1. r.slots \subseteq Slot /\ r.slots \subseteq Nat
    BY <1>4, SlotAssumption DEF SweepRecs
  <2>. QED BY <1>2, <1>5, <2>1, LeastOf
<1>7. PICK n : n = [r EXCEPT !.slots = @ \ {s}, !.slot = s, !.ids = Selected(r.which, s)]
  OBVIOUS
<1>8. /\ n \in SweepRecs /\ n.fn = "Sweep" /\ n.which = r.which /\ n.slots = r.slots \ {s}
      /\ n.slot = s /\ n.ids = Selected(r.which, s)
      /\ n.victims = r.victims /\ n.others = r.others
  <2>1. Selected(r.which, s) \subseteq EffectId
    BY DEF Selected
  <2>2. r.slots \ {s} \in SUBSET Slot
    BY <1>4 DEF SweepRecs
  <2>. QED BY <1>4, <1>6, <1>7, <2>1, <2>2 DEF SweepRecs
<1>9. n \in Records
  BY <1>8 DEF Records
<1>10. UNCHANGED <<inst, stops, effects, nextInst, dangling, timers, nextTimer>> /\ Counters'
  BY DEF SweepSlot, sched, Counters, CoreInv
<1>11. PICK below : below = Push(n, rest)
  OBVIOUS
<1>12. stack' = below
  BY <1>1, <1>5, <1>7, <1>11 DEF SweepSlot
<1>13. Nested(below) /\ Range(below) = Range(rest) \cup {n}
  <2>1. \A q \in Range(rest) : Over(n, q)
    BY <1>8 DEF Over
  <2>. QED BY <1>3, <1>9, <1>11, <2>1, PushNests
<1>14. SweepMeant(n)
  <2>1. \A i \in Constructed : inst[i].key = <<inst[i].key[1], inst[i].key[2]>> /\ inst[i].key[2] \in EffectId
    BY DEF CoreInv, States, Key
  <2>2. r.victims \subseteq Constructed /\ r.others \subseteq Constructed /\ None \notin Constructed
    BY <1>4, InstancesInRange DEF SweepMeant
  <2>3. ASSUME NEW i \in r.victims
        PROVE  Matches(r.which, i) /\ (Live(i) => Pending(n, i) /\ effects[inst[i].key] = i)
    <3>1. Matches(r.which, i) /\ (Live(i) => Pending(r, i) /\ effects[inst[i].key] = i)
      BY <1>4 DEF SweepMeant
    <3>2. Live(i) => inst[i].key[1] \in r.slots
      BY <1>2, <3>1 DEF Pending
    <3>3. Live(i) /\ inst[i].key[1] = s => inst[i].key[2] \in Selected(r.which, s)
      BY <2>1, <2>2, <3>1 DEF Selected
    <3>. QED BY <1>8, <3>1, <3>2, <3>3 DEF Pending
  <2>4. ASSUME NEW i \in r.others
        PROVE  /\ inst[i].key[1] \in n.slots => ~Matches(n.which, i)
               /\ Live(i) /\ inst[i].key[1] = n.slot /\ inst[i].key[2] \in n.ids =>
                    effects[inst[i].key] # i
    <3>1. inst[i].key[1] \in r.slots => ~Matches(r.which, i)
      BY <1>4 DEF SweepMeant
    <3>2. inst[i].key[1] = s /\ inst[i].key[2] \in Selected(r.which, s) => effects[inst[i].key] # i
      BY <1>6, <2>1, <2>2, <3>1 DEF Selected
    <3>. QED BY <1>8, <3>1, <3>2
  <2>. QED BY <1>6, <1>8, <2>2, <2>3, <2>4 DEF SweepMeant
<1>15. Meant(n)'
  <2>1. SweepMeant(n)'
    BY <1>10, <1>14 DEF SweepMeant, Matches, Pending, Live, Constructed
  <2>. QED BY <1>8, <2>1 DEF Meant
<1>16. \A q \in Range(stack) : \A i : Stores(q, i) => \E p \in Range(below) : Stores(p, i)
  BY <1>2, <1>3, <1>13 DEF Stores
<1>17. \A q \in Range(below) : q \in Range(stack) \/ Meant(q)'
  BY <1>3, <1>13, <1>15
<1>. QED BY <1>10, <1>12, <1>13, <1>16, <1>17, QuietStep

\* The sweep cancels one id of the snapshot, and ends none of the others.
LEMMA SweepCancelIInv ==
  ASSUME IInv, NEW e \in EffectId, SweepCancel(e)
  PROVE  /\ IInv'
         /\ \A i \in Top.others : Live(i) => Live(i)'
<1>. USE DEF IInv
<1>1. PICK r, rest : r = Top /\ rest = Tail(stack)
  OBVIOUS
<1>2. stack # <<>> /\ r.fn = "Sweep" /\ e \in r.ids
  BY <1>1 DEF SweepCancel, Running
<1>3. /\ r \in Records /\ Meant(r) /\ Nested(rest) /\ Range(stack) = Range(rest) \cup {r}
      /\ \A q \in Range(rest) : Over(r, q) /\ Meant(q)
  BY <1>1, <1>2, TopStands
<1>4. r \in SweepRecs /\ SweepMeant(r)
  BY <1>2, <1>3, RecordKinds DEF Meant
<1>5. PICK k \in Key : k = <<r.slot, e>>
  BY <1>2, <1>4 DEF SweepMeant, Key
<1>6. PICK n : n = [r EXCEPT !.ids = @ \ {e}]
  OBVIOUS
<1>7. /\ n \in SweepRecs /\ n.fn = "Sweep" /\ n.which = r.which /\ n.slots = r.slots
      /\ n.slot = r.slot /\ n.ids = r.ids \ {e}
      /\ n.victims = r.victims /\ n.others = r.others
  <2>1. r.ids \ {e} \in SUBSET EffectId
    BY <1>4 DEF SweepRecs
  <2>. QED BY <1>4, <1>6, <2>1 DEF SweepRecs
<1>8. n \in Records
  BY <1>7 DEF Records
<1>9. PICK below : below = Push(n, rest)
  OBVIOUS
<1>10. Nested(below) /\ Range(below) = Range(rest) \cup {n}
  <2>1. \A q \in Range(rest) : Over(n, q)
    BY <1>7 DEF Over
  <2>. QED BY <1>3, <1>8, <1>9, <2>1, PushNests
<1>11. PICK marks \in [Key -> Instance \cup {None}] : marks = applied
  BY DEF CoreInv
<1>12. Cancel(k, below, marks)
  BY <1>1, <1>5, <1>6, <1>9, <1>11 DEF SweepCancel
<1>13. PICK S \in SUBSET Constructed :
        /\ Ends(S) /\ TimersEnd(S)
        /\ effects' \in [Key -> Constructed \cup {None}]
        /\ effects'[k] = None
        /\ \A l \in Key : effects'[l] = effects[l] \/ (effects'[l] = None /\ effects[l] \in S)
        /\ applied' \in [Key -> Instance \cup {None}]
        /\ stack' = below \/ \E j \in Constructed : stack' = Push(InOnStop(j), below)
        /\ \A i \in S : i = effects[k]
  BY <1>12, CancelEnds
<1>14. UNCHANGED <<clock, nextTimer, now, interval, nextInst, dangling>>
  BY DEF SweepCancel
<1>15. /\ TimersInv' /\ Counters' /\ nextTimer' \in Nat \ {0}
       /\ nextInst' \in 1 .. MaxEffects + 1 /\ nextInst <= nextInst'
  BY <1>13, <1>14, TimersAfter DEF Counters, CoreInv
<1>16. /\ Constructed' = Constructed /\ None \notin Constructed
       /\ r.victims \subseteq Constructed /\ r.others \subseteq Constructed
  BY <1>4, <1>13, InstancesInRange DEF Ends, SweepMeant
<1>17. SweepMeant(n)'
  <2>1. ASSUME NEW i \in Constructed
        PROVE  /\ inst[i].key \in Key /\ inst[i].key = <<inst[i].key[1], inst[i].key[2]>>
               /\ inst'[i].key = inst[i].key /\ inst'[i].spec = inst[i].spec
    <3>1. inst[i].key \in Key
      BY DEF CoreInv, States
    <3>. QED BY <1>13, <3>1 DEF Key, Ends
  <2>2. ASSUME NEW i \in Constructed, Live(i)'
        PROVE  Live(i) /\ i \notin S
    BY <1>13, <2>2 DEF Ends, Live
  <2>3. ASSUME NEW i \in Constructed
        PROVE  effects'[inst[i].key] = i => effects[inst[i].key] = i
    <3>1. i # None /\ inst[i].key \in Key
      BY <1>16, <2>1
    <3>. QED BY <1>13, <3>1
  <2>4. ASSUME NEW i \in r.victims
        PROVE  Matches(r.which, i)' /\ (Live(i)' => Pending(n, i)' /\ effects'[inst'[i].key] = i)
    <3>1. Matches(r.which, i) /\ (Live(i) => Pending(r, i) /\ effects[inst[i].key] = i)
      BY <1>4 DEF SweepMeant
    <3>2. /\ i \in Constructed /\ i # None
          /\ inst[i].key \in Key /\ inst[i].key = <<inst[i].key[1], inst[i].key[2]>>
          /\ inst'[i].key = inst[i].key /\ inst'[i].spec = inst[i].spec
      BY <1>16, <2>1
    <3>3. Matches(r.which, i)'
      BY <3>1, <3>2 DEF Matches
    <3>4. ASSUME Live(i)'
          PROVE  Pending(n, i)' /\ effects'[inst'[i].key] = i
      <4>1. i \notin S /\ Pending(r, i) /\ effects[inst[i].key] = i
        BY <2>2, <3>1, <3>2, <3>4
      <4>2. effects'[inst[i].key] = i
        BY <1>13, <3>2, <4>1
      <4>3. inst[i].key # k
        BY <1>13, <3>2, <4>2
      <4>4. Pending(n, i)
        BY <1>5, <1>7, <3>2, <4>1, <4>3 DEF Pending
      <4>. QED BY <3>2, <4>2, <4>4 DEF Pending
    <3>. QED BY <3>3, <3>4
  <2>5. ASSUME NEW i \in r.others
        PROVE  /\ inst'[i].key[1] \in n.slots => ~Matches(r.which, i)'
               /\ Live(i)' /\ inst'[i].key[1] = n.slot /\ inst'[i].key[2] \in n.ids =>
                    effects'[inst'[i].key] # i
    <3>1. /\ inst[i].key[1] \in r.slots => ~Matches(r.which, i)
          /\ Live(i) /\ inst[i].key[1] = r.slot /\ inst[i].key[2] \in r.ids =>
               effects[inst[i].key] # i
      BY <1>4 DEF SweepMeant
    <3>2. i \in Constructed /\ inst'[i].key = inst[i].key /\ inst'[i].spec = inst[i].spec
      BY <1>16, <2>1
    <3>3. Matches(r.which, i)' <=> Matches(r.which, i)
      BY <3>2 DEF Matches
    <3>4. Live(i)' => Live(i)
      BY <2>2, <3>2
    <3>5. effects'[inst[i].key] = i => effects[inst[i].key] = i
      BY <2>3, <3>2
    <3>. QED BY <1>7, <3>1, <3>2, <3>3, <3>4, <3>5
  <2>6. n.ids # {} => n.slot \in Slot
    BY <1>4, <1>7 DEF SweepMeant
  <2>. QED BY <1>7, <1>16, <2>4, <2>5, <2>6 DEF SweepMeant
<1>18. Meant(n)'
  BY <1>7, <1>17 DEF Meant
<1>19. \A q \in Range(stack) : \A i : Stores(q, i) => \E p \in Range(below) : Stores(p, i)
  BY <1>2, <1>3, <1>10 DEF Stores
<1>20. \A q \in Range(below) : q \in Range(stack) \/ Meant(q)'
  BY <1>3, <1>10, <1>18
<1>21. IInv'
  BY <1>10, <1>13, <1>14, <1>15, <1>19, <1>20, AfterEnding
<1>22. ASSUME NEW i \in Top.others, Live(i)
       PROVE  Live(i)'
  <2>1. i \in r.others /\ i \in Constructed
    BY <1>1, <1>4 DEF SweepMeant
  <2>2. i \notin S
    <3>1. SUFFICES ASSUME i = effects[k]
                   PROVE  FALSE
      BY <1>13
    <3>2. inst[i].key = k /\ None # i
      BY <1>16, <2>1, <3>1 DEF EntryInv
    <3>. QED BY <1>2, <1>4, <1>5, <1>22, <2>1, <3>1, <3>2 DEF SweepMeant
  <2>. QED BY <1>13, <1>22, <2>1, <2>2 DEF Ends, Live
<1>. QED BY <1>21, <1>22

-----------------------------------------------------------------------------
(* The scheduler frame, and what returns.                                  *)

\* The record on top goes, and nothing was being stored by it.
LEMMA PopStep ==
  ASSUME IInv, stack # <<>>, Top.fn \notin {"Store", "Assign"}, stack' = Tail(stack),
         UNCHANGED <<inst, stops, effects, nextInst, dangling, timers, nextTimer>>, Counters'
  PROVE  IInv'
<1>1. PICK r, rest : r = Top /\ rest = Tail(stack)
  OBVIOUS
<1>2. Nested(rest) /\ Range(stack) = Range(rest) \cup {r}
  BY <1>1, TopStands DEF IInv
<1>3. \A q \in Range(stack) : \A i : Stores(q, i) => \E p \in Range(rest) : Stores(p, i)
  BY <1>1, <1>2 DEF Stores
<1>. QED BY <1>1, <1>2, <1>3, QuietStep

\* Functions that return with nothing left to do.
LEMMA ReturnsIInv ==
  ASSUME IInv, SweepDone \/ EndFrame \/ Return
  PROVE  IInv'
<1>1. stack # <<>> /\ Top.fn \in {"Sweep", "Frame", "OnTick", "OnStop"} /\ stack' = Tail(stack)
  BY DEF SweepDone, EndFrame, Return, InLoop, Running
<1>2. UNCHANGED <<inst, stops, effects, nextInst, dangling, timers, nextTimer>>
  BY DEF SweepDone, EndFrame, Return, sched
<1>3. Counters'
  BY DEF SweepDone, EndFrame, Return, sched, Counters, IInv, CoreInv
<1>. QED BY <1>1, <1>2, <1>3, PopStep

\* Steps that leave the stack alone.
LEMMA WaitsIInv ==
  ASSUME IInv, Elapse \/ (\E t \in TimerHandle : Skip(t)) \/ UNCHANGED vars
  PROVE  IInv'
<1>1. UNCHANGED <<inst, stops, effects, nextInst, dangling, timers, nextTimer, stack>> /\ Counters'
  BY DEF Elapse, Skip, sched, vars, Counters, IInv, CoreInv
<1>2. PICK below : below = stack
  OBVIOUS
<1>3. Nested(below) /\ Range(below) = Range(stack) /\ stack' = below
  BY <1>1, <1>2 DEF IInv, StackInv
<1>. QED BY <1>1, <1>3, QuietStep

\* A frame begins on an empty stack.
LEMMA BeginFrameIInv ==
  ASSUME IInv, BeginFrame
  PROVE  IInv'
<1>1. /\ UNCHANGED <<inst, stops, effects, nextInst, dangling, timers, nextTimer>> /\ Counters'
      /\ stack = <<>>
  BY DEF BeginFrame, Counters, IInv, CoreInv
<1>2. PICK r, below : r = InFrame /\ below = Push(r, <<>>)
  OBVIOUS
<1>3. r \in Records /\ r.fn = "Frame"
  BY <1>2 DEF InFrame, Records, FrameRecs
<1>4. Nested(below) /\ Range(below) = {r}
  BY <1>2, <1>3, EmptyNests, PushNests
<1>5. Meant(r)'
  BY <1>3 DEF Meant
<1>6. stack' = below
  <2>1. <<InFrame>> \o <<>> = <<InFrame>>
    OBVIOUS
  <2>. QED BY <1>2, <2>1 DEF BeginFrame, Push
<1>7. Range(stack) = {}
  BY <1>1, EmptyNests
<1>. QED BY <1>1, <1>4, <1>5, <1>6, <1>7, QuietStep

\* A tick calls the OnTick of the effect that owns the timer.
LEMMA FireTickIInv ==
  ASSUME IInv, NEW t \in TimerHandle, FireTick(t)
  PROVE  IInv'
<1>. USE DEF IInv
<1>1. t \in DOMAIN timers /\ TimerOwned(t) /\ timers[t].interval \in Int
  BY DEF FireTick, Invoke, TimersInv, TimerOwned, TimerRecs
<1>2. UNCHANGED <<inst, stops, effects, nextInst, dangling, timers, nextTimer>> /\ Counters'
  BY <1>1 DEF FireTick, Invoke, Counters, CoreInv
<1>3. PICK r, below : r = InOnTick(timers[t].inst) /\ below = Push(r, stack)
  OBVIOUS
<1>4. r \in Records /\ r.fn = "OnTick"
  BY <1>1, <1>3, InstancesInRange DEF TimerOwned, InOnTick, Records, CallRecs
<1>5. Nested(below) /\ Range(below) = Range(stack) \cup {r}
  <2>1. \A q \in Range(stack) : Over(r, q)
    BY <1>4 DEF Over
  <2>. QED BY <1>3, <1>4, <2>1, PushNests DEF StackInv
<1>6. Meant(r)'
  BY <1>4 DEF Meant
<1>7. stack' = below
  BY <1>3 DEF FireTick
<1>. QED BY <1>2, <1>5, <1>6, <1>7, QuietStep

\* An expiry ends the effect that owns the timer.
LEMMA FireStopIInv ==
  ASSUME IInv, NEW t \in TimerHandle, FireStop(t)
  PROVE  IInv'
<1>. USE DEF IInv
<1>1. t \in DOMAIN timers /\ TimerOwned(t) /\ timers[t].interval \in Int
  BY DEF FireStop, Invoke, TimersInv, TimerOwned, TimerRecs
<1>2. PICK i \in Constructed : i = timers[t].inst
  BY <1>1 DEF TimerOwned
<1>3. PICK below : below = stack
  OBVIOUS
<1>4. PICK marks \in [Key -> Instance \cup {None}] : marks = applied
  BY DEF CoreInv
<1>5. Stop(i, below, marks)
  BY <1>2, <1>3, <1>4 DEF FireStop
<1>6. PICK S \in SUBSET Constructed : S = {i}
  OBVIOUS
<1>7. /\ Ends(S) /\ TimersEnd(S) /\ applied' \in [Key -> Instance \cup {None}]
      /\ stack' = below \/ \E j \in Constructed : stack' = Push(InOnStop(j), below)
  BY <1>5, <1>6, StopEnds
<1>8. UNCHANGED <<clock, nextTimer, now, nextInst, effects, dangling>> /\ interval' = timers[t].interval
  BY DEF FireStop, Invoke
<1>9. /\ TimersInv' /\ Counters' /\ nextTimer' \in Nat \ {0}
      /\ nextInst' \in 1 .. MaxEffects + 1 /\ nextInst <= nextInst'
  BY <1>1, <1>7, <1>8, TimersAfter DEF Counters, CoreInv
<1>10. /\ Nested(below) /\ Range(below) = Range(stack)
       /\ effects' \in [Key -> Constructed \cup {None}]
       /\ \A l \in Key : effects'[l] = effects[l]
  BY <1>3, <1>8 DEF StackInv, EntryInv
<1>. QED BY <1>7, <1>8, <1>9, <1>10, AfterEnding

\* Settling a timer moves its next time or removes it.
LEMMA SettleIInv ==
  ASSUME IInv, Settle
  PROVE  IInv'
<1>. USE DEF IInv
<1>1. UNCHANGED <<nextTimer, clock, now, stack, inst, nextInst, effects, applied, stops, dangling>>
  BY DEF Settle
<1>2. TimersInv'
  <2>1. /\ DOMAIN timers' \subseteq DOMAIN timers
        /\ \A t \in DOMAIN timers' : /\ timers'[t] \in TimerRecs
                                     /\ timers'[t].inst = timers[t].inst
                                     /\ timers'[t].kind = timers[t].kind
    <3>1. CASE current \in DOMAIN timers /\ interval # OneShot
      <4>1. timers' = [timers EXCEPT ![current].next = NextAfter(interval, now)]
        BY <3>1 DEF Settle, Settled
      <4>2. NextAfter(interval, now) \in Int
        BY DEF NextAfter, CoreInv
      <4>3. \A t \in DOMAIN timers : timers[t] \in TimerRecs
        BY DEF TimersInv, TimerOwned
      <4>. QED BY <4>1, <4>2, <4>3 DEF TimerRecs
    <3>2. CASE ~(current \in DOMAIN timers /\ interval # OneShot)
      <4>1. timers' = Remove(timers, {current})
        BY <3>2 DEF Settle, Settled
      <4>2. DOMAIN timers' \subseteq DOMAIN timers /\ \A t \in DOMAIN timers' : timers'[t] = timers[t]
        BY <4>1 DEF Remove, Restrict
      <4>. QED BY <4>2 DEF TimersInv, TimerOwned
    <3>. QED BY <3>1, <3>2
  <2>2. \A t \in DOMAIN timers' : TimerOwned(t)'
    BY <1>1, <2>1 DEF TimersInv, TimerOwned, Live, Constructed
  <2>. QED BY <1>1, <2>1, <2>2 DEF TimersInv
<1>3. Ends({}) /\ Counters'
  BY <1>1, NothingEnds DEF Settle, Counters, CoreInv, OneShot
<1>4. PICK below : below = stack
  OBVIOUS
<1>5. PICK S \in SUBSET Constructed : S = {}
  OBVIOUS
<1>6. /\ nextTimer' \in Nat \ {0} /\ nextInst' \in 1 .. MaxEffects + 1 /\ nextInst <= nextInst'
      /\ Nested(below) /\ Range(below) = Range(stack) /\ stack' = below
      /\ effects' \in [Key -> Constructed \cup {None}] /\ \A l \in Key : effects'[l] = effects[l]
  BY <1>1, <1>4 DEF CoreInv, EntryInv, StackInv
<1>7. Ends(S)
  BY <1>3, <1>5
<1>. QED BY <1>1, <1>2, <1>3, <1>6, <1>7, AfterEnding

-----------------------------------------------------------------------------
(* The specification.                                                      *)

\* In the beginning there is nothing.
LEMMA InitIInv == Init => IInv
<1>. SUFFICES ASSUME Init PROVE IInv
  OBVIOUS
<1>. USE DEF Init
<1>1. Constructed = {} /\ DOMAIN timers = {}
  BY DEF Constructed, NoItems
<1>2. CoreInv
  <2>1. nextInst \in 1 .. MaxEffects + 1
    BY BoundsAssumption
  <2>2. applied \in [Key -> Instance \cup {None}]
    OBVIOUS
  <2>3. clock \in Nat /\ now \in Nat /\ interval \in Int /\ nextTimer \in Nat \ {0}
    BY DEF FirstHandle, OneShot
  <2>4. dangling \in BOOLEAN
    OBVIOUS
  <2>. HIDE DEF Init
  <2>. QED BY <1>1, <2>1, <2>2, <2>3, <2>4 DEF CoreInv
<1>3. TimersInv /\ EntryInv /\ StopsInv /\ OwnedInv
  BY <1>1 DEF TimersInv, EntryInv, StopsInv, StopsExactlyOnce, OwnedInv
<1>4. StackInv
  BY EmptyNests DEF StackInv
<1>. QED BY <1>2, <1>3, <1>4 DEF IInv

\* Every call of the plugin keeps the invariant.
LEMMA PluginIInv ==
  ASSUME IInv, Plugin
  PROVE  IInv'
<1>1. ASSUME NEW k \in Key, NEW spec \in Specs, ApplyEffect(k, spec) \/ ToggleEffect(k, spec)
      PROVE  IInv'
  <2>1. ApplyBody(k, spec) \/ CancelBody(k)
    BY <1>1 DEF ApplyEffect, ToggleEffect
  <2>. QED BY <2>1, ApplyBodyIInv, CancelBodyIInv
<1>2. ASSUME NEW k \in Key, ClearEffect(k) \/ CancelEffect(k)
      PROVE  IInv'
  <2>1. CancelBody(k)
    BY <1>2 DEF ClearEffect, CancelEffect
  <2>. QED BY <2>1, CancelBodyIInv
<1>3. ASSUME NEW s \in Slot, NEW which \in {"all", "perLife"}, Sweep(which, {s})
      PROVE  IInv'
  <2>1. PICK slots \in SUBSET Slot : slots = {s}
    OBVIOUS
  <2>2. Sweep(which, slots) /\ which \in {"all", "perLife", "round"}
    BY <1>3, <2>1
  <2>. QED BY <2>2, SweepIInv
<1>4. ASSUME NEW which \in {"all", "round"}, Sweep(which, Slot)
      PROVE  IInv'
  <2>1. Slot \in SUBSET Slot /\ which \in {"all", "perLife", "round"}
    OBVIOUS
  <2>. QED BY <1>4, <2>1, SweepIInv
<1>. QED BY <1>1, <1>2, <1>3, <1>4 DEF Plugin

\* Every step of the kit keeps the invariant.
LEMMA KitIInv ==
  ASSUME IInv, Kit
  PROVE  IInv'
<1>1. CASE Construct \/ Store \/ FinishAssign
  BY <1>1, ConstructIInv, StoreIInv, FinishAssignIInv
<1>2. CASE SweepSlot \/ SweepDone \/ EndFrame \/ Return
  BY <1>2, SweepSlotIInv, ReturnsIInv
<1>3. CASE \E e \in EffectId : SweepCancel(e)
  BY <1>3, SweepCancelIInv
<1>4. CASE BeginFrame \/ Settle
  BY <1>4, BeginFrameIInv, SettleIInv
<1>5. ASSUME NEW t \in TimerHandle, Skip(t) \/ FireTick(t) \/ FireStop(t)
      PROVE  IInv'
  BY <1>5, WaitsIInv, FireTickIInv, FireStopIInv
<1>. QED BY <1>1, <1>2, <1>3, <1>4, <1>5 DEF Kit

\* Every step keeps the invariant.
LEMMA NextIInv == IInv /\ [Next]_vars => IInv'
BY PluginIInv, KitIInv, WaitsIInv DEF Next

\* The inductive invariant holds throughout.
THEOREM Invariance == Spec => []IInv
BY InitIInv, NextIInv, PTL DEF Spec

\* OnStop runs once for every effect, whatever ends it and however deep the
\* calls into EffectManager are nested.
THEOREM StopsExactlyOnceHolds == Spec => []StopsExactlyOnce
<1>1. IInv => StopsExactlyOnce
  BY DEF IInv, StopsInv
<1>. QED BY <1>1, Invariance, PTL

\* Types; no timer of an ended effect is left in the scheduler; no live effect
\* is out of the manager's reach.
THEOREM NothingOrphanedHolds == Spec => []NothingOrphaned
<1>1. ASSUME IInv
      PROVE  NothingOrphaned
  <2>. USE <1>1 DEF IInv
  <2>1. /\ DOMAIN timers \subseteq TimerHandle
        /\ \A t \in DOMAIN timers : timers[t].inst \in Constructed /\ timers[t].kind \in {"tick", "stop"}
    BY DEF TimersInv, TimerOwned, TimerRecs, TimerHandle, FirstHandle
  <2>2. \A n \in 1 .. Len(stack) - 1 : stack[n] # InFrame
    <3>1. stack \in Seq(Records) /\ Len(stack) \in Nat
      BY DEF StackInv, Nested
    <3>2. ASSUME NEW n \in 1 .. Len(stack) - 1
          PROVE  stack[n] # InFrame
      <4>1. n \in 1 .. Len(stack) /\ Len(stack) \in 1 .. Len(stack) /\ n < Len(stack)
        BY <3>1
      <4>2. stack[n].fn # "Frame"
        BY <4>1 DEF StackInv, Nested, Over
      <4>. QED BY <4>2 DEF InFrame
    <3>. QED BY <3>2
  <2>3. TypeOK
    BY <2>1, <2>2 DEF TypeOK, CoreInv, EntryInv, StopsInv
  <2>4. NoLeakedTimers
    BY DEF NoLeakedTimers, TimersInv, TimerOwned
  <2>5. LiveEffectsAreOwned
    <3>1. ASSUME NEW i \in Constructed
          PROVE  BeingStored(i) <=> \E r \in Range(stack) : Stores(r, i)
      BY BeingStoredByRange DEF StackInv
    <3>. QED BY <3>1 DEF LiveEffectsAreOwned, OwnedInv
  <2>. QED BY <2>3, <2>4, <2>5 DEF NothingOrphaned
<1>. QED BY <1>1, Invariance, PTL

\* A sweep reaches every effect that was live and selected when it began.
THEOREM SweepsReachEveryVictimHolds == Spec => []SweepsReachEveryVictim
<1>1. ASSUME IInv
      PROVE  SweepsReachEveryVictim
  <2>1. \A n \in 1 .. Len(stack) : stack[n] \in Range(stack)
    BY <1>1 DEF IInv, StackInv, Nested, Range
  <2>2. \A r \in Range(stack) : r.fn = "Sweep" =>
          \A i \in r.victims : Live(i) => Pending(r, i)
    BY <1>1 DEF IInv, StackInv, Meant, SweepMeant
  <2>. QED BY <2>1, <2>2 DEF SweepsReachEveryVictim
<1>. QED BY <1>1, Invariance, PTL

\* A sweep ends no effect but those it selects.
THEOREM SweepsSpareTheRestHolds == Spec => SweepsSpareTheRest
<1>. DEFINE Spares == \A i \in Constructed :
                        Running("Sweep") /\ i \in Top.others /\ Live(i) => ~inst'[i].stopped
<1>1. ASSUME IInv, [Next]_vars
      PROVE  Spares
  <2>. SUFFICES ASSUME NEW i \in Constructed, Running("Sweep"), i \in Top.others, Live(i)
                PROVE  ~inst'[i].stopped
    OBVIOUS
  <2>1. stack # <<>> /\ Top.fn = "Sweep"
    BY DEF Running
  <2>2. ~Calls("apply") /\ ~Calls("toggle") /\ ~Calls("clear") /\ ~Calls("cancel") /\ ~Calls("sweep")
    BY <2>1 DEF Calls, Running
  <2>3. ~Plugin
    BY <2>2 DEF Plugin, ApplyEffect, ToggleEffect, ClearEffect, CancelEffect, Sweep
  <2>4. CASE \E e \in EffectId : SweepCancel(e)
    BY <1>1, <2>4, SweepCancelIInv DEF Live
  <2>5. CASE inst' = inst
    BY <2>5 DEF Live
  <2>6. ~Construct /\ ~Store /\ ~FinishAssign /\ ~InLoop /\ ~(Running("Frame") /\ current # NoHandle)
    BY <2>1 DEF Construct, Store, FinishAssign, InLoop, Running
  <2>7. Kit => inst' = inst \/ \E e \in EffectId : SweepCancel(e)
    BY <2>1, <2>6 DEF Kit, SweepSlot, SweepDone, BeginFrame, Settle, EndFrame, Skip, FireTick,
                      FireStop, Invoke, Return
  <2>8. Elapse \/ UNCHANGED vars => inst' = inst
    BY DEF Elapse, vars
  <2>. QED BY <1>1, <2>3, <2>4, <2>5, <2>7, <2>8 DEF Next
<1>. QED BY <1>1, Invariance, PTL DEF Spec, SweepsSpareTheRest

=============================================================================
