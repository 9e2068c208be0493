---------------------------- MODULE EngineProofs -----------------------------
(***************************************************************************)
(* Safety of what the kit does to the engine: the transmit filter and the  *)
(* glow visions; then the load report, the signature scan, the entities,   *)
(* the calls on players, the messages, the console commands and the texts  *)
(* of a started kit.                                                       *)
(***************************************************************************)
EXTENDS Visibility, Kit, FiniteSetTheorems, SequenceTheorems, WellFoundedInduction, TLAPS

\* The count of the filter is the number of slots that have a flag.
CountInv == flags.count = Cardinality(Flagged(flags))

\* What a vision holds on to, for filter entries e, entities w and pairs ps:
\* every clone and every entry belongs to a pair somebody would destroy.
Whole(e, w, ps) ==
  /\ \A i \in Index : w[i].kind = "clone" =>
       /\ w[i].viewer \in Viewers
       /\ \E s \in Slot : /\ Active(ps[w[i].viewer][s])
                          /\ [index |-> i, serial |-> w[i].serial] \in Handles(ps[w[i].viewer][s])
  /\ \A i \in DOMAIN e :
       \E v \in Viewers, s \in Slot : Active(ps[v][s]) /\ i \in IndicesOf(ps[v][s])

\* The handles of a pair are living clones.
Living(w, ps) ==
  \A v \in Viewers, s \in Slot : Active(ps[v][s]) =>
    \A h \in Handles(ps[v][s]) :
      h.index \in Index /\ w[h.index] = [serial |-> h.serial, kind |-> "clone", viewer |-> v]

\* No two pairs share an index.
Apart(ps) ==
  \A v, u \in Viewers, s, t \in Slot :
    Active(ps[v][s]) /\ Active(ps[u][t]) /\ IndicesOf(ps[v][s]) \cap IndicesOf(ps[u][t]) # {} =>
      v = u /\ s = t

\* Exactly the clones are exclusive, to their viewers.
Private(e, w) ==
  /\ \A i \in Index : w[i].kind = "clone" => i \in DOMAIN e /\ e[i] = w[i].viewer
  /\ \A i \in DOMAIN e : w[i].kind = "clone"

\* What holds in addition as long as the engine removes nothing by itself.
Lent(e, w, ps) == Living(w, ps) /\ Apart(ps) /\ Private(e, w)

Inv ==
  /\ TypeOK /\ CountInv
  /\ Whole(exclusive, world, pairs)
  /\ ~restarted => Lent(exclusive, world, pairs)

-----------------------------------------------------------------------------
(* The filter's count.                                                     *)

\* The slots are finitely many, and so are those with a flag.
LEMMA SlotsFinite ==
  ASSUME NEW S \in SUBSET Slot
  PROVE  IsFiniteSet(S) /\ Cardinality(S) \in 0 .. Slots
<1>1. IsFiniteSet(Slot) /\ Cardinality(Slot) = Slots
  <2>1. Slots \in Nat \ {0} /\ 0 \in Int /\ Slots - 1 \in Int
    BY SlotsAssumption
  <2> QED
    BY <2>1, FS_Interval DEF Slot
<1>2. IsFiniteSet(S) /\ Cardinality(S) <= Slots
  BY <1>1, FS_Subset
<1> QED
  BY <1>2, FS_CardinalityType, SlotsAssumption

FlagsType == [pawn : SUBSET Slot, controller : SUBSET Slot, count : 0 .. Slots]

\* SetFlag keeps the count.
LEMMA SetFlagCounts ==
  ASSUME NEW f \in FlagsType, f.count = Cardinality(Flagged(f)),
         NEW which \in {"pawn", "controller"}, NEW slot \in Slot, NEW value \in BOOLEAN
  PROVE  /\ SetFlag(f, which, slot, value) \in FlagsType
         /\ SetFlag(f, which, slot, value).count = Cardinality(Flagged(SetFlag(f, which, slot, value)))
<1> DEFINE set == [f EXCEPT ![which] = IF value THEN @ \cup {slot} ELSE @ \ {slot}]
           A(g) == IF slot \in Flagged(g) THEN 1 ELSE 0
           g == SetFlag(f, which, slot, value)
<1>1. /\ set.pawn \subseteq Slot /\ set.controller \subseteq Slot /\ set.count = f.count
      /\ set \in FlagsType
  BY DEF FlagsType
<1>2. \/ Flagged(set) = Flagged(f)
      \/ Flagged(set) = Flagged(f) \cup {slot} /\ slot \notin Flagged(f)
      \/ Flagged(set) = Flagged(f) \ {slot} /\ slot \in Flagged(f)
  <2>1. CASE which = "pawn"
    BY <2>1 DEF Flagged, FlagsType
  <2>2. CASE which = "controller"
    BY <2>2 DEF Flagged, FlagsType
  <2> QED
    BY <2>1, <2>2
<1>3. Flagged(f) \subseteq Slot /\ Flagged(set) \subseteq Slot
  BY <1>1 DEF Flagged, FlagsType
<1>4. /\ IsFiniteSet(Flagged(f)) /\ Cardinality(Flagged(f)) \in Nat
      /\ Cardinality(Flagged(set)) \in 0 .. Slots
  <2>1. IsFiniteSet(Flagged(f)) /\ Cardinality(Flagged(set)) \in 0 .. Slots
    BY <1>3, SlotsFinite
  <2> QED
    BY <2>1, FS_CardinalityType
<1>5. Cardinality(Flagged(set)) = f.count + A(set) - A(f)
  <2>1. CASE Flagged(set) = Flagged(f)
    <3>1. A(set) = A(f) /\ A(f) \in Nat
      BY <2>1
    <3> QED
      BY <1>4, <2>1, <3>1
  <2>2. CASE Flagged(set) = Flagged(f) \cup {slot} /\ slot \notin Flagged(f)
    <3>1. A(set) = 1 /\ A(f) = 0
      BY <2>2
    <3>2. Cardinality(Flagged(set)) = Cardinality(Flagged(f)) + 1
      BY <1>4, <2>2, FS_AddElement
    <3> QED
      BY <1>4, <3>1, <3>2
  <2>3. CASE Flagged(set) = Flagged(f) \ {slot} /\ slot \in Flagged(f)
    <3>1. A(set) = 0 /\ A(f) = 1
      BY <2>3
    <3>2. Cardinality(Flagged(set)) = Cardinality(Flagged(f)) - 1
      BY <1>4, <2>3, FS_RemoveElement
    <3> QED
      BY <1>4, <3>1, <3>2
  <2> QED
    BY <1>2, <2>1, <2>2, <2>3
<1>6. g = [set EXCEPT !.count = @ + A(set) - A(f)]
  BY DEF SetFlag
<1> HIDE DEF set
<1>7. /\ g.pawn = set.pawn /\ g.controller = set.controller
      /\ g.count = f.count + A(set) - A(f)
  BY <1>1, <1>6 DEF FlagsType
<1>8. Flagged(g) = Flagged(set)
  BY <1>7 DEF Flagged
<1>9. g \in FlagsType
  BY <1>1, <1>4, <1>5, <1>6, <1>7 DEF FlagsType
<1> QED
  BY <1>5, <1>7, <1>8, <1>9

\* With an exact count, OnCheckTransmit collects every slot that has a flag.
LEMMA AllCollected ==
  ASSUME TypeOK, CountInv
  PROVE  Collected = Flagged(flags)
<1>1. Flagged(flags) \subseteq Slot
  BY DEF TypeOK, Flagged
<1>2. SUFFICES ASSUME NEW s \in Flagged(flags)
               PROVE  Cardinality({t \in Flagged(flags) : t < s}) < flags.count
  BY DEF Collected
<1> DEFINE before == {t \in Flagged(flags) : t < s}
<1>3. before \subseteq Flagged(flags) /\ s \notin before
  BY <1>1, SlotsAssumption DEF Slot
<1>4. IsFiniteSet(Flagged(flags)) /\ Cardinality(Flagged(flags)) \in Nat
  BY <1>1, SlotsFinite
<1>5. IsFiniteSet(before) /\ Cardinality(before) \in Nat
  BY <1>1, <1>3, SlotsFinite
<1>6. Cardinality(before) <= Cardinality(Flagged(flags)) /\ before # Flagged(flags)
  BY <1>2, <1>3, <1>4, FS_Subset
<1>7. Cardinality(before) # Cardinality(Flagged(flags))
  BY <1>3, <1>4, <1>6, FS_Subset
<1> QED
  BY <1>4, <1>5, <1>6, <1>7 DEF CountInv

-----------------------------------------------------------------------------
(* Pairs, entries and entities.                                            *)

\* Setting one pair.
LEMMA PairSet ==
  ASSUME TypeOK, NEW viewer \in Viewers, NEW slot \in Slot, NEW pair,
         NEW ps, ps = [pairs EXCEPT ![viewer][slot] = pair]
  PROVE  \A v \in Viewers, s \in Slot :
           ps[v][s] = IF v = viewer /\ s = slot THEN pair ELSE pairs[v][s]
BY DEF TypeOK

\* Entities after removals: what is still a clone has not been touched.
LEMMA DoomedKeeps ==
  ASSUME TypeOK, NEW H
  PROVE  /\ Doomed(H) \in [Index -> EntityType]
         /\ \A i \in Index : Doomed(H)[i].kind = "clone" =>
              /\ Doomed(H)[i] = world[i]
              /\ \A h \in H : h.index = i => ~Resolves(h)
         /\ \A i \in Index : (\A h \in H : h.index # i) => Doomed(H)[i] = world[i]
<1> DEFINE ready(i) == \E h \in H : h.index = i /\ Resolves(h)
<1>1. \A i \in Index :
        Doomed(H)[i] = IF ready(i) THEN [world[i] EXCEPT !.kind = "doomed"] ELSE world[i]
  BY DEF Doomed
<1>2. \A i \in Index : world[i] \in EntityType
  BY DEF TypeOK
<1> HIDE DEF ready
<1>3. \A i \in Index : Doomed(H)[i] \in EntityType
  BY <1>1, <1>2 DEF EntityType
<1>4. \A i \in Index : ready(i) => Doomed(H)[i].kind = "doomed"
  BY <1>1, <1>2 DEF EntityType
<1>5. \A i \in Index : Doomed(H)[i].kind = "clone" => ~ready(i) /\ Doomed(H)[i] = world[i]
  BY <1>1, <1>4
<1>6. DOMAIN Doomed(H) = Index /\ Doomed(H) = [i \in Index |-> Doomed(H)[i]]
  BY DEF Doomed
<1>7. \A i \in Index : ~ready(i) => \A h \in H : h.index = i => ~Resolves(h)
  BY DEF ready
<1>8. \A i \in Index : (\A h \in H : h.index # i) => ~ready(i)
  BY DEF ready
<1> QED
  BY <1>1, <1>3, <1>5, <1>6, <1>7, <1>8

\* A handle to an index of the world resolves if the serial number is right.
LEMMA ResolvesIf ==
  ASSUME NEW h, h.index \in Index, world[h.index].serial = h.serial
  PROVE  Resolves(h)
BY IndexAssumption DEF Resolves, NoHandleOf

\* Some pairs are destroyed together: gone[v] are the slots of viewer v.
LEMMA DestroyKeeps ==
  ASSUME TypeOK, Whole(exclusive, world, pairs),
         NEW gone \in [Viewers -> SUBSET Slot], NEW ps, NEW H, NEW I,
         \A v \in Viewers, s \in Slot :
           IF s \in gone[v] THEN ~Active(ps[v][s]) ELSE ps[v][s] = pairs[v][s],
         \A v \in Viewers, s \in Slot : s \in gone[v] /\ Active(pairs[v][s]) => Handles(pairs[v][s]) \subseteq H,
         \A h \in H : \E v \in Viewers, s \in Slot :
           s \in gone[v] /\ Active(pairs[v][s]) /\ h \in Handles(pairs[v][s]),
         I = {h.index : h \in H}
  PROVE  /\ Whole(Remove(exclusive, I), Doomed(H), ps)
         /\ Lent(exclusive, world, pairs) => Lent(Remove(exclusive, I), Doomed(H), ps)
<1> DEFINE e == Remove(exclusive, I)
           w == Doomed(H)
<1>1. DOMAIN e = DOMAIN exclusive \ I /\ \A i \in DOMAIN e : e[i] = exclusive[i]
  BY DEF Remove, Restrict
<1>2. \A i \in Index : w[i].kind = "clone" =>
        /\ w[i] = world[i]
        /\ \A h \in H : h.index = i => ~Resolves(h)
  BY DoomedKeeps
<1>3. \A i \in Index : i \notin I => w[i] = world[i]
  BY DoomedKeeps
<1> HIDE DEF e, w
<1>4. ASSUME NEW i \in Index, w[i].kind = "clone"
      PROVE  /\ w[i].viewer \in Viewers
             /\ \E s \in Slot : /\ Active(ps[w[i].viewer][s])
                                /\ [index |-> i, serial |-> w[i].serial] \in Handles(ps[w[i].viewer][s])
  <2> DEFINE k == [index |-> i, serial |-> world[i].serial]
             v == world[i].viewer
  <2>1. w[i] = world[i] /\ v \in Viewers /\ \A h \in H : h.index = i => ~Resolves(h)
    BY <1>2, <1>4 DEF Whole
  <2>2. PICK s \in Slot : Active(pairs[v][s]) /\ k \in Handles(pairs[v][s])
    BY <1>4, <2>1 DEF Whole
  <2>3. k.index = i /\ Resolves(k)
    BY ResolvesIf
  <2>4. k \notin H
    BY <2>1, <2>3
  <2>5. s \notin gone[v]
    BY <2>1, <2>2, <2>4
  <2> QED
    BY <2>1, <2>2, <2>5
<1>5. ASSUME NEW i \in DOMAIN e
      PROVE  \E v \in Viewers, s \in Slot : Active(ps[v][s]) /\ i \in IndicesOf(ps[v][s])
  <2>1. PICK v \in Viewers, s \in Slot : Active(pairs[v][s]) /\ i \in IndicesOf(pairs[v][s])
    BY <1>1 DEF Whole
  <2>2. s \notin gone[v]
    BY <1>1, <2>1 DEF IndicesOf
  <2> QED
    BY <2>1, <2>2
<1>6. Whole(e, w, ps)
  BY <1>4, <1>5 DEF Whole
<1>7. ASSUME Lent(exclusive, world, pairs)
      PROVE  Lent(e, w, ps)
  <2>1. \A v \in Viewers, s \in Slot : Active(ps[v][s]) => s \notin gone[v] /\ ps[v][s] = pairs[v][s]
    OBVIOUS
  <2>2. ASSUME NEW v \in Viewers, NEW s \in Slot, Active(ps[v][s]), NEW h \in Handles(ps[v][s])
        PROVE  /\ h.index \in Index
               /\ w[h.index] = [serial |-> h.serial, kind |-> "clone", viewer |-> v]
    <3>1. h.index \in Index /\ world[h.index] = [serial |-> h.serial, kind |-> "clone", viewer |-> v]
      BY <1>7, <2>1, <2>2 DEF Lent, Living
    <3>2. ASSUME h.index \in I
          PROVE  FALSE
      <4>1. PICK k \in H : k.index = h.index
        BY <3>2
      <4>2. PICK u \in Viewers, t \in Slot :
              t \in gone[u] /\ Active(pairs[u][t]) /\ k \in Handles(pairs[u][t])
        OBVIOUS
      <4>3. h.index \in IndicesOf(pairs[u][t]) \cap IndicesOf(pairs[v][s])
        BY <2>1, <2>2, <4>1, <4>2 DEF IndicesOf
      <4>4. v = u /\ s = t
        BY <1>7, <2>1, <2>2, <4>2, <4>3 DEF Lent, Apart
      <4> QED
        BY <2>1, <2>2, <4>2, <4>4
    <3> QED
      BY <1>3, <3>1, <3>2
  <2>3. ASSUME NEW v \in Viewers, NEW u \in Viewers, NEW s \in Slot, NEW t \in Slot,
               Active(ps[v][s]), Active(ps[u][t]), IndicesOf(ps[v][s]) \cap IndicesOf(ps[u][t]) # {}
        PROVE  v = u /\ s = t
    <3>1. Active(pairs[v][s]) /\ Active(pairs[u][t])
      BY <2>1, <2>3
    <3>2. IndicesOf(pairs[v][s]) \cap IndicesOf(pairs[u][t]) # {}
      BY <2>1, <2>3
    <3>3. Apart(pairs)
      BY <1>7 DEF Lent
    <3> QED
      BY ONLY <3>1, <3>2, <3>3 DEF Apart
  <2>4. ASSUME NEW i \in Index, w[i].kind = "clone"
        PROVE  i \in DOMAIN e /\ e[i] = w[i].viewer
    <3>1. w[i] = world[i] /\ \A h \in H : h.index = i => ~Resolves(h)
      BY <1>2, <2>4
    <3>2. i \in DOMAIN exclusive /\ exclusive[i] = world[i].viewer
      BY <1>7, <2>4, <3>1 DEF Lent, Private
    <3>3. ASSUME NEW h \in H, h.index = i
          PROVE  FALSE
      <4>1. PICK v \in Viewers, s \in Slot : Active(pairs[v][s]) /\ h \in Handles(pairs[v][s])
        OBVIOUS
      <4>2. world[h.index].serial = h.serial
        <5>1. world[h.index] = [serial |-> h.serial, kind |-> "clone", viewer |-> v]
          BY <1>7, <4>1 DEF Lent, Living
        <5> QED
          BY <5>1
      <4> QED
        BY <3>1, <3>3, <4>2, ResolvesIf
    <3> QED
      BY <1>1, <3>1, <3>2, <3>3
  <2>5. ASSUME NEW i \in DOMAIN e
        PROVE  w[i].kind = "clone"
    BY <1>1, <1>3, <1>7 DEF Lent, Private, TypeOK
  <2>6. Living(w, ps)
    BY <2>2 DEF Living
  <2>7. Apart(ps)
    BY <2>3 DEF Apart
  <2>8. Private(e, w)
    BY <2>4, <2>5 DEF Private
  <2> QED
    BY <2>6, <2>7, <2>8 DEF Lent
<1> QED
  BY <1>6, <1>7 DEF e, w

\* CreatePair adds two clones, their entries and the pair that holds them.
LEMMA CreateKeeps ==
  ASSUME NEW e, NEW w \in [Index -> EntityType], NEW ps, NEW qs,
         Whole(e, w, ps), DOMAIN e \subseteq Index,
         NEW viewer \in Viewers, NEW slot \in Slot, ~Active(ps[viewer][slot]),
         NEW relay \in FreeIn(w), NEW glow \in FreeIn(w), relay # glow,
         NEW n \in Nat,
         \A v \in Viewers, s \in Slot : v # viewer \/ s # slot => qs[v][s] = ps[v][s],
         qs[viewer][slot].relay = [index |-> relay, serial |-> n + 1],
         qs[viewer][slot].glow = [index |-> glow, serial |-> n + 2]
  PROVE  LET e2 == SetEntityExclusive(e, {relay, glow}, viewer)
             w2 == Spawned(Spawned(w, relay, viewer, n + 1), glow, viewer, n + 2)
         IN  Whole(e2, w2, qs) /\ (Lent(e, w, ps) => Lent(e2, w2, qs))
<1> DEFINE e2 == SetEntityExclusive(e, {relay, glow}, viewer)
           w2 == Spawned(Spawned(w, relay, viewer, n + 1), glow, viewer, n + 2)
           pair == qs[viewer][slot]
<1>1. relay \in Index /\ glow \in Index /\ w[relay].kind = "free" /\ w[glow].kind = "free"
  BY DEF FreeIn
<1>2. /\ DOMAIN e2 = DOMAIN e \cup {relay, glow}
      /\ \A i \in DOMAIN e2 : e2[i] = IF i \in {relay, glow} THEN viewer ELSE e[i]
  BY DEF SetEntityExclusive
<1>3. /\ w2[relay] = [serial |-> n + 1, kind |-> "clone", viewer |-> viewer]
      /\ w2[glow] = [serial |-> n + 2, kind |-> "clone", viewer |-> viewer]
      /\ \A i \in Index \ {relay, glow} : w2[i] = w[i]
  BY <1>1 DEF Spawned
<1>4. /\ Handles(pair) = {[index |-> relay, serial |-> n + 1], [index |-> glow, serial |-> n + 2]}
      /\ IndicesOf(pair) = {relay, glow}
  <2>1. Handles(pair) = {[index |-> relay, serial |-> n + 1], [index |-> glow, serial |-> n + 2]}
    BY DEF Handles
  <2> QED
    BY <2>1 DEF IndicesOf
<1>5. Active(pair)
  BY DEF Active, NoHandleOf
<1> HIDE DEF e2, w2, pair
<1>6. \A v \in Viewers, s \in Slot : Active(ps[v][s]) => qs[v][s] = ps[v][s]
  OBVIOUS
<1>7. ASSUME NEW i \in Index, w2[i].kind = "clone"
      PROVE  /\ w2[i].viewer \in Viewers
             /\ \E s \in Slot : /\ Active(qs[w2[i].viewer][s])
                                /\ [index |-> i, serial |-> w2[i].serial] \in Handles(qs[w2[i].viewer][s])
  <2>1. CASE i \in {relay, glow}
    BY <1>3, <1>4, <1>5, <2>1 DEF pair
  <2>2. CASE i \notin {relay, glow}
    <3>1. w2[i] = w[i]
      BY <1>3, <2>2
    <3>2. w[i].viewer \in Viewers
      BY <1>7, <3>1 DEF Whole
    <3>3. PICK s \in Slot : /\ Active(ps[w[i].viewer][s])
                            /\ [index |-> i, serial |-> w[i].serial] \in Handles(ps[w[i].viewer][s])
      BY <1>7, <3>1 DEF Whole
    <3>4. qs[w[i].viewer][s] = ps[w[i].viewer][s]
      BY <1>6, <3>2, <3>3
    <3> QED
      BY <3>1, <3>2, <3>3, <3>4
  <2> QED
    BY <2>1, <2>2
<1>8. ASSUME NEW i \in DOMAIN e2
      PROVE  \E v \in Viewers, s \in Slot : Active(qs[v][s]) /\ i \in IndicesOf(qs[v][s])
  <2>1. CASE i \in {relay, glow}
    BY <1>4, <1>5, <2>1 DEF pair
  <2>2. CASE i \in DOMAIN e
    <3>1. PICK v \in Viewers, s \in Slot : Active(ps[v][s]) /\ i \in IndicesOf(ps[v][s])
      BY <2>2 DEF Whole
    <3> QED
      BY <1>6, <3>1
  <2> QED
    BY <1>2, <2>1, <2>2
<1>9. ASSUME Lent(e, w, ps)
      PROVE  Lent(e2, w2, qs)
  <2>1. \A v \in Viewers, s \in Slot : v # viewer \/ s # slot => qs[v][s] = ps[v][s]
    OBVIOUS
  <2>2. ASSUME NEW v \in Viewers, NEW s \in Slot, v # viewer \/ s # slot, Active(ps[v][s]),
               NEW h \in Handles(ps[v][s])
        PROVE  /\ h.index \in Index \ {relay, glow}
               /\ w2[h.index] = [serial |-> h.serial, kind |-> "clone", viewer |-> v]
    <3>1. h.index \in Index /\ w[h.index] = [serial |-> h.serial, kind |-> "clone", viewer |-> v]
      BY <1>9, <2>2 DEF Lent, Living
    <3>2. h.index # relay /\ h.index # glow
      BY <1>1, <3>1
    <3> QED
      BY <1>3, <3>1, <3>2
  <2>3. ASSUME NEW v \in Viewers, NEW s \in Slot, Active(qs[v][s]), NEW h \in Handles(qs[v][s])
        PROVE  h.index \in Index /\ w2[h.index] = [serial |-> h.serial, kind |-> "clone", viewer |-> v]
    <3>1. CASE v = viewer /\ s = slot
      <4>1. h = [index |-> relay, serial |-> n + 1] \/ h = [index |-> glow, serial |-> n + 2]
        BY <1>4, <2>3, <3>1 DEF pair
      <4> QED
        BY <1>1, <1>3, <3>1, <4>1
    <3>2. CASE v # viewer \/ s # slot
      BY <2>1, <2>2, <2>3, <3>2
    <3> QED
      BY <3>1, <3>2
  <2>4. ASSUME NEW v \in Viewers, NEW s \in Slot, v # viewer \/ s # slot, Active(ps[v][s])
        PROVE  IndicesOf(ps[v][s]) \cap {relay, glow} = {}
    <3>1. \A h \in Handles(ps[v][s]) : h.index \in Index \ {relay, glow}
      BY <2>2, <2>4
    <3> QED
      BY <3>1 DEF IndicesOf
  <2>5. ASSUME NEW v \in Viewers, NEW u \in Viewers, NEW s \in Slot, NEW t \in Slot,
               Active(qs[v][s]), Active(qs[u][t]), IndicesOf(qs[v][s]) \cap IndicesOf(qs[u][t]) # {}
        PROVE  v = u /\ s = t
    <3>1. CASE v = viewer /\ s = slot /\ u = viewer /\ t = slot
      BY <3>1
    <3>2. CASE v = viewer /\ s = slot /\ (u # viewer \/ t # slot)
      <4>1. IndicesOf(ps[u][t]) \cap {relay, glow} = {} /\ qs[u][t] = ps[u][t]
        BY <2>1, <2>4, <2>5, <3>2
      <4> QED
        BY <1>4, <2>5, <3>2, <4>1 DEF pair
    <3>3. CASE (v # viewer \/ s # slot) /\ u = viewer /\ t = slot
      <4>1. IndicesOf(ps[v][s]) \cap {relay, glow} = {} /\ qs[v][s] = ps[v][s]
        BY <2>1, <2>4, <2>5, <3>3
      <4> QED
        BY <1>4, <2>5, <3>3, <4>1 DEF pair
    <3>4. CASE (v # viewer \/ s # slot) /\ (u # viewer \/ t # slot)
      <4>1. qs[v][s] = ps[v][s] /\ qs[u][t] = ps[u][t]
        BY <2>1, <3>4
      <4>2. Apart(ps)
        BY <1>9 DEF Lent
      <4> QED
        BY <2>5, <4>1, <4>2 DEF Apart
    <3> QED
      BY <3>1, <3>2, <3>3, <3>4
  <2>6. ASSUME NEW i \in Index, w2[i].kind = "clone"
        PROVE  i \in DOMAIN e2 /\ e2[i] = w2[i].viewer
    <3>1. CASE i \in {relay, glow}
      BY <1>2, <1>3, <3>1
    <3>2. CASE i \notin {relay, glow}
      BY <1>2, <1>3, <1>9, <2>6, <3>2 DEF Lent, Private
    <3> QED
      BY <3>1, <3>2
  <2>7. ASSUME NEW i \in DOMAIN e2
        PROVE  w2[i].kind = "clone"
    <3>1. CASE i \in {relay, glow}
      BY <1>3, <3>1
    <3>2. CASE i \notin {relay, glow}
      BY <1>2, <1>3, <1>9, <3>2 DEF Lent, Private
    <3> QED
      BY <3>1, <3>2
  <2>8. Living(w2, qs)
    BY <2>3 DEF Living
  <2>9. Apart(qs)
    BY <2>5 DEF Apart
  <2>10. Private(e2, w2)
    BY <2>6, <2>7 DEF Private
  <2> QED
    BY <2>8, <2>9, <2>10 DEF Lent
<1> QED
  BY <1>7, <1>8, <1>9 DEF Whole, e2, w2

\* Writing entities that are free, or making others doomed, harms nothing.
LEMMA FreeKeeps ==
  ASSUME NEW e, NEW w \in [Index -> EntityType], NEW ps, NEW w2,
         Whole(e, w, ps), DOMAIN e \subseteq Index,
         \A i \in Index : w[i].kind = "clone" => w2[i] = w[i],
         \A i \in Index : w2[i].kind = "clone" => w[i].kind = "clone"
  PROVE  Whole(e, w2, ps) /\ (Lent(e, w, ps) => Lent(e, w2, ps))
<1>1. \A i \in Index : w2[i].kind = "clone" => w[i].kind = "clone" /\ w2[i] = w[i]
  OBVIOUS
<1>2. Whole(e, w2, ps)
  BY <1>1 DEF Whole
<1>3. ASSUME Lent(e, w, ps)
      PROVE  Lent(e, w2, ps)
  <2>1. Living(w2, ps)
    <3>1. \A v \in Viewers, s \in Slot : Active(ps[v][s]) =>
            \A h \in Handles(ps[v][s]) :
              /\ h.index \in Index
              /\ w[h.index] = [serial |-> h.serial, kind |-> "clone", viewer |-> v]
              /\ w[h.index].kind = "clone"
      BY <1>3 DEF Lent, Living
    <3> QED
      BY <3>1 DEF Living
  <2>2. Private(e, w2)
    BY <1>1, <1>3 DEF Lent, Private
  <2> QED
    BY <1>3, <2>1, <2>2 DEF Lent
<1> QED
  BY <1>2, <1>3

\* Pairs that are not active do not count.
LEMMA InactiveKeeps ==
  ASSUME NEW e, NEW w, NEW ps, NEW qs, Whole(e, w, ps),
         \A v \in Viewers, s \in Slot : Active(ps[v][s]) \/ Active(qs[v][s]) => qs[v][s] = ps[v][s]
  PROVE  Whole(e, w, qs) /\ (Lent(e, w, ps) => Lent(e, w, qs))
<1>1. Whole(e, w, qs)
  <2>1. \A v \in Viewers, s \in Slot : Active(ps[v][s]) => Active(qs[v][s]) /\ qs[v][s] = ps[v][s]
    OBVIOUS
  <2>2. ASSUME NEW i \in Index, w[i].kind = "clone"
        PROVE  /\ w[i].viewer \in Viewers
               /\ \E s \in Slot : /\ Active(qs[w[i].viewer][s])
                                  /\ [index |-> i, serial |-> w[i].serial] \in Handles(qs[w[i].viewer][s])
    <3>1. w[i].viewer \in Viewers
      BY <2>2 DEF Whole
    <3>2. PICK s \in Slot : /\ Active(ps[w[i].viewer][s])
                            /\ [index |-> i, serial |-> w[i].serial] \in Handles(ps[w[i].viewer][s])
      BY <2>2 DEF Whole
    <3> QED
      BY <2>1, <3>1, <3>2
  <2>3. \A i \in DOMAIN e :
          \E v \in Viewers, s \in Slot : Active(qs[v][s]) /\ i \in IndicesOf(qs[v][s])
    BY <2>1 DEF Whole
  <2> QED
    BY <2>2, <2>3 DEF Whole
<1>2. ASSUME Lent(e, w, ps)
      PROVE  Lent(e, w, qs)
  <2>1. \A v \in Viewers, s \in Slot : Active(qs[v][s]) => Active(ps[v][s]) /\ qs[v][s] = ps[v][s]
    OBVIOUS
  <2>2. Living(w, qs)
    BY <1>2, <2>1 DEF Lent, Living
  <2>3. Apart(qs)
    <3>1. Apart(ps)
      BY <1>2 DEF Lent
    <3> QED
      BY <2>1, <3>1 DEF Apart
  <2> QED
    BY <1>2, <2>2, <2>3 DEF Lent
<1> QED
  BY <1>1, <1>2

\* Entries that go without their entities harm nothing if there are none.
LEMMA DropKeeps ==
  ASSUME NEW e, NEW w, NEW ps, NEW J, Whole(e, w, ps), Lent(e, w, ps) => J \cap DOMAIN e = {}
  PROVE  Whole(Remove(e, J), w, ps) /\ (Lent(e, w, ps) => Lent(Remove(e, J), w, ps))
<1> DEFINE r == Remove(e, J)
<1>1. DOMAIN r = DOMAIN e \ J /\ \A i \in DOMAIN r : r[i] = e[i]
  BY DEF Remove, Restrict
<1> HIDE DEF r
<1>2. Whole(r, w, ps)
  BY <1>1 DEF Whole
<1>3. ASSUME Lent(e, w, ps)
      PROVE  Lent(r, w, ps)
  BY <1>1, <1>3 DEF Lent, Private
<1> QED
  BY <1>2, <1>3 DEF r

\* Entries that are removed leave a filter that is well typed.
EntriesTyped(e) == DOMAIN e \subseteq Index /\ \A i \in DOMAIN e : e[i] \in Slot

LEMMA RemoveTyped ==
  ASSUME NEW e, EntriesTyped(e), NEW J
  PROVE  EntriesTyped(Remove(e, J))
BY DEF EntriesTyped, Remove, Restrict

\* All pairs of a viewer are destroyed, the others stay.
LEMMA RemainingKeeps ==
  ASSUME TypeOK, Whole(exclusive, world, pairs), NEW viewer \in Viewers, NEW ps,
         \A v \in Viewers, s \in Slot : ps[v][s] = IF v = viewer THEN NoPair ELSE pairs[v][s]
  PROVE  /\ Whole(Remaining(viewer).entries, Remaining(viewer).world, ps)
         /\ Lent(exclusive, world, pairs) =>
              Lent(Remaining(viewer).entries, Remaining(viewer).world, ps)
         /\ EntriesTyped(Remaining(viewer).entries)
         /\ Remaining(viewer).world \in [Index -> EntityType]
<1> DEFINE here == {pairs[viewer][s] : s \in {t \in Slot : Active(pairs[viewer][t])}}
           H == UNION {Handles(p) : p \in here}
           I == {h.index : h \in H}
           gone == [v \in Viewers |-> IF v = viewer THEN Slot ELSE {}]
<1>1. UNION {IndicesOf(p) : p \in here} = I
  BY DEF IndicesOf
<1>2. Remaining(viewer).entries = Remove(exclusive, I) /\ Remaining(viewer).world = Doomed(H)
  BY <1>1 DEF Remaining, ClearEntityExclusive
<1>3. gone \in [Viewers -> SUBSET Slot]
  OBVIOUS
<1>4. ~Active(NoPair)
  BY DEF Active, NoPair
<1>5. \A v \in Viewers, s \in Slot :
        IF s \in gone[v] THEN ~Active(ps[v][s]) ELSE ps[v][s] = pairs[v][s]
  BY <1>4
<1>6. \A v \in Viewers, s \in Slot : s \in gone[v] /\ Active(pairs[v][s]) => Handles(pairs[v][s]) \subseteq H
  OBVIOUS
<1>7. \A h \in H : \E v \in Viewers, s \in Slot :
        s \in gone[v] /\ Active(pairs[v][s]) /\ h \in Handles(pairs[v][s])
  OBVIOUS
<1>8. EntriesTyped(exclusive)
  BY DEF TypeOK, EntriesTyped
<1>9. Doomed(H) \in [Index -> EntityType] /\ EntriesTyped(Remove(exclusive, I))
  BY <1>8, DoomedKeeps, RemoveTyped
<1>10. I = {h.index : h \in H}
  OBVIOUS
<1> HIDE DEF H, I, gone
<1>11. /\ Whole(Remove(exclusive, I), Doomed(H), ps)
       /\ Lent(exclusive, world, pairs) => Lent(Remove(exclusive, I), Doomed(H), ps)
  BY ONLY TypeOK, Whole(exclusive, world, pairs), <1>3, <1>5, <1>6, <1>7, <1>10, DestroyKeeps
<1> QED
  BY <1>2, <1>9, <1>11

\* The turn of a slot whose pair is stale or missing leaves no pair behind.
LEMMA BaseKeeps ==
  ASSUME TypeOK, Whole(exclusive, world, pairs), NEW viewer \in Viewers, NEW slot \in Slot,
         Stale(viewer, slot) \/ ~Active(pairs[viewer][slot]), NEW ps,
         \A v \in Viewers, s \in Slot :
           ps[v][s] = IF v = viewer /\ s = slot THEN NoPair ELSE pairs[v][s]
  PROVE  /\ Whole(Base(viewer, slot).entries, Base(viewer, slot).world, ps)
         /\ Lent(exclusive, world, pairs) =>
              Lent(Base(viewer, slot).entries, Base(viewer, slot).world, ps)
         /\ EntriesTyped(Base(viewer, slot).entries)
         /\ Base(viewer, slot).world \in [Index -> EntityType]
<1>1. ~Active(NoPair)
  BY DEF Active, NoPair
<1>2. EntriesTyped(exclusive) /\ world \in [Index -> EntityType]
  BY DEF TypeOK, EntriesTyped
<1>3. CASE Stale(viewer, slot)
  <2> DEFINE H == Handles(pairs[viewer][slot])
             I == {h.index : h \in H}
             gone == [v \in Viewers |-> IF v = viewer THEN {slot} ELSE {}]
  <2>1. Base(viewer, slot).entries = Remove(exclusive, I) /\ Base(viewer, slot).world = Doomed(H)
    BY <1>3 DEF Base, DestroyPair, ClearEntityExclusive, IndicesOf
  <2>2. Active(pairs[viewer][slot])
    BY <1>3 DEF Stale
  <2>3. gone \in [Viewers -> SUBSET Slot]
    OBVIOUS
  <2>4. \A v \in Viewers, s \in Slot :
          IF s \in gone[v] THEN ~Active(ps[v][s]) ELSE ps[v][s] = pairs[v][s]
    BY <1>1
  <2>5. \A v \in Viewers, s \in Slot :
          s \in gone[v] /\ Active(pairs[v][s]) => Handles(pairs[v][s]) \subseteq H
    OBVIOUS
  <2>6. \A h \in H : \E v \in Viewers, s \in Slot :
          s \in gone[v] /\ Active(pairs[v][s]) /\ h \in Handles(pairs[v][s])
    BY <2>2
  <2>7. Doomed(H) \in [Index -> EntityType] /\ EntriesTyped(Remove(exclusive, I))
    BY <1>2, DoomedKeeps, RemoveTyped
  <2>8. I = {h.index : h \in H}
    OBVIOUS
  <2> HIDE DEF H, I, gone
  <2>9. /\ Whole(Remove(exclusive, I), Doomed(H), ps)
        /\ Lent(exclusive, world, pairs) => Lent(Remove(exclusive, I), Doomed(H), ps)
    BY ONLY TypeOK, Whole(exclusive, world, pairs), <2>3, <2>4, <2>5, <2>6, <2>8, DestroyKeeps
  <2> QED
    BY <2>1, <2>7, <2>9
<1>4. CASE ~Stale(viewer, slot)
  <2>1. Base(viewer, slot).entries = exclusive /\ Base(viewer, slot).world = world
    BY <1>4 DEF Base
  <2>2. \A v \in Viewers, s \in Slot :
          Active(pairs[v][s]) \/ Active(ps[v][s]) => ps[v][s] = pairs[v][s]
    BY <1>1, <1>4
  <2>3. /\ Whole(exclusive, world, ps)
        /\ Lent(exclusive, world, pairs) => Lent(exclusive, world, ps)
    BY <2>2, InactiveKeeps
  <2> QED
    BY <1>2, <2>1, <2>3
<1> QED
  BY <1>3, <1>4

-----------------------------------------------------------------------------
(* Every step keeps the invariant.                                         *)

PairType == [relay : HandleType, glow : HandleType, look : Looks \cup {"none"}]

\* The pair that CreatePair remembers, and none, are pairs.
LEMMA PairTyped ==
  ASSUME TypeOK, NEW viewer \in Viewers, NEW slot \in Slot, NEW pair \in PairType
  PROVE  [pairs EXCEPT ![viewer][slot] = pair] \in [Viewers -> [Slot -> PairType]]
BY DEF TypeOK, PairType

LEMMA NoPairTyped == NoPair \in PairType
BY SpawnsAssumption DEF NoPair, PairType, HandleType, NoHandleOf

\* A turn with something to create.
LEMMA RefreshStep ==
  ASSUME Inv, Refresh
  PROVE  Inv'
<1> DEFINE viewer == turn.viewer
           slot == turn.slot
           base == Base(viewer, slot)
           none == [pairs EXCEPT ![viewer][slot] = NoPair]
<1>1. /\ TypeOK /\ CountInv /\ Whole(exclusive, world, pairs)
      /\ ~restarted => Lent(exclusive, world, pairs)
  BY DEF Inv
<1>2. /\ viewer \in Viewers /\ slot \in Slot
      /\ Stale(viewer, slot) \/ ~Active(pairs[viewer][slot])
      /\ turn' = NextTurn /\ UNCHANGED <<flags, look, restarted>>
  BY <1>1 DEF Refresh, Calm, TypeOK
<1>3. turn' = NoTurn \/ (turn'.viewer \in Viewers /\ turn'.slot \in Slot)
  <2>1. CASE turn.slot = Slots - 1
    BY <1>2, <2>1 DEF NextTurn
  <2>2. CASE turn.slot # Slots - 1
    <3>1. turn' = [turn EXCEPT !.slot = @ + 1]
      BY <1>2, <2>2 DEF NextTurn
    <3>2. turn.slot + 1 \in Slot
      BY <1>2, <2>2, SlotsAssumption DEF Slot
    <3>3. turn'.viewer = turn.viewer /\ (turn'.slot = turn.slot + 1 \/ turn'.slot = turn.slot)
      BY <3>1
    <3> QED
      BY <1>2, <3>2, <3>3
  <2> QED
    BY <2>1, <2>2
<1>4. \A v \in Viewers, s \in Slot :
        none[v][s] = IF v = viewer /\ s = slot THEN NoPair ELSE pairs[v][s]
  BY <1>1, <1>2 DEF TypeOK
<1> HIDE DEF none
<1>5. /\ Whole(base.entries, base.world, none)
      /\ ~restarted => Lent(base.entries, base.world, none)
      /\ EntriesTyped(base.entries) /\ base.world \in [Index -> EntityType]
  BY <1>1, <1>2, <1>4, BaseKeeps
<1> SUFFICES /\ EntriesTyped(exclusive') /\ pairs' \in [Viewers -> [Slot -> PairType]]
             /\ world' \in [Index -> EntityType] /\ spawned' \in 0 .. MaxSpawns
             /\ Whole(exclusive', world', pairs')
             /\ ~restarted => Lent(exclusive', world', pairs')
  BY <1>1, <1>2, <1>3 DEF Inv, TypeOK, CountInv, EntriesTyped, PairType
<1> HIDE DEF base, viewer, slot
<1>6. ASSUME NEW relay \in Index, NEW glow \in Index, CreatePair(base, viewer, slot, relay, glow)
      PROVE  /\ EntriesTyped(exclusive') /\ pairs' \in [Viewers -> [Slot -> PairType]]
             /\ world' \in [Index -> EntityType] /\ spawned' \in 0 .. MaxSpawns
             /\ Whole(exclusive', world', pairs')
             /\ ~restarted => Lent(exclusive', world', pairs')
  <2> DEFINE pair == [relay |-> [index |-> relay, serial |-> spawned + 1],
                      glow |-> [index |-> glow, serial |-> spawned + 2], look |-> look[slot]]
  <2>1. /\ spawned \in Nat /\ spawned + 2 \in 0 .. MaxSpawns /\ spawned + 1 \in 0 .. MaxSpawns
    BY <1>1, <1>6, SpawnsAssumption DEF CreatePair, TypeOK
  <2>2. pair \in PairType
    BY <1>1, <1>2, <2>1 DEF PairType, HandleType, TypeOK, slot
  <2>3. pairs' = [pairs EXCEPT ![viewer][slot] = pair]
    BY <1>6 DEF CreatePair
  <2>4. pairs' \in [Viewers -> [Slot -> PairType]]
    BY <1>1, <1>2, <2>2, <2>3, PairTyped DEF viewer, slot
  <2>5. \A v \in Viewers, s \in Slot :
          pairs'[v][s] = IF v = viewer /\ s = slot THEN pair ELSE pairs[v][s]
    <3>1. TypeOK /\ viewer \in Viewers /\ slot \in Slot
      BY <1>1, <1>2 DEF viewer, slot
    <3> HIDE DEF pair
    <3> QED
      BY <3>1, <2>3, PairSet
  <2>6. /\ ~Active(none[viewer][slot]) /\ viewer \in Viewers /\ slot \in Slot
        /\ \A v \in Viewers, s \in Slot : v # viewer \/ s # slot => pairs'[v][s] = none[v][s]
        /\ pairs'[viewer][slot].relay = [index |-> relay, serial |-> spawned + 1]
        /\ pairs'[viewer][slot].glow = [index |-> glow, serial |-> spawned + 2]
    BY <1>2, <1>4, <2>5 DEF viewer, slot, Active, NoPair
  <2>7. /\ relay \in FreeIn(base.world) /\ glow \in FreeIn(base.world) /\ relay # glow
        /\ world' = Spawned(Spawned(base.world, relay, viewer, spawned + 1), glow, viewer, spawned + 2)
        /\ exclusive' = SetEntityExclusive(base.entries, {relay, glow}, viewer)
        /\ spawned' = spawned + 2
    BY <1>6 DEF CreatePair
  <2>8. DOMAIN base.entries \subseteq Index
    BY <1>5 DEF EntriesTyped
  <2>9. /\ Whole(exclusive', world', pairs')
        /\ Lent(base.entries, base.world, none) => Lent(exclusive', world', pairs')
    <3> DEFINE e == base.entries
               w == base.world
    <3>1. /\ w \in [Index -> EntityType] /\ Whole(e, w, none) /\ DOMAIN e \subseteq Index
          /\ viewer \in Viewers /\ slot \in Slot /\ ~Active(none[viewer][slot])
          /\ relay \in FreeIn(w) /\ glow \in FreeIn(w) /\ relay # glow /\ spawned \in Nat
      BY <1>5, <2>1, <2>6, <2>7, <2>8
    <3>2. /\ world' = Spawned(Spawned(w, relay, viewer, spawned + 1), glow, viewer, spawned + 2)
          /\ exclusive' = SetEntityExclusive(e, {relay, glow}, viewer)
      BY <2>7
    <3> HIDE DEF e, w
    <3>3. LET e2 == SetEntityExclusive(e, {relay, glow}, viewer)
              w2 == Spawned(Spawned(w, relay, viewer, spawned + 1), glow, viewer, spawned + 2)
          IN  Whole(e2, w2, pairs') /\ (Lent(e, w, none) => Lent(e2, w2, pairs'))
      BY ONLY <2>6, <3>1, CreateKeeps
    <3> QED
      BY <3>2, <3>3 DEF e, w
  <2>10. viewer \in Slot
    BY <2>6, SlotsAssumption
  <2>11. EntriesTyped(exclusive')
    BY <1>5, <2>7, <2>10 DEF EntriesTyped, SetEntityExclusive
  <2>12. world' \in [Index -> EntityType]
    <3>1. /\ [serial |-> spawned + 1, kind |-> "clone", viewer |-> viewer] \in EntityType
          /\ [serial |-> spawned + 2, kind |-> "clone", viewer |-> viewer] \in EntityType
      BY <2>1, <2>6 DEF EntityType
    <3> QED
      BY <1>5, <2>7, <3>1 DEF Spawned
  <2> QED
    BY <1>5, <2>1, <2>4, <2>7, <2>9, <2>11, <2>12
<1>7. ASSUME CreateFails(base, viewer, slot)
      PROVE  /\ EntriesTyped(exclusive') /\ pairs' \in [Viewers -> [Slot -> PairType]]
             /\ world' \in [Index -> EntityType] /\ spawned' \in 0 .. MaxSpawns
             /\ Whole(exclusive', world', pairs')
             /\ ~restarted => Lent(exclusive', world', pairs')
  <2>1. exclusive' = base.entries /\ pairs' = none
    BY <1>7 DEF CreateFails, none
  <2>2. none \in [Viewers -> [Slot -> PairType]]
    BY <1>1, <1>2, PairTyped, NoPairTyped DEF none, viewer, slot
  <2>3. CASE world' = base.world /\ UNCHANGED spawned
    BY <1>1, <1>5, <2>1, <2>2, <2>3 DEF TypeOK
  <2>4. ASSUME NEW relay \in FreeIn(base.world), spawned < MaxSpawns, spawned' = spawned + 1,
               world' = [base.world EXCEPT ![relay] =
                           [serial |-> spawned + 1, kind |-> "doomed", viewer |-> viewer]]
        PROVE  /\ world' \in [Index -> EntityType] /\ spawned' \in 0 .. MaxSpawns
               /\ Whole(base.entries, world', none)
               /\ ~restarted => Lent(base.entries, world', none)
    <3>1. spawned' \in 0 .. MaxSpawns /\ relay \in Index /\ base.world[relay].kind = "free"
      BY <1>1, <2>4, SpawnsAssumption DEF TypeOK, FreeIn
    <3>2. [serial |-> spawned + 1, kind |-> "doomed", viewer |-> viewer] \in EntityType
      BY <1>2, <2>4, <3>1 DEF EntityType, viewer
    <3>3. world' \in [Index -> EntityType]
      BY <1>5, <2>4, <3>1, <3>2
    <3>4. /\ \A i \in Index : base.world[i].kind = "clone" => world'[i] = base.world[i]
          /\ \A i \in Index : world'[i].kind = "clone" => base.world[i].kind = "clone"
      BY <1>5, <2>4, <3>1
    <3>5. DOMAIN base.entries \subseteq Index
      BY <1>5 DEF EntriesTyped
    <3> QED
      BY <1>5, <3>1, <3>3, <3>4, <3>5, FreeKeeps
  <2> QED
    BY <1>5, <1>7, <2>1, <2>2, <2>3, <2>4 DEF CreateFails
<1> QED
  BY <1>6, <1>7 DEF Refresh, base, viewer, slot

\* A turn with nothing to create.
LEMMA SettleStep ==
  ASSUME Inv, Settle
  PROVE  Inv'
<1> DEFINE viewer == turn.viewer
           slot == turn.slot
           base == Base(viewer, slot)
           none == [pairs EXCEPT ![viewer][slot] = NoPair]
<1>1. /\ TypeOK /\ CountInv /\ Whole(exclusive, world, pairs)
      /\ ~restarted => Lent(exclusive, world, pairs)
  BY DEF Inv
<1>2. /\ viewer \in Viewers /\ slot \in Slot
      /\ exclusive' = base.entries /\ world' = base.world
      /\ turn' = NextTurn /\ UNCHANGED <<flags, spawned, look, restarted>>
  BY <1>1 DEF Settle, Calm, TypeOK
<1>3. turn' = NoTurn \/ (turn'.viewer \in Viewers /\ turn'.slot \in Slot)
  <2>1. CASE turn.slot = Slots - 1
    BY <1>2, <2>1 DEF NextTurn
  <2>2. CASE turn.slot # Slots - 1
    <3>1. turn' = [turn EXCEPT !.slot = @ + 1]
      BY <1>2, <2>2 DEF NextTurn
    <3>2. turn.slot + 1 \in Slot
      BY <1>2, <2>2, SlotsAssumption DEF Slot
    <3>3. turn'.viewer = turn.viewer /\ (turn'.slot = turn.slot + 1 \/ turn'.slot = turn.slot)
      BY <3>1
    <3> QED
      BY <1>2, <3>2, <3>3
  <2> QED
    BY <2>1, <2>2
<1> SUFFICES /\ EntriesTyped(exclusive') /\ pairs' \in [Viewers -> [Slot -> PairType]]
             /\ world' \in [Index -> EntityType]
             /\ Whole(exclusive', world', pairs')
             /\ ~restarted => Lent(exclusive', world', pairs')
  BY <1>1, <1>2, <1>3 DEF Inv, TypeOK, CountInv, EntriesTyped, PairType
<1>4. CASE Stale(viewer, slot)
  <2>1. \A v \in Viewers, s \in Slot :
          none[v][s] = IF v = viewer /\ s = slot THEN NoPair ELSE pairs[v][s]
    BY <1>1, <1>2 DEF TypeOK
  <2>2. pairs' = none
    BY <1>4 DEF Settle
  <2>3. none \in [Viewers -> [Slot -> PairType]]
    BY <1>1, <1>2, PairTyped, NoPairTyped
  <2> HIDE DEF none
  <2>4. /\ Whole(base.entries, base.world, none)
        /\ ~restarted => Lent(base.entries, base.world, none)
        /\ EntriesTyped(base.entries) /\ base.world \in [Index -> EntityType]
    BY <1>1, <1>2, <1>4, <2>1, BaseKeeps
  <2> QED
    BY <1>2, <2>2, <2>3, <2>4
<1>5. CASE ~Stale(viewer, slot)
  <2>1. pairs' = pairs /\ base.entries = exclusive /\ base.world = world
    BY <1>5 DEF Settle, Base
  <2> QED
    BY <1>1, <1>2, <2>1 DEF TypeOK, EntriesTyped, PairType
<1> QED
  BY <1>4, <1>5

\* A vision ends.
LEMMA DestroyStep ==
  ASSUME Inv, NEW viewer \in Viewers, Destroy(viewer)
  PROVE  Inv'
<1>1. /\ TypeOK /\ CountInv /\ Whole(exclusive, world, pairs)
      /\ ~restarted => Lent(exclusive, world, pairs)
  BY DEF Inv
<1>2. /\ exclusive' = Remaining(viewer).entries /\ world' = Remaining(viewer).world
      /\ pairs' = [pairs EXCEPT ![viewer] = [s \in Slot |-> NoPair]]
      /\ UNCHANGED <<flags, turn, spawned, look, restarted>>
  BY DEF Destroy
<1>3. \A v \in Viewers, s \in Slot : pairs'[v][s] = IF v = viewer THEN NoPair ELSE pairs[v][s]
  BY <1>1, <1>2 DEF TypeOK
<1>4. pairs' \in [Viewers -> [Slot -> PairType]]
  BY <1>1, <1>2, NoPairTyped DEF TypeOK, PairType
<1>5. /\ Whole(exclusive', world', pairs')
      /\ ~restarted => Lent(exclusive', world', pairs')
      /\ EntriesTyped(exclusive') /\ world' \in [Index -> EntityType]
  <2>1. /\ Whole(Remaining(viewer).entries, Remaining(viewer).world, pairs')
        /\ Lent(exclusive, world, pairs) =>
             Lent(Remaining(viewer).entries, Remaining(viewer).world, pairs')
        /\ EntriesTyped(Remaining(viewer).entries)
        /\ Remaining(viewer).world \in [Index -> EntityType]
    BY ONLY <1>1, <1>3, RemainingKeeps, viewer \in Viewers
  <2> QED
    BY <1>1, <1>2, <2>1
<1> QED
  BY <1>1, <1>2, <1>4, <1>5 DEF Inv, TypeOK, CountInv, EntriesTyped, PairType

\* A player leaves: flags, vision and entries in his favour go.
LEMMA DisconnectStep ==
  ASSUME Inv, NEW slot \in Slot, OnPlayerDisconnect(slot)
  PROVE  Inv'
<1> DEFINE after == IF slot \in Viewers THEN Remaining(slot)
                    ELSE [entries |-> exclusive, world |-> world]
           J == {i \in DOMAIN after.entries : after.entries[i] = slot}
<1>1. /\ TypeOK /\ CountInv /\ Whole(exclusive, world, pairs)
      /\ ~restarted => Lent(exclusive, world, pairs)
  BY DEF Inv
<1>2. /\ flags' = SetFlag(SetFlag(flags, "pawn", slot, FALSE), "controller", slot, FALSE)
      /\ exclusive' = Remove(after.entries, J) /\ world' = after.world
      /\ pairs' = [v \in Viewers |-> IF v = slot THEN [s \in Slot |-> NoPair] ELSE pairs[v]]
      /\ look' = [look EXCEPT ![slot] = "none"]
      /\ UNCHANGED <<turn, spawned, restarted>>
  BY DEF OnPlayerDisconnect
<1>3. \A v \in Viewers, s \in Slot : pairs'[v][s] = IF v = slot THEN NoPair ELSE pairs[v][s]
  BY <1>2
<1>4. pairs' \in [Viewers -> [Slot -> PairType]]
  BY <1>1, <1>2, NoPairTyped DEF TypeOK, PairType
<1>5. /\ Whole(after.entries, after.world, pairs')
      /\ ~restarted => Lent(after.entries, after.world, pairs')
      /\ EntriesTyped(after.entries) /\ after.world \in [Index -> EntityType]
  <2>1. CASE slot \in Viewers
    BY <1>1, <1>3, <2>1, RemainingKeeps
  <2>2. CASE slot \notin Viewers
    <3>1. \A v \in Viewers, s \in Slot : pairs'[v][s] = pairs[v][s]
      BY <1>3, <2>2
    <3>2. /\ Whole(exclusive, world, pairs')
          /\ Lent(exclusive, world, pairs) => Lent(exclusive, world, pairs')
      BY <1>1, <3>1, InactiveKeeps
    <3>3. EntriesTyped(exclusive) /\ world \in [Index -> EntityType]
      BY <1>1 DEF TypeOK, EntriesTyped
    <3> QED
      BY <1>1, <2>2, <3>2, <3>3
  <2> QED
    BY <2>1, <2>2
<1> HIDE DEF after
<1>6. Lent(after.entries, after.world, pairs') => J \cap DOMAIN after.entries = {}
  <2> SUFFICES ASSUME Lent(after.entries, after.world, pairs'), NEW i \in DOMAIN after.entries,
                      after.entries[i] = slot
               PROVE  FALSE
    OBVIOUS
  <2>1. i \in Index
    BY <1>5 DEF EntriesTyped
  <2>2. after.world[i].kind = "clone" /\ after.world[i].viewer = slot
    BY <2>1 DEF Lent, Private
  <2>3. slot \in Viewers /\ \E s \in Slot : Active(pairs'[slot][s])
    BY <1>5, <2>1, <2>2 DEF Whole
  <2> QED
    BY <1>3, <2>3 DEF Active, NoPair
<1> HIDE DEF J
<1>7. /\ Whole(exclusive', world', pairs')
      /\ ~restarted => Lent(exclusive', world', pairs')
  BY <1>2, <1>5, <1>6, DropKeeps
<1>8. EntriesTyped(exclusive') /\ world' \in [Index -> EntityType]
  BY <1>2, <1>5, RemoveTyped
<1>9. flags' \in FlagsType /\ flags'.count = Cardinality(Flagged(flags'))
  <2>1. flags \in FlagsType /\ flags.count = Cardinality(Flagged(flags))
    BY <1>1 DEF TypeOK, FlagsType, CountInv
  <2>2. FALSE \in BOOLEAN /\ "pawn" \in {"pawn", "controller"} /\ "controller" \in {"pawn", "controller"}
    OBVIOUS
  <2> DEFINE f == SetFlag(flags, "pawn", slot, FALSE)
  <2>3. f \in FlagsType /\ f.count = Cardinality(Flagged(f))
    BY ONLY <2>1, <2>2, SetFlagCounts, slot \in Slot
  <2> HIDE DEF f
  <2>4. /\ SetFlag(f, "controller", slot, FALSE) \in FlagsType
        /\ SetFlag(f, "controller", slot, FALSE).count =
             Cardinality(Flagged(SetFlag(f, "controller", slot, FALSE)))
    BY ONLY <2>2, <2>3, SetFlagCounts, slot \in Slot
  <2> QED
    BY <1>2, <2>4 DEF f
<1>10. look' \in [Slot -> Looks \cup {"none"}]
  BY <1>1, <1>2 DEF TypeOK
<1> QED
  BY <1>1, <1>2, <1>4, <1>7, <1>8, <1>9, <1>10
  DEF Inv, TypeOK, CountInv, EntriesTyped, PairType, FlagsType

\* Every step keeps the invariant.
LEMMA InvStep ==
  ASSUME Inv, [Next]_vars
  PROVE  Inv'
<1>1. /\ TypeOK /\ CountInv /\ Whole(exclusive, world, pairs)
      /\ ~restarted => Lent(exclusive, world, pairs)
  BY DEF Inv
<1>2. ASSUME NEW slot \in Actors, NEW hidden \in BOOLEAN,
             SetPawnHidden(slot, hidden) \/ SetControllerHidden(slot, hidden)
      PROVE  Inv'
  <2>1. slot \in Slot /\ flags \in FlagsType /\ flags.count = Cardinality(Flagged(flags))
    BY <1>1, SlotsAssumption DEF TypeOK, FlagsType, CountInv
  <2>2. PICK which \in {"pawn", "controller"} : flags' = SetFlag(flags, which, slot, hidden)
    BY <1>2 DEF SetPawnHidden, SetControllerHidden
  <2>3. flags' \in FlagsType /\ flags'.count = Cardinality(Flagged(flags'))
    BY <2>1, <2>2, SetFlagCounts
  <2>4. UNCHANGED <<exclusive, pairs, turn, world, spawned, look, restarted>>
    BY <1>2 DEF SetPawnHidden, SetControllerHidden
  <2> QED
    BY <1>1, <2>3, <2>4 DEF Inv, TypeOK, CountInv, FlagsType
<1>3. ASSUME NEW viewer \in Viewers, Reconcile(viewer)
      PROVE  Inv'
  <2>1. /\ turn' = [viewer |-> viewer, slot |-> 0] /\ 0 \in Slot
        /\ UNCHANGED <<flags, exclusive, pairs, world, spawned, look, restarted>>
    BY <1>3, SlotsAssumption DEF Reconcile, Slot
  <2> QED
    BY <1>1, <2>1 DEF Inv, TypeOK, CountInv
<1>4. ASSUME NEW slot \in Actors, NEW as \in Looks \cup {"none"}, Appear(slot, as)
      PROVE  Inv'
  <2>1. /\ look' = [look EXCEPT ![slot] = as]
        /\ UNCHANGED <<flags, exclusive, pairs, turn, world, spawned, restarted>>
    BY <1>4 DEF Appear
  <2>2. look' \in [Slot -> Looks \cup {"none"}]
    BY <1>1, <2>1 DEF TypeOK
  <2> QED
    BY <1>1, <2>1, <2>2 DEF Inv, TypeOK, CountInv
<1>5. CASE RoundRestart
  <2>1. /\ restarted' = TRUE /\ UNCHANGED <<flags, exclusive, pairs, turn, spawned, look>>
        /\ world' = [i \in Index |-> IF world[i].kind = "free" THEN world[i]
                                     ELSE [world[i] EXCEPT !.kind = "doomed"]]
    BY <1>5 DEF RoundRestart
  <2>2. \A i \in Index : world[i] \in EntityType
    BY <1>1 DEF TypeOK
  <2>3. \A i \in Index : world'[i] \in EntityType /\ world'[i].kind # "clone"
    BY <2>1, <2>2 DEF EntityType
  <2>4. world' \in [Index -> EntityType]
    BY <2>1, <2>3
  <2>5. Whole(exclusive', world', pairs')
    BY <1>1, <2>1, <2>3 DEF Whole
  <2> QED
    BY <1>1, <2>1, <2>4, <2>5 DEF Inv, TypeOK, CountInv
<1>6. CASE CleanUp
  <2>1. /\ UNCHANGED <<flags, exclusive, pairs, turn, spawned, look, restarted>>
        /\ world' = [i \in Index |-> IF world[i].kind = "doomed" THEN Free ELSE world[i]]
    BY <1>6 DEF CleanUp
  <2>2. Free \in EntityType /\ Free.kind = "free"
    BY SpawnsAssumption DEF Free, EntityType
  <2>3. world' \in [Index -> EntityType]
    BY <1>1, <2>1, <2>2 DEF TypeOK
  <2>4. /\ \A i \in Index : world[i].kind = "clone" => world'[i] = world[i]
        /\ \A i \in Index : world'[i].kind = "clone" => world[i].kind = "clone"
    BY <2>1, <2>2
  <2>5. world \in [Index -> EntityType] /\ DOMAIN exclusive \subseteq Index
    BY <1>1 DEF TypeOK
  <2>6. /\ Whole(exclusive, world', pairs)
        /\ Lent(exclusive, world, pairs) => Lent(exclusive, world', pairs)
    BY <1>1, <2>4, <2>5, FreeKeeps
  <2> QED
    BY <1>1, <2>1, <2>3, <2>6 DEF Inv, TypeOK, CountInv
<1>7. CASE UNCHANGED vars
  BY <1>1, <1>7 DEF vars, Inv, TypeOK, CountInv
<1> QED
  BY <1>2, <1>3, <1>4, <1>5, <1>6, <1>7, RefreshStep, SettleStep, DestroyStep, DisconnectStep DEF Next

-----------------------------------------------------------------------------
(* The theorems.                                                           *)

\* Types, the count, and the bookkeeping of clones hold in every reachable
\* state.
THEOREM InvHolds == Spec => []Inv
<1>1. Init => Inv
  <2> SUFFICES ASSUME Init PROVE Inv
    OBVIOUS
  <2>1. /\ flags = [pawn |-> {}, controller |-> {}, count |-> 0] /\ exclusive = NoItems
        /\ pairs = [v \in Viewers |-> [s \in Slot |-> NoPair]] /\ turn = NoTurn
        /\ world = [i \in Index |-> Free] /\ spawned = 0 /\ look = [s \in Slot |-> "none"]
        /\ restarted = FALSE
    BY DEF Init
  <2>2. DOMAIN exclusive = {}
    BY <2>1 DEF NoItems
  <2>3. Flagged(flags) = {} /\ CountInv
    BY <2>1, FS_EmptySet DEF Flagged, CountInv
  <2>4. Free \in EntityType /\ Free.kind = "free"
    BY SpawnsAssumption DEF Free, EntityType
  <2>5. TypeOK
    <3>1. flags \in [pawn : SUBSET Slot, controller : SUBSET Slot, count : 0 .. Slots]
      BY <2>1, SlotsAssumption
    <3>2. pairs \in [Viewers -> [Slot -> PairType]]
      BY <2>1, NoPairTyped
    <3>3. world \in [Index -> EntityType] /\ spawned \in 0 .. MaxSpawns
      BY <2>1, <2>4, SpawnsAssumption
    <3>4. look \in [Slot -> Looks \cup {"none"}] /\ restarted \in BOOLEAN
      BY <2>1
    <3> QED
      BY <2>1, <2>2, <3>1, <3>2, <3>3, <3>4 DEF TypeOK, PairType
  <2>6. ~Active(NoPair)
    BY DEF Active, NoPair
  <2>7. \A v \in Viewers, s \in Slot : ~Active(pairs[v][s])
    BY <2>1, <2>6
  <2>8. \A i \in Index : world[i].kind # "clone"
    BY <2>1, <2>4
  <2>9. Whole(exclusive, world, pairs)
    BY <2>2, <2>8 DEF Whole
  <2>10. Lent(exclusive, world, pairs)
    BY <2>2, <2>7, <2>8 DEF Lent, Living, Apart, Private
  <2> QED
    BY <2>3, <2>5, <2>9, <2>10 DEF Inv
<1>2. Inv /\ [Next]_vars => Inv'
  BY InvStep
<1> QED
  BY <1>1, <1>2, PTL DEF Spec

\* A hidden player is withheld from everybody but himself and those who watch
\* him, and nobody else is, whatever flags came and went before.
THEOREM HiddenAreFilteredHolds == Spec => []HiddenAreFiltered
<1>1. Inv => HiddenAreFiltered
  <2> SUFFICES ASSUME Inv PROVE HiddenAreFiltered
    OBVIOUS
  <2>1. Collected = Flagged(flags)
    BY AllCollected DEF Inv
  <2>2. Collected \cap flags.pawn = flags.pawn /\ Collected \cap flags.controller = flags.controller
    BY <2>1 DEF Flagged
  <2> QED
    BY <2>2 DEF HiddenAreFiltered, PawnsCleared, ControllersCleared
<1> QED
  BY <1>1, InvHolds, PTL

\* Every clone and every entry has an owner who will remove it, and until the
\* engine removes clones by itself exactly the clones are exclusive, each to
\* its viewer.
THEOREM ClonesAreTheViewersHolds == Spec => []ClonesAreTheViewers
<1>1. Inv => NothingLeftBehind
  <2> SUFFICES ASSUME Inv PROVE NothingLeftBehind
    OBVIOUS
  <2>1. TypeOK /\ Whole(exclusive, world, pairs)
    BY DEF Inv
  <2>2. \A v : \A s \in Slot : Active(pairs[v][s]) => Handles(pairs[v][s]) \subseteq Held(v)
    BY DEF Held
  <2>3. \A i \in Index : world[i].kind = "clone" =>
          [index |-> i, serial |-> world[i].serial] \in Held(world[i].viewer)
    BY <2>1, <2>2 DEF Whole
  <2>4. ASSUME NEW i \in DOMAIN exclusive
        PROVE  \E v \in Viewers : i \in {h.index : h \in Held(v)}
    <3>1. PICK v \in Viewers, s \in Slot : Active(pairs[v][s]) /\ i \in IndicesOf(pairs[v][s])
      BY <2>1 DEF Whole
    <3>2. PICK h \in Handles(pairs[v][s]) : i = h.index
      BY <3>1 DEF IndicesOf
    <3>3. h \in Held(v)
      BY <2>2, <3>1, <3>2
    <3> QED
      BY <3>2, <3>3
  <2> QED
    BY <2>1, <2>3, <2>4 DEF NothingLeftBehind
<1>2. Inv => PrivateUntilRestart
  <2> SUFFICES ASSUME Inv, ~restarted PROVE PrivateUntilRestart
    BY DEF PrivateUntilRestart
  <2>1. Private(exclusive, world) /\ DOMAIN exclusive \subseteq Index
    BY DEF Inv, Lent, TypeOK
  <2>2. ClonesArePrivate
    BY <2>1 DEF Private, ClonesArePrivate, EntitiesCleared
  <2>3. \A i \in Index, r \in Slot : i \in EntitiesCleared(r) => world[i].kind = "clone"
    BY <2>1 DEF Private, EntitiesCleared
  <2> QED
    BY <2>2, <2>3 DEF PrivateUntilRestart
<1>3. Inv => ClonesAreTheViewers
  BY <1>1, <1>2 DEF ClonesAreTheViewers
<1> QED
  BY <1>3, InvHolds, PTL

-----------------------------------------------------------------------------
(* The start of the kit.                                                   *)

\* The phases that come after the stages whose entries the report is asked about.
AfterOps == { "Precache", "GameEventManager", "ConVars", "Events", "Transmit", "onload",
              "running", "refused", "thrown" }
AfterManager == AfterOps \ {"Precache", "GameEventManager"}

CanSpawnNow == \A name \in Spawning : ops[name] # None

\* What an entry of the report says about the kit, and when there can be one.
Says(entry) ==
  /\ entry.name = "EntityOps" => phase \in AfterOps /\ (entry.status = "ok" => CanSpawnNow)
  /\ entry.name \in {"GameEventManager", "Events"} =>
       phase \in AfterManager /\ (entry.status = "ok" => "GameEventManager" \in interfaces)
  /\ entry.name = "Effects" =>
       phase \in {"onload", "running", "refused"} /\ (entry.status # "skipped" => CanSpawnNow)

ReportInv ==
  /\ \E S : report \in Seq(S)
  /\ \A i \in 1 .. Len(report) : Says(report[i])

\* A nonempty set of naturals has a least element.
LEMMA LeastOf ==
  ASSUME NEW S \in SUBSET Nat, S # {}
  PROVE  \E x \in S : \A y \in S : x <= y
<1>. DEFINE R == {ss \in Nat \X Nat : ss[1] < ss[2]}
<1>1. IsWellFoundedOn(R, Nat)
  BY NatLessThanWellFounded DEF OpToRel
<1>. HIDE DEF R
<1>2. PICK x \in S : \A y \in S : ~ (<<y, x>> \in R)
  BY <1>1, WFMin
<1>3. ASSUME NEW y \in S
      PROVE  x <= y
  <2>1. x \in Nat /\ y \in Nat /\ <<y, x>> \notin R
    BY <1>2
  <2>2. <<y, x>> \in R <=> y < x
    BY <2>1 DEF R
  <2>. QED BY <2>1, <2>2
<1>. QED BY <1>3

\* Max of a set of naturals is its greatest element.
LEMMA GreatestIs ==
  ASSUME NEW S \in SUBSET Nat, NEW m \in S, \A x \in S : x <= m
  PROVE  Max(S) = m
<1>1. \A x \in S : m >= x
  OBVIOUS
<1>2. ASSUME NEW x \in S, \A y \in S : x >= y
      PROVE  x = m
  BY <1>2
<1>. QED BY <1>1, <1>2 DEF Max

\* What StatusOf answers is the status of an entry, or None.
LEMMA StatusIsTold ==
  ASSUME NEW name, NEW S, report \in Seq(S), StatusOf(name) # None
  PROVE  \E i \in 1 .. Len(report) : report[i].name = name /\ report[i].status = StatusOf(name)
<1>. DEFINE at == {i \in 1 .. Len(report) : report[i].name = name}
            First(i) == report[i].name = name /\ \A j \in 1 .. i - 1 : report[j].name # name
<1>1. DOMAIN report = 1 .. Len(report) /\ Len(report) \in Nat
  OBVIOUS
<1>2. \E i \in DOMAIN report : report[i].name = name
  BY DEF StatusOf
<1>3. at # {} /\ at \in SUBSET Nat
  BY <1>1, <1>2
<1>4. PICK x \in at : \A y \in at : x <= y
  BY <1>3, LeastOf
<1>5. x \in 1 .. Len(report) /\ First(x)
  BY <1>1, <1>4
<1>6. StatusOf(name) = report[CHOOSE i \in DOMAIN report : First(i)].status
  BY <1>2 DEF StatusOf
<1>7. (CHOOSE i \in DOMAIN report : First(i)) \in DOMAIN report
      /\ First(CHOOSE i \in DOMAIN report : First(i))
  BY <1>1, <1>5
<1>. QED BY <1>1, <1>6, <1>7

\* What a step keeps of what entries say.
Monotone ==
  /\ phase \in AfterOps => phase' \in AfterOps /\ (CanSpawnNow => CanSpawnNow')
  /\ phase \in AfterManager =>
       phase' \in AfterManager /\ ("GameEventManager" \in interfaces => "GameEventManager" \in interfaces')
  /\ phase \in {"onload", "running", "refused"} =>
       phase' \in {"onload", "running", "refused"} /\ (CanSpawnNow => CanSpawnNow')

\* A step without an entry of its own.
LEMMA NothingReported ==
  ASSUME ReportInv, Monotone, report' = report
  PROVE  ReportInv'
<1>1. \A e : Says(e) => Says(e)'
  BY DEF Says, Monotone
<1>2. Len(report') = Len(report) /\ \A i \in 1 .. Len(report) : report'[i] = report[i]
  OBVIOUS
<1>3. \A i \in 1 .. Len(report) : Says(report[i])
  BY DEF ReportInv
<1>4. ASSUME NEW i \in 1 .. Len(report')
      PROVE  Says(report[i])'
  <2>1. PICK e : e = report[i] /\ e = report'[i]
    BY <1>2
  <2>2. Says(e)'
    BY <1>1, <1>2, <1>3, <1>4, <2>1
  <2>. QED BY <2>1, <2>2 DEF Says
<1>. QED BY <1>4 DEF ReportInv

\* A stage with its entry.
LEMMA StageReported ==
  ASSUME ReportInv, Monotone, NEW name, NEW status, NEW detail, Run(name, status, detail),
         Says([name |-> name, status |-> status, detail |-> detail])'
  PROVE  ReportInv'
<1>. DEFINE entry == [name |-> name, status |-> status, detail |-> detail]
<1>1. report' = Append(report, entry)
  BY DEF Run
<1>2. Says(entry)'
  OBVIOUS
<1>. HIDE DEF entry
<1>3. \A e : Says(e) => Says(e)'
  BY DEF Says, Monotone
<1>4. PICK S : report \in Seq(S)
  BY DEF ReportInv
<1>5. report' \in Seq(S \cup {entry})
  <2>1. report \in Seq(S \cup {entry}) /\ entry \in S \cup {entry}
    BY <1>4
  <2>. QED BY <1>1, <2>1
<1>6. Len(report') = Len(report) + 1 /\ Len(report) \in Nat
      /\ \A i \in 1 .. Len(report') : report'[i] = IF i <= Len(report) THEN report[i] ELSE entry
  BY <1>1, <1>4
<1>7. ASSUME NEW i \in 1 .. Len(report')
      PROVE  Says(report[i])'
  <2>1. CASE i <= Len(report)
    <3>1. PICK e : e = report[i] /\ e = report'[i]
      BY <1>6, <2>1
    <3>2. Says(e)
      BY <1>6, <2>1, <3>1 DEF ReportInv
    <3>3. Says(e)'
      BY <1>3, <3>2
    <3>. QED BY <3>1, <3>3 DEF Says
  <2>2. CASE ~(i <= Len(report))
    <3>1. report'[i] = entry
      BY <1>6, <2>2
    <3>. QED BY <1>2, <3>1 DEF Says
  <2>. QED BY <2>1, <2>2
<1>. QED BY <1>5, <1>7 DEF ReportInv

\* The order of the stages.
LEMMA StagesFollow ==
  /\ Following("GameData") = "Messages"
  /\ Following("Messages") = "Schema"
  /\ Following("Schema") = "Entities"
  /\ Following("Entities") = "EntityOps"
  /\ Following("EntityOps") = "Precache"
  /\ Following("Precache") = "GameEventManager"
  /\ Following("GameEventManager") = "ConVars"
  /\ Following("ConVars") = "Events"
  /\ Following("Events") = "Transmit"
<1>1. DOMAIN Stages = 1 .. 11
  BY DEF Stages
<1>2. /\ Stages[1] = "GameData" /\ Stages[2] = "Messages" /\ Stages[3] = "Schema"
      /\ Stages[4] = "Entities" /\ Stages[5] = "EntityOps" /\ Stages[6] = "Precache"
      /\ Stages[7] = "GameEventManager" /\ Stages[8] = "ConVars" /\ Stages[9] = "Events"
      /\ Stages[10] = "Transmit" /\ Stages[11] = "onload"
  BY DEF Stages
<1>3. \A i \in DOMAIN Stages : i \in {1, 2, 3, 4, 5, 6, 7, 8, 9, 10, 11}
  BY <1>1
<1>4. ASSUME NEW n \in 1 .. 10
      PROVE  Following(Stages[n]) = Stages[1 + n]
  <2>1. \A i \in DOMAIN Stages : Stages[i] = Stages[n] => i = n
    BY <1>2, <1>3
  <2>2. n \in DOMAIN Stages
    BY <1>1
  <2>3. (CHOOSE i \in DOMAIN Stages : Stages[i] = Stages[n]) = n
    BY <2>1, <2>2
  <2>. DEFINE place == CHOOSE i \in DOMAIN Stages : Stages[i] = Stages[n]
  <2>4. Following(Stages[n]) = Stages[1 + place]
    BY DEF Following
  <2>. HIDE DEF place
  <2>. QED BY <2>3, <2>4 DEF place
<1>. QED BY <1>2, <1>4

\* Every stage up to the last keeps what the report says.
LEMMA StageKeepsReport ==
  ASSUME ReportInv,
         \/ ResolveInterfaces \/ GameDataStage \/ MessagesStage \/ SchemaStage \/ EntitiesStage
         \/ EntityOpsStage \/ PrecacheStage \/ GameEventManagerStage \/ ConVarsStage \/ EventsStage
         \/ TransmitStage
  PROVE  ReportInv'
<1>1. CASE ResolveInterfaces
  <2>1. phase = "interfaces" /\ report' = report
    BY <1>1 DEF ResolveInterfaces
  <2>2. Monotone
    BY <2>1 DEF Monotone, AfterOps, AfterManager
  <2>. QED BY <2>1, <2>2, NothingReported
<1>2. CASE GameDataStage
  <2>1. phase = "GameData"
    BY <1>2 DEF GameDataStage
  <2>2. report' = report \/ \E status, detail : Run("GameData", status, detail)
    BY <1>2 DEF GameDataStage, Thrown
  <2>3. Monotone
    BY <2>1 DEF Monotone, AfterOps, AfterManager
  <2>4. ASSUME NEW status, NEW detail
        PROVE  Says([name |-> "GameData", status |-> status, detail |-> detail])'
    BY DEF Says
  <2>. QED BY <2>2, <2>3, <2>4, NothingReported, StageReported
<1>3. CASE MessagesStage
  <2>1. phase = "Messages" /\ \E status, detail : Run("Messages", status, detail)
    BY <1>3 DEF MessagesStage
  <2>3. Monotone
    BY <2>1 DEF Monotone, AfterOps, AfterManager
  <2>4. ASSUME NEW status, NEW detail
        PROVE  Says([name |-> "Messages", status |-> status, detail |-> detail])'
    BY DEF Says
  <2>. QED BY <2>1, <2>3, <2>4, StageReported
<1>4. CASE SchemaStage
  <2>1. phase = "Schema" /\ \E status, detail : Run("Schema", status, detail)
    BY <1>4 DEF SchemaStage, Degradable
  <2>3. Monotone
    BY <2>1 DEF Monotone, AfterOps, AfterManager
  <2>4. ASSUME NEW status, NEW detail
        PROVE  Says([name |-> "Schema", status |-> status, detail |-> detail])'
    BY DEF Says
  <2>. QED BY <2>1, <2>3, <2>4, StageReported
<1>5. CASE EntitiesStage
  <2>1. phase = "Entities" /\ \E status, detail : Run("Entities", status, detail)
    BY <1>5 DEF EntitiesStage, Degradable
  <2>3. Monotone
    BY <2>1 DEF Monotone, AfterOps, AfterManager
  <2>4. ASSUME NEW status, NEW detail
        PROVE  Says([name |-> "Entities", status |-> status, detail |-> detail])'
    BY DEF Says
  <2>. QED BY <2>1, <2>3, <2>4, StageReported
<1>6. CASE EntityOpsStage
  <2>1. phase = "EntityOps"
    BY <1>6 DEF EntityOpsStage
  <2>2. Monotone
    BY <2>1 DEF Monotone, AfterOps, AfterManager
  <2>3. CASE Thrown
    BY <2>2, <2>3, NothingReported DEF Thrown
  <2>4. CASE ~Thrown
    <3>1. /\ ops' = [name \in OpNames |-> Found(name)]
          /\ Degradable("EntityOps", \A name \in Spawning : Found(name) # None)
      BY <1>6, <2>4 DEF EntityOpsStage
    <3>2. PICK status : /\ Run("EntityOps", status, {})
                        /\ status = "ok" => \A name \in Spawning : Found(name) # None
      BY <3>1 DEF Degradable
    <3>3. phase' = "Precache"
      BY <3>1, StagesFollow DEF Degradable
    <3>4. status = "ok" => CanSpawnNow'
      <4>. HIDE DEF Found
      <4>. QED BY <3>1, <3>2 DEF CanSpawnNow, Spawning, OpNames
    <3>5. Says([name |-> "EntityOps", status |-> status, detail |-> {}])'
      BY <3>3, <3>4 DEF Says, AfterOps
    <3>. QED BY <2>2, <3>2, <3>5, StageReported
  <2>. QED BY <2>3, <2>4
<1>7. CASE PrecacheStage
  <2>1. phase = "Precache" /\ ops' = ops
    BY <1>7 DEF PrecacheStage, Degradable, Thrown
  <2>2. phase' \in {"GameEventManager", "thrown"}
    BY <1>7, StagesFollow DEF PrecacheStage, Degradable, Thrown
  <2>3. report' = report \/ \E status, detail : Run("Precache", status, detail)
    BY <1>7 DEF PrecacheStage, Degradable, Thrown
  <2>4. Monotone
    BY <2>1, <2>2 DEF Monotone, AfterOps, AfterManager, CanSpawnNow
  <2>5. ASSUME NEW status, NEW detail
        PROVE  Says([name |-> "Precache", status |-> status, detail |-> detail])'
    BY DEF Says
  <2>. QED BY <2>3, <2>4, <2>5, NothingReported, StageReported
<1>8. CASE GameEventManagerStage
  <2>1. phase = "GameEventManager" /\ ops' = ops
    BY <1>8 DEF GameEventManagerStage, Degradable, Thrown
  <2>2. phase' \in {"ConVars", "thrown"}
    BY <1>8, StagesFollow DEF GameEventManagerStage, Degradable, Thrown
  <2>3. Monotone
    BY <2>1, <2>2 DEF Monotone, AfterOps, AfterManager, CanSpawnNow
  <2>4. CASE Thrown
    BY <2>3, <2>4, NothingReported DEF Thrown
  <2>5. CASE ~Thrown
    <3>1. PICK status : /\ Run("GameEventManager", status, {}) /\ phase' = "ConVars"
                        /\ status = "ok" => "GameEventManager" \in interfaces'
      BY <1>8, <2>5, StagesFollow DEF GameEventManagerStage, Degradable
    <3>2. Says([name |-> "GameEventManager", status |-> status, detail |-> {}])'
      BY <3>1 DEF Says, AfterOps, AfterManager
    <3>. QED BY <2>3, <3>1, <3>2, StageReported
  <2>. QED BY <2>4, <2>5
<1>9. CASE ConVarsStage
  <2>1. phase = "ConVars" /\ phase' = "Events" /\ ops' = ops /\ interfaces' = interfaces
        /\ \E status, detail : Run("ConVars", status, detail)
    BY <1>9, StagesFollow DEF ConVarsStage, Degradable
  <2>3. Monotone
    BY <2>1 DEF Monotone, AfterOps, AfterManager, CanSpawnNow
  <2>4. ASSUME NEW status, NEW detail
        PROVE  Says([name |-> "ConVars", status |-> status, detail |-> detail])'
    BY DEF Says
  <2>. QED BY <2>1, <2>3, <2>4, StageReported
<1>10. CASE EventsStage
  <2>1. phase = "Events" /\ phase' = "Transmit" /\ ops' = ops /\ interfaces' = interfaces
    BY <1>10, StagesFollow DEF EventsStage, Degradable
  <2>2. PICK status : /\ Run("Events", status, {})
                      /\ status = "ok" => "GameEventManager" \in interfaces
    BY <1>10 DEF EventsStage, Degradable
  <2>3. Monotone
    BY <2>1 DEF Monotone, AfterOps, AfterManager, CanSpawnNow
  <2>4. Says([name |-> "Events", status |-> status, detail |-> {}])'
    BY <2>1, <2>2 DEF Says, AfterOps, AfterManager
  <2>. QED BY <2>2, <2>3, <2>4, StageReported
<1>11. CASE TransmitStage
  <2>1. phase = "Transmit" /\ phase' = "onload" /\ ops' = ops /\ interfaces' = interfaces
        /\ \E status, detail : Run("Transmit", status, detail)
    BY <1>11 DEF TransmitStage
  <2>3. Monotone
    BY <2>1 DEF Monotone, AfterOps, AfterManager, CanSpawnNow
  <2>4. ASSUME NEW status, NEW detail
        PROVE  Says([name |-> "Transmit", status |-> status, detail |-> detail])'
    BY DEF Says
  <2>. QED BY <2>1, <2>3, <2>4, StageReported
<1>. QED BY <1>1, <1>2, <1>3, <1>4, <1>5, <1>6, <1>7, <1>8, <1>9, <1>10, <1>11

\* A plugin's stage ran only over a kit that can do what it needs.
LEMMA OnLoadKeepsReport ==
  ASSUME ReportInv,
         \/ PluginStage("Effects", "EntityOps")
         \/ \E ok \in BOOLEAN : OnLoadReturns(ok)
  PROVE  ReportInv'
<1>1. CASE PluginStage("Effects", "EntityOps")
  <2>1. phase = "onload" /\ phase' = phase /\ ops' = ops /\ interfaces' = interfaces
    BY <1>1 DEF PluginStage
  <2>2. PICK status \in IF IsOk("EntityOps") THEN host.plugin ELSE {"skipped"} : Run("Effects", status, {})
    BY <1>1 DEF PluginStage
  <2>3. Monotone
    BY <2>1 DEF Monotone, CanSpawnNow
  <2>4. IsOk("EntityOps") => CanSpawnNow
    <3>1. PICK S : report \in Seq(S)
      BY DEF ReportInv
    <3>2. SUFFICES ASSUME StatusOf("EntityOps") = "ok" PROVE CanSpawnNow
      BY DEF IsOk
    <3>3. StatusOf("EntityOps") # None
      BY <3>2, StatusAssumption
    <3>4. PICK i \in 1 .. Len(report) : report[i].name = "EntityOps" /\ report[i].status = "ok"
      BY <3>1, <3>2, <3>3, StatusIsTold
    <3>. QED BY <3>4 DEF ReportInv, Says
  <2>5. Says([name |-> "Effects", status |-> status, detail |-> {}])'
    <3>1. status # "skipped" => CanSpawnNow'
      BY <2>1, <2>2, <2>4 DEF CanSpawnNow
    <3>. QED BY <2>1, <3>1 DEF Says
  <2>. QED BY <2>2, <2>3, <2>5, StageReported
<1>2. CASE \E ok \in BOOLEAN : OnLoadReturns(ok)
  <2>1. phase = "onload" /\ phase' \in {"running", "refused"} /\ ops' = ops /\ interfaces' = interfaces
        /\ report' = report
    BY <1>2 DEF OnLoadReturns
  <2>2. Monotone
    BY <2>1 DEF Monotone, AfterOps, AfterManager, CanSpawnNow
  <2>. QED BY <2>1, <2>2, NothingReported
<1>. QED BY <1>1, <1>2

LEMMA ReportInvariance == KitSpec => []ReportInv
<1>1. KitInit => ReportInv
  <2>. SUFFICES ASSUME KitInit PROVE ReportInv
    OBVIOUS
  <2>1. report = << >>
    BY DEF KitInit, StartupInit
  <2>2. report \in Seq({0}) /\ Len(report) = 0
    BY <2>1
  <2>. QED BY <2>2 DEF ReportInv
<1>2. ReportInv /\ [KitNext]_kitVars => ReportInv'
  <2>. SUFFICES ASSUME ReportInv, [KitNext]_kitVars PROVE ReportInv'
    OBVIOUS
  <2>1. CASE StartupNext
    BY <2>1, StageKeepsReport, OnLoadKeepsReport DEF StartupNext
  <2>2. CASE UNCHANGED startupVars
    <3>1. report' = report /\ phase' = phase /\ ops' = ops /\ interfaces' = interfaces
      BY <2>2 DEF startupVars
    <3>2. Monotone
      BY <3>1 DEF Monotone, CanSpawnNow
    <3>. QED BY <3>1, <3>2, NothingReported
  <2>. QED BY <2>1, <2>2 DEF KitNext, kitVars
<1>. QED BY <1>1, <1>2, PTL DEF KitSpec

(* For any host, gamedata and plugin: the report calls EntityOps ok only with the    *)
(* three spawning functions, GameEventManager and Events only with the manager       *)
(* (CS2Kit.cpp:127), and no plugin stage that needs EntityOps ran without them       *)
(* (LoadReport.hpp:38).  It says nothing of the other stages: Entities is ok without *)
(* its offset (Entity.cpp:95).                                                       *)
THEOREM StagesAreHonestHolds == KitSpec => []StagesAreHonest
<1>1. ReportInv => StagesAreHonest
  <2>. SUFFICES ASSUME ReportInv PROVE StagesAreHonest
    OBVIOUS
  <2>1. PICK S : report \in Seq(S)
    BY DEF ReportInv
  <2>2. ASSUME NEW name, StatusOf(name) # None
        PROVE  \E i \in 1 .. Len(report) : /\ report[i].name = name /\ report[i].status = StatusOf(name)
                                         /\ Says(report[i])
    BY <2>1, <2>2, StatusIsTold DEF ReportInv
  <2>3. IsOk("EntityOps") => CanSpawnNow
    BY <2>2, StatusAssumption DEF IsOk, Says
  <2>4. IsOk("Events") => "GameEventManager" \in interfaces
    BY <2>2, StatusAssumption DEF IsOk, Says
  <2>5. IsOk("GameEventManager") => "GameEventManager" \in interfaces
    BY <2>2, StatusAssumption DEF IsOk, Says
  <2>6. StatusOf("Effects") \notin {None, "skipped"} => CanSpawnNow
    BY <2>2 DEF Says
  <2>. QED BY <2>3, <2>4, <2>5, <2>6 DEF StagesAreHonest, CanSpawnNow
<1>. QED BY <1>1, ReportInvariance, PTL

-----------------------------------------------------------------------------
(* The signatures: recursion, step by step.                                *)

\* Counting up from 0 reaches every number.
LEMMA CountedUp ==
  ASSUME NEW G, 0 \in G, \A n \in Nat : n \in G => n + 1 \in G
  PROVE  Nat \subseteq G
<1>. DEFINE Bad == Nat \ G
            Below == {p \in Nat \X Nat : p[1] < p[2]}
<1>. SUFFICES ASSUME Bad # {} PROVE FALSE
  OBVIOUS
<1>1. IsWellFoundedOn(OpToRel(<, Nat), Nat)
  BY NatLessThanWellFounded, Zenon
<1>2. Below = OpToRel(<, Nat)
  BY Zenon DEF OpToRel
<1>3. IsWellFoundedOn(Below, Nat)
  BY <1>1, <1>2, Zenon
<1>4. PICK m \in Bad : \A n \in Bad : <<n, m>> \notin Below
  BY <1>3, WFMin
<1>5. m # 0 /\ m - 1 \in Nat /\ <<m - 1, m>> \in Below
  OBVIOUS
<1>6. m - 1 \in G
  BY <1>4, <1>5
<1>. QED BY <1>5, <1>6

\* A value for each step from a beginning, made of the one before; there always is one.
Computed(f, N, V, b, G) ==
  f \in [0 .. N -> V] /\ f[0] = b /\ \A n \in 1 .. N : f[n] = G[n][f[n - 1]]

LEMMA StepByStep ==
  ASSUME NEW N \in Nat, NEW V, NEW b \in V, NEW G \in [1 .. N -> [V -> V]]
  PROVE  \E f : Computed(f, N, V, b, G)
<1>. DEFINE Is(f, n) == f \in [0 .. n -> V] /\ f[0] = b /\ \A m \in 1 .. n : f[m] = G[m][f[m - 1]]
            T == {n \in Nat : n <= N => \E f : Is(f, n)}
<1>1. 0 \in T
  <2>1. Is([m \in 0 .. 0 |-> b], 0)
    OBVIOUS
  <2>. QED BY <2>1
<1>2. ASSUME NEW n \in Nat, n + 1 <= N, NEW f, Is(f, n)
      PROVE  \E g : Is(g, n + 1)
  <2>. DEFINE g == [m \in 0 .. n + 1 |-> IF m = n + 1 THEN G[n + 1][f[n]] ELSE f[m]]
  <2>1. f[n] \in V /\ G[n + 1] \in [V -> V]
    BY <1>2
  <2>2. \A m \in 0 .. n : g[m] = f[m] /\ g[m] \in V
    BY <1>2
  <2>3. g[n + 1] = G[n + 1][f[n]] /\ g[n + 1] \in V
    BY <2>1
  <2>4. g \in [0 .. n + 1 -> V] /\ g[0] = b
    BY <1>2, <2>2, <2>3
  <2>5. ASSUME NEW m \in 1 .. n + 1
        PROVE  g[m] = G[m][g[m - 1]]
    <3>1. CASE m = n + 1
      <4>1. m - 1 = n /\ n \in 0 .. n
        BY <3>1
      <4>. QED BY <2>2, <2>3, <3>1, <4>1
    <3>2. CASE m # n + 1
      <4>1. m \in 1 .. n /\ m \in 0 .. n /\ m - 1 \in 0 .. n
        BY <3>2
      <4>. QED BY <1>2, <2>2, <4>1
    <3>. QED BY <3>1, <3>2
  <2>. HIDE DEF g
  <2>6. Is(g, n + 1)
    BY <2>4, <2>5
  <2>. QED BY <2>6
<1>3. N \in T
  <2>. HIDE DEF Is
  <2>1. \A n \in Nat : n \in T => n + 1 \in T
    BY <1>2
  <2>. HIDE DEF T
  <2>. QED BY <1>1, <2>1, CountedUp
<1>4. PICK f : Is(f, N)
  <2>. HIDE DEF Is
  <2>. QED BY <1>3
<1>. QED BY <1>4 DEF Computed

-----------------------------------------------------------------------------
(* What a sequence lists.                                                  *)

\* s lists the members of S, the lower first.
Listed(s, S) ==
  /\ s \in Seq(Int)
  /\ S = {s[i] : i \in 1 .. Len(s)}
  /\ \A i, j \in 1 .. Len(s) : i < j => s[i] < s[j]

LEMMA ListedNone == Listed(<< >>, {})
BY DEF Listed

LEMMA ListedOne ==
  ASSUME NEW x \in Int PROVE Listed(<< x >>, {x})
BY DEF Listed

\* One list behind another.
LEMMA ListedBoth ==
  ASSUME NEW s, NEW S, NEW t, NEW T, Listed(s, S), Listed(t, T),
         \A x \in S, y \in T : x < y
  PROVE  Listed(s \o t, S \cup T)
<1>. DEFINE m == Len(s)
            n == Len(t)
            u == s \o t
<1>1. m \in Nat /\ n \in Nat /\ s \in Seq(Int) /\ t \in Seq(Int)
  BY LenProperties DEF Listed
<1>2. /\ u \in Seq(Int) /\ Len(u) = m + n
      /\ \A i \in 1 .. m + n : u[i] = IF i <= m THEN s[i] ELSE t[i - m]
  BY <1>1, ConcatProperties
<1>3. /\ S = {s[i] : i \in 1 .. m} /\ T = {t[i] : i \in 1 .. n}
      /\ \A i, j \in 1 .. m : i < j => s[i] < s[j]
      /\ \A i, j \in 1 .. n : i < j => t[i] < t[j]
  BY DEF Listed
<1>. HIDE DEF m, n, u
<1>4. \A i \in 1 .. m + n : \/ i \in 1 .. m /\ u[i] = s[i] /\ u[i] \in S
                            \/ i - m \in 1 .. n /\ u[i] = t[i - m] /\ u[i] \in T /\ i > m
  <2>. TAKE i \in 1 .. m + n
  <2>1. CASE i <= m
    <3>1. i \in 1 .. m /\ u[i] = s[i]
      BY <1>1, <1>2, <2>1
    <3>. QED BY <1>3, <3>1
  <2>2. CASE ~(i <= m)
    <3>1. i - m \in 1 .. n /\ i > m
      BY <1>1, <2>2
    <3>2. u[i] = t[i - m]
      BY <1>2, <2>2
    <3>3. u[i] \in T
      BY <1>3, <3>1, <3>2
    <3>. QED BY <3>1, <3>2, <3>3
  <2>. QED BY <2>1, <2>2
<1>5. \A i \in 1 .. m : i \in 1 .. m + n /\ u[i] = s[i]
  BY <1>1, <1>2
<1>6. \A i \in 1 .. n : m + i \in 1 .. m + n /\ u[m + i] = t[i]
  <2>. TAKE i \in 1 .. n
  <2>1. m + i \in 1 .. m + n /\ ~(m + i <= m) /\ (m + i) - m = i
    BY <1>1
  <2>. QED BY <1>2, <2>1
<1>7. S \cup T = {u[i] : i \in 1 .. m + n}
  <2>1. ASSUME NEW x \in S \cup T
        PROVE  \E i \in 1 .. m + n : x = u[i]
    <3>1. CASE x \in S
      <4>1. PICK i \in 1 .. m : x = s[i]
        BY <1>3, <3>1
      <4>. QED BY <1>5, <4>1
    <3>2. CASE x \in T
      <4>1. PICK i \in 1 .. n : x = t[i]
        BY <1>3, <3>2
      <4>. QED BY <1>6, <4>1
    <3>. QED BY <3>1, <3>2
  <2>2. \A i \in 1 .. m + n : u[i] \in S \cup T
    BY <1>4
  <2>. QED BY <2>1, <2>2
<1>8. ASSUME NEW i \in 1 .. m + n, NEW j \in 1 .. m + n, i < j
      PROVE  u[i] < u[j]
  <2>1. CASE u[i] \in S /\ u[j] \in T
    BY <2>1
  <2>2. CASE i \in 1 .. m /\ u[i] = s[i] /\ j \in 1 .. m /\ u[j] = s[j]
    BY <1>3, <1>8, <2>2
  <2>3. CASE i - m \in 1 .. n /\ u[i] = t[i - m] /\ j - m \in 1 .. n /\ u[j] = t[j - m]
    <3>1. i - m < j - m
      BY <1>1, <1>8
    <3>. QED BY <1>3, <2>3, <3>1
  <2>4. ~(i > m /\ j \in 1 .. m)
    BY <1>1, <1>8
  <2>. QED BY <1>4, <2>1, <2>2, <2>3, <2>4
<1>. QED BY <1>2, <1>7, <1>8 DEF Listed, u

\* What a list tells of the set: whether there is anything, the least, and whether it is the only.
LEMMA ListedTells ==
  ASSUME NEW s, NEW S, Listed(s, S)
  PROVE  /\ s = << >> <=> S = {}
         /\ S # {} => /\ Head(s) \in S /\ \A p \in S : Head(s) <= p
                      /\ Len(s) < 2 <=> Cardinality(S) = 1
<1>. DEFINE n == Len(s)
<1>1. /\ n \in Nat /\ s \in Seq(Int) /\ S = {s[i] : i \in 1 .. n}
      /\ \A i, j \in 1 .. n : i < j => s[i] < s[j]
      /\ \A i \in 1 .. n : s[i] \in Int
  BY LenProperties, ElementOfSeq DEF Listed
<1>2. s = << >> <=> n = 0
  BY <1>1, EmptySeq
<1>. HIDE DEF n
<1>3. n = 0 <=> S = {}
  <2>1. n # 0 => 1 \in 1 .. n
    BY <1>1
  <2>2. n = 0 => 1 .. n = {}
    BY <1>1
  <2>. QED BY <1>1, <2>1, <2>2
<1>4. ASSUME n # 0
      PROVE  Head(s) \in S /\ \A p \in S : Head(s) <= p
  <2>1. Head(s) = s[1] /\ 1 \in 1 .. n
    BY <1>1, <1>2, <1>4, HeadTailProperties
  <2>2. \A i \in 1 .. n : s[1] <= s[i]
    <3>. TAKE i \in 1 .. n
    <3>1. CASE i = 1
      BY <1>1, <3>1
    <3>2. CASE i # 1
      <4>1. 1 < i
        BY <3>2
      <4>2. s[1] < s[i] /\ s[1] \in Int /\ s[i] \in Int
        BY <1>1, <2>1, <4>1
      <4>. QED BY <4>2
    <3>. QED BY <3>1, <3>2
  <2>. QED BY <1>1, <2>1, <2>2
<1>5. Cardinality(S) = n
  <2>1. s \in Surjection(1 .. n, S)
    <3>1. s \in [1 .. n -> S]
      BY <1>1, LenProperties DEF n
    <3>. QED BY <1>1, <3>1 DEF Surjection
  <2>2. s \in Injection(1 .. n, S)
    <3>1. s \in [1 .. n -> S]
      BY <2>1 DEF Surjection
    <3>2. ASSUME NEW i \in 1 .. n, NEW j \in 1 .. n, s[i] = s[j]
          PROVE  i = j
      <4>1. ~(i < j) /\ ~(j < i)
        BY <1>1, <3>2
      <4>. QED BY <1>1, <4>1
    <3>. QED BY <3>1, <3>2 DEF Injection, IsInjective
  <2>3. IsFiniteSet(1 .. n) /\ Cardinality(1 .. n) = n
    BY <1>1, FS_Interval
  <2>. QED BY <2>1, <2>2, <2>3, FS_Surjection
<1>6. n # 0 => (n < 2 <=> Cardinality(S) = 1)
  BY <1>1, <1>5
<1>. QED BY <1>2, <1>3, <1>4, <1>6 DEF n

-----------------------------------------------------------------------------
(* The scan of one range.                                                  *)

\* Where the pattern matches from a place on.
Matching(range, pattern, from) ==
  {at \in from .. Len(range.bytes) - Len(pattern) : MatchesAt(range, at, pattern)}
Scannable(range, pattern) ==
  /\ range.base \in Int /\ Len(range.bytes) \in Nat
  /\ Len(pattern) \in Nat /\ (pattern = << >> <=> Len(pattern) = 0)

\* ScanMemory finds the first of these.
LEMMA ScanFindsFirst ==
  ASSUME NEW range, NEW pattern, Scannable(range, pattern), NEW from \in Nat
  PROVE  \/ ScanMemory(range, from, pattern) = None
            /\ (pattern = << >> \/ Matching(range, pattern, from) = {})
         \/ /\ pattern # << >>
            /\ ScanMemory(range, from, pattern) \in Matching(range, pattern, from)
            /\ ScanMemory(range, from, pattern) \in from .. Len(range.bytes) - 1
            /\ \A at \in Matching(range, pattern, from) : ScanMemory(range, from, pattern) <= at
<1>. DEFINE M == Matching(range, pattern, from)
<1>1. ScanMemory(range, from, pattern) = IF pattern = << >> \/ M = {} THEN None ELSE Min(M)
  BY DEF ScanMemory, Matching
<1>2. Len(range.bytes) \in Nat /\ Len(pattern) \in Nat /\ (pattern # << >> => Len(pattern) > 0)
  BY DEF Scannable
<1>3. M \in SUBSET Nat /\ \A at \in M : at >= from /\ at <= Len(range.bytes) - Len(pattern)
  BY <1>2 DEF Matching
<1>. HIDE DEF M
<1>4. CASE pattern = << >> \/ M = {}
  BY <1>1, <1>4 DEF M
<1>5. CASE pattern # << >> /\ M # {}
  <2>1. PICK x \in M : \A y \in M : x <= y
    BY <1>3, <1>5, LeastOf
  <2>2. Min(M) \in M /\ \A y \in M : Min(M) <= y
    BY <2>1 DEF Min
  <2>3. Min(M) \in from .. Len(range.bytes) - 1
    <3>. DEFINE m == Min(M)
                n == Len(range.bytes)
                k == Len(pattern)
    <3>1. m \in Nat /\ m >= from /\ m <= n - k /\ n \in Nat /\ k \in Nat /\ k > 0
      BY <1>2, <1>3, <1>5, <2>2
    <3>. HIDE DEF m, n, k
    <3>2. m \in from .. n - 1
      BY <3>1
    <3>. QED BY <3>2 DEF m, n
  <2>. QED BY <1>1, <1>5, <2>2, <2>3 DEF M
<1>. QED BY <1>4, <1>5

\* The hits from a place on, for the hits f of the places behind it.
HitsFrom(f, range, pattern, from) ==
  LET at == ScanMemory(range, from, pattern)
  IN IF at = None THEN << >> ELSE << range.base + at >> \o f[at + 1]

\* The scan of a range ends: its hits are those its definition says.
LEMMA HitsAreThere ==
  ASSUME NEW range, NEW pattern, Scannable(range, pattern)
  PROVE  \E hits : /\ HitsIn(range, pattern) = hits[0]
                   /\ \A from \in 0 .. Len(range.bytes) : hits[from] = HitsFrom(hits, range, pattern, from)
<1>. DEFINE n == Len(range.bytes)
            Step(f, from) == HitsFrom(f, range, pattern, from)
            Is(f, k) == f = [from \in n - k .. n |-> Step(f, from)]
            hits == CHOOSE f : f = [from \in 0 .. n |-> Step(f, from)]
            T == {k \in Nat : k <= n => \E f : Is(f, k)}
<1>1. HitsIn(range, pattern) = hits[0]
  BY DEF HitsIn, HitsFrom
<1>2. n \in Nat
  BY DEF Scannable
<1>3. ASSUME NEW from \in 0 .. n, NEW f, NEW g, \A m \in from + 1 .. n : f[m] = g[m]
      PROVE  Step(f, from) = Step(g, from)
  <2>. DEFINE at == ScanMemory(range, from, pattern)
  <2>1. at = None \/ at \in from .. n - 1
    BY <1>2, ScanFindsFirst
  <2>. HIDE DEF at
  <2>2. at = None \/ at + 1 \in from + 1 .. n
    BY <1>2, <2>1
  <2>3. at = None \/ f[at + 1] = g[at + 1]
    BY <1>3, <2>2
  <2>. QED BY <2>3 DEF HitsFrom, at
<1>. HIDE DEF n, Step, hits
<1>4. 0 \in T
  <2>. DEFINE f == [from \in n - 0 .. n |-> Step(<< >>, from)]
  <2>1. \A from \in n - 0 .. n : Step(<< >>, from) = Step(f, from)
    <3>1. \A from \in n - 0 .. n : from \in 0 .. n /\ from + 1 .. n = {}
      BY <1>2
    <3>. HIDE DEF f
    <3>. QED BY <1>3, <3>1
  <2>2. f = [from \in n - 0 .. n |-> Step(f, from)]
    BY <2>1
  <2>. HIDE DEF f
  <2>. QED BY <2>2
<1>5. ASSUME NEW k \in Nat, k + 1 <= n, NEW f, Is(f, k)
      PROVE  \E g : Is(g, k + 1)
  <2>. DEFINE g == [from \in n - (k + 1) .. n |-> IF from = n - (k + 1) THEN Step(f, from) ELSE f[from]]
  <2>1. \A from \in n - (k + 1) .. n : from \in 0 .. n /\ (from # n - (k + 1) => from \in n - k .. n)
    BY <1>2, <1>5
  <2>2. \A m \in n - k .. n : g[m] = f[m] /\ m # n - (k + 1)
    BY <1>2, <1>5
  <2>3. \A from \in n - k .. n : f[from] = Step(f, from)
    BY <1>5
  <2>4. ASSUME NEW from \in n - (k + 1) .. n
        PROVE  g[from] = Step(g, from)
    <3>1. \A m \in from + 1 .. n : m \in n - k .. n
      BY <1>2, <1>5
    <3>2. \A m \in from + 1 .. n : f[m] = g[m]
      BY <2>2, <3>1
    <3>3. g[from] = Step(f, from)
      <4>1. CASE from = n - (k + 1)
        BY <4>1
      <4>2. CASE from # n - (k + 1)
        BY <2>1, <2>2, <2>3, <4>2
      <4>. QED BY <4>1, <4>2
    <3>. HIDE DEF g
    <3>. QED BY <1>3, <2>1, <3>2, <3>3
  <2>5. g = [from \in n - (k + 1) .. n |-> g[from]]
    OBVIOUS
  <2>. HIDE DEF g
  <2>6. g = [from \in n - (k + 1) .. n |-> Step(g, from)]
    BY <2>4, <2>5
  <2>. QED BY <2>6
<1>6. n \in T
  <2>. HIDE DEF Is
  <2>1. \A k \in Nat : k \in T => k + 1 \in T
    BY <1>2, <1>5
  <2>. HIDE DEF T
  <2>. QED BY <1>2, <1>4, <2>1, CountedUp
<1>7. PICK f : f = [from \in n - n .. n |-> Step(f, from)]
  BY <1>2, <1>6
<1>8. hits = [from \in 0 .. n |-> Step(hits, from)]
  <2>1. n - n = 0
    BY <1>2
  <2>2. f = [from \in 0 .. n |-> Step(f, from)]
    BY <1>7, <2>1
  <2>. QED BY <2>2 DEF hits
<1>9. \A from \in 0 .. n : hits[from] = Step(hits, from)
  BY <1>8
<1>. QED BY <1>1, <1>9 DEF n, Step

\* Where the pattern stands in a range.
Spots(range, pattern) ==
  IF pattern = << >> THEN {} ELSE {range.base + at : at \in Matching(range, pattern, 0)}

\* The scan lists every match, overlapping ones included, the lower first.
LEMMA HitsListed ==
  ASSUME NEW range, NEW pattern, Scannable(range, pattern), None \notin Int
  PROVE  Listed(HitsIn(range, pattern), Spots(range, pattern))
<1>. DEFINE n == Len(range.bytes)
            base == range.base
            M(from) == Matching(range, pattern, from)
            At(from) == ScanMemory(range, from, pattern)
<1>1. n \in Nat /\ base \in Int
  BY DEF Scannable
<1>2. PICK hits : /\ HitsIn(range, pattern) = hits[0]
                  /\ \A from \in 0 .. n : hits[from] = HitsFrom(hits, range, pattern, from)
  BY HitsAreThere
<1>3. \A from \in 0 .. n :
        hits[from] = IF At(from) = None THEN << >> ELSE << base + At(from) >> \o hits[At(from) + 1]
  BY <1>2 DEF HitsFrom
<1>4. CASE pattern = << >>
  <2>1. 0 \in 0 .. n /\ 0 \in Nat
    BY <1>1
  <2>2. At(0) = None
    BY <1>4, <2>1, ScanFindsFirst
  <2>3. HitsIn(range, pattern) = << >>
    BY <1>2, <1>3, <2>1, <2>2
  <2>. QED BY <1>4, <2>3, ListedNone DEF Spots
<1>5. CASE pattern # << >>
  <2>. DEFINE All(from) == {base + at : at \in M(from)}
              G == {k \in Nat : \A from \in 0 .. n : from >= n - k => Listed(hits[from], All(from))}
  <2>1. ASSUME NEW from \in 0 .. n
        PROVE  \/ At(from) = None /\ M(from) = {}
               \/ /\ At(from) # None /\ At(from) \in from .. n - 1
                  /\ M(from) = {At(from)} \cup M(At(from) + 1)
                  /\ \A at \in M(At(from) + 1) : At(from) < at /\ at \in Nat
    <3>1. from \in Nat
      BY <1>1
    <3>2. \/ At(from) = None /\ M(from) = {}
          \/ /\ At(from) \in M(from) /\ At(from) \in from .. n - 1
             /\ \A at \in M(from) : At(from) <= at
      BY <1>5, <3>1, ScanFindsFirst
    <3>3. At(from) \in Nat => At(from) # None
      <4>1. \A x \in Nat : x # None
        OBVIOUS
      <4>. QED BY <4>1
    <3>. DEFINE a == At(from)
    <3>4. ASSUME a \in M(from), a \in from .. n - 1, \A at \in M(from) : a <= at
          PROVE  /\ a \in Nat /\ M(from) = {a} \cup M(a + 1)
                 /\ \A at \in M(a + 1) : a < at /\ at \in Nat
      <4>. HIDE DEF a
      <4>1. a \in Nat
        BY <1>1, <3>1, <3>4
      <4>2. \A at : at \in M(from) => at = a \/ at \in M(a + 1)
        BY <1>1, <3>1, <3>4, <4>1 DEF Matching, Scannable
      <4>3. \A at : at \in M(a + 1) => at \in M(from) /\ a < at /\ at \in Nat
        BY <1>1, <3>1, <3>4, <4>1 DEF Matching, Scannable
      <4>. HIDE DEF M
      <4>. QED BY <3>4, <4>1, <4>2, <4>3
    <3>. QED BY <3>2, <3>3, <3>4
  <2>2. ASSUME NEW from \in 0 .. n, At(from) = None
        PROVE  Listed(hits[from], All(from))
    <3>1. M(from) = {}
      BY <1>1, <2>1, <2>2, Zenon
    <3>2. hits[from] = << >>
      BY <1>3, <2>2
    <3>. HIDE DEF M
    <3>3. All(from) = {}
      BY <3>1
    <3>. QED BY <3>2, <3>3, ListedNone
  <2>3. ASSUME NEW from \in 0 .. n, At(from) # None, Listed(hits[At(from) + 1], All(At(from) + 1))
        PROVE  Listed(hits[from], All(from))
    <3>. DEFINE a == At(from)
    <3>1. /\ a \in from .. n - 1 /\ M(from) = {a} \cup M(a + 1)
          /\ \A at \in M(a + 1) : a < at /\ at \in Nat
      BY <2>1, <2>3
    <3>2. hits[from] = << base + a >> \o hits[a + 1] /\ Listed(hits[a + 1], All(a + 1))
      BY <1>3, <2>3
    <3>. HIDE DEF a, M
    <3>3. a \in Int /\ base + a \in Int
      BY <1>1, <3>1
    <3>4. \A x \in {base + a}, y \in All(a + 1) : x < y
      BY <1>1, <3>1, <3>3
    <3>5. All(from) = {base + a} \cup All(a + 1)
      BY <3>1
    <3>. HIDE DEF All
    <3>6. Listed(<< base + a >>, {base + a})
      BY <3>3, ListedOne
    <3>7. Listed(<< base + a >> \o hits[a + 1], {base + a} \cup All(a + 1))
      BY <3>2, <3>4, <3>6, ListedBoth
    <3>. QED BY <3>2, <3>5, <3>7
  <2>. HIDE DEF All
  <2>4. 0 \in G
    <3>. SUFFICES ASSUME NEW from \in 0 .. n, from >= n - 0 PROVE Listed(hits[from], All(from))
      OBVIOUS
    <3>1. At(from) = None
      <4>1. ~(At(from) \in from .. n - 1)
        BY <1>1
      <4>. QED BY <2>1, <4>1
    <3>. QED BY <2>2, <3>1
  <2>5. ASSUME NEW k \in Nat, k \in G
        PROVE  k + 1 \in G
    <3>. SUFFICES ASSUME NEW from \in 0 .. n, from >= n - (k + 1) PROVE Listed(hits[from], All(from))
      OBVIOUS
    <3>1. CASE At(from) = None
      BY <2>2, <3>1
    <3>2. CASE At(from) # None
      <4>1. At(from) \in from .. n - 1
        BY <2>1, <3>2
      <4>. DEFINE a == At(from) + 1
      <4>2. a \in 0 .. n /\ a >= n - k
        BY <1>1, <4>1
      <4>. HIDE DEF a
      <4>3. Listed(hits[a], All(a))
        BY <2>5, <4>2
      <4>. QED BY <2>3, <3>2, <4>3 DEF a
    <3>. QED BY <3>1, <3>2
  <2>6. n \in G
    <3>. HIDE DEF G
    <3>. QED BY <1>1, <2>4, <2>5, CountedUp
  <2>7. Listed(hits[0], All(0))
    <3>1. 0 \in 0 .. n /\ 0 >= n - n
      BY <1>1
    <3>. QED BY <2>6, <3>1
  <2>. QED BY <1>2, <1>5, <2>7 DEF Spots, All
<1>. QED BY <1>4, <1>5

-----------------------------------------------------------------------------
(* The library and its ranges.                                             *)

\* What is assumed of the host.
LEMMA HostsAre ==
  ASSUME host \in Hosts
  PROVE  /\ None \notin Int
         /\ DOMAIN host.process.objects = 1 .. Len(host.process.objects)
         /\ Len(host.process.objects) \in Nat
         /\ \A i \in 1 .. Len(host.process.objects) : IsObject(host.process.objects[i])
<1>1. /\ None \notin Int /\ host.process.objects \in Seq(Range(host.process.objects))
      /\ \A i \in DOMAIN host.process.objects : IsObject(host.process.objects[i])
  BY HostsAssumption
<1>2. /\ Len(host.process.objects) \in Nat
      /\ DOMAIN host.process.objects = 1 .. Len(host.process.objects)
  BY <1>1, LenProperties
<1>. QED BY <1>1, <1>2

\* A width is a number: the segments have a last one, and it ends last.
LEMMA SegmentsAre ==
  ASSUME NEW o, IsObject(o)
  PROVE  /\ o.segments \in Seq([base : Nat, bytes : Seq(Nat)]) /\ Len(o.segments) \in Nat \ {0}
         /\ \A i \in 1 .. Len(o.segments) : /\ o.segments[i].base \in Int
                                            /\ Len(o.segments[i].bytes) \in Nat
         /\ \A i, j \in 1 .. Len(o.segments) :
              i < j => EndOf(o.segments[i]) <= o.segments[j].base
         /\ Span(o) \in Nat /\ o.addr \in Nat /\ o # None
<1>. DEFINE segments == o.segments
            n == Len(segments)
            Ends == {EndOf(s) : s \in Range(segments)}
            E(i) == EndOf(segments[i])
            B(i) == segments[i].base
<1>1. /\ segments \in Seq([base : Nat, bytes : Seq(Nat)]) /\ segments # << >>
      /\ o.addr \in Nat /\ o.addr <= B(1) /\ o # None
      /\ \A i, j \in 1 .. n : i < j => E(i) <= B(j)
  BY DEF IsObject
<1>2. n \in Nat \ {0} /\ DOMAIN segments = 1 .. n
  BY <1>1, LenProperties, EmptySeq
<1>3. \A i \in 1 .. n : B(i) \in Nat /\ Len(segments[i].bytes) \in Nat
  <2>. TAKE i \in 1 .. n
  <2>1. segments[i] \in [base : Nat, bytes : Seq(Nat)]
    BY <1>1, ElementOfSeq
  <2>. QED BY <2>1, LenProperties
<1>4. \A i \in 1 .. n : E(i) \in Nat /\ E(i) >= B(i)
  BY <1>3 DEF EndOf
<1>5. Ends = {E(i) : i \in 1 .. n}
  BY <1>2 DEF Range
<1>. HIDE DEF n, segments
<1>6. 1 \in 1 .. n /\ n \in 1 .. n
  BY <1>2
<1>. HIDE DEF E, B
<1>7. \A i \in 1 .. n : E(i) <= E(n)
  <2>. TAKE i \in 1 .. n
  <2>1. CASE i = n
    BY <1>4, <2>1
  <2>2. CASE i # n
    <3>1. i < n
      BY <1>2, <2>2
    <3>2. E(i) <= B(n) /\ E(n) >= B(n)
      BY <1>1, <1>4, <1>6, <3>1
    <3>3. E(i) \in Nat /\ B(n) \in Nat /\ E(n) \in Nat
      BY <1>3, <1>4, <1>6
    <3>. QED BY <3>2, <3>3
  <2>. QED BY <2>1, <2>2
<1>8. Max(Ends) = E(n)
  <2>1. Ends \in SUBSET Nat /\ E(n) \in Ends
    BY <1>4, <1>5, <1>6
  <2>2. \A x \in Ends : x <= E(n)
    BY <1>5, <1>7
  <2>. HIDE DEF Ends
  <2>. QED BY <2>1, <2>2, GreatestIs
<1>9. Span(o) \in Nat
  <2>1. Span(o) = E(n) - o.addr
    BY <1>8 DEF Span, segments
  <2>2. o.addr \in Nat /\ o.addr <= B(1) /\ B(1) <= E(1) /\ E(1) <= E(n)
    BY <1>1, <1>4, <1>6, <1>7
  <2>3. B(1) \in Nat /\ E(1) \in Nat /\ E(n) \in Nat
    BY <1>3, <1>4, <1>6
  <2>. QED BY <2>1, <2>2, <2>3
<1>. QED BY <1>1, <1>2, <1>3, <1>9 DEF n, segments, E, B

\* Which of two objects is the wider.
WiderThan(objects, i, j) ==
  Span(objects[i]) > Span(objects[j]) \/ (Span(objects[i]) = Span(objects[j]) /\ i <= j)
\* What the walk has found after k objects.
FoundAfter(objects, file, k, best) ==
  \/ best = None /\ \A j \in 1 .. k : objects[j].file # file
  \/ \E i \in 1 .. k : /\ best = objects[i] /\ objects[i].file = file
                       /\ \A j \in 1 .. k : objects[j].file = file => WiderThan(objects, i, j)

\* dl_iterate_phdr's walk finds the widest object of the name, the first of equals.
LEMMA WidestIsSelected ==
  ASSUME NEW objects, NEW file, Len(objects) \in Nat,
         \A i \in 1 .. Len(objects) : IsObject(objects[i])
  PROVE  FoundAfter(objects, file, Len(objects), Selected(objects, file))
<1>. DEFINE n == Len(objects)
            Next1(x, k) == DlIterateCallback(x, objects[k], file)
            best == CHOOSE f : f = [k \in 0 .. n |-> IF k = 0 THEN None ELSE Next1(f[k - 1], k)]
            V == {objects[i] : i \in 1 .. n} \cup {None}
            G == [k \in 1 .. n |-> [x \in V |-> Next1(x, k)]]
<1>1. Selected(objects, file) = best[n]
  BY DEF Selected
<1>2. \A k \in 1 .. n : \A x \in V : Next1(x, k) \in V
  BY DEF DlIterateCallback
<1>. HIDE DEF n, Next1, best
<1>3. G \in [1 .. n -> [V -> V]] /\ None \in V
  BY <1>2
<1>4. \A k \in 1 .. n : \A x \in V : G[k][x] = Next1(x, k)
  OBVIOUS
<1>5. n \in Nat
  BY DEF n
<1>. HIDE DEF G, V
<1>6. PICK f : Computed(f, n, V, None, G)
  BY <1>3, <1>5, StepByStep
<1>7. \A k \in 0 .. n : f[k] = IF k = 0 THEN None ELSE Next1(f[k - 1], k)
  <2>. TAKE k \in 0 .. n
  <2>1. CASE k = 0
    BY <1>6, <2>1 DEF Computed
  <2>2. CASE k # 0
    <3>1. k \in 1 .. n /\ k - 1 \in 0 .. n
      BY <1>5, <2>2
    <3>2. f[k] = G[k][f[k - 1]] /\ f[k - 1] \in V
      BY <1>6, <3>1 DEF Computed
    <3>. QED BY <1>4, <2>2, <3>1, <3>2
  <2>. QED BY <2>1, <2>2
<1>8. f = [k \in 0 .. n |-> IF k = 0 THEN None ELSE Next1(f[k - 1], k)]
  BY <1>6, <1>7 DEF Computed
<1>9. best = [k \in 0 .. n |-> IF k = 0 THEN None ELSE Next1(best[k - 1], k)]
  BY <1>8 DEF best
<1>10. best[0] = None /\ \A k \in 1 .. n : best[k] = Next1(best[k - 1], k)
  <2>1. 0 \in 0 .. n /\ \A k \in 1 .. n : k \in 0 .. n /\ k # 0
    BY <1>5
  <2>. QED BY <1>9, <2>1
<1>. DEFINE T == {k \in Nat : k <= n => FoundAfter(objects, file, k, best[k])}
<1>11. 0 \in T
  BY <1>10 DEF FoundAfter
<1>12. ASSUME NEW k \in Nat, k + 1 <= n, FoundAfter(objects, file, k, best[k])
       PROVE  FoundAfter(objects, file, k + 1, best[k + 1])
  <2>. DEFINE o == objects[k + 1]
  <2>1. /\ k + 1 \in 1 .. n /\ \A i \in 1 .. k : i \in 1 .. n /\ i \in 1 .. k + 1 /\ i <= k + 1
        /\ \A i \in 1 .. k + 1 : i \in 1 .. k \/ i = k + 1
    BY <1>5, <1>12
  <2>2. best[k + 1] = DlIterateCallback(best[k], o, file)
    <3>1. (k + 1) - 1 = k
      OBVIOUS
    <3>. QED BY <1>10, <2>1, <3>1 DEF Next1
  <2>3. \A i \in 1 .. n : Span(objects[i]) \in Nat /\ objects[i] # None
    BY SegmentsAre DEF n
  <2>4. CASE best[k] = None /\ \A j \in 1 .. k : objects[j].file # file
    <3>1. CASE o.file # file
      <4>1. best[k + 1] = None
        BY <2>2, <2>4, <3>1 DEF DlIterateCallback
      <4>. QED BY <2>1, <2>4, <3>1, <4>1 DEF FoundAfter
    <3>2. CASE o.file = file
      <4>1. best[k + 1] = o
        BY <2>2, <2>4, <3>2 DEF DlIterateCallback
      <4>2. \A j \in 1 .. k + 1 : objects[j].file = file => WiderThan(objects, k + 1, j)
        BY <2>1, <2>4 DEF WiderThan
      <4>3. k + 1 \in 1 .. k + 1
        OBVIOUS
      <4>. QED BY <3>2, <4>1, <4>2, <4>3 DEF FoundAfter
    <3>. QED BY <3>1, <3>2
  <2>5. ASSUME NEW i \in 1 .. k, best[k] = objects[i], objects[i].file = file,
               \A j \in 1 .. k : objects[j].file = file => WiderThan(objects, i, j)
        PROVE  FoundAfter(objects, file, k + 1, best[k + 1])
    <3>1. best[k] # None /\ Span(best[k]) \in Nat /\ Span(o) \in Nat
      BY <2>1, <2>3, <2>5
    <3>2. CASE o.file # file \/ Span(o) <= Span(best[k])
      <4>1. best[k + 1] = objects[i]
        BY <2>2, <2>5, <3>1, <3>2 DEF DlIterateCallback
      <4>2. o.file = file => WiderThan(objects, i, k + 1)
        BY <2>1, <2>5, <3>1, <3>2 DEF WiderThan
      <4>3. \A j \in 1 .. k + 1 : objects[j].file = file => WiderThan(objects, i, j)
        BY <2>1, <2>5, <4>2
      <4>. QED BY <2>1, <2>5, <4>1, <4>3 DEF FoundAfter
    <3>3. CASE ~(o.file # file \/ Span(o) <= Span(best[k]))
      <4>1. best[k + 1] = o
        BY <2>2, <3>3 DEF DlIterateCallback
      <4>2. Span(o) > Span(objects[i])
        BY <2>5, <3>1, <3>3
      <4>3. ASSUME NEW j \in 1 .. k + 1, objects[j].file = file
            PROVE  WiderThan(objects, k + 1, j)
        <5>1. CASE j = k + 1
          BY <5>1 DEF WiderThan
        <5>2. CASE j # k + 1
          <6>1. WiderThan(objects, i, j) /\ Span(objects[j]) \in Nat /\ Span(objects[i]) \in Nat
            BY <2>1, <2>3, <2>5, <4>3, <5>2
          <6>2. Span(o) > Span(objects[j])
            BY <3>1, <4>2, <6>1 DEF WiderThan
          <6>. QED BY <6>2 DEF WiderThan
        <5>. QED BY <5>1, <5>2
      <4>4. k + 1 \in 1 .. k + 1
        OBVIOUS
      <4>. QED BY <3>3, <4>1, <4>3, <4>4 DEF FoundAfter
    <3>. QED BY <3>2, <3>3
  <2>. QED BY <1>12, <2>4, <2>5 DEF FoundAfter
<1>13. n \in T
  <2>1. \A k \in Nat : k \in T => k + 1 \in T
    BY <1>5, <1>12
  <2>. HIDE DEF T
  <2>. QED BY <1>5, <1>11, <2>1, CountedUp
<1>. QED BY <1>1, <1>13 DEF n

\* The ranges scanned are those of the game's own library, apart from each other and in order.
LEMMA RangesAreTheLibrarys ==
  ASSUME host \in Hosts, NEW file
  PROVE  \E ranges :
           /\ ranges = GetScanRanges(host.process, file)
           /\ Len(ranges) \in Nat
           /\ UNION {Mapped(o) : o \in Library(file)} = {ranges[r] : r \in 1 .. Len(ranges)}
           /\ \A r \in 1 .. Len(ranges) : ranges[r].base \in Int /\ Len(ranges[r].bytes) \in Nat
           /\ \A q, r \in 1 .. Len(ranges) : q < r => EndOf(ranges[q]) <= ranges[r].base
<1>. DEFINE objects == host.process.objects
            n == Len(objects)
            object == Selected(objects, file)
            ranges == GetScanRanges(host.process, file)
            wide == {i \in 1 .. n : /\ objects[i].file = file
                                    /\ \A j \in 1 .. n : objects[j].file = file => WiderThan(objects, i, j)}
<1>1. n \in Nat /\ DOMAIN objects = 1 .. n /\ \A i \in 1 .. n : IsObject(objects[i])
  BY HostsAre
<1>2. FoundAfter(objects, file, n, object)
  BY <1>1, WidestIsSelected
<1>3. Library(file) = {objects[i] : i \in wide}
  <2>. DEFINE named == {i \in DOMAIN objects : objects[i].file = file}
              Wider(i, j) == Span(objects[i]) > Span(objects[j]) \/ (Span(objects[i]) = Span(objects[j]) /\ i <= j)
  <2>1. Library(file) = {objects[i] : i \in {i \in named : \A j \in named : Wider(i, j)}}
    BY DEF Library
  <2>2. {i \in named : \A j \in named : Wider(i, j)} = wide
    <3>1. \A i \in 1 .. n : (\A j \in named : Wider(i, j)) <=> \A j \in 1 .. n : objects[j].file = file => WiderThan(objects, i, j)
      BY <1>1 DEF WiderThan
    <3>. QED BY <1>1, <3>1
  <2>. QED BY <2>1, <2>2
<1>4. ranges = IF object = None THEN << >>
               ELSE IF host.process.platform = "windows" THEN << ImageRange(object) >>
               ELSE object.segments
  BY DEF GetScanRanges
<1>5. \A i \in 1 .. n : Span(objects[i]) \in Nat /\ objects[i] # None
  BY <1>1, SegmentsAre
<1>. HIDE DEF n, objects, object, ranges
<1>6. CASE object = None
  <2>1. \A j \in 1 .. n : objects[j].file # file
    BY <1>2, <1>5, <1>6 DEF FoundAfter
  <2>2. wide = {}
    BY <2>1
  <2>3. Library(file) = {}
    BY <1>3, <2>2
  <2>4. ranges = << >> /\ Len(ranges) = 0
    BY <1>4, <1>6
  <2>. QED BY <2>3, <2>4 DEF ranges
<1>7. CASE object # None
  <2>1. PICK i \in 1 .. n : /\ object = objects[i] /\ objects[i].file = file
                            /\ \A j \in 1 .. n : objects[j].file = file => WiderThan(objects, i, j)
    BY <1>2, <1>7 DEF FoundAfter
  <2>2. wide = {i}
    <3>1. ASSUME NEW j \in wide PROVE j = i
      <4>1. j \in 1 .. n /\ WiderThan(objects, j, i) /\ WiderThan(objects, i, j)
        BY <2>1
      <4>2. Span(objects[i]) \in Nat /\ Span(objects[j]) \in Nat /\ i \in Int /\ j \in Int
        BY <1>5, <4>1
      <4>. QED BY <4>1, <4>2 DEF WiderThan
    <3>2. i \in wide
      BY <2>1
    <3>. QED BY <3>1, <3>2
  <2>. HIDE DEF wide
  <2>3. Library(file) = {object}
    BY <1>3, <2>1, <2>2
  <2>4. UNION {Mapped(o) : o \in Library(file)} = Mapped(object)
    BY <2>3
  <2>5. IsObject(object)
    BY <1>1, <2>1
  <2>6. CASE host.process.platform = "windows"
    <3>. DEFINE r == ImageRange(object)
    <3>1. ranges = << r >>
      BY <1>4, <1>7, <2>6
    <3>2. r.base \in Int /\ Len(r.bytes) \in Nat
      <4>1. Span(object) \in Nat /\ object.addr \in Nat
        BY <2>5, SegmentsAre
      <4>. DEFINE k == Span(object)
                  Byte(i1) == r.bytes[i1]
      <4>2. r.base = object.addr /\ r.bytes = [i1 \in 1 .. k |-> Byte(i1)]
        BY DEF ImageRange
      <4>. HIDE DEF r, k
      <4>. QED BY <4>1, <4>2 DEF k
    <3>3. Mapped(object) = {r}
      BY <2>6 DEF Mapped
    <3>. HIDE DEF r
    <3>4. Len(ranges) = 1 /\ ranges[1] = r
      BY <3>1
    <3>. QED BY <2>4, <3>2, <3>3, <3>4 DEF ranges
  <2>7. CASE host.process.platform # "windows"
    <3>1. ranges = object.segments
      BY <1>4, <1>7, <2>7
    <3>2. DOMAIN object.segments = 1 .. Len(object.segments)
      BY <2>5, SegmentsAre, LenProperties
    <3>3. Mapped(object) = {ranges[k] : k \in 1 .. Len(ranges)}
      BY <2>7, <3>1, <3>2 DEF Mapped
    <3>4. /\ Len(ranges) \in Nat
          /\ \A r \in 1 .. Len(ranges) : ranges[r].base \in Int /\ Len(ranges[r].bytes) \in Nat
          /\ \A q, r \in 1 .. Len(ranges) : q < r => EndOf(ranges[q]) <= ranges[r].base
      <4>. DEFINE t == object.segments
      <4>1. /\ Len(t) \in Nat
            /\ \A r \in 1 .. Len(t) : t[r].base \in Int /\ Len(t[r].bytes) \in Nat
            /\ \A q, r \in 1 .. Len(t) : q < r => EndOf(t[q]) <= t[r].base
        <5>1. IsObject(object)
          BY <2>5
        <5>2. Len(t) \in Nat
          BY <2>5, SegmentsAre
        <5>3. \A r \in 1 .. Len(t) : t[r].base \in Int /\ Len(t[r].bytes) \in Nat
          BY <2>5, SegmentsAre
        <5>4. \A q, r \in 1 .. Len(t) : q < r => EndOf(t[q]) <= t[r].base
          BY <2>5, SegmentsAre
        <5>. QED BY <5>2, <5>3, <5>4
      <4>. HIDE DEF t
      <4>2. ranges = t
        BY <3>1 DEF t
      <4>. QED BY <4>1, <4>2
    <3>. QED BY <2>4, <3>3, <3>4 DEF ranges
  <2>. QED BY <2>6, <2>7
<1>. QED BY <1>6, <1>7

-----------------------------------------------------------------------------
(* A pattern in its library.                                               *)

\* Where a pattern stands in the first k ranges.
Spotted(ranges, pattern, k) == UNION {Spots(ranges[r], pattern) : r \in 1 .. k}

\* A place lies within its range.
LEMMA SpotsWithin ==
  ASSUME NEW range, NEW pattern, Scannable(range, pattern), NEW x \in Spots(range, pattern)
  PROVE  x \in Int /\ range.base <= x /\ x < EndOf(range)
<1>1. /\ range.base \in Int /\ Len(range.bytes) \in Nat /\ Len(pattern) \in Nat
      /\ (pattern # << >> => Len(pattern) # 0)
  BY DEF Scannable
<1>2. pattern # << >> /\ x \in {range.base + at : at \in Matching(range, pattern, 0)}
  BY DEF Spots
<1>3. PICK at \in Matching(range, pattern, 0) : x = range.base + at
  BY <1>2
<1>4. at \in 0 .. Len(range.bytes) - Len(pattern)
  BY DEF Matching
<1>. DEFINE n == Len(range.bytes)
            k == Len(pattern)
            base == range.base
<1>5. /\ base \in Int /\ n \in Nat /\ k \in Nat /\ k # 0 /\ x = base + at /\ at \in 0 .. n - k
  BY <1>1, <1>2, <1>3, <1>4
<1>. HIDE DEF n, k, base
<1>6. x \in Int /\ base <= x /\ x < base + n
  BY <1>5
<1>. QED BY <1>6 DEF EndOf, n, base

\* FindPatternEx takes the ranges in their order, the hits of each behind those before.
ScannedAs(scan, ranges, parsed, upTo) ==
  /\ scan = [address |-> IF upTo[Len(ranges)] = << >> THEN None ELSE Head(upTo[Len(ranges)]),
             unique |-> Len(upTo[Len(ranges)]) < 2]
  /\ upTo[0] = << >>
  /\ \A r \in 1 .. Len(ranges) : upTo[r] = upTo[r - 1] \o HitsIn(ranges[r], parsed)

LEMMA RangesInOrder ==
  ASSUME NEW process, NEW library, NEW tokens,
         NEW ranges, ranges = GetScanRanges(process, library), Len(ranges) \in Nat,
         NEW parsed, parsed = ParsePattern(tokens).bytes,
         \A r \in 1 .. Len(ranges) : HitsIn(ranges[r], parsed) \in Seq(Int)
  PROVE  \E upTo : ScannedAs(FindPatternEx(process, library, tokens), ranges, parsed, upTo)
<1>. DEFINE rs == GetScanRanges(process, library)
            bytes == ParsePattern(tokens).bytes
            n == Len(rs)
            H(r) == HitsIn(rs[r], bytes)
            upTo == CHOOSE f : f = [r \in 0 .. n |-> IF r = 0 THEN << >> ELSE f[r - 1] \o H(r)]
            V == Seq(Int)
            G == [r \in 1 .. n |-> [s \in V |-> s \o H(r)]]
<1>1. FindPatternEx(process, library, tokens)
        = [address |-> IF upTo[n] = << >> THEN None ELSE Head(upTo[n]), unique |-> Len(upTo[n]) < 2]
  BY DEF FindPatternEx
<1>2. n \in Nat /\ \A r \in 1 .. n : H(r) \in V
  OBVIOUS
<1>. HIDE DEF n, H, upTo
<1>3. G \in [1 .. n -> [V -> V]] /\ << >> \in V
  <2>1. \A r \in 1 .. n : \A s \in V : s \o H(r) \in V
    BY <1>2, ConcatProperties
  <2>. QED BY <2>1
<1>4. \A r \in 1 .. n : \A s \in V : G[r][s] = s \o H(r)
  OBVIOUS
<1>. HIDE DEF G, V
<1>5. PICK f : Computed(f, n, V, << >>, G)
  BY <1>2, <1>3, StepByStep
<1>6. \A r \in 0 .. n : f[r] = IF r = 0 THEN << >> ELSE f[r - 1] \o H(r)
  <2>. TAKE r \in 0 .. n
  <2>1. CASE r = 0
    BY <1>5, <2>1 DEF Computed
  <2>2. CASE r # 0
    <3>1. r \in 1 .. n /\ r - 1 \in 0 .. n
      BY <1>2, <2>2
    <3>2. f[r] = G[r][f[r - 1]] /\ f[r - 1] \in V
      BY <1>5, <3>1 DEF Computed
    <3>. QED BY <1>4, <2>2, <3>1, <3>2
  <2>. QED BY <2>1, <2>2
<1>7. f = [r \in 0 .. n |-> IF r = 0 THEN << >> ELSE f[r - 1] \o H(r)]
  BY <1>5, <1>6 DEF Computed
<1>8. upTo = [r \in 0 .. n |-> IF r = 0 THEN << >> ELSE upTo[r - 1] \o H(r)]
  BY <1>7 DEF upTo
<1>9. upTo[0] = << >> /\ \A r \in 1 .. n : upTo[r] = upTo[r - 1] \o H(r)
  <2>1. 0 \in 0 .. n /\ \A r \in 1 .. n : r \in 0 .. n /\ r # 0
    BY <1>2
  <2>. QED BY <1>8, <2>1
<1>10. ScannedAs(FindPatternEx(process, library, tokens), rs, bytes, upTo)
  BY <1>1, <1>9 DEF n, H, ScannedAs
<1>. QED BY <1>10

\* The scan of the ranges lists the places of all.
LEMMA RangesListed ==
  ASSUME None \notin Int, NEW ranges, NEW pattern, NEW n \in Nat,
         \A r \in 1 .. n : Scannable(ranges[r], pattern),
         \A q, r \in 1 .. n : q < r => EndOf(ranges[q]) <= ranges[r].base,
         NEW upTo, upTo[0] = << >>,
         \A r \in 1 .. n : upTo[r] = upTo[r - 1] \o HitsIn(ranges[r], pattern)
  PROVE  Listed(upTo[n], Spotted(ranges, pattern, n))
<1>. DEFINE S(r) == Spots(ranges[r], pattern)
            All(k) == Spotted(ranges, pattern, k)
<1>1. \A r \in 1 .. n : \A x \in S(r) : x \in Int /\ ranges[r].base <= x /\ x < EndOf(ranges[r])
  BY SpotsWithin
<1>2. \A r \in 1 .. n : ranges[r].base \in Int /\ EndOf(ranges[r]) \in Int
  BY DEF Scannable, EndOf
<1>3. \A k \in Nat : All(k) = UNION {S(r) : r \in 1 .. k}
  BY DEF Spotted
<1>. HIDE DEF S, All
<1>. DEFINE T == {k \in Nat : k <= n => Listed(upTo[k], All(k))}
<1>4. 0 \in T
  <2>1. All(0) = {}
    BY <1>3
  <2>. QED BY <2>1, ListedNone
<1>5. ASSUME NEW k \in Nat, k + 1 <= n, Listed(upTo[k], All(k))
       PROVE  Listed(upTo[k + 1], All(k + 1))
  <2>1. /\ k + 1 \in 1 .. n /\ (k + 1) - 1 = k
        /\ \A r \in 1 .. k : r \in 1 .. n /\ r < k + 1
        /\ 1 .. k + 1 = (1 .. k) \cup {k + 1}
    BY <1>5
  <2>2. upTo[k + 1] = upTo[k] \o HitsIn(ranges[k + 1], pattern)
    BY <2>1
  <2>3. All(k + 1) = All(k) \cup S(k + 1)
    <3>1. All(k + 1) = UNION {S(r) : r \in (1 .. k) \cup {k + 1}}
      BY <1>3, <2>1
    <3>2. All(k) = UNION {S(r) : r \in 1 .. k}
      BY <1>3
    <3>. QED BY <3>1, <3>2
  <2>4. ASSUME NEW x \in All(k), NEW y \in S(k + 1)
        PROVE  x < y
    <3>1. PICK r \in 1 .. k : x \in S(r)
      BY <1>3
    <3>2. /\ x \in Int /\ x < EndOf(ranges[r]) /\ EndOf(ranges[r]) \in Int
          /\ y \in Int /\ ranges[k + 1].base <= y /\ ranges[k + 1].base \in Int
      BY <1>1, <1>2, <2>1, <3>1
    <3>3. EndOf(ranges[r]) <= ranges[k + 1].base
      BY <2>1
    <3>. QED BY <3>2, <3>3
  <2>5. Listed(HitsIn(ranges[k + 1], pattern), S(k + 1))
    BY <2>1, HitsListed DEF S
  <2>6. Listed(upTo[k] \o HitsIn(ranges[k + 1], pattern), All(k) \cup S(k + 1))
    BY <1>5, <2>4, <2>5, ListedBoth
  <2>. QED BY <2>2, <2>3, <2>6
<1>6. n \in T
  <2>1. \A k \in Nat : k \in T => k + 1 \in T
    BY <1>5
  <2>. HIDE DEF T
  <2>. QED BY <1>4, <2>1, CountedUp
<1>7. Listed(upTo[n], All(n))
  BY <1>6
<1>. QED BY <1>7 DEF All

\* A parsed pattern has the length of its tokens, and a token of it is the byte it stands for.
LEMMA ParsedAre ==
  ASSUME NEW tokens \in Seq(Int)
  PROVE  LET parsed == ParsePattern(tokens).bytes
         IN  /\ Len(parsed) = Len(tokens) /\ Len(parsed) \in Nat
             /\ (parsed = << >> <=> Len(parsed) = 0) /\ (parsed = << >> <=> tokens = << >>)
             /\ DOMAIN parsed = DOMAIN tokens
             /\ \A j \in DOMAIN tokens : \A byte :
                  parsed[j] \in {Wild, byte} <=> (tokens[j] = Wild \/ tokens[j] % 256 = byte)
<1>. DEFINE parsed == ParsePattern(tokens).bytes
            n == Len(tokens)
<1>1. n \in Nat /\ DOMAIN tokens = 1 .. n /\ \A j \in 1 .. n : tokens[j] \in Int
  BY LenProperties, ElementOfSeq
<1>2. parsed = [j \in 1 .. n |-> IF tokens[j] = Wild THEN Wild ELSE tokens[j] % 256]
  BY <1>1 DEF ParsePattern
<1>3. tokens = << >> <=> n = 0
  BY EmptySeq
<1>. HIDE DEF parsed, n
<1>4. \A j \in 1 .. n : parsed[j] = IF tokens[j] = Wild THEN Wild ELSE tokens[j] % 256
  BY <1>2
<1>5. parsed \in [1 .. n -> Int]
  BY <1>1, <1>2 DEF Wild
<1>6. parsed \in Seq(Int) /\ Len(parsed) = n
  BY <1>1, <1>5, SeqDef, LenProperties
<1>7. parsed = << >> <=> n = 0
  BY <1>6, EmptySeq
<1>8. ASSUME NEW j \in 1 .. n, NEW byte
      PROVE  parsed[j] \in {Wild, byte} <=> (tokens[j] = Wild \/ tokens[j] % 256 = byte)
  <2>1. tokens[j] % 256 # Wild
    BY <1>1 DEF Wild
  <2>. QED BY <1>4, <2>1
<1>. QED BY <1>1, <1>3, <1>5, <1>6, <1>7, <1>8 DEF n, parsed

\* The places of a signature are where its parsed pattern stands in the ranges of its library.
LEMMA PlacesAreSpotted ==
  ASSUME NEW sig, sig.pattern \in Seq(Int), NEW ranges, Len(ranges) \in Nat,
         UNION {Mapped(o) : o \in Library(sig.library)} = {ranges[r] : r \in 1 .. Len(ranges)}
  PROVE  Places(sig) = Spotted(ranges, ParsePattern(sig.pattern).bytes, Len(ranges))
<1>. DEFINE tokens == sig.pattern
            parsed == ParsePattern(tokens).bytes
            In(range) == {range.base + at : at \in {at \in 0 .. Len(range.bytes) - Len(sig.pattern) :
                     \A j \in DOMAIN sig.pattern : \/ sig.pattern[j] = Wild
                                                   \/ sig.pattern[j] % 256 = range.bytes[at + j]}}
            Mine == UNION {Mapped(o) : o \in Library(sig.library)}
<1>1. /\ Len(parsed) = Len(tokens) /\ (parsed = << >> <=> tokens = << >>)
      /\ DOMAIN parsed = DOMAIN tokens
      /\ \A j \in DOMAIN tokens : \A byte :
           parsed[j] \in {Wild, byte} <=> (tokens[j] = Wild \/ tokens[j] % 256 = byte)
  BY ParsedAre
<1>2. Places(sig) = IF tokens = << >> THEN {} ELSE UNION {In(range) : range \in Mine}
  BY DEF Places
<1>. HIDE DEF parsed
<1>3. CASE tokens = << >>
  <2>1. \A r \in 1 .. Len(ranges) : Spots(ranges[r], parsed) = {}
    BY <1>1, <1>3 DEF Spots
  <2>2. Spotted(ranges, parsed, Len(ranges)) = {}
    BY <2>1 DEF Spotted
  <2>. QED BY <1>2, <1>3, <2>2 DEF parsed
<1>4. CASE tokens # << >>
  <2>1. ASSUME NEW range
        PROVE  In(range) = Spots(range, parsed)
    <3>1. \A at : MatchesAt(range, at, parsed) <=>
                    \A j \in DOMAIN tokens : tokens[j] = Wild \/ tokens[j] % 256 = range.bytes[at + j]
      <4>. TAKE at
      <4>1. \A j \in DOMAIN tokens : parsed[j] \in {Wild, range.bytes[at + j]}
                                      <=> (tokens[j] = Wild \/ tokens[j] % 256 = range.bytes[at + j])
        BY <1>1
      <4>2. MatchesAt(range, at, parsed) <=>
              \A j \in DOMAIN tokens : parsed[j] \in {Wild, range.bytes[at + j]}
        BY <1>1 DEF MatchesAt
      <4>. QED BY <4>1, <4>2
    <3>. HIDE DEF tokens
    <3>2. {at \in 0 .. Len(range.bytes) - Len(tokens) :
             \A j \in DOMAIN tokens : tokens[j] = Wild \/ tokens[j] % 256 = range.bytes[at + j]}
            = {at \in 0 .. Len(range.bytes) - Len(tokens) : MatchesAt(range, at, parsed)}
      BY <3>1
    <3>3. Matching(range, parsed, 0)
            = {at \in 0 .. Len(range.bytes) - Len(tokens) : MatchesAt(range, at, parsed)}
      BY <1>1 DEF Matching
    <3>4. Spots(range, parsed) = {range.base + at : at \in Matching(range, parsed, 0)}
      BY <1>1, <1>4 DEF Spots
    <3>. QED BY <3>2, <3>3, <3>4 DEF tokens
  <2>. HIDE DEF In
  <2>2. Mine = {ranges[r] : r \in 1 .. Len(ranges)}
    OBVIOUS
  <2>. HIDE DEF Mine
  <2>3. UNION {In(range) : range \in Mine} = UNION {Spots(ranges[r], parsed) : r \in 1 .. Len(ranges)}
    <3>1. \A range : In(range) = Spots(range, parsed)
      BY <2>1
    <3>. QED BY <2>2, <3>1
  <2>. QED BY <1>2, <1>4, <2>3 DEF Spotted, parsed
<1>. QED BY <1>3, <1>4

\* What the scanner answers about a signature is true.
LEMMA PatternsAreFound ==
  ASSUME host \in Hosts, NEW sig, sig.pattern \in Seq(Int),
         NEW scan, scan = FindPatternEx(host.process, sig.library, sig.pattern)
  PROVE  /\ scan.address = None <=> Places(sig) = {}
         /\ Places(sig) # {} => /\ scan.address \in Places(sig) /\ \A p \in Places(sig) : scan.address <= p
                                /\ scan.unique <=> Cardinality(Places(sig)) = 1
<1>1. PICK ranges :
           /\ ranges = GetScanRanges(host.process, sig.library)
           /\ Len(ranges) \in Nat
           /\ UNION {Mapped(o) : o \in Library(sig.library)} = {ranges[r] : r \in 1 .. Len(ranges)}
           /\ \A r \in 1 .. Len(ranges) : ranges[r].base \in Int /\ Len(ranges[r].bytes) \in Nat
           /\ \A q, r \in 1 .. Len(ranges) : q < r => EndOf(ranges[q]) <= ranges[r].base
  BY RangesAreTheLibrarys
<1>2. PICK parsed : parsed = ParsePattern(sig.pattern).bytes
  OBVIOUS
<1>3. Len(parsed) \in Nat /\ (parsed = << >> <=> Len(parsed) = 0)
  BY <1>2, ParsedAre
<1>4. \A r \in 1 .. Len(ranges) : Scannable(ranges[r], parsed)
  BY <1>1, <1>3 DEF Scannable
<1>5. None \notin Int
  BY HostsAre
<1>6. \A r \in 1 .. Len(ranges) : HitsIn(ranges[r], parsed) \in Seq(Int)
  BY <1>4, <1>5, HitsListed DEF Listed
<1>7. PICK upTo : ScannedAs(scan, ranges, parsed, upTo)
  BY <1>1, <1>2, <1>6, RangesInOrder
<1>. DEFINE hits == upTo[Len(ranges)]
            S == Places(sig)
<1>8. Listed(hits, Spotted(ranges, parsed, Len(ranges)))
  <2>1. upTo[0] = << >> /\ \A r \in 1 .. Len(ranges) : upTo[r] = upTo[r - 1] \o HitsIn(ranges[r], parsed)
    BY <1>7 DEF ScannedAs
  <2>. QED BY <1>1, <1>4, <1>5, <2>1, RangesListed
<1>9. S = Spotted(ranges, parsed, Len(ranges))
  BY <1>1, <1>2, PlacesAreSpotted
<1>10. scan = [address |-> IF hits = << >> THEN None ELSE Head(hits), unique |-> Len(hits) < 2]
  BY <1>7 DEF ScannedAs
<1>. HIDE DEF hits, S
<1>11. Listed(hits, S)
  BY <1>8, <1>9
<1>12. /\ hits = << >> <=> S = {}
       /\ S # {} => /\ Head(hits) \in S /\ \A p \in S : Head(hits) <= p
                    /\ Len(hits) < 2 <=> Cardinality(S) = 1
  BY <1>11, ListedTells
<1>13. S \subseteq Int
  BY <1>11, ElementOfSeq DEF Listed
<1>14. scan.address = (IF hits = << >> THEN None ELSE Head(hits)) /\ (scan.unique <=> Len(hits) < 2)
  <2>1. \A a, u : [address |-> a, unique |-> u].address = a /\ [address |-> a, unique |-> u].unique = u
    OBVIOUS
  <2>2. scan.address = IF hits = << >> THEN None ELSE Head(hits)
    BY <1>10, <2>1, ZenonT(60)
  <2>3. scan.unique = (Len(hits) < 2)
    BY <1>10, <2>1, ZenonT(60)
  <2>. QED BY <2>2, <2>3
<1>15. S # {} => scan.address # None
  BY <1>5, <1>12, <1>13, <1>14
<1>. QED BY <1>12, <1>14, <1>15 DEF S

-----------------------------------------------------------------------------
(* What the GameData stage leaves behind.                                  *)

\* The stages run before the kit does, over one host.
LEMMA StartsBefore ==
  ASSUME StartupNext
  PROVE  phase # "running" /\ host' = host
BY DEF StartupNext, ResolveInterfaces, GameDataStage, MessagesStage, SchemaStage, EntitiesStage, EntityOpsStage,
       PrecacheStage, GameEventManagerStage, ConVarsStage, EventsStage, TransmitStage, PluginStage, OnLoadReturns,
       Degradable, Thrown

\* The phases after the GameData stage, up to the plugin's own.
AfterGameData == { "Messages", "Schema", "Entities", "EntityOps", "Precache", "GameEventManager",
                   "ConVars", "Events", "Transmit", "onload" }

TablesLoaded == LoadGameData(host.file, host.process.platform)
Problems == FailureSummary(gamedata).failed \cup FailureSummary(gamedata).ambiguous

\* The tables are those of the file, resolved if it was read, and an entry of the report has
\* what is wrong with them.
GameDataInv ==
  /\ host \in Hosts
  /\ \E S : report \in Seq(S)
  /\ phase \in AfterGameData =>
       /\ gamedata = IF TablesLoaded.ok THEN ResolveAll(host.process, TablesLoaded.data) ELSE TablesLoaded.data
       /\ \E i \in 1 .. Len(report) : report[i].detail = IF TablesLoaded.ok THEN Problems ELSE {"file"}

\* A stage that comes later leaves the tables alone, and the entries of the report.
LEMMA LaterStages ==
  ASSUME StartupNext, phase' \in AfterGameData
  PROVE  \/ GameDataStage
         \/ /\ phase \in AfterGameData /\ gamedata' = gamedata
            /\ report' = report \/ \E e : report' = Append(report, e)
<1>1. CASE ResolveInterfaces
  BY <1>1 DEF ResolveInterfaces, AfterGameData
<1>2. CASE MessagesStage
  BY <1>2 DEF MessagesStage, Run, AfterGameData
<1>3. CASE SchemaStage
  BY <1>3 DEF SchemaStage, Degradable, Run, AfterGameData
<1>4. CASE EntitiesStage
  BY <1>4 DEF EntitiesStage, Degradable, Run, AfterGameData
<1>5. CASE EntityOpsStage
  BY <1>5 DEF EntityOpsStage, Degradable, Thrown, Run, AfterGameData
<1>6. CASE PrecacheStage
  BY <1>6 DEF PrecacheStage, Degradable, Thrown, Run, AfterGameData
<1>7. CASE GameEventManagerStage
  BY <1>7 DEF GameEventManagerStage, Degradable, Thrown, Run, AfterGameData
<1>8. CASE ConVarsStage
  BY <1>8 DEF ConVarsStage, Degradable, Run, AfterGameData
<1>9. CASE EventsStage
  BY <1>9 DEF EventsStage, Degradable, Run, AfterGameData
<1>10. CASE TransmitStage
  BY <1>10 DEF TransmitStage, Run, AfterGameData
<1>11. CASE PluginStage("Effects", "EntityOps")
  BY <1>11 DEF PluginStage, Run, AfterGameData
<1>12. CASE \E ok \in BOOLEAN : OnLoadReturns(ok)
  BY <1>12 DEF OnLoadReturns, AfterGameData
<1>. QED BY <1>1, <1>2, <1>3, <1>4, <1>5, <1>6, <1>7, <1>8, <1>9, <1>10, <1>11, <1>12 DEF StartupNext

\* An entry more, or none.
LEMMA ReportGrows ==
  ASSUME NEW S, report \in Seq(S), report' = report \/ \E e : report' = Append(report, e)
  PROVE  /\ \E R : report' \in Seq(R)
         /\ Len(report) <= Len(report') /\ Len(report) \in Nat /\ Len(report') \in Nat
         /\ \A i \in 1 .. Len(report) : report'[i] = report[i]
<1>1. CASE report' = report
  BY <1>1, LenProperties
<1>2. ASSUME NEW e, report' = Append(report, e)
      PROVE  /\ report' \in Seq(S \cup {e})
             /\ Len(report) <= Len(report') /\ Len(report) \in Nat /\ Len(report') \in Nat
             /\ \A i \in 1 .. Len(report) : report'[i] = report[i]
  <2>1. report \in Seq(S \cup {e})
    OBVIOUS
  <2>. QED BY <1>2, <2>1, AppendProperties, LenProperties
<1>. QED BY <1>1, <1>2

\* A stage keeps the invariant; its own stage establishes it.
LEMMA GameDataKept ==
  ASSUME GameDataInv, StartupNext, host' = host
  PROVE  GameDataInv'
<1>. DEFINE load == LoadGameData(host.file, host.process.platform)
<1>1. PICK S : report \in Seq(S)
  BY DEF GameDataInv
<1>2. report' = report \/ \E e : report' = Append(report, e)
  <2>1. CASE ResolveInterfaces \/ (\E ok \in BOOLEAN : OnLoadReturns(ok))
    BY <2>1 DEF ResolveInterfaces, OnLoadReturns
  <2>. QED BY <2>1 DEF StartupNext, GameDataStage, MessagesStage, SchemaStage, EntitiesStage, EntityOpsStage, PrecacheStage,
                GameEventManagerStage, ConVarsStage, EventsStage, TransmitStage, PluginStage, Degradable, Thrown, Run
<1>3. \E R : report' \in Seq(R)
  BY <1>1, <1>2, ReportGrows
<1>4. TablesLoaded = load /\ TablesLoaded' = load
  BY DEF TablesLoaded
<1>5. ASSUME phase' \in AfterGameData, GameDataStage
      PROVE  /\ gamedata' = IF load.ok THEN ResolveAll(host.process, load.data) ELSE load.data
             /\ \E i \in 1 .. Len(report') : report'[i].detail = IF load.ok THEN Problems' ELSE {"file"}
  <2>. DEFINE resolved == ResolveAll(host.process, load.data)
              failures == FailureSummary(resolved)
              entry == report'[Len(report) + 1]
  <2>1. phase' # "thrown"
    BY <1>5 DEF AfterGameData
  <2>2. /\ gamedata' = IF load.ok THEN resolved ELSE load.data
        /\ IF load.ok
           THEN Run("GameData", IF failures.failed \cup failures.ambiguous = {} THEN "ok" ELSE "degraded",
                    failures.failed \cup failures.ambiguous)
           ELSE Run("GameData", "degraded", {"file"})
    BY <1>5, <2>1 DEF GameDataStage, Thrown
  <2>. HIDE DEF load, resolved, failures
  <2>3. PICK status, detail : /\ report' = Append(report, [name |-> "GameData", status |-> status, detail |-> detail])
                              /\ detail = IF load.ok THEN failures.failed \cup failures.ambiguous ELSE {"file"}
    <3>1. CASE load.ok
      BY <2>2, <3>1 DEF Run
    <3>2. CASE ~load.ok
      BY <2>2, <3>2 DEF Run
    <3>. QED BY <3>1, <3>2
  <2>4. Len(report) + 1 \in 1 .. Len(report') /\ entry.detail = detail
    <3>1. entry = [name |-> "GameData", status |-> status, detail |-> detail]
      BY <1>1, <2>3
    <3>2. Len(report') = Len(report) + 1 /\ Len(report) \in Nat
      BY <1>1, <2>3
    <3>. QED BY <3>1, <3>2
  <2>5. load.ok => Problems' = failures.failed \cup failures.ambiguous
    <3>. SUFFICES ASSUME load.ok PROVE Problems' = failures.failed \cup failures.ambiguous
      OBVIOUS
    <3>1. gamedata' = resolved
      BY <2>2
    <3>. QED BY <3>1 DEF Problems, failures
  <2>. QED BY <2>2, <2>3, <2>4, <2>5 DEF resolved
<1>6. ASSUME phase' \in AfterGameData, phase \in AfterGameData, gamedata' = gamedata
      PROVE  /\ gamedata' = IF load.ok THEN ResolveAll(host.process, load.data) ELSE load.data
             /\ \E i \in 1 .. Len(report') : report'[i].detail = IF load.ok THEN Problems' ELSE {"file"}
  <2>1. Problems' = Problems
    BY <1>6 DEF Problems
  <2>2. PICK i \in 1 .. Len(report) : report[i].detail = IF load.ok THEN Problems ELSE {"file"}
    BY <1>4, <1>6 DEF GameDataInv
  <2>3. i \in 1 .. Len(report') /\ report'[i] = report[i]
    BY <1>1, <1>2, ReportGrows
  <2>4. gamedata' = IF load.ok THEN ResolveAll(host.process, load.data) ELSE load.data
    BY <1>4, <1>6 DEF GameDataInv
  <2>. QED BY <2>1, <2>2, <2>3, <2>4
<1>7. host' \in Hosts
  BY DEF GameDataInv
<1>. HIDE DEF load
<1>. QED BY <1>3, <1>4, <1>5, <1>6, <1>7, LaterStages DEF GameDataInv

LEMMA GameDataInvariance == KitSpec => []GameDataInv
<1>1. KitInit => GameDataInv
  <2>. SUFFICES ASSUME KitInit PROVE GameDataInv
    OBVIOUS
  <2>1. host \in Hosts /\ phase = "interfaces" /\ report = << >>
    BY DEF KitInit, StartupInit
  <2>2. report \in Seq({0})
    BY <2>1
  <2>. QED BY <2>1, <2>2 DEF GameDataInv, AfterGameData
<1>2. GameDataInv /\ [KitNext]_kitVars => GameDataInv'
  <2>. SUFFICES ASSUME GameDataInv, [KitNext]_kitVars PROVE GameDataInv'
    OBVIOUS
  <2>1. CASE StartupNext
    BY <2>1, StartsBefore, GameDataKept
  <2>2. CASE UNCHANGED startupVars
    BY <2>2 DEF startupVars, GameDataInv, TablesLoaded, Problems
  <2>. QED BY <2>1, <2>2 DEF KitNext, kitVars
<1>. QED BY <1>1, <1>2, PTL DEF KitSpec

\* What the loader stored for a name is a signature of the file.
LEMMA StoredAreSignatures ==
  ASSUME host \in Hosts, NEW name \in DOMAIN TablesLoaded.data.signatures
  PROVE  TablesLoaded.data.signatures[name].pattern \in Seq(Int)
<1>. DEFINE section == host.file.signatures
            platform == host.process.platform
            broken == {i \in DOMAIN section : section[i][platform] = Broken}
            read == IF broken = {} THEN DOMAIN section ELSE 1 .. Min(broken) - 1
            of(nm) == CHOOSE i \in read : section[i].name = nm
            stored == Stored(section, platform)
<1>1. /\ section \in Seq(Range(section))
      /\ \A i \in DOMAIN section : IsEntry(section[i], platform)
      /\ \A i, j \in DOMAIN section : section[i].name = section[j].name => i = j
  BY HostsAssumption
<1>2. DOMAIN section = 1 .. Len(section) /\ Len(section) \in Nat
  BY <1>1, LenProperties
<1>3. TablesLoaded.data.signatures \in {<< >>, stored}
  BY DEF TablesLoaded, LoadGameData, NoGameData
<1>4. TablesLoaded.data.signatures = stored /\ name \in DOMAIN stored
  BY <1>3
<1>5. /\ DOMAIN stored = {section[i].name : i \in {i \in read : section[i][platform] # None}}
      /\ \A nm \in DOMAIN stored : stored[nm] = section[of(nm)][platform]
  BY DEF Stored
<1>6. read \subseteq DOMAIN section /\ \A i \in read : section[i][platform] # Broken
  <2>1. CASE broken = {}
    BY <2>1
  <2>2. CASE broken # {}
    <3>1. broken \in SUBSET Nat
      BY <1>2
    <3>2. PICK x \in broken : \A y \in broken : x <= y
      BY <2>2, <3>1, LeastOf
    <3>3. Min(broken) \in broken /\ \A y \in broken : Min(broken) <= y
      BY <3>2 DEF Min
    <3>. DEFINE m == Min(broken)
    <3>4. read = 1 .. m - 1 /\ m \in 1 .. Len(section)
      BY <1>2, <2>2, <3>3
    <3>5. ASSUME NEW i \in read PROVE i \in DOMAIN section /\ i \notin broken
      <4>. HIDE DEF m, broken
      <4>. QED BY <1>2, <3>3, <3>4, <3>5 DEF m
    <3>. QED BY <3>5
  <2>. QED BY <2>1, <2>2
<1>. HIDE DEF read, stored, section, platform
<1>7. PICK i \in read : name = section[i].name /\ section[i][platform] # None
  BY <1>4, <1>5
<1>8. of(name) = i
  <2>1. of(name) \in read /\ section[of(name)].name = name
    BY <1>7
  <2>. HIDE DEF of
  <2>. QED BY <1>1, <1>6, <1>7, <2>1
<1>9. stored[name] = section[i][platform]
  BY <1>4, <1>5, <1>8
<1>10. section[i][platform].pattern \in Seq(Int)
  BY <1>1, <1>6, <1>7 DEF IsEntry
<1>. QED BY <1>4, <1>9, <1>10

\* A file that was read has an entry of every name given for this platform.
LEMMA GivenAreStored ==
  ASSUME TablesLoaded.ok, NEW name \in Given
  PROVE  name \in DOMAIN TablesLoaded.data.signatures
<1>. DEFINE section == host.file.signatures
            platform == host.process.platform
<1>1. /\ TablesLoaded.data.signatures = Stored(section, platform)
      /\ ~Throws(section, platform)
  BY DEF TablesLoaded, LoadGameData, NoGameData
<1>2. {i \in DOMAIN section : section[i][platform] = Broken} = {}
  BY <1>1 DEF Throws
<1>3. DOMAIN Stored(section, platform) = {section[i].name : i \in {i \in DOMAIN section : section[i][platform] # None}}
  BY <1>2 DEF Stored
<1>4. PICK i \in DOMAIN section : name = section[i].name
  BY DEF Given
<1>5. section[i][platform] # None
  BY <1>4 DEF Given
<1>. QED BY <1>1, <1>3, <1>4, <1>5

(* A signature is answered with the lowest place of the game's own library where its *)
(* pattern stands, with nothing when there is none, and is known as unique exactly   *)
(* when there is one: for any libraries, segments and bytes of a process on either   *)
(* platform, any pattern and any file (SigScanner.cpp:146-226, GameData.cpp:114-147).  *)
THEOREM ResolutionsAreTrueHolds == KitSpec => []ResolutionsAreTrue
<1>1. GameDataInv => ResolutionsAreTrue
  <2>. SUFFICES ASSUME GameDataInv, phase = Following("GameData"), NEW name \in DOMAIN gamedata.signatures
                PROVE  LET places == Places(gamedata.signatures[name])
                           answer == FindSignature(host.process, gamedata, name)
                       IN /\ IF places = {} THEN answer = None
                             ELSE answer \in places /\ \A p \in places : answer <= p
                          /\ name \in DOMAIN gamedata.resolved /\ places # {}
                               => (gamedata.resolved[name].unique <=> Cardinality(places) = 1)
    BY DEF ResolutionsAreTrue
  <2>. DEFINE sig == gamedata.signatures[name]
              scan == FindPatternEx(host.process, sig.library, sig.pattern)
              answer == FindSignature(host.process, gamedata, name)
              places == Places(sig)
              data == TablesLoaded.data
  <2>1. host \in Hosts /\ gamedata = IF TablesLoaded.ok THEN ResolveAll(host.process, data) ELSE data
    BY StagesFollow DEF GameDataInv, AfterGameData
  <2>2. gamedata.signatures = data.signatures
    BY <2>1 DEF ResolveAll, TablesLoaded, LoadGameData, NoGameData
  <2>3. sig.pattern \in Seq(Int)
    BY <2>1, <2>2, StoredAreSignatures
  <2>4. /\ scan.address = None <=> places = {}
        /\ places # {} => /\ scan.address \in places /\ \A p \in places : scan.address <= p
                          /\ scan.unique <=> Cardinality(places) = 1
    BY <2>1, <2>3, PatternsAreFound
  <2>5. places = {} \/ sig.pattern # << >>
    BY DEF Places
  <2>6. CASE TablesLoaded.ok
    <3>1. name \in DOMAIN gamedata.resolved /\ gamedata.resolved[name] = Resolve(host.process, sig)
      BY <2>1, <2>2, <2>6 DEF ResolveAll, TablesLoaded, LoadGameData, NoGameData
    <3>2. answer = Resolve(host.process, sig).match
      BY <3>1 DEF FindSignature
    <3>3. /\ sig.pattern = << >> => Resolve(host.process, sig).match = None
          /\ sig.pattern # << >> => /\ Resolve(host.process, sig).match = scan.address
                                    /\ Resolve(host.process, sig).unique = scan.unique
      BY DEF Resolve
    <3>. HIDE DEF answer, scan, sig, places
    <3>. QED BY <2>4, <2>5, <3>1, <3>2, <3>3 DEF places, answer, sig
  <2>7. CASE ~TablesLoaded.ok
    <3>1. name \notin DOMAIN gamedata.resolved
      BY <2>1, <2>7 DEF TablesLoaded, LoadGameData, NoGameData
    <3>2. answer = scan.address
      BY <3>1 DEF FindSignature
    <3>. QED BY <2>4, <3>1, <3>2
  <2>. QED BY <2>6, <2>7
<1>. QED BY <1>1, GameDataInvariance, PTL

\* At the end of the stages the report has each signature that leads nowhere or to two places.
LEMMA AllReported ==
  ASSUME GameDataInv, phase = "onload"
  PROVE  SignaturesAreReported
<1>. SUFFICES ASSUME NEW name \in Given, "file" \notin Reported, name \notin Reported
              PROVE  /\ Found(name) # None /\ ResolveSignature(host.process, gamedata, name) # None
                     /\ Cardinality(Places(gamedata.signatures[name])) = 1
  BY DEF SignaturesAreReported
<1>. DEFINE sig == gamedata.signatures[name]
            scan == FindPatternEx(host.process, sig.library, sig.pattern)
            data == TablesLoaded.data
            resolution == Resolve(host.process, sig)
<1>1. /\ host \in Hosts
      /\ gamedata = IF TablesLoaded.ok THEN ResolveAll(host.process, data) ELSE data
  BY DEF GameDataInv, AfterGameData
<1>2. PICK i \in DOMAIN report : report[i].detail = IF TablesLoaded.ok THEN Problems ELSE {"file"}
  <2>1. PICK S : report \in Seq(S)
    BY DEF GameDataInv
  <2>2. DOMAIN report = 1 .. Len(report)
    BY <2>1, LenProperties
  <2>. QED BY <2>2 DEF GameDataInv, AfterGameData
<1>3. report[i].detail \subseteq Reported
  BY DEF Reported
<1>4. TablesLoaded.ok /\ name \notin Problems
  BY <1>2, <1>3
<1>5. gamedata.signatures = data.signatures
  BY <1>1 DEF ResolveAll, TablesLoaded, LoadGameData, NoGameData
<1>6. name \in DOMAIN data.signatures
  BY <1>4, GivenAreStored
<1>7. sig.pattern \in Seq(Int)
  BY <1>1, <1>5, <1>6, StoredAreSignatures
<1>8. name \in DOMAIN gamedata.resolved /\ gamedata.resolved[name] = resolution
  BY <1>1, <1>4, <1>5, <1>6 DEF ResolveAll, TablesLoaded, LoadGameData, NoGameData
<1>9. resolution.error = "" /\ resolution.unique
  <2>1. name \notin FailureSummary(gamedata).failed /\ name \notin FailureSummary(gamedata).ambiguous
    BY <1>4 DEF Problems
  <2>2. gamedata.resolved[name].error = "" /\ gamedata.resolved[name].unique
    BY <1>8, <2>1 DEF FailureSummary
  <2>. QED BY <1>8, <2>2
<1>10. /\ resolution.match = scan.address /\ scan.address # None
       /\ resolution.target # None /\ resolution.unique = scan.unique
  BY <1>9 DEF Resolve
<1>11. Places(sig) # {} /\ (scan.unique <=> Cardinality(Places(sig)) = 1)
  BY <1>1, <1>7, <1>10, PatternsAreFound
<1>12. Found(name) = resolution.match /\ ResolveSignature(host.process, gamedata, name) = resolution.target
  BY <1>8 DEF Found, FindSignature, ResolveSignature
<1>. QED BY <1>9, <1>10, <1>11, <1>12

(* When the plugin starts the load report names each signature of the file that was  *)
(* not found, has two places or leads to address 0 (GameData.cpp:149-175), and shows *)
(* the stages of spawning and of events that had to do without their functions or    *)
(* manager (CS2Kit.cpp:127); for any process, any file and any plugin.               *)
THEOREM SignaturesAndStagesShowHolds == KitSpec => []SignaturesAndStagesShow
<1>1. GameDataInv /\ StagesAreHonest => SignaturesAndStagesShow
  BY AllReported DEF SignaturesAndStagesShow
<1>. QED BY <1>1, GameDataInvariance, StagesAreHonestHolds, PTL

-----------------------------------------------------------------------------
(* Entities: what the kit spawns, and whom a call on a player reaches.     *)

EffectThing == [kind : {"effect"}, spawned : BOOLEAN, keyvalues : {"none", "engine"}, model : BOOLEAN,
                timed : BOOLEAN, inputs : Seq({"Kill", "DestroyImmediately"})]
PawnThing == [kind : {"pawn", "observer"}, slot : PlayerSlot]
SomeHandles == {Invalid} \cup (Shared \X Nat)
ControllerThing == [kind : {"controller"}, slot : PlayerSlot, pawn : SomeHandles, current : SomeHandles]

EntitiesTypeOK ==
  /\ DOMAIN identity = IdentitySlot
  /\ \A i \in IdentitySlot : identity[i] \in [serial : Nat, what : {None} \cup EffectThing \cup PawnThing
                                                                   \cup ControllerThing]

CanKill == ops["CEntitySystem_AddEntityIOEvent"] # None /\ GetEntitySystem

\* An effect that was spawned whole.
WholeEffect(thing) ==
  /\ thing \in EffectThing
  /\ thing.spawned /\ thing.keyvalues = "engine"
  /\ thing.timed /\ CanKill => thing.inputs # << >> /\ thing.inputs[Len(thing.inputs)] = "Kill"

\* Before the kit runs the list is empty; afterwards a shared slot has an effect or a pawn.
SpawnInv ==
  /\ phase # "running" => \A i \in IdentitySlot : Vacant(i)
  /\ \A i \in Shared : Vacant(i) \/ WholeEffect(identity[i].what) \/ identity[i].what \in PawnThing

\* A handle that still stands for an entity stands for a pawn of its controller's slot.
PointsAtOwn(handle, slot) ==
  handle = Invalid
  \/ /\ handle \in Shared \X Nat
     /\ handle[2] <= identity[handle[1]].serial
     /\ handle[2] = identity[handle[1]].serial =>
          identity[handle[1]].what \in PawnThing /\ identity[handle[1]].what.slot = slot

ControllerInv ==
  \A slot \in PlayerSlot : \/ Vacant(slot + 1)
                         \/ /\ identity[slot + 1].what \in ControllerThing
                            /\ identity[slot + 1].what.slot = slot
                            /\ PointsAtOwn(identity[slot + 1].what.pawn, slot)
                            /\ PointsAtOwn(identity[slot + 1].what.current, slot)

EntitiesInv == EntitiesTypeOK /\ SpawnInv /\ ControllerInv /\ CallsHitTheirPlayer

\* None of an entity list's things of this kind is taken for a free slot.
LEMMA PawnsAreThings == \A thing \in PawnThing : thing # None
BY IdentityAssumption DEF PawnThing

LEMMA SlotsOfPlayers ==
  /\ \A slot \in PlayerSlot : slot \in Nat /\ slot + 1 \in IdentitySlot /\ slot + 1 \notin Shared
  /\ Shared \subseteq IdentitySlot
BY IdentityAssumption DEF Shared

\* What the spawning functions leave, when they can be called at all.
LEMMA SpawnedWhole ==
  ASSUME CanSpawn
  PROVE  /\ WholeEffect(Timed(AddIOEvent(AddIOEvent(DispatchSpawn(Created), "DestroyImmediately"), "Kill")))
         /\ WholeEffect(Timed(RemoveDelayed(DispatchSpawn(Created))))
         /\ WholeEffect(SetModel(DispatchSpawn(Created)))
         /\ WholeEffect(Timed(RemoveDelayed(SetModel(DispatchSpawn(Created)))))
         /\ WholeEffect(DispatchSpawn(Created))
<1>. DEFINE Plain == {thing \in EffectThing : /\ thing.spawned /\ thing.keyvalues = "engine" /\ ~thing.timed
                                             /\ \A k \in 1 .. Len(thing.inputs) : thing.inputs[k] # "Kill"}
<1>1. ops["DispatchSpawn"] # None
  BY DEF CanSpawn, Spawning
<1>2. DispatchSpawn(Created) \in Plain
  <2>1. Created \in EffectThing /\ Created.inputs = << >> /\ ~Created.timed
    BY DEF Created, EffectThing
  <2>2. DispatchSpawn(Created) = [Created EXCEPT !.spawned = TRUE, !.keyvalues = "engine"]
    BY <1>1 DEF DispatchSpawn
  <2>3. PICK c \in EffectThing : c = Created
    BY <2>1
  <2>4. PICK d : d = [c EXCEPT !.spawned = TRUE, !.keyvalues = "engine"]
    OBVIOUS
  <2>5. d \in EffectThing /\ d.inputs = c.inputs /\ d.timed = c.timed /\ d.spawned /\ d.keyvalues = "engine"
    BY <2>4 DEF EffectThing
  <2>6. d = DispatchSpawn(Created)
    BY <2>2, <2>3, <2>4
  <2>7. \A k \in 1 .. Len(d.inputs) : d.inputs[k] # "Kill"
    BY <2>1, <2>3, <2>5
  <2>8. ~d.timed
    BY <2>1, <2>3, <2>5
  <2>. QED BY <2>5, <2>6, <2>7, <2>8
<1>3. ASSUME NEW thing \in Plain
      PROVE  SetModel(thing) \in Plain
  BY DEF SetModel, EffectThing
<1>4. ASSUME NEW thing \in Plain
      PROVE  AddIOEvent(thing, "DestroyImmediately") \in Plain
  <2>1. CASE CanKill
    <3>1. AddIOEvent(thing, "DestroyImmediately") = [thing EXCEPT !.inputs = Append(thing.inputs, "DestroyImmediately")]
      BY <2>1 DEF AddIOEvent, CanKill
    <3>2. /\ thing.inputs \in Seq({"Kill", "DestroyImmediately"})
          /\ Append(thing.inputs, "DestroyImmediately") \in Seq({"Kill", "DestroyImmediately"})
          /\ \A k \in 1 .. Len(Append(thing.inputs, "DestroyImmediately")) :
                Append(thing.inputs, "DestroyImmediately")[k] # "Kill"
      BY DEF EffectThing
    <3>. QED BY <3>1, <3>2 DEF EffectThing
  <2>2. CASE ~CanKill
    BY <2>2 DEF AddIOEvent, CanKill
  <2>. QED BY <2>1, <2>2
<1>5. ASSUME NEW thing \in Plain
      PROVE  WholeEffect(Timed(AddIOEvent(thing, "Kill"))) /\ WholeEffect(thing)
  <2>1. CASE CanKill
    <3>1. Timed(AddIOEvent(thing, "Kill")) = [thing EXCEPT !.inputs = Append(thing.inputs, "Kill"), !.timed = TRUE]
      BY <2>1 DEF AddIOEvent, CanKill, Timed, EffectThing
    <3>2. /\ thing.inputs \in Seq({"Kill", "DestroyImmediately"})
          /\ Append(thing.inputs, "Kill") \in Seq({"Kill", "DestroyImmediately"})
          /\ Append(thing.inputs, "Kill") # << >>
          /\ Append(thing.inputs, "Kill")[Len(Append(thing.inputs, "Kill"))] = "Kill"
      BY DEF EffectThing
    <3>. QED BY <3>1, <3>2 DEF EffectThing, WholeEffect
  <2>2. CASE ~CanKill
    <3>1. Timed(AddIOEvent(thing, "Kill")) = [thing EXCEPT !.timed = TRUE]
      BY <2>2 DEF AddIOEvent, CanKill, Timed
    <3>. QED BY <2>2, <3>1 DEF EffectThing, WholeEffect
  <2>. QED BY <2>1, <2>2
<1>. HIDE DEF Plain
<1>. QED BY <1>2, <1>3, <1>4, <1>5 DEF RemoveDelayed

\* A handle keeps its meaning while serial numbers only grow and a pawn is never replaced in place.
LEMMA HandlesKeep ==
  ASSUME EntitiesTypeOK, EntitiesTypeOK', NEW handle, NEW slot, PointsAtOwn(handle, slot),
         \A i \in Shared : \/ identity'[i] = identity[i]
                          \/ identity'[i].serial > identity[i].serial
                          \/ (identity'[i].serial = identity[i].serial /\ identity[i].what \notin PawnThing)
  PROVE  PointsAtOwn(handle, slot)'
<1>1. CASE handle = Invalid
  BY <1>1 DEF PointsAtOwn
<1>2. CASE handle # Invalid
  <2>1. handle \in Shared \X Nat /\ handle[2] <= identity[handle[1]].serial
    BY <1>2 DEF PointsAtOwn
  <2>2. PICK i \in Shared, n \in Nat : i = handle[1] /\ n = handle[2]
    BY <2>1
  <2>3. identity[i].serial \in Nat /\ identity'[i].serial \in Nat
    BY SlotsOfPlayers DEF EntitiesTypeOK
  <2>4. n = identity[i].serial => identity[i].what \in PawnThing /\ identity[i].what.slot = slot
    BY <1>2, <2>2 DEF PointsAtOwn
  <2>5. n <= identity'[i].serial
        /\ (n = identity'[i].serial => identity'[i].what \in PawnThing /\ identity'[i].what.slot = slot)
    BY <2>1, <2>2, <2>3, <2>4
  <2>. QED BY <2>1, <2>2, <2>5 DEF PointsAtOwn
<1>. QED BY <1>1, <1>2

\* While the kit runs, what the report was made of stays, and an effect stays whole.
LEMMA WholeStays ==
  ASSUME UNCHANGED startupVars, NEW thing
  PROVE  WholeEffect(thing)' <=> WholeEffect(thing)
BY DEF WholeEffect, CanKill, GetEntitySystem, EntitySystemReadable, startupVars, EffectThing

\* One slot of the list changes.
LEMMA OneChanges ==
  ASSUME EntitiesInv, phase = "running", UNCHANGED startupVars, CallsHitTheirPlayer',
         NEW i \in IdentitySlot, NEW serial \in Nat, serial >= identity[i].serial, NEW what,
         DOMAIN identity' = IdentitySlot, identity'[i] = [serial |-> serial, what |-> what],
         \A j \in IdentitySlot \ {i} : identity'[j] = identity[j],
         serial = identity[i].serial => identity[i].what \notin PawnThing,
         \/ i \in Shared /\ (what = None \/ WholeEffect(what) \/ what \in PawnThing)
         \/ \E slot \in PlayerSlot :
              /\ i = slot + 1
              /\ what = None \/ (what \in ControllerThing /\ what.slot = slot /\ what.pawn = Invalid
                                /\ what.current = Invalid)
  PROVE  EntitiesInv'
<1>1. EntitiesTypeOK'
  <2>1. what \in {None} \cup EffectThing \cup PawnThing \cup ControllerThing
    BY DEF WholeEffect
  <2>. QED BY <2>1 DEF EntitiesInv, EntitiesTypeOK, EffectThing, PawnThing, ControllerThing
<1>2. SpawnInv'
  <2>1. phase' = "running"
    BY DEF startupVars
  <2>2. ASSUME NEW j \in Shared
        PROVE  Vacant(j)' \/ WholeEffect(identity[j].what)' \/ identity'[j].what \in PawnThing
    <3>1. CASE j = i
      <4>1. identity'[j].what = what /\ (what = None \/ WholeEffect(what)' \/ what \in PawnThing)
        BY <3>1, WholeStays, SlotsOfPlayers
      <4>. QED BY <4>1 DEF Vacant, WholeEffect, CanKill
    <3>2. CASE j # i
      <4>1. PICK w : w = identity[j].what /\ w = identity'[j].what
        BY <3>2, SlotsOfPlayers
      <4>2. w = None \/ WholeEffect(w)' \/ w \in PawnThing
        BY <4>1, WholeStays DEF EntitiesInv, SpawnInv, Vacant
      <4>. QED BY <4>1, <4>2 DEF Vacant, WholeEffect, CanKill
    <3>. QED BY <3>1, <3>2
  <2>. QED BY <2>1, <2>2 DEF SpawnInv, PawnThing
<1>3. \A j \in Shared : \/ identity'[j] = identity[j]
                       \/ identity'[j].serial > identity[j].serial
                       \/ (identity'[j].serial = identity[j].serial /\ identity[j].what \notin PawnThing)
  <2>. TAKE j \in Shared
  <2>1. CASE j = i
    <3>1. identity'[j].serial = serial /\ identity[j].serial \in Nat
      BY <2>1 DEF EntitiesInv, EntitiesTypeOK
    <3>. QED BY <2>1, <3>1
  <2>. QED BY <2>1, SlotsOfPlayers
<1>4. \A handle, slot : PointsAtOwn(handle, slot) => PointsAtOwn(handle, slot)'
  BY <1>1, <1>3, HandlesKeep DEF EntitiesInv
<1>5. ControllerInv'
  <2>. SUFFICES ASSUME NEW slot \in PlayerSlot, ~Vacant(slot + 1)'
                PROVE  /\ identity'[slot + 1].what \in ControllerThing
                       /\ identity'[slot + 1].what.slot = slot
                       /\ PointsAtOwn(identity[slot + 1].what.pawn, slot)'
                       /\ PointsAtOwn(identity[slot + 1].what.current, slot)'
    BY DEF ControllerInv, ControllerThing
  <2>1. CASE slot + 1 = i
    <3>1. /\ what \in ControllerThing /\ what.slot = slot /\ what.pawn = Invalid /\ what.current = Invalid
          /\ identity'[slot + 1].what = what
      BY <2>1, SlotsOfPlayers DEF Vacant
    <3>. QED BY <3>1 DEF PointsAtOwn
  <2>2. CASE slot + 1 # i
    <3>1. identity'[slot + 1] = identity[slot + 1] /\ ~Vacant(slot + 1)
      BY <2>2, SlotsOfPlayers DEF Vacant
    <3>2. PICK pawn, current : /\ pawn = identity[slot + 1].what.pawn /\ pawn = identity'[slot + 1].what.pawn
                               /\ current = identity[slot + 1].what.current
                               /\ current = identity'[slot + 1].what.current
      BY <3>1
    <3>3. PointsAtOwn(pawn, slot)' /\ PointsAtOwn(current, slot)'
      BY <1>4, <3>1, <3>2 DEF EntitiesInv, ControllerInv
    <3>4. PointsAtOwn(identity[slot + 1].what.pawn, slot)' /\ PointsAtOwn(identity[slot + 1].what.current, slot)'
      BY <3>2, <3>3 DEF PointsAtOwn
    <3>. QED BY <3>1, <3>4 DEF EntitiesInv, ControllerInv
  <2>. QED BY <2>1, <2>2
<1>. QED BY <1>1, <1>2, <1>5 DEF EntitiesInv

\* What Placed and Gone change.
LEMMA PlacedAt ==
  ASSUME EntitiesTypeOK, NEW i \in IdentitySlot, NEW what, identity' = Placed(i, what)
  PROVE  /\ DOMAIN identity' = IdentitySlot
         /\ identity'[i] = [serial |-> identity[i].serial, what |-> what]
         /\ \A j \in IdentitySlot \ {i} : identity'[j] = identity[j]
<1>1. PICK entry : entry = identity[i] /\ entry \in [serial : Nat, what : {None} \cup EffectThing \cup PawnThing
                                                                      \cup ControllerThing]
  BY DEF EntitiesTypeOK
<1>2. identity' = [identity EXCEPT ![i] = [entry EXCEPT !.what = what]]
  BY <1>1 DEF Placed
<1>3. [entry EXCEPT !.what = what] = [serial |-> entry.serial, what |-> what]
  BY <1>1
<1>. QED BY <1>1, <1>2, <1>3 DEF EntitiesTypeOK

LEMMA GoneFrom ==
  ASSUME EntitiesTypeOK, NEW i \in IdentitySlot, identity' = Gone(i)
  PROVE  /\ DOMAIN identity' = IdentitySlot
         /\ identity'[i] = [serial |-> identity[i].serial + 1, what |-> None]
         /\ \A j \in IdentitySlot \ {i} : identity'[j] = identity[j]
BY DEF EntitiesTypeOK, Gone

\* The kit's spawning functions.
LEMMA SpawnsKeep ==
  ASSUME EntitiesInv, phase = "running", UNCHANGED startupVars, SpawnsEffect
  PROVE  EntitiesInv'
<1>1. CanSpawn /\ hit' = hit
  BY DEF SpawnsEffect
<1>2. PICK i \in Shared : Vacant(i) /\ \E what : WholeEffect(what) /\ identity' = Placed(i, what)
  <2>1. PICK i \in Shared : /\ Vacant(i)
                           /\ \/ SpawnParticle(i) \/ SpawnBeam(i) \/ Spawn(i)
                              \/ \E timed \in BOOLEAN : SpawnProp(i, timed)
    BY DEF SpawnsEffect
  <2>2. CASE SpawnParticle(i)
    BY <1>1, <2>1, <2>2, SpawnedWhole DEF SpawnParticle
  <2>3. CASE SpawnBeam(i)
    BY <1>1, <2>1, <2>3, SpawnedWhole DEF SpawnBeam
  <2>4. CASE Spawn(i)
    BY <1>1, <2>1, <2>4, SpawnedWhole DEF Spawn
  <2>5. ASSUME NEW timed \in BOOLEAN, SpawnProp(i, timed)
        PROVE  \E what : WholeEffect(what) /\ identity' = Placed(i, what)
    BY <1>1, <2>5, SpawnedWhole DEF SpawnProp
  <2>. QED BY <2>1, <2>2, <2>3, <2>4, <2>5
<1>3. i \in IdentitySlot /\ identity[i].serial \in Nat /\ identity[i].what = None
  BY <1>2, SlotsOfPlayers DEF EntitiesInv, EntitiesTypeOK, Vacant
<1>4. PICK what : WholeEffect(what) /\ identity' = Placed(i, what)
  BY <1>2
<1>5. None \notin PawnThing
  BY PawnsAreThings
<1>6. CallsHitTheirPlayer'
  BY <1>1 DEF EntitiesInv, CallsHitTheirPlayer
<1>7. /\ DOMAIN identity' = IdentitySlot
      /\ identity'[i] = [serial |-> identity[i].serial, what |-> what]
      /\ \A j \in IdentitySlot \ {i} : identity'[j] = identity[j]
  BY <1>3, <1>4, PlacedAt DEF EntitiesInv
<1>8. PICK serial \in Nat : serial = identity[i].serial
  BY <1>3
<1>. QED BY <1>3, <1>4, <1>5, <1>6, <1>7, <1>8, OneChanges

\* An entity goes, with a new serial number for its slot.
LEMMA GoneKeeps ==
  ASSUME EntitiesInv, phase = "running", UNCHANGED startupVars, CallsHitTheirPlayer',
         NEW i \in IdentitySlot, i \in Shared \/ \E slot \in PlayerSlot : i = slot + 1,
         identity' = Gone(i)
  PROVE  EntitiesInv'
<1>1. identity[i].serial \in Nat
  BY DEF EntitiesInv, EntitiesTypeOK
<1>2. /\ DOMAIN identity' = IdentitySlot
      /\ identity'[i] = [serial |-> identity[i].serial + 1, what |-> None]
      /\ \A j \in IdentitySlot \ {i} : identity'[j] = identity[j]
  BY GoneFrom DEF EntitiesInv
<1>3. PICK serial \in Nat : serial = identity[i].serial + 1
  BY <1>1
<1>4. serial >= identity[i].serial /\ serial # identity[i].serial
  BY <1>1, <1>3
<1>5. PICK none : none = None
  OBVIOUS
<1>. QED BY <1>2, <1>3, <1>4, <1>5, OneChanges

\* Nothing changes in the list.
LEMMA CallsKeep ==
  ASSUME EntitiesInv, UNCHANGED <<identity, startupVars>>, CallsHitTheirPlayer'
  PROVE  EntitiesInv'
BY DEF EntitiesInv, EntitiesTypeOK, SpawnInv, ControllerInv, PointsAtOwn, WholeEffect, CanKill, GetEntitySystem,
       EntitySystemReadable, startupVars, EffectThing, PawnThing, ControllerThing, Vacant

\* What the kit and the game's queue do to effects.
LEMMA EffectsKeep ==
  ASSUME EntitiesInv, phase = "running", UNCHANGED startupVars,
         NEW i \in Effects, UtilRemove(i) \/ GameFires(i)
  PROVE  EntitiesInv'
<1>1. i \in Shared /\ i \in IdentitySlot /\ hit' = hit /\ ~Vacant(i) /\ identity[i].what.kind = "effect"
  BY SlotsOfPlayers DEF Effects, UtilRemove, GameFires
<1>2. CallsHitTheirPlayer'
  BY <1>1 DEF EntitiesInv, CallsHitTheirPlayer
<1>3. CASE identity' = identity
  BY <1>2, <1>3, CallsKeep
<1>4. CASE identity' = Gone(i)
  BY <1>1, <1>2, <1>4, GoneKeeps
<1>5. CASE /\ identity[i].what.inputs # << >> /\ Head(identity[i].what.inputs) # "Kill"
           /\ identity' = [identity EXCEPT ![i].what.inputs = Tail(@)]
  <2>1. PICK entry : entry = identity[i]
    OBVIOUS
  <2>2. entry \in [serial : Nat, what : {None} \cup EffectThing \cup PawnThing \cup ControllerThing]
    BY <1>1, <2>1 DEF EntitiesInv, EntitiesTypeOK
  <2>3. WholeEffect(entry.what) /\ entry.what \notin PawnThing
    BY <1>1, <2>1 DEF EntitiesInv, SpawnInv, PawnThing
  <2>4. PICK thing \in EffectThing, inputs \in Seq({"Kill", "DestroyImmediately"}) :
          thing = entry.what /\ inputs = thing.inputs
    BY <2>3 DEF WholeEffect, EffectThing
  <2>5. PICK rest : rest = [thing EXCEPT !.inputs = Tail(inputs)]
    OBVIOUS
  <2>6. identity' = [identity EXCEPT ![i] = [entry EXCEPT !.what = rest]]
    BY <1>5, <2>1, <2>4, <2>5
  <2>7. inputs # << >> /\ Head(inputs) # "Kill"
    BY <1>5, <2>1, <2>4
  <2>8. Tail(inputs) \in Seq({"Kill", "DestroyImmediately"})
        /\ (inputs[Len(inputs)] = "Kill" => Tail(inputs) # << >> /\ Tail(inputs)[Len(Tail(inputs))] = "Kill")
    <3>1. Len(inputs) \in Nat /\ Len(inputs) >= 1 /\ Head(inputs) = inputs[1]
      BY <2>7, EmptySeq
    <3>2. /\ Tail(inputs) \in Seq({"Kill", "DestroyImmediately"}) /\ Len(Tail(inputs)) = Len(inputs) - 1
          /\ \A k \in 1 .. Len(inputs) - 1 : Tail(inputs)[k] = inputs[k + 1]
      BY <2>7, <3>1, HeadTailProperties
    <3>3. inputs[Len(inputs)] = "Kill" => Len(inputs) # 1
      BY <2>7, <3>1
    <3>4. inputs[Len(inputs)] = "Kill" => Tail(inputs)[Len(inputs) - 1] = "Kill"
      BY <3>1, <3>2, <3>3
    <3>5. Tail(inputs) = << >> => Len(Tail(inputs)) = 0
      BY <3>2, EmptySeq
    <3>. QED BY <3>1, <3>2, <3>3, <3>4, <3>5
  <2>9. WholeEffect(rest)
    BY <2>3, <2>4, <2>5, <2>8 DEF WholeEffect, EffectThing
  <2>10. /\ DOMAIN identity' = IdentitySlot
         /\ identity'[i] = [serial |-> entry.serial, what |-> rest]
         /\ \A j \in IdentitySlot \ {i} : identity'[j] = identity[j]
    BY <1>1, <2>2, <2>6 DEF EntitiesInv, EntitiesTypeOK
  <2>11. PICK serial \in Nat : serial = entry.serial
    BY <2>2
  <2>. QED BY <1>1, <1>2, <2>1, <2>3, <2>9, <2>10, <2>11, OneChanges
<1>. QED BY <1>3, <1>4, <1>5 DEF UtilRemove, GameFires

\* A player gets a pawn, his own or an observer's, and possesses it.
LEMMA PossessionKeeps ==
  ASSUME EntitiesInv, phase = "running", UNCHANGED startupVars, CallsHitTheirPlayer',
         NEW slot \in PlayerSlot, NEW i \in Shared, PawnComes(slot, i) \/ Observes(slot, i)
  PROVE  EntitiesInv'
<1>1. /\ slot + 1 \in IdentitySlot /\ slot + 1 # i /\ i \in IdentitySlot
      /\ ~Vacant(slot + 1) /\ identity[i].what = None
  BY SlotsOfPlayers DEF PawnComes, Observes, Vacant
<1>2. PICK entry : entry = identity[slot + 1]
  OBVIOUS
<1>3. /\ entry \in [serial : Nat, what : {None} \cup EffectThing \cup PawnThing \cup ControllerThing]
      /\ entry.what \in ControllerThing /\ entry.what.slot = slot
      /\ PointsAtOwn(entry.what.pawn, slot) /\ PointsAtOwn(entry.what.current, slot)
  BY <1>1, <1>2 DEF EntitiesInv, EntitiesTypeOK, ControllerInv
<1>4. PICK thing \in ControllerThing : thing = entry.what
  BY <1>3
<1>5. PICK serial \in Nat : serial = identity[i].serial
  BY <1>1 DEF EntitiesInv, EntitiesTypeOK
<1>6. PICK handle \in Shared \X Nat : handle = << i, serial >> /\ handle = HandleOf(i)
  BY <1>5 DEF HandleOf
<1>7. PICK pawn \in PawnThing :
        /\ pawn.slot = slot
        /\ \/ identity' = [Placed(i, pawn) EXCEPT ![slot + 1].what = [@ EXCEPT !.pawn = handle, !.current = handle]]
           \/ identity' = [Placed(i, pawn) EXCEPT ![slot + 1].what.current = handle]
  <2>1. CASE PawnComes(slot, i)
    <3>1. PICK pawn : pawn = [kind |-> "pawn", slot |-> slot]
      OBVIOUS
    <3>. QED BY <1>6, <2>1, <3>1 DEF PawnComes, PawnThing
  <2>2. CASE Observes(slot, i)
    <3>1. PICK pawn : pawn = [kind |-> "observer", slot |-> slot]
      OBVIOUS
    <3>. QED BY <1>6, <2>2, <3>1 DEF Observes, PawnThing
  <2>. QED BY <2>1, <2>2
<1>8. PICK placed : placed = Placed(i, pawn)
  OBVIOUS
<1>9. /\ DOMAIN placed = IdentitySlot
      /\ placed[i] = [serial |-> serial, what |-> pawn]
      /\ \A j \in IdentitySlot \ {i} : placed[j] = identity[j]
  <2>1. PICK at : at = identity[i] /\ at \in [serial : Nat, what : {None} \cup EffectThing \cup PawnThing
                                                                  \cup ControllerThing]
    BY <1>1 DEF EntitiesInv, EntitiesTypeOK
  <2>2. placed = [identity EXCEPT ![i] = [at EXCEPT !.what = pawn]]
    BY <1>8, <2>1 DEF Placed
  <2>3. [at EXCEPT !.what = pawn] = [serial |-> serial, what |-> pawn]
    BY <1>5, <2>1
  <2>. QED BY <1>1, <2>2, <2>3 DEF EntitiesInv, EntitiesTypeOK
<1>10. placed[slot + 1] = entry
  BY <1>1, <1>2, <1>9
<1>11. PICK owner \in ControllerThing :
         /\ owner.slot = slot /\ owner.current = handle /\ owner.pawn \in {thing.pawn, handle}
         /\ identity' = [placed EXCEPT ![slot + 1] = [entry EXCEPT !.what = owner]]
  <2>1. CASE identity' = [placed EXCEPT ![slot + 1].what = [@ EXCEPT !.pawn = handle, !.current = handle]]
    <3>1. PICK owner : owner = [thing EXCEPT !.pawn = handle, !.current = handle]
      OBVIOUS
    <3>2. owner \in ControllerThing /\ owner.slot = slot /\ owner.current = handle /\ owner.pawn = handle
      BY <1>3, <1>4, <3>1 DEF ControllerThing, SomeHandles
    <3>3. identity' = [placed EXCEPT ![slot + 1] = [entry EXCEPT !.what = owner]]
      BY <1>4, <1>10, <2>1, <3>1
    <3>. QED BY <3>2, <3>3
  <2>2. CASE identity' = [placed EXCEPT ![slot + 1].what.current = handle]
    <3>1. PICK owner : owner = [thing EXCEPT !.current = handle]
      OBVIOUS
    <3>2. owner \in ControllerThing /\ owner.slot = slot /\ owner.current = handle /\ owner.pawn = thing.pawn
      BY <1>3, <1>4, <3>1 DEF ControllerThing, SomeHandles
    <3>3. identity' = [placed EXCEPT ![slot + 1] = [entry EXCEPT !.what = owner]]
      BY <1>4, <1>10, <2>2, <3>1
    <3>. QED BY <3>2, <3>3
  <2>. QED BY <1>7, <1>8, <2>1, <2>2
<1>12. [entry EXCEPT !.what = owner] = [serial |-> entry.serial, what |-> owner]
  BY <1>3
<1>13. /\ DOMAIN identity' = IdentitySlot
       /\ identity'[slot + 1] = [serial |-> entry.serial, what |-> owner]
       /\ identity'[i] = [serial |-> serial, what |-> pawn]
       /\ \A j \in IdentitySlot \ {i, slot + 1} : identity'[j] = identity[j]
  BY <1>1, <1>9, <1>11, <1>12
<1>14. EntitiesTypeOK'
  <2>1. entry.serial \in Nat
    BY <1>3
  <2>. QED BY <1>13, <2>1 DEF EntitiesInv, EntitiesTypeOK, EffectThing, PawnThing, ControllerThing
<1>15. SpawnInv'
  <2>1. phase' = "running"
    BY DEF startupVars
  <2>2. ASSUME NEW j \in Shared
        PROVE  Vacant(j)' \/ WholeEffect(identity[j].what)' \/ identity'[j].what \in PawnThing
    <3>1. CASE j = i
      BY <1>7, <1>13, <3>1
    <3>2. CASE j # i
      <4>1. identity'[j] = identity[j]
        BY <1>13, <3>2, SlotsOfPlayers
      <4>2. PICK w : w = identity[j].what /\ w = identity'[j].what
        BY <4>1
      <4>3. w = None \/ WholeEffect(w)' \/ w \in PawnThing
        BY <4>2, WholeStays DEF EntitiesInv, SpawnInv, Vacant
      <4>. QED BY <4>2, <4>3 DEF Vacant, WholeEffect, CanKill
    <3>. QED BY <3>1, <3>2
  <2>. QED BY <2>1, <2>2 DEF SpawnInv, PawnThing
<1>16. \A h, s : PointsAtOwn(h, s) => PointsAtOwn(h, s)'
  <2>1. None \notin PawnThing
    BY PawnsAreThings
  <2>2. \A j \in Shared : \/ identity'[j] = identity[j]
                         \/ identity'[j].serial > identity[j].serial
                         \/ (identity'[j].serial = identity[j].serial /\ identity[j].what \notin PawnThing)
    BY <1>1, <1>5, <1>13, <2>1, SlotsOfPlayers
  <2>. QED BY <1>14, <2>2, HandlesKeep DEF EntitiesInv
<1>17. PointsAtOwn(handle, slot)'
  BY <1>6, <1>7, <1>13 DEF PointsAtOwn
<1>18. PointsAtOwn(owner.pawn, slot)' /\ PointsAtOwn(owner.current, slot)'
  <2>1. PICK own : own = thing.pawn
    OBVIOUS
  <2>2. PointsAtOwn(own, slot)'
    BY <1>3, <1>4, <1>16, <2>1
  <2>3. PICK p, c : p = owner.pawn /\ c = owner.current
    OBVIOUS
  <2>4. p \in {own, handle} /\ c = handle
    BY <1>11, <2>1, <2>3
  <2>5. PointsAtOwn(p, slot)' /\ PointsAtOwn(c, slot)'
    BY <1>17, <2>2, <2>4
  <2>. QED BY <2>3, <2>5
<1>19. ControllerInv'
  <2>. SUFFICES ASSUME NEW s \in PlayerSlot, ~Vacant(s + 1)'
                PROVE  /\ identity'[s + 1].what \in ControllerThing
                       /\ identity'[s + 1].what.slot = s
                       /\ PointsAtOwn(identity[s + 1].what.pawn, s)'
                       /\ PointsAtOwn(identity[s + 1].what.current, s)'
    BY DEF ControllerInv, ControllerThing, SomeHandles
  <2>1. CASE s = slot
    <3>1. identity'[s + 1].what = owner
      BY <1>13, <2>1
    <3>2. PointsAtOwn(identity[s + 1].what.pawn, s)' /\ PointsAtOwn(identity[s + 1].what.current, s)'
      BY <1>18, <2>1, <3>1 DEF PointsAtOwn
    <3>. QED BY <1>11, <2>1, <3>1, <3>2
  <2>2. CASE s # slot
    <3>1. s + 1 \in IdentitySlot /\ s + 1 # i /\ s + 1 # slot + 1
      BY <2>2, SlotsOfPlayers
    <3>2. identity'[s + 1] = identity[s + 1] /\ ~Vacant(s + 1)
      BY <1>13, <3>1 DEF Vacant
    <3>3. PICK p, c : /\ p = identity[s + 1].what.pawn /\ p = identity'[s + 1].what.pawn
                      /\ c = identity[s + 1].what.current /\ c = identity'[s + 1].what.current
      BY <3>2
    <3>4. PointsAtOwn(p, s)' /\ PointsAtOwn(c, s)'
      BY <1>16, <3>2, <3>3 DEF EntitiesInv, ControllerInv
    <3>5. PointsAtOwn(identity[s + 1].what.pawn, s)' /\ PointsAtOwn(identity[s + 1].what.current, s)'
      BY <3>3, <3>4 DEF PointsAtOwn
    <3>. QED BY <3>2, <3>5 DEF EntitiesInv, ControllerInv
  <2>. QED BY <2>1, <2>2
<1>. QED BY <1>14, <1>15, <1>19 DEF EntitiesInv

\* A controller possesses the player pawn it had all along.
LEMMA RepossessionKeeps ==
  ASSUME EntitiesInv, phase = "running", UNCHANGED startupVars, CallsHitTheirPlayer',
         NEW slot \in PlayerSlot, Repossesses(slot)
  PROVE  EntitiesInv'
<1>1. slot + 1 \in IdentitySlot /\ slot + 1 \notin Shared /\ ~Vacant(slot + 1)
  BY SlotsOfPlayers DEF Repossesses
<1>2. PICK entry : entry = identity[slot + 1]
  OBVIOUS
<1>3. /\ entry \in [serial : Nat, what : {None} \cup EffectThing \cup PawnThing \cup ControllerThing]
      /\ entry.what \in ControllerThing /\ entry.what.slot = slot
      /\ PointsAtOwn(entry.what.pawn, slot)
  BY <1>1, <1>2 DEF EntitiesInv, EntitiesTypeOK, ControllerInv
<1>4. PICK thing \in ControllerThing, handle \in SomeHandles : thing = entry.what /\ handle = thing.pawn
  BY <1>3 DEF ControllerThing
<1>5. PICK owner : owner = [thing EXCEPT !.current = handle]
  OBVIOUS
<1>6. owner \in ControllerThing /\ owner.slot = slot /\ owner.pawn = handle /\ owner.current = handle
  BY <1>3, <1>4, <1>5 DEF ControllerThing
<1>7. identity' = [identity EXCEPT ![slot + 1] = [entry EXCEPT !.what = owner]]
  BY <1>2, <1>4, <1>5 DEF Repossesses
<1>8. [entry EXCEPT !.what = owner] = [serial |-> entry.serial, what |-> owner]
  BY <1>3
<1>9. /\ DOMAIN identity' = IdentitySlot
      /\ identity'[slot + 1] = [serial |-> entry.serial, what |-> owner]
      /\ \A j \in IdentitySlot \ {slot + 1} : identity'[j] = identity[j]
  BY <1>1, <1>7, <1>8 DEF EntitiesInv, EntitiesTypeOK
<1>10. EntitiesTypeOK'
  <2>1. entry.serial \in Nat
    BY <1>3
  <2>. QED BY <1>6, <1>9, <2>1 DEF EntitiesInv, EntitiesTypeOK, EffectThing, PawnThing, ControllerThing
<1>11. \A j \in Shared : j \in IdentitySlot /\ identity'[j] = identity[j]
  BY <1>1, <1>9, SlotsOfPlayers
<1>12. SpawnInv'
  <2>1. phase' = "running"
    BY DEF startupVars
  <2>2. ASSUME NEW j \in Shared
        PROVE  Vacant(j)' \/ WholeEffect(identity[j].what)' \/ identity'[j].what \in PawnThing
    <3>1. PICK w : w = identity[j].what /\ w = identity'[j].what
      BY <1>11
    <3>2. w = None \/ WholeEffect(w)' \/ w \in PawnThing
      BY <3>1, WholeStays DEF EntitiesInv, SpawnInv, Vacant
    <3>. QED BY <3>1, <3>2 DEF Vacant, WholeEffect, CanKill
  <2>. QED BY <2>1, <2>2 DEF SpawnInv, PawnThing
<1>13. \A h, s : PointsAtOwn(h, s) => PointsAtOwn(h, s)'
  BY <1>10, <1>11, HandlesKeep DEF EntitiesInv
<1>14. ControllerInv'
  <2>. SUFFICES ASSUME NEW s \in PlayerSlot, ~Vacant(s + 1)'
                PROVE  /\ identity'[s + 1].what \in ControllerThing
                       /\ identity'[s + 1].what.slot = s
                       /\ PointsAtOwn(identity[s + 1].what.pawn, s)'
                       /\ PointsAtOwn(identity[s + 1].what.current, s)'
    BY DEF ControllerInv, ControllerThing, SomeHandles
  <2>1. CASE s = slot
    <3>1. identity'[s + 1].what = owner /\ PointsAtOwn(handle, slot)'
      BY <1>3, <1>4, <1>9, <1>13, <2>1
    <3>2. PointsAtOwn(identity[s + 1].what.pawn, s)' /\ PointsAtOwn(identity[s + 1].what.current, s)'
      BY <1>6, <2>1, <3>1 DEF PointsAtOwn
    <3>. QED BY <1>6, <2>1, <3>1, <3>2
  <2>2. CASE s # slot
    <3>1. s + 1 \in IdentitySlot /\ s + 1 # slot + 1
      BY <2>2, SlotsOfPlayers
    <3>2. identity'[s + 1] = identity[s + 1] /\ ~Vacant(s + 1)
      BY <1>9, <3>1 DEF Vacant
    <3>3. PICK p, c : /\ p = identity[s + 1].what.pawn /\ p = identity'[s + 1].what.pawn
                      /\ c = identity[s + 1].what.current /\ c = identity'[s + 1].what.current
      BY <3>2
    <3>4. PointsAtOwn(p, s)' /\ PointsAtOwn(c, s)'
      BY <1>13, <3>2, <3>3 DEF EntitiesInv, ControllerInv
    <3>5. PointsAtOwn(identity[s + 1].what.pawn, s)' /\ PointsAtOwn(identity[s + 1].what.current, s)'
      BY <3>3, <3>4 DEF PointsAtOwn
    <3>. QED BY <3>2, <3>5 DEF EntitiesInv, ControllerInv
  <2>. QED BY <2>1, <2>2
<1>. QED BY <1>10, <1>12, <1>14 DEF EntitiesInv

\* What the game does to players.
LEMMA GameKeeps ==
  ASSUME EntitiesInv, phase = "running", UNCHANGED startupVars, GameMovesPlayers
  PROVE  EntitiesInv'
<1>1. hit' = NoHit
  BY DEF GameMovesPlayers
<1>2. CallsHitTheirPlayer'
  BY <1>1 DEF CallsHitTheirPlayer, NoHit
<1>3. ASSUME NEW slot \in PlayerSlot, ControllerComes(slot)
      PROVE  EntitiesInv'
  <2>1. PICK what : what = [kind |-> "controller", slot |-> slot, pawn |-> Invalid, current |-> Invalid]
    OBVIOUS
  <2>2. what \in ControllerThing /\ what.slot = slot /\ what.pawn = Invalid /\ what.current = Invalid
    BY <2>1 DEF ControllerThing, SomeHandles
  <2>3. slot + 1 \in IdentitySlot /\ identity[slot + 1].what = None /\ identity' = Placed(slot + 1, what)
    BY <1>3, <2>1, SlotsOfPlayers DEF ControllerComes, Vacant
  <2>4. PICK i \in IdentitySlot : i = slot + 1
    BY <2>3
  <2>5. PICK serial \in Nat : serial = identity[i].serial
    BY DEF EntitiesInv, EntitiesTypeOK
  <2>6. /\ DOMAIN identity' = IdentitySlot
        /\ identity'[i] = [serial |-> serial, what |-> what]
        /\ \A j \in IdentitySlot \ {i} : identity'[j] = identity[j]
    BY <2>3, <2>4, <2>5, PlacedAt DEF EntitiesInv
  <2>7. identity[i].what \notin PawnThing
    BY <2>3, <2>4, PawnsAreThings
  <2>8. serial >= identity[i].serial
    BY <2>5
  <2>. QED BY <1>2, <2>2, <2>4, <2>6, <2>7, <2>8, OneChanges
<1>4. ASSUME NEW slot \in PlayerSlot, ControllerGoes(slot)
      PROVE  EntitiesInv'
  <2>1. PICK i \in IdentitySlot : i = slot + 1
    BY SlotsOfPlayers
  <2>. QED BY <1>2, <1>4, <2>1, GoneKeeps DEF ControllerGoes
<1>5. ASSUME NEW i \in Shared, PawnGoes(i)
      PROVE  EntitiesInv'
  BY <1>2, <1>5, GoneKeeps, SlotsOfPlayers DEF PawnGoes
<1>6. ASSUME NEW slot \in PlayerSlot, NEW i \in Shared, PawnComes(slot, i) \/ Observes(slot, i)
      PROVE  EntitiesInv'
  BY <1>2, <1>6, PossessionKeeps
<1>7. ASSUME NEW slot \in PlayerSlot, Repossesses(slot)
      PROVE  EntitiesInv'
  BY <1>2, <1>7, RepossessionKeeps
<1>. QED BY <1>3, <1>4, <1>5, <1>6, <1>7 DEF GameMovesPlayers

\* What a controller's handle leads to, when it leads anywhere, is its own pawn.
LEMMA PawnIsTheirs ==
  ASSUME EntitiesInv, NEW slot \in PlayerSlot, ~Vacant(slot + 1), NEW handle,
         handle = identity[slot + 1].what.pawn \/ handle = identity[slot + 1].what.current,
         ResolveEntityHandle(handle) # None
  PROVE  LET i == ResolveEntityHandle(handle)
         IN  identity[i].what.kind # "effect" /\ identity[i].what.slot = slot
<1>1. PointsAtOwn(handle, slot)
  <2>1. PICK p, c : p = identity[slot + 1].what.pawn /\ c = identity[slot + 1].what.current
    OBVIOUS
  <2>2. PointsAtOwn(p, slot) /\ PointsAtOwn(c, slot)
    BY <2>1 DEF EntitiesInv, ControllerInv
  <2>. QED BY <2>1, <2>2
<1>2. handle # Invalid /\ HandleOf(handle[1]) = handle /\ ResolveEntityHandle(handle) = handle[1]
  BY DEF ResolveEntityHandle
<1>3. handle[2] = identity[handle[1]].serial
  BY <1>1, <1>2 DEF HandleOf, PointsAtOwn
<1>. QED BY <1>1, <1>2, <1>3 DEF PointsAtOwn, PawnThing

\* What a call may reach.
Theirs(i, slot) == i # None => identity[i].what.kind # "effect" /\ identity[i].what.slot = slot

LEMMA ReachedTheirs ==
  ASSUME EntitiesInv, NEW slot \in PlayerSlot
  PROVE  /\ Theirs(GetPlayerController(slot), slot)
         /\ Theirs(GetPawn(slot), slot)
         /\ Theirs(GetPlayerMovementServices(slot), slot)
<1>1. GetPlayerController(slot) # None => GetPlayerController(slot) = slot + 1 /\ ~Vacant(slot + 1)
  BY DEF GetPlayerController
<1>2. Theirs(GetPlayerController(slot), slot)
  BY <1>1 DEF EntitiesInv, ControllerInv, ControllerThing, Theirs
<1>3. GetPawn(slot) # None => /\ GetPlayerController(slot) # None
                             /\ GetPawn(slot) = ResolveEntityHandle(identity[slot + 1].what.pawn)
  BY <1>1 DEF GetPawn
<1>4. Theirs(GetPawn(slot), slot)
  BY <1>1, <1>3, PawnIsTheirs DEF Theirs
<1>5. GetPlayerMovementServices(slot) # None =>
        /\ GetPlayerController(slot) # None
        /\ GetPlayerMovementServices(slot) = ResolveEntityHandle(identity[slot + 1].what.current)
  BY <1>1 DEF GetPlayerMovementServices
<1>6. Theirs(GetPlayerMovementServices(slot), slot)
  BY <1>1, <1>5, PawnIsTheirs DEF Theirs
<1>. QED BY <1>2, <1>4, <1>6

\* Calls on a player.
LEMMA CallsReachTheirs ==
  ASSUME EntitiesInv, NEW slot \in PlayerSlot, CallsOnPlayer(slot)
  PROVE  CallsHitTheirPlayer'
<1>1. \E i, allowed : Theirs(i, slot) /\ Reaches(slot, i, allowed)
  BY ReachedTheirs DEF CallsOnPlayer, OnPawnField, CallOnPawn, CallOnController, SetModelScale, SetPlayerName,
                       ReadsOrigin, GetPlayerButtons
<1>. QED BY <1>1 DEF Theirs, Reaches, CallsHitTheirPlayer

LEMMA EntitiesInvariance == KitSpec => []EntitiesInv
<1>1. KitInit => EntitiesInv
  <2>. SUFFICES ASSUME KitInit PROVE EntitiesInv
    OBVIOUS
  <2>1. identity = [i \in IdentitySlot |-> [serial |-> 0, what |-> None]] /\ hit = NoHit
    BY DEF KitInit, EntitiesInit
  <2>2. \A i \in IdentitySlot : identity[i] = [serial |-> 0, what |-> None] /\ Vacant(i)
    BY <2>1 DEF Vacant
  <2>3. EntitiesTypeOK
    BY <2>1, <2>2 DEF EntitiesTypeOK
  <2>. QED BY <2>1, <2>2, <2>3, SlotsOfPlayers
           DEF EntitiesInv, SpawnInv, ControllerInv, CallsHitTheirPlayer, NoHit
<1>2. EntitiesInv /\ [KitNext]_kitVars => EntitiesInv'
  <2>. SUFFICES ASSUME EntitiesInv, [KitNext]_kitVars PROVE EntitiesInv'
    OBVIOUS
  <2>1. CASE UNCHANGED entityVars /\ UNCHANGED startupVars
    <3>1. UNCHANGED <<identity, startupVars>> /\ hit' = hit
      BY <2>1 DEF entityVars
    <3>. QED BY <3>1, CallsKeep DEF EntitiesInv, CallsHitTheirPlayer
  <2>2. CASE StartupNext /\ UNCHANGED entityVars
    <3>1. identity' = identity /\ hit' = hit /\ phase # "running"
      BY <2>2, StartsBefore DEF entityVars
    <3>2. \A i \in IdentitySlot : identity[i].what = None /\ identity'[i].what = None
      BY <3>1 DEF EntitiesInv, SpawnInv, Vacant
    <3>3. EntitiesTypeOK'
      BY <3>1 DEF EntitiesInv, EntitiesTypeOK, EffectThing, PawnThing, ControllerThing
    <3>4. \A i \in IdentitySlot : Vacant(i)'
      BY <3>2 DEF Vacant
    <3>5. SpawnInv' /\ ControllerInv'
      BY <3>4, SlotsOfPlayers DEF SpawnInv, ControllerInv
    <3>. QED BY <3>1, <3>3, <3>5 DEF EntitiesInv, CallsHitTheirPlayer
  <2>3. CASE phase = "running" /\ UNCHANGED startupVars /\ EntitiesNext
    <3>1. CASE SpawnsEffect
      BY <2>3, <3>1, SpawnsKeep
    <3>2. CASE \E i \in Effects : UtilRemove(i) \/ GameFires(i)
      BY <2>3, <3>2, EffectsKeep
    <3>3. CASE GameMovesPlayers
      BY <2>3, <3>3, GameKeeps
    <3>4. CASE \E slot \in PlayerSlot : CallsOnPlayer(slot)
      <4>1. UNCHANGED <<identity, startupVars>>
        BY <2>3, <3>4 DEF CallsOnPlayer
      <4>2. CallsHitTheirPlayer'
        BY <3>4, CallsReachTheirs
      <4>. QED BY <4>1, <4>2, CallsKeep
    <3>. QED BY <2>3, <3>1, <3>2, <3>3, <3>4 DEF EntitiesNext
  <2>. QED BY <2>1, <2>2, <2>3 DEF KitNext, kitVars
<1>. QED BY <1>1, <1>2, PTL DEF KitSpec

(* Every entity the kit made went through DispatchSpawn with keyvalues that only the *)
(* engine frees, and one with a lifetime has its Kill at the end of the game's queue *)
(* as long as it is there, when AddEntityIOEvent was found and there is an entity    *)
(* system to hand it to: without them an effect stays.  For any slots, numbers of    *)
(* entities and gamedata (EntityOps.cpp:131, EffectOps.cpp).                         *)
THEOREM SpawnsAreWholeHolds == KitSpec => []SpawnsAreWhole
<1>1. EntitiesInv => SpawnsAreWhole
  <2>. SUFFICES ASSUME EntitiesInv, NEW i \in Effects
                PROVE  /\ identity[i].what.spawned /\ identity[i].what.keyvalues = "engine"
                       /\ identity[i].what.timed /\ CanKill
                            => /\ identity[i].what.inputs # << >>
                               /\ identity[i].what.inputs[Len(identity[i].what.inputs)] = "Kill"
    BY DEF SpawnsAreWhole, CanKill
  <2>1. i \in Shared /\ ~Vacant(i) /\ identity[i].what.kind = "effect"
    BY DEF Effects
  <2>2. WholeEffect(identity[i].what)
    BY <2>1 DEF EntitiesInv, SpawnInv, PawnThing
  <2>. QED BY <2>2 DEF WholeEffect
<1>. QED BY <1>1, EntitiesInvariance, PTL

(* A call on a player reaches that player's controller or pawns, or nothing, however *)
(* often the game has given the places of pawns and controllers to others since the  *)
(* controller last pointed at one (Entity.cpp:140, PlayerController.cpp).            *)
THEOREM CallsHitTheirPlayerHolds == KitSpec => []CallsHitTheirPlayer
<1>1. EntitiesInv => CallsHitTheirPlayer
  BY DEF EntitiesInv
<1>. QED BY <1>1, EntitiesInvariance, PTL

-----------------------------------------------------------------------------
(* Console commands and texts.                                             *)

\* What a command is made of.
Word == STRING \cup {NewLine}

\* The console's buffer and the commands it was made of.
ConsoleInv ==
  /\ buffer \in Seq(Word) /\ submitted \in Seq(Seq(Word))
  /\ CommandsStayApart

\* A slot has the language of the player in it, or none.
LanguagesInv ==
  /\ host \in Hosts /\ connected \subseteq Client
  /\ DOMAIN playerLangs = Client /\ DOMAIN asked = Client
  /\ \A slot \in Client : playerLangs[slot] = IF slot \in connected THEN asked[slot] ELSE None
  /\ TextsAreTheirOwn

\* What was said stays as it was.
LEMMA SaidStays ==
  ASSUME TextsAreTheirOwn, host' = host, said' = said
  PROVE  TextsAreTheirOwn'
<1>1. \A code, key : LookupIn(code, key)' <=> LookupIn(code, key)
  BY DEF LookupIn, Available, Loaded
<1>2. \A codes, key, text : FirstThatHas(codes, key, text)' <=> FirstThatHas(codes, key, text)
  BY <1>1 DEF FirstThatHas
<1>. SUFFICES ASSUME said' # None PROVE TextsAreTheirOwn'
  BY DEF TextsAreTheirOwn
<1>3. PICK own, key, text : /\ own = IF said.asked # None THEN said.asked ELSE said.active
                            /\ key = said.key /\ text = said.text
  OBVIOUS
<1>4. FirstThatHas(<< own, "en" >>, key, text)
  BY <1>3 DEF TextsAreTheirOwn
<1>5. FirstThatHas(<< own, "en" >>, key, text)'
  BY <1>2, <1>4
<1>6. /\ own = IF said'.asked # None THEN said'.asked ELSE said'.active
      /\ key = said'.key /\ text = said'.text
  BY <1>3
<1>. QED BY <1>5, <1>6 DEF TextsAreTheirOwn, FirstThatHas

LEMMA LanguagesStay ==
  ASSUME LanguagesInv, host' = host, UNCHANGED languageVars
  PROVE  LanguagesInv'
BY SaidStays DEF LanguagesInv, languageVars

LEMMA ConnectionsKeep ==
  ASSUME LanguagesInv, host' = host, NEW slot \in Client, Connects(slot) \/ Disconnects(slot)
  PROVE  LanguagesInv'
<1>1. said' = said
  BY DEF Connects, Disconnects
<1>2. connected' \subseteq Client /\ DOMAIN playerLangs' = Client /\ DOMAIN asked' = Client
  BY DEF LanguagesInv, Connects, Disconnects
<1>3. CASE Connects(slot)
  BY <1>1, <1>2, <1>3, SaidStays DEF LanguagesInv, Connects
<1>4. CASE Disconnects(slot)
  BY <1>1, <1>2, <1>4, SaidStays DEF LanguagesInv, Disconnects
<1>. QED BY <1>3, <1>4

LEMMA LanguageIsSet ==
  ASSUME LanguagesInv, host' = host,
         \/ \E code : SetLanguage(code)
         \/ \E slot \in Client : \E code : SetPlayerLanguage(slot, code)
  PROVE  LanguagesInv'
<1>1. said' = said /\ connected' = connected
  BY DEF SetLanguage, SetPlayerLanguage
<1>2. DOMAIN playerLangs' = Client /\ DOMAIN asked' = Client
  BY DEF LanguagesInv, SetLanguage, SetPlayerLanguage
<1>3. \A s \in Client : playerLangs'[s] = IF s \in connected THEN asked'[s] ELSE None
  BY DEF LanguagesInv, SetLanguage, SetPlayerLanguage
<1>. QED BY <1>1, <1>2, <1>3, SaidStays DEF LanguagesInv

\* The text is looked for in the language of the player himself, and then in English.
LEMMA RepliesKeep ==
  ASSUME LanguagesInv, host' = host, NEW slot \in Client, NEW key, ReplyKey(slot, key)
  PROVE  LanguagesInv'
<1>1. /\ slot \in connected /\ UNCHANGED <<connected, language, playerLangs, asked>>
      /\ said' = [key |-> key, text |-> Get(key, slot), asked |-> asked[slot], active |-> language]
  BY DEF ReplyKey
<1>2. PICK own : own = IF asked[slot] # None THEN asked[slot] ELSE language
  OBVIOUS
<1>3. LanguageFor(slot) = own
  BY <1>1, <1>2 DEF LanguagesInv, LanguageFor
<1>4. \A code : LookupIn(code, key) => code # None
  BY LanguageAssumption DEF LanguagesInv, LookupIn, Available, Loaded
<1>5. FirstThatHas(<< own, "en" >>, key, Get(key, slot))
  <2>1. CASE LookupIn(own, key)
    <3>1. Get(key, slot) = own /\ 1 \in DOMAIN << own, "en" >> /\ << own, "en" >>[1] = own
      BY <1>3, <2>1 DEF Get
    <3>2. \A j \in 1 .. 1 - 1 : ~LookupIn(<< own, "en" >>[j], key)
      OBVIOUS
    <3>. QED BY <2>1, <3>1, <3>2 DEF FirstThatHas
  <2>2. CASE ~LookupIn(own, key) /\ LookupIn("en", key)
    <3>1. Get(key, slot) = "en" /\ 2 \in DOMAIN << own, "en" >> /\ << own, "en" >>[2] = "en"
      BY <1>3, <2>2 DEF Get
    <3>2. \A j \in 1 .. 2 - 1 : j = 1 /\ << own, "en" >>[j] = own
      OBVIOUS
    <3>. QED BY <2>2, <3>1, <3>2 DEF FirstThatHas
  <2>3. CASE ~LookupIn(own, key) /\ ~LookupIn("en", key)
    <3>1. Get(key, slot) = None
      BY <1>3, <2>3 DEF Get
    <3>2. \A i \in DOMAIN << own, "en" >> : << own, "en" >>[i] \in {own, "en"}
      OBVIOUS
    <3>. QED BY <2>3, <3>1, <3>2 DEF FirstThatHas
  <2>. QED BY <2>1, <2>2, <2>3
<1>6. TextsAreTheirOwn'
  <2>1. PICK text : text = Get(key, slot)
    OBVIOUS
  <2>2. \A code : LookupIn(code, key)' <=> LookupIn(code, key)
    BY DEF LookupIn, Available, Loaded
  <2>3. FirstThatHas(<< own, "en" >>, key, text)
    BY <1>5, <2>1
  <2>4. FirstThatHas(<< own, "en" >>, key, text)'
    BY <2>2, <2>3 DEF FirstThatHas
  <2>5. /\ said'.key = key /\ said'.text = text
        /\ (IF said'.asked # None THEN said'.asked ELSE said'.active) = own
    BY <1>1, <1>2, <2>1
  <2>. QED BY <2>4, <2>5 DEF TextsAreTheirOwn, FirstThatHas
<1>. QED BY <1>1, <1>6 DEF LanguagesInv

\* The line ends of a buffer, the last one before a place, and its lines.
EndsOf(tokens) == {i \in DOMAIN tokens : tokens[i] = NewLine}
EndBefore(tokens, i) == Max({0} \cup {j \in EndsOf(tokens) : j < i})
Bare(command) ==
  IF command # << >> /\ command[Len(command)] = NewLine
  THEN SubSeq(command, 1, Len(command) - 1) ELSE command

LEMMA LinesOf ==
  ASSUME NEW tokens
  PROVE  /\ DOMAIN Lines(tokens) = EndsOf(tokens)
         /\ \A i \in EndsOf(tokens) : Lines(tokens)[i] = SubSeq(tokens, 1 + EndBefore(tokens, i), i - 1)
BY DEF Lines, EndsOf, EndBefore

\* A set of naturals below a bound has a greatest element.
LEMMA GreatestOf ==
  ASSUME NEW n \in Nat, NEW S \in SUBSET (0 .. n), S # {}
  PROVE  Max(S) \in S
<1>. DEFINE Rest == {n - x : x \in S}
<1>1. Rest \in SUBSET Nat /\ Rest # {}
  <2>1. ASSUME NEW x \in S
        PROVE  n - x \in Nat
    <3>1. x \in 0 .. n
      OBVIOUS
    <3>. QED BY <3>1
  <2>. QED BY <2>1
<1>2. PICK r \in Rest : \A y \in Rest : r <= y
  BY <1>1, LeastOf
<1>3. PICK m \in S : r = n - m
  BY <1>2
<1>4. \A x \in S : m >= x
  BY <1>2, <1>3
<1>. QED BY <1>4 DEF Max

\* A sequence that is two others, one behind the other.
Joined(tokens, old, line) ==
  /\ Len(tokens) = Len(old) + Len(line)
  /\ \A i \in 1 .. Len(tokens) : tokens[i] = IF i <= Len(old) THEN old[i] ELSE line[i - Len(old)]

LEMMA JoinedIs ==
  ASSUME NEW old \in Seq(Word), NEW line \in Seq(Word)
  PROVE  old \o line \in Seq(Word) /\ Joined(old \o line, old, line)
<1>1. /\ old \o line \in Seq(Word) /\ Len(old \o line) = Len(old) + Len(line)
      /\ \A i \in 1 .. Len(old) + Len(line) :
           (old \o line)[i] = IF i <= Len(old) THEN old[i] ELSE line[i - Len(old)]
  BY ConcatProperties
<1>. QED BY <1>1 DEF Joined

\* One line, a buffer of whole lines, and the buffer with the line behind it.
OneLine(line) ==
  line # << >> /\ line[Len(line)] = NewLine /\ \A i \in 1 .. Len(line) - 1 : line[i] # NewLine
WholeLines(tokens) == tokens # << >> => tokens[Len(tokens)] = NewLine
OneMore(tokens, old, line) ==
  /\ tokens[Len(tokens)] = NewLine
  /\ EndsOf(tokens) = EndsOf(old) \cup {Len(tokens)} /\ Len(tokens) \notin EndsOf(old)
  /\ \A i \in EndsOf(old) : Lines(tokens)[i] = Lines(old)[i]
  /\ Lines(tokens)[Len(tokens)] = SubSeq(line, 1, Len(line) - 1)

LEMMA LineAdded ==
  ASSUME NEW old \in Seq(Word), WholeLines(old), NEW line \in Seq(Word), OneLine(line),
         NEW tokens \in Seq(Word), Joined(tokens, old, line)
  PROVE  OneMore(tokens, old, line)
<1>0. /\ old # << >> => old[Len(old)] = NewLine
      /\ line # << >> /\ line[Len(line)] = NewLine
      /\ \A i \in 1 .. Len(line) - 1 : line[i] # NewLine
  BY DEF WholeLines, OneLine
<1>1. Len(old) \in Nat /\ Len(line) \in Nat /\ Len(line) >= 1 /\ DOMAIN old = 1 .. Len(old)
  BY <1>0, EmptySeq
<1>2. /\ tokens \in Seq(Word) /\ Len(tokens) = Len(old) + Len(line) /\ DOMAIN tokens = 1 .. Len(tokens)
      /\ \A i \in 1 .. Len(tokens) : tokens[i] = IF i <= Len(old) THEN old[i] ELSE line[i - Len(old)]
  BY LenProperties DEF Joined
<1>3. \A i \in 1 .. Len(old) : tokens[i] = old[i]
  BY <1>1, <1>2
<1>4. \A i \in 1 .. Len(line) : tokens[Len(old) + i] = line[i]
  <2>. DEFINE m == Len(old)
              n == Len(line)
              k == Len(tokens)
  <2>1. /\ m \in Nat /\ n \in Nat /\ k = m + n
        /\ \A i \in 1 .. k : tokens[i] = IF i <= m THEN old[i] ELSE line[i - m]
    BY <1>1, <1>2
  <2>. HIDE DEF m, n, k
  <2>2. \A i \in 1 .. n : m + i \in 1 .. k /\ ~(m + i <= m) /\ m + i - m = i
    BY <2>1
  <2>3. \A i \in 1 .. n : tokens[m + i] = line[i]
    BY <2>1, <2>2
  <2>. QED BY <2>3 DEF m, n
<1>5. tokens[Len(tokens)] = NewLine
  <2>1. Len(line) \in 1 .. Len(line) /\ Len(old) + Len(line) = Len(tokens)
    BY <1>1, <1>2
  <2>2. tokens[Len(old) + Len(line)] = line[Len(line)]
    BY <1>4, <2>1
  <2>. QED BY <1>0, <2>1, <2>2
<1>6. EndsOf(tokens) = EndsOf(old) \cup {Len(tokens)} /\ Len(tokens) \notin EndsOf(old)
  <2>1. \A i \in Nat : i > Len(old) /\ i < Len(tokens) => tokens[i] # NewLine
    <3>. SUFFICES ASSUME NEW i \in Nat, i > Len(old), i < Len(tokens)
                  PROVE  tokens[i] # NewLine
      OBVIOUS
    <3>1. i - Len(old) \in 1 .. Len(line) - 1 /\ tokens[i] = line[i - Len(old)]
      BY <1>1, <1>2
    <3>. QED BY <1>0, <3>1
  <2>2. Len(old) < Len(tokens) /\ Len(tokens) \in DOMAIN tokens
    BY <1>1, <1>2
  <2>3. ASSUME NEW i \in EndsOf(tokens)
        PROVE  i \in EndsOf(old) \/ i = Len(tokens)
    <3>1. i \in Nat /\ i >= 1 /\ i <= Len(tokens) /\ tokens[i] = NewLine
      BY <1>2 DEF EndsOf
    <3>2. CASE i <= Len(old)
      BY <1>1, <1>3, <3>1, <3>2 DEF EndsOf
    <3>3. CASE i > Len(old)
      <4>. SUFFICES ASSUME i # Len(tokens) PROVE FALSE
        OBVIOUS
      <4>. DEFINE n == Len(tokens)
      <4>1. n \in Nat /\ i \in Nat /\ i <= n /\ i # n
        BY <1>1, <1>2, <3>1
      <4>. HIDE DEF n
      <4>2. i < n
        BY <4>1
      <4>. QED BY <2>1, <3>1, <3>3, <4>2 DEF n
    <3>4. i <= Len(old) \/ i > Len(old)
      BY <1>1, <3>1
    <3>. QED BY <3>2, <3>3, <3>4
  <2>4. ASSUME NEW i \in EndsOf(old)
        PROVE  i \in EndsOf(tokens) /\ i # Len(tokens)
    <3>1. i \in 1 .. Len(old) /\ old[i] = NewLine
      BY <1>1 DEF EndsOf
    <3>2. i \in DOMAIN tokens /\ i # Len(tokens) /\ tokens[i] = NewLine
      BY <1>1, <1>2, <1>3, <2>2, <3>1
    <3>. QED BY <3>2 DEF EndsOf
  <2>5. Len(tokens) \in EndsOf(tokens)
    BY <1>5, <2>2 DEF EndsOf
  <2>. QED BY <2>3, <2>4, <2>5
<1>7. ASSUME NEW i \in EndsOf(old)
      PROVE  Lines(tokens)[i] = Lines(old)[i]
  <2>1. i \in 1 .. Len(old) /\ i < Len(tokens)
    BY <1>1, <1>2 DEF EndsOf
  <2>2. {j \in EndsOf(tokens) : j < i} = {j \in EndsOf(old) : j < i}
    BY <1>1, <1>2, <1>6, <2>1
  <2>3. EndBefore(tokens, i) = EndBefore(old, i)
    BY <2>2 DEF EndBefore
  <2>4. EndBefore(old, i) \in 0 .. i - 1
    <3>. DEFINE S == {0} \cup {j \in EndsOf(old) : j < i}
    <3>1. S \in SUBSET (0 .. i - 1) /\ 0 \in S
      BY <1>1, <2>1 DEF EndsOf
    <3>. HIDE DEF S
    <3>2. i - 1 \in Nat /\ S # {}
      BY <2>1, <3>1
    <3>3. Max(S) \in S
      BY <3>1, <3>2, GreatestOf
    <3>. QED BY <3>1, <3>3 DEF S, EndBefore
  <2>5. PICK from \in 1 .. i : from = 1 + EndBefore(old, i)
    BY <2>1, <2>4
  <2>6. \A k \in from .. i - 1 : old[k] \in Word /\ tokens[k] = old[k]
    <3>. TAKE k \in from .. i - 1
    <3>1. k \in 1 .. Len(old)
      BY <1>1, <2>1, <2>5
    <3>. QED BY <1>3, <3>1, ElementOfSeq
  <2>. DEFINE there == SubSeq(tokens, from, i - 1)
              here == SubSeq(old, from, i - 1)
  <2>7. from \in Int /\ i - 1 \in Int /\ from <= i
    BY <2>1, <2>5
  <2>8. /\ there \in Seq(Word) /\ Len(there) = (IF from <= i - 1 THEN i - 1 - from + 1 ELSE 0)
        /\ \A k \in 1 .. i - 1 - from + 1 : there[k] = tokens[from + k - 1]
    <3>1. \A k \in from .. i - 1 : tokens[k] \in Word
      <4>. TAKE k \in from .. i - 1
      <4>. QED BY <2>6
    <3>2. PICK to \in Int : to = i - 1
      BY <2>7
    <3>3. from \in Int /\ \A k \in from .. to : tokens[k] \in Word
      BY <2>7, <3>1, <3>2
    <3>4. /\ SubSeq(tokens, from, to) \in Seq(Word)
          /\ Len(SubSeq(tokens, from, to)) = (IF from <= to THEN to - from + 1 ELSE 0)
          /\ \A k \in 1 .. to - from + 1 : SubSeq(tokens, from, to)[k] = tokens[from + k - 1]
      BY <3>3, SubSeqProperties
    <3>. QED BY <3>2, <3>4
  <2>9. /\ here \in Seq(Word) /\ Len(here) = (IF from <= i - 1 THEN i - 1 - from + 1 ELSE 0)
        /\ \A k \in 1 .. i - 1 - from + 1 : here[k] = old[from + k - 1]
    BY <2>6, <2>7, SubSeqProperties
  <2>. HIDE DEF there, here
  <2>10. Len(there) = Len(here) /\ \A k \in 1 .. Len(there) : there[k] = here[k]
    <3>1. Len(there) = Len(here)
      BY <2>8, <2>9
    <3>2. ASSUME NEW k \in 1 .. Len(there)
          PROVE  there[k] = here[k]
      <4>1. k \in 1 .. i - 1 - from + 1 /\ from + k - 1 \in from .. i - 1
        BY SMTT(60), <2>1, <2>5, <2>8
      <4>. QED BY <2>6, <2>8, <2>9, <4>1
    <3>. QED BY <3>1, <3>2
  <2>11. there = here
    BY <2>8, <2>9, <2>10, SeqEqual
  <2>. QED BY <1>6, <2>3, <2>5, <2>11, LinesOf DEF there, here
<1>8. Lines(tokens)[Len(tokens)] = SubSeq(line, 1, Len(line) - 1)
  <2>1. EndBefore(tokens, Len(tokens)) = Len(old)
    <3>. DEFINE S == {0} \cup {j \in EndsOf(tokens) : j < Len(tokens)}
    <3>1. S = {0} \cup EndsOf(old)
      BY <1>1, <1>2, <1>6 DEF EndsOf
    <3>2. S \in SUBSET Nat /\ \A x \in S : x <= Len(old)
      BY <1>1, <3>1 DEF EndsOf
    <3>3. Len(old) \in S
      <4>1. CASE Len(old) = 0
        BY <4>1
      <4>2. CASE Len(old) # 0
        <5>1. old # << >>
          BY <4>2, EmptySeq
        <5>. QED BY <1>0, <1>1, <3>1, <4>2, <5>1 DEF EndsOf
      <4>. QED BY <4>1, <4>2
    <3>. HIDE DEF S
    <3>4. Max(S) = Len(old)
      BY <3>2, <3>3, GreatestIs
    <3>. QED BY <3>4 DEF S, EndBefore
  <2>2. Lines(tokens)[Len(tokens)] = SubSeq(tokens, 1 + Len(old), Len(tokens) - 1)
    BY <1>6, <2>1, LinesOf
  <2>. DEFINE there == SubSeq(tokens, 1 + Len(old), Len(tokens) - 1)
              here == SubSeq(line, 1, Len(line) - 1)
  <2>3. there \in Seq(Word) /\ Len(there) = Len(line) - 1
        /\ \A i \in 1 .. Len(line) - 1 : there[i] = line[i]
    <3>1. \A k \in 1 + Len(old) .. Len(tokens) - 1 : tokens[k] \in Word
      <4>. TAKE k \in 1 + Len(old) .. Len(tokens) - 1
      <4>1. k \in 1 .. Len(tokens)
        BY <1>1, <1>2
      <4>. QED BY <1>2, <4>1, ElementOfSeq
    <3>2. 1 + Len(old) \in Int /\ Len(tokens) - 1 \in Int
      BY <1>1, <1>2
    <3>3. /\ there \in Seq(Word)
          /\ Len(there) = (IF 1 + Len(old) <= Len(tokens) - 1 THEN Len(tokens) - 1 - (1 + Len(old)) + 1 ELSE 0)
          /\ \A i \in 1 .. Len(tokens) - 1 - (1 + Len(old)) + 1 : there[i] = tokens[1 + Len(old) + i - 1]
      BY <3>1, <3>2, SubSeqProperties
    <3>. HIDE DEF there
    <3>4. Len(tokens) - 1 - (1 + Len(old)) + 1 = Len(line) - 1
          /\ \A i \in 1 .. Len(line) - 1 : 1 + Len(old) + i - 1 = Len(old) + i /\ i \in 1 .. Len(line)
      BY <1>1, <1>2
    <3>5. (IF 1 + Len(old) <= Len(tokens) - 1 THEN Len(tokens) - 1 - (1 + Len(old)) + 1 ELSE 0) = Len(line) - 1
      <4>. DEFINE m == Len(old)
                  n == Len(line)
                  k == Len(tokens)
      <4>1. m \in Nat /\ n \in Nat /\ n >= 1 /\ k = m + n
        BY <1>1, <1>2
      <4>. HIDE DEF m, n, k
      <4>2. (IF 1 + m <= k - 1 THEN k - 1 - (1 + m) + 1 ELSE 0) = n - 1
        BY <4>1
      <4>. QED BY <4>2 DEF m, n, k
    <3>. QED BY <1>4, <3>3, <3>4, <3>5
  <2>4. here \in Seq(Word) /\ Len(here) = Len(line) - 1
        /\ \A i \in 1 .. Len(line) - 1 : here[i] = line[i]
    <3>1. \A k \in 1 .. Len(line) - 1 : line[k] \in Word
      BY <1>1, ElementOfSeq
    <3>2. 1 \in Int /\ Len(line) - 1 \in Int
      BY <1>1
    <3>3. /\ here \in Seq(Word) /\ Len(here) = (IF 1 <= Len(line) - 1 THEN Len(line) - 1 - 1 + 1 ELSE 0)
          /\ \A i \in 1 .. Len(line) - 1 - 1 + 1 : here[i] = line[1 + i - 1]
      BY <3>1, <3>2, SubSeqProperties
    <3>. HIDE DEF here
    <3>4. Len(line) - 1 - 1 + 1 = Len(line) - 1 /\ \A i \in 1 .. Len(line) - 1 : 1 + i - 1 = i
      BY <1>1
    <3>5. (IF 1 <= Len(line) - 1 THEN Len(line) - 1 - 1 + 1 ELSE 0) = Len(line) - 1
      <4>1. \A n \in Nat : n >= 1 => (IF 1 <= n - 1 THEN n - 1 - 1 + 1 ELSE 0) = n - 1
        OBVIOUS
      <4>. QED BY <1>1, <4>1
    <3>. QED BY <3>3, <3>4, <3>5
  <2>. HIDE DEF there, here
  <2>5. Len(there) = Len(here) /\ \A i \in 1 .. Len(there) : there[i] = here[i]
    BY <2>3, <2>4
  <2>6. there = here
    BY <2>3, <2>4, <2>5, SeqEqual
  <2>. QED BY <2>2, <2>6 DEF there, here
<1>. QED BY <1>5, <1>6, <1>7, <1>8 DEF OneMore

\* A command goes to the buffer as one line, which is the command without its line end.
LEMMA LineIsOne ==
  ASSUME NEW c \in Seq(Word), \A i \in 1 .. Len(c) - 1 : c[i] # NewLine
  PROVE  /\ Line(c) \in Seq(Word) /\ OneLine(Line(c))
         /\ SubSeq(Line(c), 1, Len(Line(c)) - 1) = Bare(c)
<1>1. Len(c) \in Nat /\ NewLine \in Word
  BY LenProperties DEF Word
<1>2. CASE c # << >> /\ c[Len(c)] = NewLine
  <2>1. Line(c) = c /\ Bare(c) = SubSeq(c, 1, Len(c) - 1)
    BY <1>2 DEF Line, Bare
  <2>. QED BY <1>2, <2>1 DEF OneLine
<1>3. CASE c = << >> \/ c[Len(c)] # NewLine
  <2>. DEFINE l == Append(c, NewLine)
              t == SubSeq(l, 1, Len(c))
  <2>1. Line(c) = l /\ Bare(c) = c
    BY <1>3 DEF Line, Bare
  <2>2. l \in Seq(Word) /\ Len(l) = Len(c) + 1 /\ l[Len(c) + 1] = NewLine
        /\ \A i \in 1 .. Len(c) : l[i] = c[i]
    BY <1>1, AppendProperties
  <2>. HIDE DEF l
  <2>3. l # << >>
    <3>1. Len(l) # 0
      BY <1>1, <2>2
    <3>. QED BY <3>1, EmptySeq
  <2>4. \A i \in 1 .. Len(c) : c[i] # NewLine
    <3>. TAKE i \in 1 .. Len(c)
    <3>1. CASE i = Len(c)
      <4>1. c # << >>
        BY <1>1, <3>1, EmptySeq
      <4>. QED BY <1>3, <3>1, <4>1
    <3>2. CASE i # Len(c)
      <4>. DEFINE n == Len(c)
      <4>1. n \in Nat /\ i \in 1 .. n /\ i # n
        BY <1>1, <3>2
      <4>. HIDE DEF n
      <4>2. i \in 1 .. n - 1
        BY <4>1
      <4>. QED BY <4>2 DEF n
    <3>. QED BY <3>1, <3>2
  <2>5. t \in Seq(Word) /\ Len(t) = Len(c) /\ \A i \in 1 .. Len(c) : t[i] = l[i]
    <3>1. \A k \in 1 .. Len(c) : l[k] \in Word
      BY <1>1, <2>2, ElementOfSeq
    <3>2. /\ t \in Seq(Word) /\ Len(t) = (IF 1 <= Len(c) THEN Len(c) - 1 + 1 ELSE 0)
          /\ \A i \in 1 .. Len(c) - 1 + 1 : t[i] = l[1 + i - 1]
      BY <1>1, <3>1, SubSeqProperties
    <3>. HIDE DEF t
    <3>. DEFINE n == Len(c)
    <3>3. n \in Nat
      BY <1>1
    <3>. HIDE DEF n
    <3>4. (IF 1 <= n THEN n - 1 + 1 ELSE 0) = n /\ n - 1 + 1 = n /\ \A i \in 1 .. n : 1 + i - 1 = i
      BY <3>3
    <3>. QED BY <3>2, <3>4 DEF n
  <2>. HIDE DEF t
  <2>6. t = c
    BY <2>2, <2>5, SeqEqual
  <2>7. Len(l) - 1 = Len(c)
    BY <1>1, <2>2
  <2>. QED BY <2>1, <2>2, <2>3, <2>4, <2>6, <2>7 DEF t, OneLine
<1>. QED BY <1>2, <1>3

\* The property of any buffer and commands.
LinesApart(tokens, orders) ==
  /\ tokens # << >> => tokens[Len(tokens)] = NewLine
  /\ {Lines(tokens)[i] : i \in DOMAIN Lines(tokens)}
       = {IF c # << >> /\ c[Len(c)] = NewLine THEN SubSeq(c, 1, Len(c) - 1) ELSE c :
            c \in {orders[i] : i \in DOMAIN orders}}
  /\ Cardinality(DOMAIN Lines(tokens)) = Len(orders)

LEMMA ApartIs ==
  ASSUME NEW tokens, NEW orders \in Seq(Seq(Word))
  PROVE  LinesApart(tokens, orders)
           <=> /\ tokens # << >> => tokens[Len(tokens)] = NewLine
               /\ {Lines(tokens)[i] : i \in EndsOf(tokens)} = {Bare(orders[i]) : i \in 1 .. Len(orders)}
               /\ Cardinality(EndsOf(tokens)) = Len(orders)
<1>1. LinesApart(tokens, orders)
        <=> /\ tokens # << >> => tokens[Len(tokens)] = NewLine
            /\ {Lines(tokens)[i] : i \in DOMAIN Lines(tokens)}
                 = {Bare(c) : c \in {orders[i] : i \in DOMAIN orders}}
            /\ Cardinality(DOMAIN Lines(tokens)) = Len(orders)
  BY DEF LinesApart, Bare
<1>2. DOMAIN Lines(tokens) = EndsOf(tokens) /\ DOMAIN orders = 1 .. Len(orders)
  BY LinesOf, LenProperties
<1>3. {Bare(c) : c \in {orders[i] : i \in 1 .. Len(orders)}} = {Bare(orders[i]) : i \in 1 .. Len(orders)}
  OBVIOUS
<1>. QED BY <1>1, <1>2, <1>3

\* A command that is one line stays apart in a buffer of such.
LEMMA CommandAdded ==
  ASSUME NEW old \in Seq(Word), NEW given \in Seq(Seq(Word)), LinesApart(old, given),
         NEW c \in Seq(Word), NEW line \in Seq(Word), OneLine(line),
         SubSeq(line, 1, Len(line) - 1) = Bare(c),
         NEW tokens \in Seq(Word), Joined(tokens, old, line),
         NEW orders \in Seq(Seq(Word)), orders = Append(given, c)
  PROVE  LinesApart(tokens, orders)
<1>1. /\ WholeLines(old)
      /\ {Lines(old)[i] : i \in EndsOf(old)} = {Bare(given[i]) : i \in 1 .. Len(given)}
      /\ Cardinality(EndsOf(old)) = Len(given)
  BY ApartIs DEF WholeLines
<1>2. OneMore(tokens, old, line)
  BY <1>1, LineAdded
<1>3. PICK last : /\ last = Len(tokens) /\ tokens[last] = NewLine
                  /\ EndsOf(tokens) = EndsOf(old) \cup {last} /\ last \notin EndsOf(old)
                  /\ \A i \in EndsOf(old) : Lines(tokens)[i] = Lines(old)[i]
                  /\ Lines(tokens)[last] = Bare(c)
  BY <1>2 DEF OneMore
<1>4. PICK n \in Nat : n = Len(given)
  BY LenProperties
<1>5. Len(orders) = n + 1 /\ orders[n + 1] = c /\ \A i \in 1 .. n : orders[i] = given[i]
  BY <1>4, AppendProperties
<1>6. {Bare(orders[i]) : i \in 1 .. Len(orders)} = {Bare(given[i]) : i \in 1 .. Len(given)} \cup {Bare(c)}
  <2>1. 1 .. n + 1 = (1 .. n) \cup {n + 1}
    BY <1>4
  <2>2. {Bare(orders[i]) : i \in 1 .. n + 1} = {Bare(orders[i]) : i \in 1 .. n} \cup {Bare(orders[n + 1])}
    BY ZenonT(60), <2>1
  <2>3. {Bare(orders[i]) : i \in 1 .. n} = {Bare(given[i]) : i \in 1 .. n}
    BY <1>5
  <2>. QED BY <1>4, <1>5, <2>2, <2>3
<1>7. {Lines(tokens)[i] : i \in EndsOf(tokens)} = {Lines(old)[i] : i \in EndsOf(old)} \cup {Bare(c)}
  <2>1. {Lines(tokens)[i] : i \in EndsOf(tokens)}
          = {Lines(tokens)[i] : i \in EndsOf(old)} \cup {Lines(tokens)[last]}
    BY ZenonT(60), <1>3
  <2>2. {Lines(tokens)[i] : i \in EndsOf(old)} = {Lines(old)[i] : i \in EndsOf(old)}
    BY <1>3
  <2>. QED BY <1>3, <2>1, <2>2
<1>8. Cardinality(EndsOf(tokens)) = Len(orders)
  <2>1. IsFiniteSet(EndsOf(old))
    <3>1. EndsOf(old) \in SUBSET (1 .. Len(old)) /\ 1 \in Int /\ Len(old) \in Int
      BY LenProperties DEF EndsOf
    <3>. QED BY <3>1, FS_Interval, FS_Subset
  <2>2. Cardinality(EndsOf(old) \cup {last}) = Cardinality(EndsOf(old)) + 1
    BY <1>3, <2>1, FS_AddElement
  <2>. QED BY <1>1, <1>3, <1>4, <1>5, <2>2
<1>9. {Lines(tokens)[i] : i \in EndsOf(tokens)} = {Bare(orders[i]) : i \in 1 .. Len(orders)}
  BY <1>1, <1>6, <1>7
<1>. QED BY <1>3, <1>8, <1>9, ApartIs

LEMMA StayApart ==
  /\ CommandsStayApart <=> LinesApart(buffer, submitted)
  /\ CommandsStayApart' <=> LinesApart(buffer', submitted')
BY DEF CommandsStayApart, LinesApart

LEMMA EmptyApart ==
  /\ << >> \in Seq(Word) /\ << >> \in Seq(Seq(Word))
  /\ LinesApart(<< >>, << >>)
<1>1. EndsOf(<< >>) = {}
  BY DEF EndsOf
<1>2. /\ << >> \in Seq(Word) /\ << >> \in Seq(Seq(Word)) /\ Len(<< >>) = 0
      /\ Cardinality(EndsOf(<< >>)) = 0
  BY <1>1, FS_EmptySet, EmptySeq
<1>3. {Lines(<< >>)[i] : i \in EndsOf(<< >>)} = {} /\ {Bare(<< >>[i]) : i \in 1 .. Len(<< >>)} = {}
  BY <1>1, <1>2
<1>. QED BY <1>2, <1>3, ApartIs

LEMMA ExecuteKeeps ==
  ASSUME ConsoleInv, SingleLines, NEW command \in CommandLine, ExecuteServerCommand(command)
  PROVE  ConsoleInv'
<1>1. command \in Seq(Word) /\ \A i \in 1 .. Len(command) - 1 : command[i] # NewLine
  <2>1. command \in Seq(STRING) /\ STRING \subseteq Word
    BY CommandAssumption DEF Word
  <2>2. command \in Seq(Word)
    BY <2>1, SeqMonotonic
  <2>. QED BY <2>2 DEF SingleLines
<1>2. PICK old \in Seq(Word), given \in Seq(Seq(Word)) : old = buffer /\ given = submitted
  BY DEF ConsoleInv
<1>3. PICK line \in Seq(Word) :
        line = Line(command) /\ OneLine(line) /\ SubSeq(line, 1, Len(line) - 1) = Bare(command)
  BY <1>1, LineIsOne
<1>4. PICK tokens \in Seq(Word) : buffer' = tokens /\ Joined(tokens, old, line)
  BY <1>2, <1>3, JoinedIs DEF ExecuteServerCommand
<1>5. PICK orders \in Seq(Seq(Word)) : submitted' = orders /\ orders = Append(given, command)
  <2>1. submitted' = Append(given, command) /\ Append(given, command) \in Seq(Seq(Word))
    BY <1>1, <1>2, AppendProperties DEF ExecuteServerCommand
  <2>. QED BY <2>1
<1>6. LinesApart(old, given)
  BY <1>2, StayApart DEF ConsoleInv
<1>7. LinesApart(tokens, orders)
  BY <1>1, <1>3, <1>4, <1>5, <1>6, CommandAdded
<1>. QED BY <1>4, <1>5, <1>7, StayApart DEF ConsoleInv

LEMMA ConsoleStays ==
  ASSUME ConsoleInv, UNCHANGED <<buffer, submitted>>
  PROVE  ConsoleInv'
BY StayApart DEF ConsoleInv

LEMMA ConsoleKeeps ==
  ASSUME ConsoleInv, SingleLines, Console
  PROVE  ConsoleInv'
<1>1. CASE \E command \in CommandLine : ExecuteServerCommand(command)
  BY <1>1, ExecuteKeeps
<1>2. CASE ConsoleRuns
  <2>1. buffer' = << >> /\ submitted' = << >>
    BY <1>2 DEF ConsoleRuns
  <2>. QED BY <2>1, EmptyApart, StayApart DEF ConsoleInv
<1>. QED BY <1>1, <1>2 DEF Console

(* The console finds each command handed to it as a line of its own, the last of     *)
(* them ended (ConVarService.cpp:155-175); for any commands that are one line each:  *)
(* the code does not look, and a caller's command with a line end inside is two.     *)
THEOREM CommandsStayApartHolds == SingleLines => (KitSpec => []CommandsStayApart)
<1>. SUFFICES ASSUME SingleLines PROVE KitSpec => []CommandsStayApart
  OBVIOUS
<1>1. KitInit => ConsoleInv
  <2>1. KitInit => buffer = << >> /\ submitted = << >>
    BY DEF KitInit, MessagingInit
  <2>. QED BY <2>1, EmptyApart, StayApart DEF ConsoleInv
<1>2. ConsoleInv /\ [KitNext]_kitVars => ConsoleInv'
  <2>. SUFFICES ASSUME ConsoleInv, [KitNext]_kitVars PROVE ConsoleInv'
    OBVIOUS
  <2>1. CASE UNCHANGED consoleVars
    BY <2>1, ConsoleStays DEF consoleVars
  <2>2. CASE Console
    BY <2>2, ConsoleKeeps
  <2>. QED BY <2>1, <2>2 DEF KitNext, kitVars, messagingVars, MessagingNext, Languages
<1>3. ConsoleInv => CommandsStayApart
  BY DEF ConsoleInv
<1>. QED BY <1>1, <1>2, <1>3, PTL DEF KitSpec

(* A player is told a text in the language he asked for himself, in the server's     *)
(* when he asked for none, and in English when that one lacks it, and by its bare    *)
(* key only when both do: never in the language of an earlier occupant of his slot,  *)
(* however the slots change hands (Translations.cpp:125-171, MenuManager.cpp:292).   *)
THEOREM TextsAreTheirOwnHolds == KitSpec => []TextsAreTheirOwn
<1>1. KitInit => LanguagesInv
  BY DEF KitInit, StartupInit, MessagingInit, LanguagesInv, TextsAreTheirOwn
<1>2. LanguagesInv /\ [KitNext]_kitVars => LanguagesInv'
  <2>. SUFFICES ASSUME LanguagesInv, [KitNext]_kitVars PROVE LanguagesInv'
    OBVIOUS
  <2>1. host' = host
    BY StartsBefore DEF KitNext, kitVars, startupVars
  <2>2. CASE UNCHANGED languageVars
    BY <2>1, <2>2, LanguagesStay
  <2>3. CASE Languages
    BY <2>1, <2>3, ConnectionsKeep, LanguageIsSet, RepliesKeep DEF Languages
  <2>. QED BY <2>2, <2>3 DEF KitNext, kitVars, messagingVars, MessagingNext, Console
<1>3. LanguagesInv => TextsAreTheirOwn
  BY DEF LanguagesInv
<1>. QED BY <1>1, <1>2, <1>3, PTL DEF KitSpec

=============================================================================
