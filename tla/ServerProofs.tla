---------------------------- MODULE ServerProofs -----------------------------
(* What holds of the registry of PlayerManager, PerSlot and InputHistoryService *)
(* for any slots, any SteamIDs, any history depths and any number of players    *)
(* and bots; then, for the services of Server on that one roster, that it holds *)
(* of the registry among them, that what a timer does later is accounted for,   *)
(* and that chat commands and menu rows act within the policy and on whom they  *)
(* mean.                                                                        *)
EXTENDS Server, SequenceTheorems, WellFoundedInduction, TLAPS

(* ---- the ring -------------------------------------------------------------- *)

\* A remainder is in range.
LEMMA RemainderInRange ==
  ASSUME NEW x \in Int, NEW d \in Nat, d > 0
  PROVE  x % d \in 0 .. d - 1
OBVIOUS

\* The head wraps at the end of the ring and nowhere else.
LEMMA HeadMoves ==
  ASSUME NEW h \in Nat, NEW d \in Nat, h < d
  PROVE  (h + 1) % d = IF h + 1 < d THEN h + 1 ELSE 0
OBVIOUS

\* Two turns of the ring lead back to the place one starts from.
LEMMA TwoTurns ==
  ASSUME NEW k \in Nat, NEW d \in Nat, k < d
  PROVE  (k + 2 * d) % d = k
OBVIOUS

Ring(d) == {r \in [samples : [0 .. d - 1 -> Player \cup {None}], head : Nat, count : 0 .. d] :
              r.head < d \/ r.head = 0}

\* A fresh ring is a ring.
LEMMA EmptyRingType ==
  ASSUME NEW d \in Nat
  PROVE  EmptyRing(d) \in Ring(d)
BY DEF EmptyRing, Ring

\* A ring with one sample more is a ring.
LEMMA PushedType ==
  ASSUME NEW d \in Nat, d > 0, NEW r \in Ring(d), NEW seen \in Player
  PROVE  Pushed(r, d, seen) \in Ring(d)
<1>1. r.head \in 0 .. d - 1 /\ r.count \in 0 .. d
  BY DEF Ring
<1>2. [r.samples EXCEPT ![r.head] = seen] \in [0 .. d - 1 -> Player \cup {None}]
  BY <1>1 DEF Ring
<1>3. (r.head + 1) % d \in 0 .. d - 1
  BY <1>1, RemainderInRange
<1>. QED BY <1>1, <1>2, <1>3 DEF Pushed, Ring

(* ---- types ------------------------------------------------------------------ *)

\* The types, with the ring's as a set.
Types ==
  /\ client \in [Slot -> Player \cup {None}]
  /\ bySlot \in [Slot -> Player \cup {None}]
  /\ bySteamId \in [SteamId -> Player \cup {None}]
  /\ bound \in BOOLEAN
  /\ data \in [Slot -> Player \cup {None}] /\ missed \subseteq Slot
  /\ depth \in {0} \cup Depths
  /\ rings \in [Slot -> Ring(depth)]

LEMMA TypesAreTypes == Types => PlayersTypeOK
BY DEF Types, PlayersTypeOK, Ring

LEMMA DepthIsNatural == Types => depth \in Nat
BY DepthsAssumption DEF Types

\* The feed resets values of the right type to values of the right type.
LEMMA FeedKeepsTypes ==
  ASSUME Types, NEW changed \in SUBSET Slot, FireSlotChange(changed)
  PROVE  /\ data' \in [Slot -> Player \cup {None}] /\ missed' \subseteq Slot
         /\ rings' \in [Slot -> Ring(depth)]
<1>1. EmptyRing(depth) \in Ring(depth)
  BY DepthIsNatural, EmptyRingType
<1>2. data' \in [Slot -> Player \cup {None}] /\ missed' \subseteq Slot
  <2>1. CASE bound
    BY <2>1 DEF Types, FireSlotChange, Reset
  <2>2. CASE ~bound
    BY <2>2 DEF Types, FireSlotChange, Reset
  <2>. QED BY <2>1, <2>2
<1>. QED BY <1>1, <1>2 DEF Types, FireSlotChange

LEMMA TypesKept == Types /\ [Next]_playerVars => Types'
<1>. SUFFICES ASSUME Types, [Next]_playerVars
              PROVE  Types'
  OBVIOUS
<1>. USE DEF Types, valueVars
<1>1. ASSUME NEW s \in Slot, NEW id \in SteamId, NEW obj \in Object, Hook_OnClientConnected(s, id, obj)
      PROVE  Types'
  <2>1. [id |-> obj, slot |-> s, steamId |-> id] \in Player
    BY DEF Player
  <2>2. FireSlotChange({s})
    BY <1>1 DEF Hook_OnClientConnected, AddPlayer
  <2>. QED BY <1>1, <2>1, <2>2, FeedKeepsTypes DEF Hook_OnClientConnected, AddPlayer
<1>2. ASSUME NEW s \in Slot, Hook_ClientDisconnect(s)
      PROVE  Types'
  <2>1. CASE bySlot[s] # None
    <3>1. FireSlotChange({s})
      BY <1>2, <2>1 DEF Hook_ClientDisconnect, RemovePlayer
    <3>. QED BY <1>2, <2>1, <3>1, FeedKeepsTypes DEF Hook_ClientDisconnect, RemovePlayer
  <2>2. CASE bySlot[s] = None
    BY <1>2, <2>2 DEF Hook_ClientDisconnect, RemovePlayer
  <2>. QED BY <2>1, <2>2
<1>3. ASSUME Clear
      PROVE  Types'
  BY <1>3, FeedKeepsTypes DEF Clear
<1>4. ASSUME BindReset \/ Unbind \/ Renew
      PROVE  Types'
  BY <1>4 DEF BindReset, Unbind, Renew
<1>5. ASSUME NEW s \in Slot, Store(s)
      PROVE  Types'
  BY <1>5 DEF Store
<1>6. ASSUME NEW d \in Depths, Enable(d)
      PROVE  Types'
  <2>1. EmptyRing(d) \in Ring(d)
    BY DepthsAssumption, EmptyRingType
  <2>2. depth' \in {0} \cup Depths /\ rings' \in [Slot -> Ring(depth')]
    BY <1>6, <2>1 DEF Enable, Grown
  <2>. QED BY <1>6, <2>2 DEF Enable
<1>7. ASSUME NEW s \in Slot, client[s] # None, Record(s, client[s])
      PROVE  Types'
  <2>1. depth \in Nat /\ depth > 0 /\ client[s] \in Player
    BY <1>7, DepthIsNatural DEF Record
  <2>2. Pushed(rings[s], depth, client[s]) \in Ring(depth)
    BY <2>1, PushedType
  <2>. QED BY <1>7, <2>1, <2>2 DEF Record, Recorded
<1>8. ASSUME UNCHANGED playerVars
      PROVE  Types'
  BY <1>8 DEF playerVars
<1>. QED BY <1>1, <1>2, <1>3, <1>4, <1>5, <1>6, <1>7, <1>8 DEF Next

LEMMA TypesAtFirst == Init => Types
<1>1. EmptyRing(0) \in Ring(0)
  BY EmptyRingType
<1>. QED BY <1>1 DEF Types, Init

\* Every variable keeps its type: slots and indexes hold players, rings have the
\* depth of the service and a head within it.
THEOREM PlayersTypeCorrect == PlayersSpec => []PlayersTypeOK
BY TypesAtFirst, TypesKept, TypesAreTypes, PTL DEF PlayersSpec

(* ---- the index by SteamID ---------------------------------------------------- *)

\* What the two indexes say about the engine's slots: the manager knows a slot's
\* client or nobody, a client is in his own slot, an entry of the second index
\* stands under its own SteamID and leads to its owner, and only one of the
\* bots, which share one SteamID, needs to be found there.
SlotsAreOwn == \A s \in Slot : client[s] # None => client[s].slot = s
KnownAreThere == \A s \in Slot : bySlot[s] # None => bySlot[s] = client[s]
NamesAreOwn == \A id \in SteamId : bySteamId[id] # None => bySteamId[id].steamId = id
HumansAreOne ==
  \A s, t \in Slot :
    client[s] # None /\ client[t] # None /\ client[s].steamId = client[t].steamId =>
      s = t \/ client[s].steamId = Bot

IndexInv == Types /\ SlotsAreOwn /\ KnownAreThere /\ NamesAreOwn /\ HumansAreOne /\ IndexIsExact

\* A player is registered by his own slot, identity and SteamID.
LEMMA RecordOfPlayer ==
  ASSUME NEW s \in Slot, NEW id \in SteamId, NEW obj \in Object
  PROVE  LET p == [id |-> obj, slot |-> s, steamId |-> id] IN
           p \in Player /\ p # None /\ p.slot = s /\ p.steamId = id
BY NoneAssumption DEF Player

LEMMA ConnectKeepsIndex ==
  ASSUME IndexInv, NEW s \in Slot, NEW id \in SteamId, NEW obj \in Object,
         Hook_OnClientConnected(s, id, obj)
  PROVE  SlotsAreOwn' /\ KnownAreThere' /\ NamesAreOwn' /\ HumansAreOne' /\ IndexIsExact'
<1>. DEFINE p == [id |-> obj, slot |-> s, steamId |-> id]
<1>1. p \in Player /\ p # None /\ p.slot = s /\ p.steamId = id
  BY RecordOfPlayer
<1>. HIDE DEF p
<1>2. /\ client' = [client EXCEPT ![s] = p]
      /\ bySlot' = [bySlot EXCEPT ![s] = p]
      /\ bySteamId' = [bySteamId EXCEPT ![id] = p]
      /\ EngineMayConnect(s, id)
  BY <1>1 DEF Hook_OnClientConnected, AddPlayer, p
<1>3. /\ client'[s] = p /\ \A t \in Slot \ {s} : client'[t] = client[t]
      /\ bySlot'[s] = p /\ \A t \in Slot \ {s} : bySlot'[t] = bySlot[t]
      /\ bySteamId'[id] = p /\ \A i \in SteamId \ {id} : bySteamId'[i] = bySteamId[i]
  BY <1>2 DEF IndexInv, Types
<1>4. SlotsAreOwn' /\ KnownAreThere'
  BY <1>1, <1>3 DEF IndexInv, SlotsAreOwn, KnownAreThere
<1>5. NamesAreOwn'
  BY <1>1, <1>3 DEF IndexInv, NamesAreOwn
<1>6. HumansAreOne'
  BY <1>1, <1>2, <1>3 DEF IndexInv, HumansAreOne, EngineMayConnect
<1>7. ASSUME NEW i \in SteamId, bySteamId'[i] # None
      PROVE  bySlot'[bySteamId'[i].slot] = bySteamId'[i]
  <2>1. CASE i = id
    BY <2>1, <1>1, <1>3
  <2>2. CASE i # id
    <3>1. bySteamId'[i] = bySteamId[i] /\ bySteamId[i] \in Player /\ bySteamId[i].slot \in Slot
      BY <2>2, <1>3, <1>7 DEF IndexInv, Types, Player
    <3>2. bySlot[bySteamId[i].slot] = bySteamId[i] /\ bySteamId[i].steamId = i
      BY <3>1, <1>7 DEF IndexInv, IndexIsExact, NamesAreOwn
    <3>3. bySteamId[i].slot # s
      BY <3>1, <3>2, <1>2, <1>7, <2>2 DEF IndexInv, KnownAreThere, EngineMayConnect
    <3>. QED BY <3>1, <3>2, <3>3, <1>3
  <2>. QED BY <2>1, <2>2
<1>8. ASSUME NEW t \in Slot, bySlot'[t] # None
      PROVE  bySlot'[t].steamId = Bot \/ bySteamId'[bySlot'[t].steamId] = bySlot'[t]
  <2>1. CASE t = s
    BY <2>1, <1>1, <1>3
  <2>2. CASE t # s
    <3>1. bySlot'[t] = bySlot[t] /\ bySlot[t] = client[t] /\ bySlot[t].steamId \in SteamId
      BY <2>2, <1>3, <1>8 DEF IndexInv, KnownAreThere, Types, Player
    <3>2. bySlot[t].steamId = Bot \/ bySlot[t].steamId # id
      BY <3>1, <2>2, <1>2, <1>8 DEF EngineMayConnect
    <3>. QED BY <3>1, <3>2, <1>3, <1>8 DEF IndexInv, IndexIsExact
  <2>. QED BY <2>1, <2>2
<1>9. IndexIsExact'
  BY <1>7, <1>8 DEF IndexIsExact
<1>. QED BY <1>4, <1>5, <1>6, <1>9

LEMMA DisconnectKeepsIndex ==
  ASSUME IndexInv, NEW s \in Slot, Hook_ClientDisconnect(s)
  PROVE  SlotsAreOwn' /\ KnownAreThere' /\ NamesAreOwn' /\ HumansAreOne' /\ IndexIsExact'
<1>1. client' = [client EXCEPT ![s] = None]
  BY DEF Hook_ClientDisconnect
<1>2. client'[s] = None /\ \A t \in Slot \ {s} : client'[t] = client[t]
  BY <1>1 DEF IndexInv, Types
<1>3. SlotsAreOwn' /\ HumansAreOne'
  BY <1>2 DEF IndexInv, SlotsAreOwn, HumansAreOne
<1>4. CASE bySlot[s] = None
  <2>1. bySlot' = bySlot /\ bySteamId' = bySteamId
    BY <1>4 DEF Hook_ClientDisconnect, RemovePlayer
  <2>2. KnownAreThere' /\ NamesAreOwn' /\ IndexIsExact'
    BY <2>1, <1>2, <1>4 DEF IndexInv, KnownAreThere, NamesAreOwn, IndexIsExact
  <2>. QED BY <1>3, <2>2
<1>5. CASE bySlot[s] # None
  <2>. DEFINE id == bySlot[s].steamId
  <2>1. id \in SteamId /\ bySlot[s].slot = s
    BY <1>5 DEF IndexInv, Types, Player, KnownAreThere, SlotsAreOwn
  <2>2. /\ bySlot' = [bySlot EXCEPT ![s] = None]
        /\ bySteamId' = [bySteamId EXCEPT ![id] = None]
    BY <1>5 DEF Hook_ClientDisconnect, RemovePlayer
  <2>3. /\ bySlot'[s] = None /\ \A t \in Slot \ {s} : bySlot'[t] = bySlot[t]
        /\ bySteamId'[id] = None /\ \A i \in SteamId \ {id} : bySteamId'[i] = bySteamId[i]
    BY <2>1, <2>2 DEF IndexInv, Types
  <2>. HIDE DEF id
  <2>4. KnownAreThere' /\ NamesAreOwn'
    BY <2>3, <1>2 DEF IndexInv, KnownAreThere, NamesAreOwn
  <2>5. ASSUME NEW i \in SteamId, bySteamId'[i] # None
        PROVE  bySlot'[bySteamId'[i].slot] = bySteamId'[i]
    <3>1. i # id /\ bySteamId'[i] = bySteamId[i] /\ bySteamId[i].slot \in Slot
      BY <2>3, <2>5 DEF IndexInv, Types, Player
    <3>2. bySlot[bySteamId[i].slot] = bySteamId[i] /\ bySteamId[i].steamId = i
      BY <3>1, <2>5 DEF IndexInv, IndexIsExact, NamesAreOwn
    <3>3. bySteamId[i].slot # s
      BY <3>1, <3>2 DEF id
    <3>. QED BY <3>1, <3>2, <3>3, <2>3
  <2>6. ASSUME NEW t \in Slot, bySlot'[t] # None
        PROVE  bySlot'[t].steamId = Bot \/ bySteamId'[bySlot'[t].steamId] = bySlot'[t]
    <3>1. t # s /\ bySlot'[t] = bySlot[t] /\ bySlot[t] = client[t] /\ bySlot[t].steamId \in SteamId
      BY <2>3, <2>6 DEF IndexInv, KnownAreThere, Types, Player
    <3>2. bySlot[t].steamId = Bot \/ bySlot[t].steamId # id
      BY <3>1, <2>6, <1>5 DEF IndexInv, KnownAreThere, HumansAreOne, id
    <3>. QED BY <3>1, <3>2, <2>3, <2>6 DEF IndexInv, IndexIsExact
  <2>7. IndexIsExact'
    BY <2>5, <2>6 DEF IndexIsExact
  <2>. QED BY <1>3, <2>4, <2>7
<1>. QED BY <1>4, <1>5

LEMMA IndexKept == IndexInv /\ [Next]_playerVars => IndexInv'
<1>. SUFFICES ASSUME IndexInv, [Next]_playerVars
              PROVE  IndexInv'
  OBVIOUS
<1>1. Types'
  BY TypesKept DEF IndexInv
<1>2. CASE \E s \in Slot, id \in SteamId, obj \in Object \ Referenced : Hook_OnClientConnected(s, id, obj)
  BY <1>1, <1>2, ConnectKeepsIndex DEF IndexInv
<1>3. CASE \E s \in Slot : Hook_ClientDisconnect(s)
  BY <1>1, <1>3, DisconnectKeepsIndex DEF IndexInv
<1>4. CASE Clear
  BY <1>1, <1>4 DEF Clear, IndexInv, SlotsAreOwn, KnownAreThere, NamesAreOwn, HumansAreOne, IndexIsExact
<1>5. CASE UNCHANGED <<client, bySlot, bySteamId>>
  BY <1>1, <1>5 DEF IndexInv, SlotsAreOwn, KnownAreThere, NamesAreOwn, HumansAreOne, IndexIsExact
<1>. QED
  BY <1>2, <1>3, <1>4, <1>5 DEF Next, BindReset, Unbind, Renew, Store, Enable, Record, playerVars

LEMMA IndexAtFirst == Init => IndexInv
<1>. SUFFICES ASSUME Init PROVE IndexInv
  OBVIOUS
<1>1. Types
  BY TypesAtFirst
<1>2. SlotsAreOwn /\ KnownAreThere /\ NamesAreOwn /\ HumansAreOne /\ IndexIsExact
  BY DEF Init, SlotsAreOwn, KnownAreThere, NamesAreOwn, HumansAreOne, IndexIsExact
<1>. QED BY <1>1, <1>2 DEF IndexInv

\* The index by SteamID never leads to a player who is gone and finds every human,
\* whoever connects, reconnects in place, leaves, and whichever bots share one SteamID.
THEOREM IndexIsExactHolds == PlayersSpec => []IndexIsExact
<1>1. IndexInv => IndexIsExact
  BY DEF IndexInv
<1>. QED BY <1>1, IndexAtFirst, IndexKept, PTL DEF PlayersSpec

(* ---- what a slot keeps -------------------------------------------------------- *)

\* A value in a slot is its client's, but for the slots whose last change the listener
\* missed.
ValuesAreOwn ==
  \A s \in Slot : client[s] # None /\ s \notin missed => data[s] \in {None, client[s]}

\* A ring fills from its first place on: up to the head, and everywhere once it is
\* full, it holds samples, all of them of the slot's client.
Filled(ring, d) ==
  /\ ring.count < d => ring.head = ring.count
  /\ \A i \in 0 .. d - 1 : i < ring.head \/ ring.count = d => ring.samples[i] # None

OwnedBy(ring, d, owner) == \A i \in 0 .. d - 1 : ring.samples[i] \in {None, owner}

RingsAreOwn ==
  \A s \in Slot :
    /\ Filled(rings[s], depth)
    /\ client[s] # None => OwnedBy(rings[s], depth, client[s])

LeakInv == Types /\ ValuesAreOwn /\ RingsAreOwn

LEMMA EmptyRingIsAnyones ==
  ASSUME NEW d \in Nat, NEW owner
  PROVE  Filled(EmptyRing(d), d) /\ OwnedBy(EmptyRing(d), d, owner)
BY DEF Filled, OwnedBy, EmptyRing

LEMMA PushedIsFilled ==
  ASSUME NEW d \in Nat, d > 0, NEW r \in Ring(d), NEW seen \in Player, Filled(r, d)
  PROVE  Filled(Pushed(r, d, seen), d)
<1>. DEFINE q == Pushed(r, d, seen)
<1>1. r.head \in 0 .. d - 1 /\ r.count \in 0 .. d /\ seen # None
  BY NoneAssumption DEF Ring, Player
<1>2. /\ q.head = IF r.head + 1 < d THEN r.head + 1 ELSE 0
      /\ q.count = IF r.count < d THEN r.count + 1 ELSE d
      /\ q.samples = [r.samples EXCEPT ![r.head] = seen]
  BY <1>1, HeadMoves DEF Pushed
<1>3. q.samples[r.head] = seen /\ \A i \in 0 .. d - 1 : i # r.head => q.samples[i] = r.samples[i]
  BY <1>1, <1>2 DEF Ring
<1>. HIDE DEF q
<1>4. q.count < d => q.head = q.count
  BY <1>1, <1>2 DEF Filled
<1>5. ASSUME NEW i \in 0 .. d - 1, i < q.head \/ q.count = d
      PROVE  q.samples[i] # None
  BY <1>1, <1>2, <1>3, <1>5 DEF Filled
<1>. QED BY <1>4, <1>5 DEF Filled, q

LEMMA PushedIsOwned ==
  ASSUME NEW d \in Nat, d > 0, NEW r \in Ring(d), NEW seen \in Player, OwnedBy(r, d, seen)
  PROVE  OwnedBy(Pushed(r, d, seen), d, seen)
BY DEF Ring, OwnedBy, Pushed

\* The feed leaves a slot that did not change as it is and empties one that did.
LEMMA FeedKeepsOthers ==
  ASSUME LeakInv, NEW changed \in SUBSET Slot, FireSlotChange(changed), NEW s \in Slot
  PROVE  /\ Filled(rings'[s], depth)
         /\ data'[s] = None \/ (data'[s] = data[s] /\ (s \in missed => s \in missed'))
         /\ \A owner : OwnedBy(rings[s], depth, owner) => OwnedBy(rings'[s], depth, owner)
         /\ s \in changed => /\ data'[s] = None \/ s \in missed'
                             /\ \A owner : OwnedBy(rings'[s], depth, owner)
<1>1. depth \in Nat
  BY DepthIsNatural DEF LeakInv
<1>2. /\ data'[s] = None \/ (data'[s] = data[s] /\ (s \in missed => s \in missed'))
      /\ s \in changed => data'[s] = None \/ s \in missed'
  <2>1. CASE bound
    BY <2>1 DEF FireSlotChange, Reset, LeakInv, Types
  <2>2. CASE ~bound
    BY <2>2 DEF FireSlotChange, Reset, LeakInv, Types
  <2>. QED BY <2>1, <2>2
<1>3. rings'[s] = IF depth > 0 /\ s \in changed THEN EmptyRing(depth) ELSE rings[s]
  BY DEF FireSlotChange
<1>5. CASE depth > 0 /\ s \in changed
  BY <1>1, <1>2, <1>3, <1>5, EmptyRingIsAnyones
<1>6. CASE s \notin changed
  BY <1>2, <1>3, <1>6 DEF LeakInv, RingsAreOwn
<1>7. CASE depth = 0
  BY <1>2, <1>3, <1>7 DEF LeakInv, RingsAreOwn, OwnedBy
<1>. QED BY <1>1, <1>5, <1>6, <1>7

LEMMA ConnectLeaksNothing ==
  ASSUME LeakInv, NEW s \in Slot, NEW id \in SteamId, NEW obj \in Object,
         Hook_OnClientConnected(s, id, obj)
  PROVE  ValuesAreOwn' /\ RingsAreOwn'
<1>1. FireSlotChange({s}) /\ depth' = depth /\ bound' = bound
  BY DEF Hook_OnClientConnected, AddPlayer
<1>2. \A t \in Slot \ {s} : client'[t] = client[t]
  BY DEF Hook_OnClientConnected, LeakInv, Types
<1>3. ValuesAreOwn'
  BY <1>1, <1>2, FeedKeepsOthers DEF LeakInv, ValuesAreOwn
<1>4. RingsAreOwn'
  BY <1>1, <1>2, FeedKeepsOthers DEF LeakInv, RingsAreOwn
<1>. QED BY <1>3, <1>4

LEMMA DisconnectLeaksNothing ==
  ASSUME LeakInv, NEW s \in Slot, Hook_ClientDisconnect(s)
  PROVE  ValuesAreOwn' /\ RingsAreOwn'
<1>1. depth' = depth /\ bound' = bound
  BY DEF Hook_ClientDisconnect
<1>2. client'[s] = None /\ \A t \in Slot \ {s} : client'[t] = client[t]
  BY DEF Hook_ClientDisconnect, LeakInv, Types
<1>3. CASE bySlot[s] # None
  <2>1. FireSlotChange({s})
    BY <1>3 DEF Hook_ClientDisconnect, RemovePlayer
  <2>2. ValuesAreOwn'
    BY <2>1, <1>1, <1>2, FeedKeepsOthers DEF LeakInv, ValuesAreOwn
  <2>3. RingsAreOwn'
    BY <2>1, <1>1, <1>2, FeedKeepsOthers DEF LeakInv, RingsAreOwn
  <2>. QED BY <2>2, <2>3
<1>4. CASE bySlot[s] = None
  <2>1. data' = data /\ missed' = missed /\ rings' = rings
    BY <1>4 DEF Hook_ClientDisconnect, RemovePlayer, valueVars
  <2>. QED BY <2>1, <1>1, <1>2 DEF LeakInv, ValuesAreOwn, RingsAreOwn
<1>. QED BY <1>3, <1>4

LEMMA LeakKept == LeakInv /\ [Next]_playerVars => LeakInv'
<1>. SUFFICES ASSUME LeakInv, [Next]_playerVars
              PROVE  ValuesAreOwn' /\ RingsAreOwn'
  BY TypesKept DEF LeakInv
<1>0. depth \in Nat
  BY DepthIsNatural DEF LeakInv
<1>1. CASE \E s \in Slot, id \in SteamId, obj \in Object \ Referenced : Hook_OnClientConnected(s, id, obj)
  BY <1>1, ConnectLeaksNothing
<1>2. CASE \E s \in Slot : Hook_ClientDisconnect(s)
  BY <1>2, DisconnectLeaksNothing
<1>3. CASE Clear
  <2>1. PICK changed \in SUBSET Slot : FireSlotChange(changed)
    BY <1>3 DEF Clear
  <2>2. client' = client /\ bound' = bound /\ depth' = depth
    BY <1>3 DEF Clear
  <2>3. ValuesAreOwn'
    BY <2>1, <2>2, FeedKeepsOthers DEF LeakInv, ValuesAreOwn
  <2>4. RingsAreOwn'
    BY <2>1, <2>2, FeedKeepsOthers DEF LeakInv, RingsAreOwn
  <2>. QED BY <2>3, <2>4
<1>4. CASE BindReset \/ Unbind
  BY <1>4 DEF BindReset, Unbind, valueVars, LeakInv, ValuesAreOwn, RingsAreOwn
<1>9. CASE Renew
  <2>1. RingsAreOwn'
    BY <1>9 DEF Renew, LeakInv, RingsAreOwn
  <2>2. ValuesAreOwn'
    BY <1>9 DEF Renew, ValuesAreOwn
  <2>. QED BY <2>1, <2>2
<1>5. CASE \E s \in Slot : Store(s)
  <2>1. RingsAreOwn'
    BY <1>5 DEF Store, LeakInv, RingsAreOwn
  <2>2. ValuesAreOwn'
    BY <1>5 DEF Store, LeakInv, Types, ValuesAreOwn
  <2>. QED BY <2>1, <2>2
<1>6. CASE \E d \in Depths : Enable(d)
  <2>1. PICK d \in Depths : Enable(d)
    BY <1>6
  <2>2. ValuesAreOwn'
    BY <2>1 DEF Enable, valueVars, LeakInv, ValuesAreOwn
  <2>3. CASE d > depth
    <3>1. client' = client /\ depth' = d /\ d \in Nat /\ \A s \in Slot : rings'[s] = EmptyRing(d)
      BY <2>1, <2>3, DepthsAssumption DEF Enable, Grown
    <3>2. \A s \in Slot : Filled(rings'[s], d) /\ OwnedBy(rings'[s], d, client[s])
      BY <3>1, EmptyRingIsAnyones
    <3>. QED BY <2>2, <3>1, <3>2 DEF RingsAreOwn
  <2>4. CASE ~(d > depth)
    BY <2>1, <2>2, <2>4 DEF Enable, Grown, LeakInv, RingsAreOwn
  <2>. QED BY <2>3, <2>4
<1>7. CASE \E s \in Slot : client[s] # None /\ Record(s, client[s])
  <2>1. PICK s \in Slot : client[s] # None /\ Record(s, client[s])
    BY <1>7
  <2>2. /\ depth > 0 /\ client[s] \in Player /\ rings[s] \in Ring(depth)
        /\ client' = client /\ data' = data /\ missed' = missed /\ depth' = depth
    BY <2>1 DEF Record, valueVars, LeakInv, Types
  <2>3. /\ rings'[s] = Pushed(rings[s], depth, client[s])
        /\ \A t \in Slot \ {s} : rings'[t] = rings[t]
    BY <1>0, <2>1, <2>2 DEF Record, Recorded, LeakInv, Types
  <2>4. Filled(rings'[s], depth) /\ OwnedBy(rings'[s], depth, client[s])
    BY <1>0, <2>1, <2>2, <2>3, PushedIsFilled, PushedIsOwned DEF LeakInv, RingsAreOwn
  <2>5. RingsAreOwn'
    BY <2>2, <2>3, <2>4 DEF LeakInv, RingsAreOwn
  <2>6. ValuesAreOwn'
    BY <2>2 DEF LeakInv, ValuesAreOwn
  <2>. QED BY <2>5, <2>6
<1>8. CASE UNCHANGED playerVars
  BY <1>8 DEF playerVars, valueVars, LeakInv, ValuesAreOwn, RingsAreOwn
<1>. QED BY <1>1, <1>2, <1>3, <1>4, <1>5, <1>6, <1>7, <1>8, <1>9 DEF Next

LEMMA LeakAtFirst == Init => LeakInv
<1>. SUFFICES ASSUME Init PROVE ValuesAreOwn /\ RingsAreOwn
  BY TypesAtFirst DEF LeakInv
<1>1. ValuesAreOwn
  BY DEF Init, ValuesAreOwn
<1>2. RingsAreOwn
  BY EmptyRingIsAnyones DEF Init, RingsAreOwn
<1>. QED BY <1>1, <1>2

\* The samples a reader gets by their age are the written ones.
LEMMA ReadersFindTheirOwn ==
  ASSUME LeakInv, NEW s \in Slot, client[s] # None, NEW ago \in 0 .. rings[s].count - 1
  PROVE  At(s, ago) = client[s]
<1>. DEFINE r == rings[s]
            place == (r.head - 1 - ago + 2 * depth) % depth
<1>1. depth \in Nat /\ r \in Ring(depth)
  BY DepthIsNatural DEF LeakInv, Types
<1>2. r.count \in 0 .. depth /\ depth > 0 /\ r.head \in 0 .. depth - 1 /\ ago \in Nat /\ ago < r.count
  BY <1>1 DEF Ring
<1>3. Filled(r, depth) /\ OwnedBy(r, depth, client[s])
  BY DEF LeakInv, RingsAreOwn
<1>. HIDE DEF r
<1>4. place \in 0 .. depth - 1
  BY <1>1, <1>2, RemainderInRange
<1>5. CASE r.count = depth
  BY <1>3, <1>4, <1>5 DEF Filled, OwnedBy, At, r
<1>6. CASE r.count < depth
  <2>1. r.head = r.count /\ r.head - 1 - ago \in Nat /\ r.head - 1 - ago < depth
    BY <1>1, <1>2, <1>3, <1>6 DEF Filled
  <2>2. place = r.head - 1 - ago
    BY <1>1, <2>1, TwoTurns
  <2>3. place < r.head
    BY <1>2, <2>1, <2>2
  <2>. QED BY <1>3, <1>4, <2>3 DEF Filled, OwnedBy, At, r
<1>. QED BY <1>1, <1>2, <1>5, <1>6

\* Whoever is in a slot finds there only his own commands, for any history depth,
\* whenever it grows, and for clients of before a late load; and only his own values,
\* however often the PerSlot binds and unbinds, but where it missed the last change.
THEOREM NothingLeaksToTheNextHolds == PlayersSpec => []NothingLeaksToTheNext
<1>1. LeakInv => NothingLeaksToTheNext
  BY ReadersFindTheirOwn DEF NothingLeaksToTheNext, LeakInv, ValuesAreOwn
<1>. QED BY <1>1, LeakAtFirst, LeakKept, PTL DEF PlayersSpec

(* ---- the registry among the services ----------------------------------------- *)

\* A command that runs is recorded in the ring of the player who sent it, or nowhere.
LEMMA CommandIsRecorded ==
  ASSUME IndexInv, PreVerbs = {}, NEW s \in Slot, client[s] # None, NEW readable \in BOOLEAN,
         Hook_RunCommandPre(client[s], readable)
  PROVE  [Next]_playerVars
<1>1. client[s].slot = s
  BY DEF IndexInv, SlotsAreOwn
<1>2. PICK t \in {s, NoSlot} : rings' = Recorded(rings, depth, t, view') /\ depth' = depth
  <2>1. DepthsAfterPre = {depth} /\ Grown(depth) = rings
    BY DepthIsNatural DEF DepthsAfterPre, Grown, IndexInv
  <2>. QED BY <1>1, <2>1 DEF Hook_RunCommandPre, SlotsFromMovementServices
<1>3. UNCHANGED <<client, bySlot, bySteamId, bound, valueVars>>
  BY DEF Hook_RunCommandPre
<1>4. CASE depth = 0 \/ t \notin Slot \/ view' = None
  BY <1>2, <1>3, <1>4 DEF Recorded, playerVars
<1>5. CASE depth # 0 /\ t \in Slot /\ view' # None
  <2>1. depth > 0 /\ t = s
    BY <1>2, <1>5, SlotAssumption, DepthsAssumption DEF IndexInv, Types, NoSlot
  <2>2. view' = client[s]
    BY <1>5, <2>1 DEF Hook_RunCommandPre, Listening, DecodeUserCmd
  <2>. QED BY <1>2, <1>3, <2>1, <2>2 DEF Next, Record
<1>. QED BY <1>4, <1>5

\* No service touches the registry but as one of its own operations.
LEMMA StepsAreRegistrySteps ==
  ASSUME IndexInv, PreVerbs = {}, [ServerNext]_serverVars
  PROVE  [Next]_playerVars
<1>1. CASE RosterStep
  <2>1. ASSUME NEW s \in Slot, NEW id \in SteamId, Connect(s, id)
        PROVE  Next
    <3>1. PICK obj \in Home[s] : obj \notin Referenced
      BY <2>1 DEF Connect
    <3>2. FreshObject(s) \in Home[s] \ Referenced
      BY <3>1 DEF FreshObject
    <3>3. Home[s] \subseteq Object
      BY HomeAssumption
    <3>. QED BY <2>1, <3>2, <3>3 DEF Connect, Next
  <2>2. ASSUME NEW s \in Slot, Disconnect(s)
        PROVE  Next
    BY <2>2 DEF Disconnect, Next
  <2>. QED BY <1>1, <2>1, <2>2 DEF RosterStep
<1>2. CASE StateStep
  <2>1. CASE BindReset \/ Unbind \/ Renew \/ Clear \/ (\E s \in Slot : Store(s)) \/ (\E d \in Depths : Enable(d))
    BY <2>1 DEF Next
  <2>2. CASE Install \/ RemoveHook \/ Listen \/ Hook_RunCommandPost
    BY <2>2 DEF Install, RemoveHook, Listen, Hook_RunCommandPost
  <2>3. CASE \E s \in Slot, readable \in BOOLEAN :
               client[s] # None /\ Hook_RunCommandPre(client[s], readable)
    BY <2>3, CommandIsRecorded
  <2>. QED BY <1>2, <2>1, <2>2, <2>3 DEF StateStep, MovementNext
<1>3. CASE CommandStep \/ TimerStep \/ UNCHANGED serverVars
  BY <1>3 DEF CommandStep, TimerStep, serverVars
<1>. QED BY <1>1, <1>2, <1>3 DEF ServerNext

LEMMA IndexInvOfServer ==
  ASSUME PreVerbs = {}
  PROVE  ServerSpec => []IndexInv
<1>1. ServerInit => IndexInv
  BY IndexAtFirst DEF ServerInit
<1>2. IndexInv /\ [ServerNext]_serverVars => IndexInv'
  BY StepsAreRegistrySteps, IndexKept
<1>. QED BY <1>1, <1>2, PTL DEF ServerSpec

\* Whatever commands, actions, movement and timers do on the roster, the registry behaves
\* as Players says it does by itself, if no listener enables the history in a dispatch.
THEOREM ServerImplementsPlayers ==
  ASSUME PreVerbs = {}
  PROVE  ServerSpec => PlayersSpec
<1>1. ServerInit => Init
  BY DEF ServerInit
<1>2. IndexInv /\ [ServerNext]_serverVars => [Next]_playerVars
  BY StepsAreRegistrySteps
<1>. QED BY <1>1, <1>2, IndexInvOfServer, PTL DEF ServerSpec, PlayersSpec

\* Among all the services, the index by SteamID leads to nobody who is gone.
THEOREM ServerIndexIsExact ==
  ASSUME PreVerbs = {}
  PROVE  ServerSpec => []IndexIsExact
BY ServerImplementsPlayers, IndexIsExactHolds, PTL

\* Among all the services, nothing of one player is found by the next in his slot.
THEOREM ServerLeaksNothing ==
  ASSUME PreVerbs = {}
  PROVE  ServerSpec => []NothingLeaksToTheNext
BY ServerImplementsPlayers, NothingLeaksToTheNextHolds, PTL

(* ---- what comes back through a timer ------------------------------------------ *)

PawnTypes ==
  /\ god \in [Slot -> BOOLEAN]
  /\ granted \in [Slot -> BOOLEAN]
  /\ clears \in [Slot -> Nat]
  /\ DOMAIN client = Slot

\* A delayed clear that finds its slot empty finds no protection either, and while a grant stands
\* none is on its way: a slap makes none for a pawn in godmode.
PawnInv ==
  /\ PawnTypes
  /\ \A s \in Slot : client[s] = None => ~god[s]
  /\ \A s \in Slot : granted[s] => god[s] /\ clears[s] = 0
  /\ ProtectionIsLent

LEMMA PawnReplacedKeeps ==
  ASSUME PawnInv, NEW s \in Slot, PawnReplaced(s), DOMAIN client' = Slot,
         \A t \in Slot \ {s} : client'[t] = client[t]
  PROVE  PawnInv'
<1>1. PawnTypes' /\ ~god'[s] /\ ~granted'[s]
  BY DEF PawnInv, PawnTypes, PawnReplaced
<1>2. \A t \in Slot \ {s} : god'[t] = god[t] /\ granted'[t] = granted[t] /\ clears'[t] = clears[t]
  BY DEF PawnInv, PawnTypes, PawnReplaced
<1>. QED BY <1>1, <1>2 DEF PawnInv, ProtectionIsLent

LEMMA TimersKeepPawns ==
  ASSUME PawnInv, NEW s \in Slot, UNCHANGED client,
         (\E enable \in BOOLEAN : SetGodmode(s, enable)) \/ Slap(s) \/ FallProtectionEnds(s)
  PROVE  PawnInv'
<1>1. PawnTypes'
  <2>1. CASE \E enable \in BOOLEAN : SetGodmode(s, enable)
    BY <2>1 DEF PawnInv, PawnTypes, SetGodmode
  <2>2. CASE Slap(s)
    <3>1. CASE god[s]
      BY <2>2, <3>1 DEF PawnInv, PawnTypes, Slap, pawnVars
    <3>2. CASE ~god[s]
      <4>1. clears[s] + 1 \in Nat
        BY DEF PawnInv, PawnTypes
      <4>. QED BY <2>2, <3>2, <4>1 DEF PawnInv, PawnTypes, Slap
    <3>. QED BY <3>1, <3>2
  <2>3. CASE FallProtectionEnds(s)
    <3>1. clears[s] - 1 \in Nat
      BY <2>3 DEF PawnInv, PawnTypes, FallProtectionEnds
    <3>. QED BY <2>3, <3>1 DEF PawnInv, PawnTypes, FallProtectionEnds
  <2>. QED BY <2>1, <2>2, <2>3
<1>2. ASSUME NEW t \in Slot, t # s
      PROVE  god'[t] = god[t] /\ granted'[t] = granted[t] /\ clears'[t] = clears[t]
  BY <1>2 DEF PawnInv, PawnTypes, SetGodmode, Slap, FallProtectionEnds, pawnVars
<1>3. /\ client[s] = None => ~god'[s]
      /\ granted'[s] => god'[s] /\ clears'[s] = 0
      /\ god'[s] /\ ~granted'[s] => clears'[s] > 0
  <2>1. CASE \E enable \in BOOLEAN : SetGodmode(s, enable)
    <3>1. PICK enable \in BOOLEAN : SetGodmode(s, enable)
      BY <2>1
    <3>2. /\ client[s] # None /\ god'[s] = enable /\ clears'[s] = clears[s]
          /\ granted'[s] = (enable /\ clears[s] = 0)
      BY <3>1 DEF PawnInv, PawnTypes, SetGodmode
    <3>3. CASE clears[s] = 0
      <4>1. clears'[s] = 0 /\ granted'[s] = enable
        BY <3>2, <3>3
      <4>. QED BY <3>2, <4>1
    <3>4. CASE clears[s] # 0
      <4>1. clears'[s] > 0
        BY <3>2, <3>4, clears[s] \in Nat DEF PawnInv, PawnTypes
      <4>2. ~granted'[s]
        BY <3>2, <3>4
      <4>. QED BY <3>2, <4>1, <4>2
    <3>. QED BY <3>3, <3>4
  <2>2. CASE Slap(s) /\ ~god[s]
    BY <2>2 DEF PawnInv, PawnTypes, Slap
  <2>3. CASE Slap(s) /\ god[s]
    BY <2>3 DEF PawnInv, ProtectionIsLent, Slap, pawnVars
  <2>4. CASE FallProtectionEnds(s)
    <3>1. ~god'[s]
      BY <2>4 DEF PawnInv, PawnTypes, FallProtectionEnds
    <3>2. ~granted'[s]
      BY <2>4 DEF PawnInv, PawnTypes, FallProtectionEnds
    <3>. QED BY <3>1, <3>2
  <2>. QED BY <2>1, <2>2, <2>3, <2>4
<1>. QED BY <1>1, <1>2, <1>3 DEF PawnInv, ProtectionIsLent

\* A toggle is a SetGodmode.
LEMMA ToggleSets ==
  ASSUME PawnInv, NEW s \in Slot, ToggleGodmode(s)
  PROVE  \E enable \in BOOLEAN : SetGodmode(s, enable)
<1>1. (~god[s]) \in BOOLEAN
  OBVIOUS
<1>. QED BY <1>1 DEF ToggleGodmode

LEMMA PawnKept ==
  ASSUME PawnInv, [ServerNext]_serverVars
  PROVE  PawnInv'
<1>1. CASE RosterStep
  <2>1. ASSUME NEW s \in Slot, PawnReplaced(s),
               \/ Hook_ClientDisconnect(s)
               \/ \E id \in SteamId, obj \in Object : Hook_OnClientConnected(s, id, obj)
        PROVE  PawnInv'
    <3>1. DOMAIN client' = Slot /\ \A t \in Slot \ {s} : client'[t] = client[t]
      BY <2>1 DEF Hook_ClientDisconnect, Hook_OnClientConnected, PawnInv, PawnTypes
    <3>. QED BY <2>1, <3>1, PawnReplacedKeeps
  <2>2. ASSUME NEW s \in Slot, NEW id \in SteamId, Connect(s, id)
        PROVE  FreshObject(s) \in Object
    BY <2>2, HomeAssumption DEF Connect, FreshObject
  <2>. QED BY <1>1, <2>1, <2>2 DEF RosterStep, Connect, Disconnect
<1>2. CASE TimerStep
  <2>1. UNCHANGED client
    BY <1>2 DEF TimerStep, playerVars
  <2>2. ASSUME NEW s \in Slot,
               (\E enable \in BOOLEAN : SetGodmode(s, enable)) \/ ToggleGodmode(s) \/ Slap(s) \/ FallProtectionEnds(s)
        PROVE  PawnInv'
    BY <2>1, <2>2, ToggleSets, TimersKeepPawns
  <2>3. CASE UNCHANGED pawnVars
    BY <2>1, <2>3 DEF pawnVars, PawnInv, PawnTypes, ProtectionIsLent
  <2>. QED BY <1>2, <2>2, <2>3 DEF TimerStep, SlotTimersNext
<1>3. CASE StateStep
  <2>1. UNCHANGED client
    BY <1>3 DEF StateStep, MovementNext, BindReset, Unbind, Renew, Clear, Store, Enable, Install,
                RemoveHook, Listen, Hook_RunCommandPre, Hook_RunCommandPost, playerVars
  <2>. QED BY <1>3, <2>1 DEF StateStep, slotTimerVars, PawnInv, PawnTypes, ProtectionIsLent
<1>4. CASE CommandStep \/ UNCHANGED serverVars
  BY <1>4 DEF CommandStep, serverVars, slotTimerVars, playerVars, PawnInv, PawnTypes, ProtectionIsLent
<1>. QED BY <1>1, <1>2, <1>3, <1>4 DEF ServerNext

\* What a slap lends is always due back, whoever reconnects before the timer fires.
THEOREM ProtectionIsLentHolds == ServerSpec => []ProtectionIsLent
<1>1. ServerInit => PawnInv
  BY DEF ServerInit, Init, SlotTimersInit, PawnInv, PawnTypes, ProtectionIsLent
<1>2. PawnInv /\ [ServerNext]_serverVars => PawnInv'
  BY PawnKept
<1>3. PawnInv => ProtectionIsLent
  BY DEF PawnInv
<1>. QED BY <1>1, <1>2, <1>3, PTL DEF ServerSpec

\* A slap takes back only what it lent: godmode that was granted while no clear was on its way
\* stands until somebody takes it back, whatever slaps follow.
THEOREM GrantsStandHolds == ServerSpec => []GrantsStand
<1>1. ServerInit => PawnInv
  BY DEF ServerInit, Init, SlotTimersInit, PawnInv, PawnTypes, ProtectionIsLent
<1>2. PawnInv /\ [ServerNext]_serverVars => PawnInv'
  BY PawnKept
<1>3. PawnInv => GrantsStand
  BY DEF PawnInv, GrantsStand
<1>. QED BY <1>1, <1>2, <1>3, PTL DEF ServerSpec

PanelInv ==
  /\ handle \in [Slot -> Panel \cup {None}]
  /\ alive \in [Slot -> SUBSET Panel]
  /\ shown \in [Slot -> BOOLEAN]
  /\ StopEndsThePanel

\* What a slot's screen may be between two calls.
Screens == [handle : Panel \cup {None}, alive : SUBSET Panel, shown : BOOLEAN]

Sound(screen) == screen \in Screens /\ screen.alive = {screen.handle} \ {None}

LEMMA ScreensAreSound ==
  ASSUME PanelInv, NEW s \in Slot
  PROVE  Sound(Screen(s))
BY DEF PanelInv, StopEndsThePanel, Screen, Sound, Screens

LEMMA SetScreenKeeps ==
  ASSUME PanelInv, NEW s \in Slot, NEW screen, Sound(screen), SetScreen(s, screen)
  PROVE  PanelInv'
BY DEF PanelInv, StopEndsThePanel, SetScreen, Sound, Screens

\* Stop on a sound screen leaves no timer.
LEMMA StoppedIsSound ==
  ASSUME NEW screen, Sound(screen)
  PROVE  /\ Sound(Stopped(screen))
         /\ Stopped(screen).handle = None
<1>1. CASE screen.handle = None
  BY <1>1 DEF Stopped
<1>2. CASE screen.handle # None
  BY <1>2 DEF Stopped, Sound, Screens
<1>. QED BY <1>1, <1>2

\* A render callback that at most stops its panel leaves a sound screen, and a stopped one stopped.
LEMMA SentIsSound ==
  ASSUME NEW screen, Sound(screen), NEW verb \in {"none", "stop"}, NEW t
  PROVE  /\ Sound(Sent(screen, verb, t))
         /\ screen.handle = None => Sent(screen, verb, t).handle = None
<1>1. ASSUME NEW after, Sound(after)
      PROVE  Sound([after EXCEPT !.shown = TRUE]) /\ [after EXCEPT !.shown = TRUE].handle = after.handle
  BY <1>1 DEF Sound, Screens
<1>2. CASE verb = "stop"
  <2>1. Sent(screen, verb, t) = [Stopped(screen) EXCEPT !.shown = TRUE]
    BY <1>2 DEF Sent
  <2>. QED BY <1>1, <2>1, StoppedIsSound
<1>3. CASE verb = "none"
  <2>1. Sent(screen, verb, t) = [screen EXCEPT !.shown = TRUE]
    BY <1>3 DEF Sent
  <2>. QED BY <1>1, <2>1
<1>. QED BY <1>2, <1>3

LEMMA PanelsKept ==
  ASSUME None \notin Panel, RenderVerbs \subseteq {"stop"}, PanelInv, [ServerNext]_serverVars
  PROVE  PanelInv'
<1>1. ASSUME UNCHANGED panelVars
      PROVE  PanelInv'
  BY <1>1 DEF panelVars, PanelInv, StopEndsThePanel
<1>2. ASSUME NEW s \in Slot, NEW verb \in RenderVerbs \cup {"none"}, NEW t \in Panel, NEW u \in Panel,
             Show(s, verb, t, u)
      PROVE  PanelInv'
  <2>1. Sound(Stopped(Screen(s))) /\ Stopped(Screen(s)).handle = None
    BY ScreensAreSound, StoppedIsSound
  <2>2. verb \in {"none", "stop"}
    OBVIOUS
  <2>. DEFINE sent == Sent(Stopped(Screen(s)), verb, u)
  <2>3. Sound(sent) /\ sent.handle = None
    BY <2>1, <2>2, SentIsSound
  <2>. HIDE DEF sent
  <2>4. Sound(Started(sent, t))
    BY <2>3 DEF Started, Sound, Screens
  <2>5. SetScreen(s, Started(sent, t))
    BY <1>2 DEF Show, sent
  <2>. QED BY <2>4, <2>5, SetScreenKeeps
<1>3. ASSUME NEW s \in Slot, NEW verb \in RenderVerbs \cup {"none"}, NEW u \in Panel, Refresh(s, verb, u)
      PROVE  PanelInv'
  <2>1. verb \in {"none", "stop"}
    OBVIOUS
  <2>2. Sound(Sent(Screen(s), verb, u))
    BY <2>1, ScreensAreSound, SentIsSound
  <2>. QED BY <1>3, <2>2, SetScreenKeeps DEF Refresh
<1>4. ASSUME NEW s \in Slot, Stop(s)
      PROVE  PanelInv'
  BY <1>4, ScreensAreSound, StoppedIsSound, SetScreenKeeps DEF Stop
<1>5. ASSUME StopAll
      PROVE  PanelInv'
  BY <1>5 DEF StopAll, PanelInv, StopEndsThePanel
<1>6. CASE TimerStep
  BY <1>1, <1>2, <1>3, <1>4, <1>5, <1>6 DEF TimerStep, SlotTimersNext
<1>7. CASE RosterStep \/ StateStep \/ CommandStep \/ UNCHANGED serverVars
  BY <1>1, <1>7 DEF RosterStep, StateStep, CommandStep, serverVars, slotTimerVars, panelVars
<1>. QED BY <1>6, <1>7 DEF ServerNext

\* If a render callback shows no panel itself, a slap's protection is taken back by a clear on
\* the way, which takes nothing granted before, and a refresh is stopped by the slot's handle,
\* whoever comes and goes in the slot.
THEOREM DelayedActsAreAccountedHolds ==
  ASSUME None \notin Panel, RenderVerbs \subseteq {"stop"}
  PROVE  ServerSpec => []DelayedActsAreAccounted
<1>1. ServerInit => PanelInv
  BY DEF ServerInit, SlotTimersInit, PanelInv, StopEndsThePanel
<1>2. PanelInv /\ [ServerNext]_serverVars => PanelInv'
  BY PanelsKept
<1>3. PanelInv => StopEndsThePanel
  BY DEF PanelInv
<1>. QED BY <1>1, <1>2, <1>3, ProtectionIsLentHolds, GrantsStandHolds, PTL DEF ServerSpec, DelayedActsAreAccounted

(* ---- what is done to players, from chat and from menus -------------------------- *)

\* Counting up from 0 reaches every number.
LEMMA CountedUp ==
  ASSUME NEW G, 0 \in G, \A n \in Nat : n \in G => n + 1 \in G
  PROVE  Nat \subseteq G
<1>. DEFINE Bad == Nat \ G
            Below == {p \in Nat \X Nat : p[1] < p[2]}
<1>. SUFFICES ASSUME Bad # {} PROVE FALSE
  OBVIOUS
<1>1. IsWellFoundedOn(OpToRel(<, Nat), Nat)
  BY NatLessThanWellFounded, Zenon
<1>2. Below = OpToRel(<, Nat)
  BY Zenon DEF OpToRel
<1>3. IsWellFoundedOn(Below, Nat)
  BY <1>1, <1>2, Zenon
<1>4. PICK m \in Bad : \A n \in Bad : <<n, m>> \notin Below
  BY <1>3, WFMin
<1>5. m # 0 /\ m - 1 \in Nat /\ <<m - 1, m>> \in Below
  OBVIOUS
<1>6. m - 1 \in G
  BY <1>4, <1>5
<1>. QED BY <1>5, <1>6

\* The contexts before the first argument, and those that one argument makes of these.
Beginning == {Context(1)}
OneMore(cs, spec, args, caller) == UNION {ResolveArg(c, spec, args, caller) : c \in cs}

\* ResolveArgs takes the arguments of a command in their order.
LEMMA ArgsInOrder ==
  ASSUME NEW cmd, NEW args, NEW caller, Len(cmd.args) \in Nat
  PROVE  \E after :
           /\ ResolveArgs(cmd, args, caller) = after[Len(cmd.args)]
           /\ after[0] = Beginning
           /\ \A n \in 1 .. Len(cmd.args) :
                after[n] = OneMore(after[n - 1], cmd.args[n], args, caller)
<1>. DEFINE Take(S, n) == OneMore(S, cmd.args[n], args, caller)
            Is(f, n) == f = [m \in 0 .. n |-> IF m = 0 THEN Beginning ELSE Take(f[m - 1], m)]
            last == Len(cmd.args)
            after == CHOOSE f : Is(f, last)
            G == {n \in Nat : \E f : Is(f, n)}
<1>1. ResolveArgs(cmd, args, caller) = after[last]
  BY DEF ResolveArgs, OneMore, Beginning
<1>. HIDE DEF Take
<1>2. 0 \in G
  <2>1. Is([m \in 0 .. 0 |-> Beginning], 0)
    OBVIOUS
  <2>. QED BY <2>1
<1>3. ASSUME NEW n \in Nat, NEW f, Is(f, n)
      PROVE  \E g : Is(g, n + 1)
  <2>. DEFINE g == [m \in 0 .. n + 1 |-> IF m = n + 1 THEN Take(f[n], m) ELSE f[m]]
  <2>1. \A m \in 0 .. n : f[m] = IF m = 0 THEN Beginning ELSE Take(f[m - 1], m)
    BY <1>3
  <2>2. \A m \in 0 .. n + 1 : m # n + 1 => m \in 0 .. n /\ (m # 0 => m - 1 \in 0 .. n)
    OBVIOUS
  <2>3. \A m \in 0 .. n : g[m] = f[m]
    OBVIOUS
  <2>4. \A m \in 0 .. n + 1 : g[m] = IF m = 0 THEN Beginning ELSE Take(g[m - 1], m)
    <3>. TAKE m \in 0 .. n + 1
    <3>1. CASE m = n + 1
      BY <3>1, <2>3
    <3>2. CASE m # n + 1
      BY <3>2, <2>1, <2>2, <2>3
    <3>. QED BY <3>1, <3>2
  <2>5. g = [m \in 0 .. n + 1 |-> g[m]]
    OBVIOUS
  <2>. HIDE DEF g
  <2>6. Is(g, n + 1)
    BY <2>4, <2>5
  <2>. QED BY <2>6
<1>4. Nat \subseteq G
  <2>. HIDE DEF Is
  <2>1. \A n \in Nat : n \in G => n + 1 \in G
    BY <1>3
  <2>. HIDE DEF G
  <2>. QED BY <1>2, <2>1, CountedUp
<1>5. Is(after, last)
  <2>1. \E f : Is(f, last)
    BY <1>4
  <2>. HIDE DEF Is
  <2>. QED BY <2>1
<1>. HIDE DEF after
<1>6. /\ after[0] = Beginning
      /\ \A n \in 1 .. last : after[n] = Take(after[n - 1], n)
  <2>1. last \in Nat /\ \A n \in 0 .. last : after[n] = IF n = 0 THEN Beginning ELSE Take(after[n - 1], n)
    BY <1>5
  <2>2. 0 \in 0 .. last /\ \A n \in 1 .. last : n \in 0 .. last /\ n # 0
    BY <2>1
  <2>. QED BY <2>1, <2>2
<1>. QED BY <1>1, <1>6 DEF Take

\* Whoever a selector or a name stands for is on the roster.
LEMMA CandidatesAreThere ==
  ASSUME NEW views, NEW query, NEW slot
  PROVE  Candidates(views, query, slot) \subseteq views
<1>1. NameTier(views, query.needle) \subseteq views
  BY DEF NameTier
<1>. QED BY <1>1, Zenon DEF Candidates

\* A resolved target is somebody, and everybody in it may be targeted.
LEMMA FilterKeepsTargetable ==
  ASSUME NEW views, NEW query, NEW rules, NEW slot, NEW r \in FilterRoster(views, query, rules, slot),
         r.error = None
  PROVE  /\ r.slots # {}
         /\ \A s \in r.slots : \E v \in views : v.slot = s /\ v.targetable
<1>. DEFINE all == Candidates(views, query, slot)
            bodies == IF rules.allowBots THEN all ELSE {p \in all : ~p.bot}
            living == IF rules.allowDead THEN bodies ELSE {p \in bodies : p.alive}
            open == {p \in living : p.targetable}
            many == Cardinality(open)
<1>1. open \subseteq views /\ \A p \in open : p.targetable
  BY CandidatesAreThere
<1>2. /\ all = {} => bodies = {}
      /\ bodies = {} => living = {}
      /\ living = {} => open = {}
  OBVIOUS
<1>3. \A error, count : Failed(error, count).error = error
  BY DEF Failed
<1>4. \A slots : Resolved(slots).slots = slots
  BY DEF Resolved
<1>5. \/ \E error \in {"NoMatch", "BotNotAllowed", "DeadNotAllowed", "Immune", "Ambiguous", "MultiNotAllowed"} :
           \E count : r = Failed(error, count)
      \/ open # {} /\ \E p \in open : r = Resolved({p.slot})
      \/ open # {} /\ r = Resolved(Slots(open))
  <2>. HIDE DEF open, living, bodies, all
  <2>. QED BY <1>2 DEF FilterRoster, open, living, bodies, all
<1>. HIDE DEF open
<1>6. CASE \E error \in {"NoMatch", "BotNotAllowed", "DeadNotAllowed", "Immune", "Ambiguous", "MultiNotAllowed"} :
           \E count : r = Failed(error, count)
  BY <1>3, <1>6, ErrorsAssumption
<1>7. CASE open # {} /\ \E p \in open : r = Resolved({p.slot})
  <2>1. PICK p \in open : r = Resolved({p.slot})
    BY <1>7
  <2>2. r.slots = {p.slot}
    BY <1>4, <2>1
  <2>. QED BY <1>1, <2>2
<1>8. CASE open # {} /\ r = Resolved(Slots(open))
  <2>1. r.slots = {p.slot : p \in open}
    BY <1>4, <1>8 DEF Slots
  <2>. QED BY <1>1, <1>8, <2>1
<1>. QED BY <1>5, <1>6, <1>7, <1>8

\* What is true of the contexts of a command on the way: whoever one of them names is on the
\* roster, in his slot, and the caller may do it to him.
Fields == {"i", "state", "reply", "target", "targets", "steamId", "seconds", "int", "word", "reason"}
Entitled(caller, s) == s \in Slot /\ bySlot[s] # None /\ CanTarget(caller, bySlot[s])
EntitledContext(c, caller) ==
  /\ c = [f \in Fields |-> c[f]]
  /\ c.target # None => Entitled(caller, c.target)
  /\ \A s \in c.targets : Entitled(caller, s)

\* The manager knows the players by their own slots.
KnownBySlot ==
  \A s \in Slot : bySlot[s] # None => bySlot[s].slot = s /\ bySlot[s].steamId \in SteamId

LEMMA ResolvedAreEntitled ==
  ASSUME KnownBySlot, NEW token, NEW caller, NEW rules, NEW r \in ResolveTargets(token, caller, rules),
         r.error = None
  PROVE  r.slots # {} /\ \A s \in r.slots : Entitled(caller, s)
<1>1. /\ r.slots # {}
      /\ \A s \in r.slots : \E v \in Roster(caller) : v.slot = s /\ v.targetable
  BY FilterKeepsTargetable DEF ResolveTargets
<1>2. ASSUME NEW v \in Roster(caller), v.targetable
      PROVE  Entitled(caller, v.slot)
  <2>1. PICK t \in Slot : bySlot[t] # None /\ v = View(bySlot[t], caller)
    BY DEF Roster, GetAllPlayers
  <2>2. v.slot = t /\ v.targetable = CanTarget(caller, bySlot[t])
    BY <2>1 DEF View, KnownBySlot
  <2>. QED BY <1>2, <2>1, <2>2 DEF Entitled
<1>. QED BY <1>1, <1>2

\* An argument adds to a context only players whom the caller may do it to.
LEMMA ArgumentsKeepEntitled ==
  ASSUME KnownBySlot, NEW c, NEW caller, EntitledContext(c, caller), NEW spec, NEW args,
         NEW d \in ResolveArg(c, spec, args, caller)
  PROVE  EntitledContext(d, caller)
<1>. DEFINE token == args[c.i]
            Kept(e) == e = [f \in Fields |-> e[f]] /\ e.target = c.target /\ e.targets = c.targets
<1>1. c = [f \in Fields |-> c[f]]
  BY DEF EntitledContext
<1>2. ASSUME NEW e, Kept(e)
      PROVE  EntitledContext(e, caller)
  BY <1>2 DEF EntitledContext
<1>3. CASE d \in TargetArg(c, token, caller, spec)
  <2>1. PICK r \in ResolveTargets(token, caller, spec.rules) :
          d = IF r.error # None THEN Fail(c, r.error)
              ELSE [Took(c) EXCEPT !.target = CHOOSE s \in r.slots : TRUE,
                                   !.targets = IF spec.rules.allowMultiple THEN r.slots ELSE {}]
    BY <1>3 DEF TargetArg
  <2>2. CASE r.error # None
    BY <1>1, <1>2, <2>1, <2>2 DEF Fail, Fields
  <2>3. CASE r.error = None
    <3>1. r.slots # {} /\ \A s \in r.slots : Entitled(caller, s)
      BY <2>3, ResolvedAreEntitled
    <3>. DEFINE chosen == CHOOSE s \in r.slots : TRUE
                many == IF spec.rules.allowMultiple THEN r.slots ELSE {}
    <3>2. chosen \in r.slots
      BY <3>1
    <3>3. many \subseteq r.slots
      OBVIOUS
    <3>4. d = [Took(c) EXCEPT !.target = chosen, !.targets = many]
      BY <2>1, <2>3
    <3>. HIDE DEF chosen, many
    <3>5. d = [f \in Fields |-> d[f]] /\ d.target = chosen /\ d.targets = many
      BY <1>1, <3>4 DEF Took, Fields
    <3>. QED BY <3>1, <3>2, <3>3, <3>5 DEF EntitledContext
  <2>. QED BY <2>2, <2>3
<1>4. CASE d \in TargetOrSteamIdArg(c, token, caller)
  <2>1. CASE token.numeric /\ token.number # None
    BY <1>1, <1>2, <1>4, <2>1 DEF TargetOrSteamIdArg, Took, Fields
  <2>2. CASE ~(token.numeric /\ token.number # None)
    <3>1. PICK r \in ResolveTargets(token, caller, AnyRules) :
            d = IF r.error # None THEN Fail(c, r.error)
                ELSE LET s == CHOOSE s \in r.slots : TRUE
                     IN [Took(c) EXCEPT !.target = s, !.steamId = bySlot[s].steamId]
      BY <1>4, <2>2 DEF TargetOrSteamIdArg
    <3>2. CASE r.error # None
      BY <1>1, <1>2, <3>1, <3>2 DEF Fail, Fields
    <3>3. CASE r.error = None
      <4>1. r.slots # {} /\ \A s \in r.slots : Entitled(caller, s)
        BY <3>3, ResolvedAreEntitled
      <4>. DEFINE chosen == CHOOSE s \in r.slots : TRUE
      <4>2. chosen \in r.slots
        BY <4>1
      <4>3. d = [Took(c) EXCEPT !.target = chosen, !.steamId = bySlot[chosen].steamId]
        BY <3>1, <3>3
      <4>. HIDE DEF chosen
      <4>4. d = [f \in Fields |-> d[f]] /\ d.target = chosen /\ d.targets = c.targets
        BY <1>1, <4>3 DEF Took, Fields
      <4>. QED BY <4>1, <4>2, <4>4 DEF EntitledContext
    <3>. QED BY <3>2, <3>3
  <2>. QED BY <2>1, <2>2
<1>5. CASE d \in DurationArg(c, token, spec)
  BY <1>1, <1>2, <1>5 DEF DurationArg, Took, Fail, Fields
<1>6. CASE \/ d = c \/ d = [c EXCEPT !.reason = "fallback"] \/ d = Usage(c)
           \/ d = [Took(c) EXCEPT !.steamId = token.number] \/ d = Fail(c, "badSteamId")
           \/ d = [Took(c) EXCEPT !.int = CastInt(token.number)]
           \/ d = [Took(c) EXCEPT !.word = token]
           \/ d = [c EXCEPT !.i = Len(args) + 1, !.reason = SubSeq(args, c.i, Len(args))]
  <2>1. Kept(d)
    BY <1>1, <1>6 DEF Took, Fail, Usage, Fields
  <2>. QED BY <1>2, <2>1
<1>7. \/ d \in TargetArg(c, token, caller, spec) \/ d \in TargetOrSteamIdArg(c, token, caller)
      \/ d \in DurationArg(c, token, spec)
      \/ d = c \/ d = [c EXCEPT !.reason = "fallback"] \/ d = Usage(c)
      \/ d = [Took(c) EXCEPT !.steamId = token.number] \/ d = Fail(c, "badSteamId")
      \/ d = [Took(c) EXCEPT !.int = CastInt(token.number)]
      \/ d = [Took(c) EXCEPT !.word = token]
      \/ d = [c EXCEPT !.i = Len(args) + 1, !.reason = SubSeq(args, c.i, Len(args))]
  BY DEF ResolveArg
<1>. QED BY <1>3, <1>4, <1>5, <1>6, <1>7

\* The contexts of a command name only players whom the caller may do it to.
LEMMA CommandsAreEntitled ==
  ASSUME KnownBySlot, NEW cmd, Len(cmd.args) \in Nat, NEW args, NEW caller,
         NEW e \in ResolveArgs(cmd, args, caller)
  PROVE  EntitledContext(e, caller)
<1>. DEFINE last == Len(cmd.args)
<1>1. PICK after :
        /\ ResolveArgs(cmd, args, caller) = after[Len(cmd.args)]
        /\ after[0] = Beginning
        /\ \A n \in 1 .. Len(cmd.args) :
             after[n] = OneMore(after[n - 1], cmd.args[n], args, caller)
  BY ArgsInOrder
<1>. DEFINE G == {n \in Nat : n <= last => \A d \in after[n] : EntitledContext(d, caller)}
<1>2. 0 \in G
  <2>1. EntitledContext(Context(1), caller)
    BY DEF EntitledContext, Context, Fields
  <2>. QED BY <1>1, <2>1 DEF Beginning
<1>3. ASSUME NEW n \in Nat, n \in G
      PROVE  n + 1 \in G
  <2>. SUFFICES ASSUME n + 1 <= last, NEW d \in after[n + 1]
                PROVE  EntitledContext(d, caller)
    OBVIOUS
  <2>1. n + 1 \in 1 .. last /\ (n + 1) - 1 = n /\ n <= last
    OBVIOUS
  <2>2. PICK b \in after[n] : d \in ResolveArg(b, cmd.args[n + 1], args, caller)
    BY <1>1, <2>1 DEF OneMore
  <2>3. EntitledContext(b, caller)
    BY <1>3, <2>1, <2>2
  <2>. QED BY <2>2, <2>3, ArgumentsKeepEntitled
<1>4. last \in G
  <2>. HIDE DEF G
  <2>. QED BY <1>2, <1>3, CountedUp
<1>. QED BY <1>1, <1>4

\* The roster, the commands, and who acts: of the services only the command family tells of an
\* outcome, and the roster does not move until it was told.
PolicyInv ==
  /\ DOMAIN bySlot = Slot
  /\ KnownBySlot
  /\ commands \subseteq Spec0 \cup Extra
  /\ uses # "commands" => did = NothingDone
  /\ ActsWithinPolicy

\* Connects and disconnects put a player under his own slot or take him out.
LEMMA RosterKeepsSlots ==
  ASSUME DOMAIN bySlot = Slot, KnownBySlot, RosterStep
  PROVE  DOMAIN bySlot' = Slot /\ KnownBySlot'
<1>1. ASSUME NEW s \in Slot, NEW id \in SteamId, Connect(s, id)
      PROVE  DOMAIN bySlot' = Slot /\ KnownBySlot'
  <2>1. bySlot' = [bySlot EXCEPT ![s] = [id |-> FreshObject(s), slot |-> s, steamId |-> id]]
    BY <1>1 DEF Connect, Hook_OnClientConnected, AddPlayer
  <2>. QED BY <2>1 DEF KnownBySlot
<1>2. ASSUME NEW s \in Slot, Disconnect(s)
      PROVE  DOMAIN bySlot' = Slot /\ KnownBySlot'
  <2>1. bySlot' = [bySlot EXCEPT ![s] = None] \/ bySlot' = bySlot
    BY <1>2 DEF Disconnect, Hook_ClientDisconnect, RemovePlayer
  <2>. QED BY <2>1 DEF KnownBySlot
<1>. QED BY <1>1, <1>2 DEF RosterStep

\* The other services know the roster and do not change it, but that a plugin clears it.
LEMMA OthersKeepSlots ==
  ASSUME DOMAIN bySlot = Slot, KnownBySlot, StateStep \/ CommandStep \/ TimerStep \/ UNCHANGED serverVars
  PROVE  DOMAIN bySlot' = Slot /\ KnownBySlot'
<1>1. CASE StateStep
  <2>1. CASE Clear
    <3>1. bySlot' = [s \in Slot |-> None]
      BY <2>1 DEF Clear
    <3>. QED BY <3>1 DEF KnownBySlot
  <2>2. CASE \/ BindReset \/ Unbind \/ Renew \/ MovementNext
             \/ (\E s \in Slot : Store(s)) \/ (\E d \in Depths : Enable(d))
    <3>1. bySlot' = bySlot
      BY <2>2 DEF BindReset, Unbind, Renew, Store, Enable, MovementNext, Install, RemoveHook, Listen,
                  Hook_RunCommandPre, Hook_RunCommandPost, playerVars
    <3>. QED BY <3>1 DEF KnownBySlot
  <2>. QED BY <1>1, <2>1, <2>2 DEF StateStep
<1>2. CASE CommandStep \/ TimerStep \/ UNCHANGED serverVars
  BY <1>2 DEF CommandStep, TimerStep, serverVars, playerVars, KnownBySlot
<1>. QED BY <1>1, <1>2

\* What a chat line comes to is within the policy.
LEMMA LinesActWithinPolicy ==
  ASSUME PolicyInv, NEW s \in Slot, NEW line, HandleChatMessage(bySlot[s], line), UNCHANGED bySlot
  PROVE  ActsWithinPolicy'
<1>. SUFFICES ASSUME did'.ran # None PROVE ActsWithinPolicy'
  BY DEF ActsWithinPolicy
<1>. DEFINE caller == bySlot[s]
<1>1. PICK cmd \in GetCommand(line.word) :
        /\ HasPermission(caller, cmd.permission)
        /\ \E c \in ResolveArgs(cmd, line.args, caller) :
             did' = [NotACommand(caller, line) EXCEPT !.cmd = cmd, !.with = c,
                       !.ran = IF c.state = "ok" THEN cmd ELSE None]
  BY DEF HandleChatMessage, NotACommand, NothingDone
<1>2. PICK c \in ResolveArgs(cmd, line.args, caller) :
        did' = [NotACommand(caller, line) EXCEPT !.cmd = cmd, !.with = c,
                  !.ran = IF c.state = "ok" THEN cmd ELSE None]
  BY <1>1
<1>3. cmd \in commands /\ Len(cmd.args) \in Nat
  BY SpecsAssumption DEF GetCommand, PolicyInv
<1>4. did'.caller = caller /\ did'.with = c /\ did'.ran = cmd
  BY <1>2 DEF NotACommand, NothingDone
<1>5. PICK p : p = caller
  OBVIOUS
<1>6. EntitledContext(c, p)
  BY <1>2, <1>3, <1>5, CommandsAreEntitled DEF PolicyInv
<1>7. ASSUME NEW t \in ActedOn'
      PROVE  Entitled(p, t)
  BY <1>4, <1>6, <1>7 DEF ActedOn, EntitledContext
<1>. QED BY <1>1, <1>4, <1>5, <1>7 DEF ActsWithinPolicy, Entitled, HasPermission, CanTarget

\* What the activation of a menu row comes to is within the policy.
LEMMA RowsActWithinPolicy ==
  ASSUME NEW s \in Slot, NEW t \in Slot, NEW action, Run(s, t, action), UNCHANGED bySlot
  PROVE  ActsWithinPolicy'
<1>. SUFFICES ASSUME did'.ran # None PROVE ActsWithinPolicy'
  BY DEF ActsWithinPolicy
<1>1. /\ did'.caller = bySlot[s] /\ did'.with.target = t /\ did'.with.targets = {}
      /\ did'.ran = action /\ Resolve(s, t, action.permission)
  BY DEF Run, NothingDone, Context
<1>2. ActedOn' \subseteq {t}
  BY <1>1 DEF ActedOn
<1>. QED BY <1>1, <1>2 DEF ActsWithinPolicy, Resolve, HasPermission, CanTarget

LEMMA PolicyKept == PolicyInv /\ [ServerNext]_serverVars => PolicyInv'
<1>. SUFFICES ASSUME PolicyInv, [ServerNext]_serverVars PROVE PolicyInv'
  OBVIOUS
<1>1. DOMAIN bySlot' = Slot /\ KnownBySlot'
  BY RosterKeepsSlots, OthersKeepSlots DEF PolicyInv, ServerNext
<1>2. ASSUME did' = NothingDone
      PROVE  ActsWithinPolicy'
  BY <1>2 DEF ActsWithinPolicy, NothingDone
<1>3. CASE RosterStep
  BY <1>1, <1>2, <1>3 DEF RosterStep, PolicyInv
<1>4. CASE StateStep \/ TimerStep
  BY <1>1, <1>2, <1>4 DEF StateStep, TimerStep, commandVars, PolicyInv
<1>5. CASE CommandStep
  <2>1. uses' = "commands" /\ bySlot' = bySlot
    BY <1>5 DEF CommandStep, playerVars
  <2>2. commands' \subseteq Spec0 \cup Extra
    BY <1>5 DEF CommandStep, CommandsNext, Register, Unregister, HandleChatMessage, Run, ControllerChanges, PolicyInv
  <2>3. ActsWithinPolicy'
    <3>1. CASE did' = NothingDone
      BY <1>2, <3>1
    <3>2. ASSUME NEW s \in Slot, NEW line \in Lines, HandleChatMessage(bySlot[s], line)
          PROVE  ActsWithinPolicy'
      BY <2>1, <3>2, LinesActWithinPolicy
    <3>3. ASSUME NEW s \in Slot, NEW t \in Slot, NEW action \in Actions, Run(s, t, action)
          PROVE  ActsWithinPolicy'
      BY <2>1, <3>3, RowsActWithinPolicy
    <3>4. CASE did = NothingDone /\ did' = did
      BY <1>2, <3>4
    <3>. QED BY <1>5, <3>1, <3>2, <3>3, <3>4
             DEF CommandStep, CommandsNext, Register, Unregister, ControllerChanges
  <2>. QED BY <1>1, <2>1, <2>2, <2>3 DEF PolicyInv
<1>6. CASE UNCHANGED serverVars
  <2>1. UNCHANGED <<bySlot, commands, did, uses>>
    BY <1>6 DEF serverVars, playerVars, commandVars
  <2>. QED BY <1>1, <2>1 DEF PolicyInv, ActsWithinPolicy, ActedOn, HasPermission, CanTarget
<1>. QED BY <1>3, <1>4, <1>5, <1>6 DEF ServerNext

\* Nobody's command or menu row runs without his permission, and no player is handed to it as its
\* target whom the policy protects from him, for any commands and their arguments, any lines, rows
\* and policy, and any roster that changes between them.  A bare SteamID hands over no player.
THEOREM ActsWithinPolicyHolds == ServerSpec => []ActsWithinPolicy
<1>1. ServerInit => PolicyInv
  BY DEF ServerInit, Init, CommandsInit, PolicyInv, KnownBySlot, ActsWithinPolicy, NothingDone
<1>2. PolicyInv => ActsWithinPolicy
  BY DEF PolicyInv
<1>. QED BY <1>1, <1>2, PolicyKept, PTL DEF ServerSpec

(* ---- what a handler is given ---------------------------------------------------- *)

\* What an argument of a kind makes of the n-th token, and what it leaves alone.
Served(d, kind, args, n) ==
  CASE kind = "Target" -> d.target # None
    [] kind = "TargetOrSteamId" -> d.steamId # None
    [] kind = "SteamId64" -> args[n].numeric /\ d.steamId = args[n].number
    [] kind = "Duration" -> d.seconds \in Nat
    [] kind = "Int" -> args[n].number # None /\ d.int = args[n].number
    [] kind = "Word" -> d.word = args[n]
    [] OTHER -> d.reason = SubSeq(args, n, Len(args))

\* The line's slot numbers and Int arguments are ints, as far as the command reads them.
Fitting(cmd, args) ==
  \A i \in DOMAIN args :
    /\ IsInt(args[i].slot)
    /\ i <= Len(cmd.args) /\ cmd.args[i].kind = "Int" => IsInt(args[i].number)

\* The cast keeps an int.
LEMMA CastIntFits ==
  ASSUME NEW v \in Int, v # None, IsInt(v)
  PROVE  CastInt(v) = v
<1>1. IntWidth \in Nat \ {0} /\ -IntWidth <= 2 * v /\ 2 * v < IntWidth
  BY IntWidthAssumption DEF IsInt
<1>2. CASE v >= 0
  <2>1. v % IntWidth = v
    BY <1>1, <1>2
  <2>. QED BY <1>1, <2>1 DEF CastInt
<1>3. CASE v < 0
  <2>1. v % IntWidth = v + IntWidth
    BY <1>1, <1>3
  <2>. QED BY <1>1, <1>3, <2>1 DEF CastInt
<1>. QED BY <1>2, <1>3

LeavesOthers(c, d, kind) ==
  /\ d = [f \in Fields |-> d[f]]
  /\ \A f \in Fillable \ Fills(kind) : d[f] = c[f]

\* An argument with a token before it.
LEMMA GivenArgument ==
  ASSUME KnownBySlot, NEW c, c = [f \in Fields |-> c[f]], c.state = "ok",
         NEW spec \in Arg, NEW args \in Seq(Token), c.i \in 1 .. Len(args), NEW caller,
         spec.kind = "Int" => IsInt(args[c.i].number),
         NEW d \in ResolveArg(c, spec, args, caller), d.state = "ok"
  PROVE  /\ spec.kind # "ReasonTail" => d.i = c.i + 1
         /\ LeavesOthers(c, d, spec.kind)
         /\ Served(d, spec.kind, args, c.i)
<1>. DEFINE token == args[c.i]
            Goal == /\ spec.kind # "ReasonTail" => d.i = c.i + 1
                    /\ LeavesOthers(c, d, spec.kind)
                    /\ Served(d, spec.kind, args, c.i)
<1>1. token.seconds \in Int /\ ~(c.i > Len(args))
  <2>1. token \in Token /\ Len(args) \in Nat /\ c.i \in Int /\ c.i <= Len(args)
    OBVIOUS
  <2>2. \A t \in Token : t.seconds \in Int
    BY DEF Token
  <2>. QED BY <2>1, <2>2
<1>2. \A reply : Fail(c, reply).state = "failed" /\ Usage(c).state = "failed"
  BY DEF Fail, Usage, Fields
<1>3. CASE spec.kind = "Target"
  <2>1. PICK r \in ResolveTargets(token, caller, spec.rules) :
          d = IF r.error # None THEN Fail(c, r.error)
              ELSE [Took(c) EXCEPT !.target = CHOOSE s \in r.slots : TRUE,
                                   !.targets = IF spec.rules.allowMultiple THEN r.slots ELSE {}]
    BY <1>1, <1>3 DEF ResolveArg, TargetArg
  <2>2. r.error = None
    BY <1>2, <2>1
  <2>3. r.slots # {} /\ \A s \in r.slots : s \in Slot
    BY <2>2, ResolvedAreEntitled DEF Entitled
  <2>. DEFINE chosen == CHOOSE s \in r.slots : TRUE
              many == IF spec.rules.allowMultiple THEN r.slots ELSE {}
  <2>4. chosen # None
    BY <2>3, NobodyAssumption
  <2>5. d = [Took(c) EXCEPT !.target = chosen, !.targets = many]
    BY <2>1, <2>2
  <2>. HIDE DEF chosen, many
  <2>. QED BY <1>3, <2>4, <2>5 DEF Took, Fields, Fillable, Fills, Served, LeavesOthers
<1>4. CASE spec.kind = "TargetOrSteamId"
  <2>1. d \in TargetOrSteamIdArg(c, token, caller)
    BY <1>1, <1>4 DEF ResolveArg
  <2>2. CASE token.numeric /\ token.number # None
    <3>1. d = [Took(c) EXCEPT !.steamId = token.number]
      BY <2>1, <2>2 DEF TargetOrSteamIdArg
    <3>. QED BY <1>4, <2>2, <3>1 DEF Took, Fields, Fillable, Fills, Served, LeavesOthers
  <2>3. CASE ~(token.numeric /\ token.number # None)
    <3>1. PICK r \in ResolveTargets(token, caller, AnyRules) :
            d = IF r.error # None THEN Fail(c, r.error)
                ELSE LET s == CHOOSE s \in r.slots : TRUE
                     IN [Took(c) EXCEPT !.target = s, !.steamId = bySlot[s].steamId]
      BY <2>1, <2>3 DEF TargetOrSteamIdArg
    <3>2. r.error = None
      BY <1>2, <3>1
    <3>3. r.slots # {} /\ \A s \in r.slots : s \in Slot /\ bySlot[s] # None
      BY <3>2, ResolvedAreEntitled DEF Entitled
    <3>. DEFINE chosen == CHOOSE s \in r.slots : TRUE
                name == bySlot[chosen].steamId
    <3>4. chosen \in Slot /\ bySlot[chosen] # None
      BY <3>3
    <3>5. d = [Took(c) EXCEPT !.target = chosen, !.steamId = name]
      BY <3>1, <3>2
    <3>. HIDE DEF chosen
    <3>6. name # None
      BY <3>4, NobodyAssumption DEF KnownBySlot
    <3>. HIDE DEF name
    <3>. QED BY <1>4, <3>5, <3>6 DEF Took, Fields, Fillable, Fills, Served, LeavesOthers
  <2>. QED BY <2>2, <2>3
<1>5. CASE spec.kind = "Duration"
  <2>1. d \in DurationArg(c, token, spec)
    BY <1>1, <1>5 DEF ResolveArg
  <2>2. token.seconds >= 0
    BY <1>1, <1>2, <2>1 DEF DurationArg
  <2>3. PICK long \in Nat : d = [Took(c) EXCEPT !.seconds = long]
    <3>1. \A x \in Int : x >= 0 => x \in Nat /\ x * 60 \in Nat
      OBVIOUS
    <3>. DEFINE long == IF spec.bareMinutes /\ token.numeric THEN token.seconds * 60 ELSE token.seconds
    <3>2. d = [Took(c) EXCEPT !.seconds = long]
      BY <1>1, <2>1, <2>2 DEF DurationArg
    <3>3. long \in Nat
      BY <1>1, <2>2, <3>1
    <3>. HIDE DEF long
    <3>. QED BY <3>2, <3>3
  <2>. QED BY <1>5, <2>3 DEF Took, Fields, Fillable, Fills, Served, LeavesOthers
<1>6. CASE spec.kind = "SteamId64"
  <2>1. d = [Took(c) EXCEPT !.steamId = token.number] /\ token.numeric
    BY <1>1, <1>2, <1>6 DEF ResolveArg
  <2>. QED BY <1>6, <2>1 DEF Took, Fields, Fillable, Fills, Served, LeavesOthers
<1>7. CASE spec.kind = "Int"
  <2>1. token.number # None /\ d = [Took(c) EXCEPT !.int = CastInt(token.number)]
    BY <1>1, <1>2, <1>7 DEF ResolveArg
  <2>2. token.number \in Int
    <3>1. token \in Token
      OBVIOUS
    <3>2. \A x \in Token : x.number \in Int \cup {None}
      BY DEF Token
    <3>. QED BY <2>1, <3>1, <3>2
  <2>3. CastInt(token.number) = token.number
    BY <1>7, <2>1, <2>2, CastIntFits
  <2>4. d = [Took(c) EXCEPT !.int = token.number]
    BY <2>1, <2>3
  <2>. QED BY <1>7, <2>1, <2>4 DEF Took, Fields, Fillable, Fills, Served, LeavesOthers
<1>8. CASE spec.kind = "Word"
  <2>1. d = [Took(c) EXCEPT !.word = token]
    BY <1>1, <1>8 DEF ResolveArg
  <2>. QED BY <1>8, <2>1 DEF Took, Fields, Fillable, Fills, Served, LeavesOthers
<1>9. CASE spec.kind = "ReasonTail"
  <2>1. d = [c EXCEPT !.i = Len(args) + 1, !.reason = SubSeq(args, c.i, Len(args))]
    BY <1>1, <1>9 DEF ResolveArg
  <2>. QED BY <1>9, <2>1 DEF Fields, Fillable, Fills, Served, LeavesOthers
<1>. QED BY <1>3, <1>4, <1>5, <1>6, <1>7, <1>8, <1>9 DEF Arg

\* An argument after the last token: it is not required, or the tail.
LEMMA MissingArgument ==
  ASSUME NEW c, c = [f \in Fields |-> c[f]], c.state = "ok",
         NEW spec \in Arg, NEW args, c.i > Len(args), NEW caller,
         NEW d \in ResolveArg(c, spec, args, caller), d.state = "ok"
  PROVE  /\ d.i = c.i
         /\ d = [f \in Fields |-> d[f]]
         /\ IF spec.kind = "ReasonTail"
            THEN d.reason = "fallback" /\ \A f \in Fillable \ {"reason"} : d[f] = c[f]
            ELSE ~spec.required /\ d = c
<1>1. Usage(c).state = "failed"
  BY DEF Usage, Fields
<1>2. CASE spec.kind = "ReasonTail"
  <2>1. d = [c EXCEPT !.reason = "fallback"]
    BY <1>2 DEF ResolveArg
  <2>. QED BY <1>2, <2>1 DEF Fields, Fillable
<1>3. CASE spec.kind # "ReasonTail"
  <2>1. ~spec.required /\ d = c
    BY <1>1, <1>3 DEF ResolveArg, Arg
  <2>. QED BY <1>3, <2>1
<1>. QED BY <1>2, <1>3

\* What HandlersAreServed says of one argument.
ArgumentServed(c, arg, args, j) ==
  /\ arg.required => j <= Len(args) \/ arg.kind = "ReasonTail"
  /\ j <= Len(args) => Served(c, arg.kind, args, j)
  /\ j > Len(args) =>
       CASE arg.kind = "Word" -> c.word = None
         [] arg.kind = "ReasonTail" -> c.reason = "fallback"
         [] arg.kind = "Int" -> c.int = None
         [] OTHER -> TRUE

LEMMA FieldsOfKinds ==
  ASSUME NEW arg \in Arg
  PROVE  /\ Fills(arg.kind) \subseteq Fillable
         /\ arg.kind = "Target" => "target" \in Fills(arg.kind)
         /\ arg.kind = "TargetOrSteamId" => "steamId" \in Fills(arg.kind)
         /\ arg.kind = "SteamId64" => "steamId" \in Fills(arg.kind)
         /\ arg.kind = "Duration" => "seconds" \in Fills(arg.kind)
         /\ arg.kind = "Int" => "int" \in Fills(arg.kind)
         /\ arg.kind = "Word" => "word" \in Fills(arg.kind)
         /\ arg.kind = "ReasonTail" => "reason" \in Fills(arg.kind)
BY DEF Arg, Fills, Fillable

\* It depends on the argument's own fields only.
LEMMA OwnFieldsOnly ==
  ASSUME NEW c, NEW d, NEW arg \in Arg, NEW args, NEW j, ArgumentServed(c, arg, args, j),
         \A f \in Fills(arg.kind) : d[f] = c[f]
  PROVE  ArgumentServed(d, arg, args, j)
<1>1. Served(c, arg.kind, args, j) => Served(d, arg.kind, args, j)
  BY FieldsOfKinds DEF Served, Arg
<1>. QED BY <1>1, FieldsOfKinds DEF ArgumentServed, Arg

\* A context on the way that has taken n arguments.
ServedSoFar(c, n, cmd, args, caller) ==
  /\ EntitledContext(c, caller)
  /\ c.state = "ok" =>
       /\ n < Len(cmd.args) => c.i = IF n <= Len(args) THEN n + 1 ELSE Len(args) + 1
       /\ \A j \in 1 .. n : ArgumentServed(c, cmd.args[j], args, j)
       /\ \A j \in n + 1 .. Len(cmd.args) : \A f \in Fills(cmd.args[j].kind) : c[f] = None

LEMMA OneMoreIsServed ==
  ASSUME KnownBySlot, NEW cmd, cmd.args \in Seq(Arg), PlainSpec(cmd), NEW args \in Seq(Token), NEW caller,
         Fitting(cmd, args), NEW n \in Nat, n < Len(cmd.args), NEW c, ServedSoFar(c, n, cmd, args, caller),
         NEW d \in ResolveArg(c, cmd.args[n + 1], args, caller)
  PROVE  ServedSoFar(d, n + 1, cmd, args, caller)
<1>. DEFINE spec == cmd.args[n + 1]
            last == Len(cmd.args)
<1>1. /\ Len(args) \in Nat /\ last \in Nat /\ n + 1 \in 1 .. last /\ DOMAIN cmd.args = 1 .. last
      /\ \A j \in 1 .. last : cmd.args[j] \in Arg
  OBVIOUS
<1>2. EntitledContext(d, caller)
  BY ArgumentsKeepEntitled DEF ServedSoFar
<1>. SUFFICES ASSUME d.state = "ok"
              PROVE  /\ n + 1 < last => d.i = IF n + 1 <= Len(args) THEN n + 2 ELSE Len(args) + 1
                     /\ \A j \in 1 .. n + 1 : ArgumentServed(d, cmd.args[j], args, j)
                     /\ \A j \in n + 2 .. last : \A f \in Fills(cmd.args[j].kind) : d[f] = None
  BY <1>1, <1>2 DEF ServedSoFar
<1>3. c.state = "ok"
  BY DEF ResolveArg
<1>4. /\ c = [f \in Fields |-> c[f]]
      /\ c.i = IF n <= Len(args) THEN n + 1 ELSE Len(args) + 1
      /\ \A j \in 1 .. n : ArgumentServed(c, cmd.args[j], args, j)
      /\ \A j \in n + 1 .. last : \A f \in Fills(cmd.args[j].kind) : c[f] = None
  BY <1>3 DEF ServedSoFar, EntitledContext
<1>. HIDE DEF spec
<1>5. spec \in Arg /\ d \in ResolveArg(c, spec, args, caller)
  BY <1>1 DEF spec
<1>6. /\ spec.kind # "ReasonTail" /\ n + 1 < last => d.i = IF n + 1 <= Len(args) THEN n + 2 ELSE Len(args) + 1
      /\ \A f \in Fillable \ Fills(spec.kind) : d[f] = c[f]
      /\ ArgumentServed(d, spec, args, n + 1)
  <2>1. CASE n + 1 <= Len(args)
    <3>1. c.i = n + 1 /\ c.i \in 1 .. Len(args)
      BY <1>1, <1>4, <2>1
    <3>4. spec.kind = "Int" => IsInt(args[c.i].number)
      BY <1>1, <2>1, <3>1 DEF Fitting, spec
    <3>2. /\ spec.kind # "ReasonTail" => d.i = c.i + 1
          /\ LeavesOthers(c, d, spec.kind)
          /\ Served(d, spec.kind, args, c.i)
      BY <1>3, <1>4, <1>5, <3>1, <3>4, GivenArgument
    <3>3. c.i + 1 = n + 2 /\ ~(n + 1 > Len(args))
      BY <1>1, <2>1, <3>1
    <3>. QED BY <2>1, <3>1, <3>2, <3>3 DEF LeavesOthers, ArgumentServed
  <2>2. CASE n + 1 > Len(args)
    <3>1. c.i = Len(args) + 1 /\ c.i > Len(args) /\ ~(n + 1 <= Len(args))
      BY <1>1, <1>4, <2>2
    <3>2. /\ d.i = c.i
          /\ IF spec.kind = "ReasonTail"
             THEN d.reason = "fallback" /\ \A f \in Fillable \ {"reason"} : d[f] = c[f]
             ELSE ~spec.required /\ d = c
      BY SMTT(60), <1>3, <1>4, <1>5, <3>1, MissingArgument
    <3>3. \A f \in Fills(spec.kind) : c[f] = None
      BY <1>1, <1>4 DEF spec
    <3>4. CASE spec.kind = "ReasonTail"
      BY <3>1, <3>2, <3>4 DEF ArgumentServed, Fills
    <3>5. CASE spec.kind # "ReasonTail"
      BY <1>5, <3>1, <3>2, <3>3, <3>5, FieldsOfKinds DEF ArgumentServed
    <3>. QED BY <3>4, <3>5
  <2>. QED BY <1>1, <2>1, <2>2
<1>7. \A j \in 1 .. last : j # n + 1 => \A f \in Fills(cmd.args[j].kind) : d[f] = c[f]
  <2>. SUFFICES ASSUME NEW j \in 1 .. last, j # n + 1, NEW f \in Fills(cmd.args[j].kind)
                PROVE  d[f] = c[f]
    OBVIOUS
  <2>1. f \in Fillable
    BY <1>1, FieldsOfKinds
  <2>2. Fills(cmd.args[j].kind) \cap Fills(spec.kind) = {}
    <3>1. CASE j < n + 1
      BY <1>1, <3>1 DEF PlainSpec, spec
    <3>2. CASE n + 1 < j
      BY <1>1, <3>2 DEF PlainSpec, spec
    <3>. QED BY <1>1, <3>1, <3>2
  <2>. QED BY <1>6, <2>1, <2>2
<1>8. n + 1 < last => spec.kind # "ReasonTail"
  BY <1>1 DEF PlainSpec, spec
<1>9. \A j \in 1 .. n + 1 : ArgumentServed(d, cmd.args[j], args, j)
  <2>. TAKE j \in 1 .. n + 1
  <2>1. CASE j = n + 1
    BY <1>6, <2>1 DEF spec
  <2>2. CASE j # n + 1
    <3>1. j \in 1 .. n /\ j \in 1 .. last
      BY <1>1, <2>2
    <3>2. cmd.args[j] \in Arg /\ \A f \in Fills(cmd.args[j].kind) : d[f] = c[f]
      BY <1>1, <1>7, <2>2, <3>1
    <3>3. ArgumentServed(c, cmd.args[j], args, j)
      BY <1>4, <3>1
    <3>. QED BY <3>2, <3>3, OwnFieldsOnly
  <2>. QED BY <2>1, <2>2
<1>10. \A j \in n + 2 .. last : \A f \in Fills(cmd.args[j].kind) : d[f] = None
  <2>. TAKE j \in n + 2 .. last
  <2>1. j \in 1 .. last /\ j \in n + 1 .. last /\ j # n + 1
    BY <1>1
  <2>. QED BY <1>4, <1>7, <2>1
<1>. QED BY <1>6, <1>8, <1>9, <1>10

\* The contexts of a plain command give each of its arguments what it asks for.
LEMMA CommandsAreServed ==
  ASSUME KnownBySlot, NEW cmd, cmd.args \in Seq(Arg), PlainSpec(cmd), NEW args \in Seq(Token), NEW caller,
         Fitting(cmd, args), NEW e \in ResolveArgs(cmd, args, caller)
  PROVE  ServedSoFar(e, Len(cmd.args), cmd, args, caller)
<1>. DEFINE last == Len(cmd.args)
<1>1. last \in Nat /\ Len(args) \in Nat /\ DOMAIN cmd.args = 1 .. last
      /\ \A j \in 1 .. last : cmd.args[j] \in Arg
  OBVIOUS
<1>2. PICK after :
        /\ ResolveArgs(cmd, args, caller) = after[last]
        /\ after[0] = Beginning
        /\ \A n \in 1 .. last : after[n] = OneMore(after[n - 1], cmd.args[n], args, caller)
  BY <1>1, ArgsInOrder
<1>. HIDE DEF last
<1>. DEFINE G == {n \in Nat : n <= last => \A d \in after[n] : ServedSoFar(d, n, cmd, args, caller)}
<1>3. 0 \in G
  <2>1. EntitledContext(Context(1), caller)
    BY DEF EntitledContext, Context, Fields
  <2>2. \A j \in 1 .. last : \A f \in Fills(cmd.args[j].kind) : Context(1)[f] = None
    <3>1. \A f \in Fillable : Context(1)[f] = None
      BY DEF Fillable, Context
    <3>. QED BY <1>1, <3>1, FieldsOfKinds
  <2>3. Context(1).i = 1 /\ 0 <= Len(args) /\ 1 .. 0 = {}
    BY <1>1 DEF Context
  <2>4. ServedSoFar(Context(1), 0, cmd, args, caller)
    BY <2>1, <2>2, <2>3 DEF ServedSoFar, last
  <2>. QED BY <1>2, <2>4 DEF Beginning
<1>4. ASSUME NEW n \in Nat, n \in G
      PROVE  n + 1 \in G
  <2>. SUFFICES ASSUME n + 1 <= last, NEW d \in after[n + 1]
                PROVE  ServedSoFar(d, n + 1, cmd, args, caller)
    OBVIOUS
  <2>1. n + 1 \in 1 .. last /\ (n + 1) - 1 = n /\ n <= last /\ n < last
    BY <1>1
  <2>2. PICK b \in after[n] : d \in ResolveArg(b, cmd.args[n + 1], args, caller)
    BY <1>2, <2>1 DEF OneMore
  <2>3. ServedSoFar(b, n, cmd, args, caller)
    BY <1>4, <2>1, <2>2
  <2>. QED BY <2>1, <2>2, <2>3, OneMoreIsServed DEF last
<1>5. last \in G
  <2>. HIDE DEF G
  <2>. QED BY <1>1, <1>3, <1>4, CountedUp
<1>. QED BY <1>1, <1>2, <1>5 DEF last

(* ---- whom a token means --------------------------------------------------------- *)

\* Being a prefix, letter by letter.
LEMMA PrefixByLetter ==
  ASSUME NEW S, NEW s \in Seq(S), NEW t \in Seq(S)
  PROVE  IsPrefix(s, t) <=> Len(s) <= Len(t) /\ \A i \in 1 .. Len(s) : s[i] = t[i]
<1>1. Len(s) \in Nat /\ Len(t) \in Nat /\ SubSeq(s, 1, Len(s)) = s
  BY LenProperties, SubSeqFull
<1>2. ASSUME Len(s) <= Len(t)
      PROVE  /\ SubSeq(t, 1, Len(s)) \in Seq(S) /\ Len(SubSeq(t, 1, Len(s))) = Len(s)
             /\ \A i \in 1 .. Len(s) : SubSeq(t, 1, Len(s))[i] = t[i]
  <2>1. \A i \in 1 .. Len(s) : t[i] \in S
    BY <1>1, <1>2, ElementOfSeq
  <2>2. /\ SubSeq(t, 1, Len(s)) \in Seq(S)
        /\ Len(SubSeq(t, 1, Len(s))) = IF 1 <= Len(s) THEN Len(s) - 1 + 1 ELSE 0
        /\ \A i \in 1 .. Len(s) - 1 + 1 : SubSeq(t, 1, Len(s))[i] = t[1 + i - 1]
    BY <1>1, <2>1, SubSeqProperties
  <2>3. /\ Len(s) - 1 + 1 = Len(s) /\ (~(1 <= Len(s)) => Len(s) = 0)
        /\ \A i \in 1 .. Len(s) : 1 + i - 1 = i
    BY <1>1
  <2>. QED BY <2>2, <2>3
<1>3. CASE Len(s) <= Len(t)
  <2>1. s = SubSeq(t, 1, Len(s)) <=> \A i \in 1 .. Len(s) : s[i] = t[i]
    BY <1>2, <1>3, SeqEqual
  <2>. QED BY <1>1, <1>3, <2>1 DEF IsPrefix
<1>. QED BY <1>3 DEF IsPrefix

\* A part of a sequence, letter by letter.
LEMMA PartByLetter ==
  ASSUME NEW S, NEW t \in Seq(S), NEW k \in 0 .. Len(t), NEW j \in k .. Len(t)
  PROVE  /\ SubSeq(t, k + 1, j) \in Seq(S)
         /\ Len(SubSeq(t, k + 1, j)) = j - k
         /\ \A i \in 1 .. j - k : SubSeq(t, k + 1, j)[i] = t[k + i]
<1>1. Len(t) \in Nat /\ k \in Nat /\ j \in Nat
  BY LenProperties
<1>2. \A i \in k + 1 .. j : t[i] \in S
  BY <1>1, ElementOfSeq
<1>3. /\ SubSeq(t, k + 1, j) \in Seq(S)
      /\ Len(SubSeq(t, k + 1, j)) = IF k + 1 <= j THEN j - (k + 1) + 1 ELSE 0
      /\ \A i \in 1 .. j - (k + 1) + 1 : SubSeq(t, k + 1, j)[i] = t[k + 1 + i - 1]
  BY <1>1, <1>2, SubSeqProperties
<1>4. /\ j - (k + 1) + 1 = j - k /\ (~(k + 1 <= j) => j - k = 0)
      /\ \A i \in 1 .. j - k : k + 1 + i - 1 = k + i
  BY <1>1
<1>. QED BY <1>3, <1>4

\* A fragment stands within a name if it is a prefix of what the name is from some letter on.
LEMMA WithinIsPrefixOfRest ==
  ASSUME NEW S, NEW name \in Seq(S), NEW needle \in Seq(S), ~IsPrefix(needle, name)
  PROVE  needle \in SubSeqs(name)
           <=> \E i \in 1 .. Len(name) : IsPrefix(needle, SubSeq(name, i, Len(name)))
<1>. DEFINE n == Len(name)
            m == Len(needle)
<1>1. n \in Nat /\ m \in Nat
  BY LenProperties
<1>2. m > 0
  <2>1. IsPrefix(needle, name) <=> m <= n /\ \A i \in 1 .. m : needle[i] = name[i]
    BY PrefixByLetter
  <2>2. m = 0 => m <= n /\ 1 .. m = {}
    BY <1>1
  <2>. QED BY <1>1, <2>1, <2>2
<1>3. ASSUME NEW k \in 0 .. n
      PROVE  IsPrefix(needle, SubSeq(name, k + 1, n))
               <=> m <= n - k /\ \A i \in 1 .. m : needle[i] = name[k + i]
  <2>. DEFINE rest == SubSeq(name, k + 1, n)
  <2>1. n \in k .. n
    BY <1>1
  <2>2. /\ rest \in Seq(S) /\ Len(rest) = n - k
        /\ \A i \in 1 .. n - k : rest[i] = name[k + i]
    BY <2>1, PartByLetter
  <2>. HIDE DEF rest
  <2>3. IsPrefix(needle, rest) <=> m <= Len(rest) /\ \A i \in 1 .. m : needle[i] = rest[i]
    BY <2>2, PrefixByLetter
  <2>4. m <= n - k => \A i \in 1 .. m : i \in 1 .. n - k
    BY <1>1
  <2>5. IsPrefix(needle, rest) <=> m <= n - k /\ \A i \in 1 .. m : needle[i] = name[k + i]
    BY <2>2, <2>3, <2>4
  <2>. QED BY <2>5 DEF rest
<1>4. ASSUME needle \in SubSeqs(name)
      PROVE  \E i \in 1 .. n : IsPrefix(needle, SubSeq(name, i, n))
  <2>1. PICK k \in 0 .. n, j \in 0 .. n : needle = SubSeq(name, k + 1, j)
    BY <1>4 DEF SubSeqs
  <2>2. k < j
    <3>1. ASSUME ~(k < j) PROVE FALSE
      <4>1. SubSeq(name, k + 1, j) = << >>
        BY <1>1, <3>1, SubSeqEmpty
      <4>. QED BY SMTT(60), <1>2, <2>1, <4>1, EmptySeq
    <3>. QED BY <3>1
  <2>3. j \in k .. n
    BY <1>1, <2>2
  <2>4. m = j - k /\ \A i \in 1 .. j - k : needle[i] = name[k + i]
    BY <2>1, <2>3, PartByLetter
  <2>5. IsPrefix(needle, SubSeq(name, k + 1, n))
    BY <1>1, <1>3, <2>4
  <2>6. k + 1 \in 1 .. n
    BY <1>1, <2>2
  <2>. QED BY <2>5, <2>6
<1>5. ASSUME NEW i \in 1 .. n, IsPrefix(needle, SubSeq(name, i, n))
      PROVE  needle \in SubSeqs(name)
  <2>. DEFINE k == i - 1
              j == k + m
  <2>1. k \in 0 .. n /\ k + 1 = i
    BY <1>1
  <2>2. m <= n - k /\ \A l \in 1 .. m : needle[l] = name[k + l]
    <3>. HIDE DEF k
    <3>. QED BY <1>3, <1>5, <2>1
  <2>3. j \in k .. n /\ j \in 0 .. n /\ j - k = m
    BY <1>1, <2>1, <2>2
  <2>. HIDE DEF k, j
  <2>4. /\ SubSeq(name, k + 1, j) \in Seq(S) /\ Len(SubSeq(name, k + 1, j)) = m
        /\ \A l \in 1 .. m : SubSeq(name, k + 1, j)[l] = name[k + l]
    BY <2>1, <2>3, PartByLetter
  <2>5. needle = SubSeq(name, k + 1, j)
    BY <2>2, <2>4, SeqEqual
  <2>. QED BY <2>1, <2>3, <2>5 DEF SubSeqs
<1>. QED BY <1>4, <1>5

\* How well a name answers, by the tiers.
LEMMA FitByTier ==
  ASSUME NEW name \in Seq(STRING), NEW needle \in Seq(STRING)
  PROVE  Fit(name, needle) = IF Exact(name, needle) THEN 3
                             ELSE IF Starts(name, needle) THEN 2
                             ELSE IF Within(name, needle) THEN 1 ELSE 0
<1>1. CASE name = needle
  BY <1>1 DEF Fit, Exact
<1>2. CASE name # needle /\ IsPrefix(needle, name)
  BY <1>2 DEF Fit, Exact, Starts
<1>3. CASE name # needle /\ ~IsPrefix(needle, name)
  <2>1. Within(name, needle) <=> \E i \in 1 .. Len(name) : IsPrefix(needle, SubSeq(name, i, Len(name)))
    BY <1>3, WithinIsPrefixOfRest DEF Within
  <2>. QED BY <1>3, <2>1 DEF Fit, Exact, Starts
<1>. QED BY <1>1, <1>2, <1>3

\* The best of those who answer to a fragment at all are the first tier that is not empty.
LEMMA BestAreTheTier ==
  ASSUME NEW views, \A v \in views : v.name \in Seq(STRING), NEW needle \in Seq(STRING)
  PROVE  {v \in views : Fit(v.name, needle) > 0
                         /\ \A w \in views : Fit(w.name, needle) <= Fit(v.name, needle)}
           = NameTier(views, needle)
<1>. DEFINE exact(v) == Exact(v.name, needle)
            starts(v) == Starts(v.name, needle)
            within(v) == Within(v.name, needle)
            fit(v) == Fit(v.name, needle)
            best == {v \in views : fit(v) > 0 /\ \A w \in views : fit(w) <= fit(v)}
<1>1. \A v \in views : fit(v) = IF exact(v) THEN 3 ELSE IF starts(v) THEN 2 ELSE IF within(v) THEN 1 ELSE 0
  BY FitByTier
<1>2. /\ (\E v \in views : exact(v)) => NameTier(views, needle) = {v \in views : exact(v)}
      /\ ~(\E v \in views : exact(v)) /\ (\E v \in views : starts(v)) =>
           NameTier(views, needle) = {v \in views : starts(v)}
      /\ ~(\E v \in views : exact(v)) /\ ~(\E v \in views : starts(v)) =>
           NameTier(views, needle) = {v \in views : within(v)}
  BY DEF NameTier
<1>. HIDE DEF exact, starts, within, fit
<1>3. CASE \E v \in views : exact(v)
  <2>1. \A v \in views : fit(v) > 0 /\ (\A w \in views : fit(w) <= fit(v)) <=> exact(v)
    <3>1. \A v \in views : fit(v) \in 0 .. 3 /\ (fit(v) = 3 <=> exact(v))
      BY <1>1, <1>3
    <3>2. PICK u \in views : fit(u) = 3
      BY <1>3, <3>1
    <3>. QED BY <3>1, <3>2
  <2>. QED BY <1>2, <1>3, <2>1 DEF fit
<1>4. CASE ~(\E v \in views : exact(v)) /\ (\E v \in views : starts(v))
  <2>1. \A v \in views : fit(v) > 0 /\ (\A w \in views : fit(w) <= fit(v)) <=> starts(v)
    <3>1. \A v \in views : fit(v) \in 0 .. 2 /\ (fit(v) = 2 <=> starts(v))
      BY <1>1, <1>4
    <3>2. PICK u \in views : fit(u) = 2
      BY <1>4, <3>1
    <3>. QED BY <3>1, <3>2
  <2>. QED BY <1>2, <1>4, <2>1 DEF fit
<1>5. CASE ~(\E v \in views : exact(v)) /\ ~(\E v \in views : starts(v))
  <2>1. \A v \in views : fit(v) > 0 /\ (\A w \in views : fit(w) <= fit(v)) <=> within(v)
    BY <1>1, <1>5
  <2>. QED BY <1>2, <1>5, <2>1 DEF fit
<1>. QED BY <1>3, <1>4, <1>5

\* Group and Meant, of any caller's slot.
GroupBy(views, word, slot) ==
  { v \in views :
      CASE word = "@me" -> v.slot = slot
        [] word = "@!me" -> v.slot # slot
        [] word \in {"@t", "@randomt"} -> v.team = TeamT
        [] word \in {"@ct", "@randomct"} -> v.team = TeamCT
        [] word = "@spec" -> v.team = TeamSpectator
        [] word = "@dead" -> ~v.alive
        [] word = "@alive" -> v.alive
        [] word \in {"@bot", "@bots"} -> v.bot
        [] word \in {"@human", "@humans"} -> ~v.bot
        [] OTHER -> TRUE }

MeantBy(views, token, slot) ==
  LET fit(v) == Fit(v.name, token.letters)
  IN CASE token.word # None -> GroupBy(views, token.word, slot)
       [] token.word = None /\ token.slot # None /\ token.slot >= 0 -> {v \in views : v.slot = token.slot}
       [] token.word = None /\ token.slot = None /\ (token.isId \/ token.steamId # None) ->
            {v \in views : v.steamId = IF token.isId THEN token.number ELSE token.steamId}
       [] OTHER -> {v \in views : fit(v) > 0 /\ \A w \in views : fit(w) <= fit(v)}

\* What a selector word selects is the group it stands for.
LEMMA WordsSelectTheirGroup ==
  ASSUME NEW views, NEW slot, NEW word \in SelectorWords
  PROVE  GroupBy(views, word, slot) = Candidates(views, Selector(word), slot)
<1>1. CASE word \in {"@all", "@*", "@random"}
  BY <1>1 DEF GroupBy, Candidates, Selector, Query
<1>2. CASE word = "@me"
  BY <1>2 DEF GroupBy, Candidates, Selector, Query
<1>3. CASE word = "@!me"
  BY <1>3 DEF GroupBy, Candidates, Selector, Query
<1>4. CASE word = "@t"
  BY <1>4 DEF GroupBy, Candidates, Selector, TeamQuery, Query
<1>5. CASE word = "@randomt"
  BY <1>5 DEF GroupBy, Candidates, Selector, TeamQuery, Query
<1>6. CASE word = "@ct"
  BY <1>6 DEF GroupBy, Candidates, Selector, TeamQuery, Query
<1>7. CASE word = "@randomct"
  BY <1>7 DEF GroupBy, Candidates, Selector, TeamQuery, Query
<1>8. CASE word = "@spec"
  BY <1>8 DEF GroupBy, Candidates, Selector, TeamQuery, Query
<1>9. CASE word = "@dead"
  BY <1>9 DEF GroupBy, Candidates, Selector, Query
<1>10. CASE word = "@alive"
  BY <1>10 DEF GroupBy, Candidates, Selector, Query
<1>11. CASE word \in {"@bot", "@bots"}
  BY <1>11 DEF GroupBy, Candidates, Selector, Query
<1>12. CASE word \in {"@human", "@humans"}
  BY <1>12 DEF GroupBy, Candidates, Selector, Query
<1>. QED BY <1>1, <1>2, <1>3, <1>4, <1>5, <1>6, <1>7, <1>8, <1>9, <1>10, <1>11, <1>12 DEF SelectorWords

\* The words that pick one of several are those that ask for a random player.
LEMMA RandomByWord ==
  ASSUME NEW token \in Token
  PROVE  token.word \in RandomWords <=> ParseTargetToken(token).kind \in {"Random", "RandomTeam"}
<1>1. token.word \in SelectorWords \cup {None}
  BY DEF Token
<1>2. CASE token.word # None
  <2>1. ParseTargetToken(token) = Selector(token.word) /\ token.word \in SelectorWords
    BY <1>1, <1>2 DEF ParseTargetToken
  <2>2. \A word \in SelectorWords : word \in RandomWords <=> Selector(word).kind \in {"Random", "RandomTeam"}
    BY DEF SelectorWords, RandomWords, Selector, TeamQuery, Query
  <2>. QED BY <2>1, <2>2
<1>3. CASE token.word = None
  <2>1. token.word \notin RandomWords
    BY <1>3, WordsAssumption DEF SelectorWords, RandomWords
  <2>2. ParseTargetToken(token) \in
          {[Query("Slot") EXCEPT !.slot = CastInt(token.slot)],
           [Query("SteamId") EXCEPT !.steamId = token.number],
           [Query("SteamId") EXCEPT !.steamId = token.steamId],
           [Query("Name") EXCEPT !.needle = token.letters]}
    BY <1>3 DEF ParseTargetToken
  <2>. QED BY <2>1, <2>2 DEF Query
<1>. QED BY <1>2, <1>3

\* A token that is read as what it says means the candidates of its query.
LEMMA MeantAreCandidates ==
  ASSUME NEW views, \A v \in views : v.name \in Seq(STRING), NEW token \in Token, IsInt(token.slot), NEW slot
  PROVE  MeantBy(views, token, slot) = Candidates(views, ParseTargetToken(token), slot)
<1>. DEFINE query == ParseTargetToken(token)
<1>1. /\ token.word \in SelectorWords \cup {None} /\ token.slot \in Int \cup {None}
      /\ token.letters \in Seq(STRING) /\ token.isId \in BOOLEAN
  BY DEF Token
<1>2. CASE token.word # None
  <2>1. query = Selector(token.word) /\ MeantBy(views, token, slot) = GroupBy(views, token.word, slot)
    BY <1>2 DEF ParseTargetToken, MeantBy
  <2>. QED BY <1>1, <1>2, <2>1, WordsSelectTheirGroup
<1>3. CASE token.word = None /\ token.slot # None /\ token.slot >= 0
  <2>1. CastInt(token.slot) = token.slot
    BY <1>1, <1>3, CastIntFits
  <2>2. query = [Query("Slot") EXCEPT !.slot = token.slot]
    BY <1>3, <2>1 DEF ParseTargetToken
  <2>3. query.kind = "Slot" /\ query.slot = token.slot
    BY <2>2 DEF Query
  <2>4. MeantBy(views, token, slot) = {v \in views : v.slot = token.slot}
    BY <1>3 DEF MeantBy
  <2>. HIDE DEF query
  <2>. QED BY <2>3, <2>4 DEF Candidates, query
<1>4. CASE token.word = None /\ token.slot = None /\ (token.isId \/ token.steamId # None)
  <2>. DEFINE id == IF token.isId THEN token.number ELSE token.steamId
  <2>1. query = [Query("SteamId") EXCEPT !.steamId = id]
    BY <1>1, <1>4 DEF ParseTargetToken
  <2>2. MeantBy(views, token, slot) = {v \in views : v.steamId = id}
    BY <1>4 DEF MeantBy
  <2>. HIDE DEF id
  <2>3. query.kind = "SteamId" /\ query.steamId = id
    BY <2>1 DEF Query
  <2>. HIDE DEF query
  <2>. QED BY <2>2, <2>3 DEF Candidates, query
<1>5. CASE /\ token.word = None
           /\ ~(token.slot # None /\ token.slot >= 0)
           /\ ~(token.slot = None /\ (token.isId \/ token.steamId # None))
  <2>. DEFINE needle == token.letters
  <2>1. query = [Query("Name") EXCEPT !.needle = needle]
    BY <1>1, <1>5 DEF ParseTargetToken
  <2>2. MeantBy(views, token, slot)
          = {v \in views : Fit(v.name, needle) > 0
                            /\ \A w \in views : Fit(w.name, needle) <= Fit(v.name, needle)}
    BY <1>5 DEF MeantBy
  <2>3. needle \in Seq(STRING)
    BY <1>1
  <2>. HIDE DEF needle
  <2>4. MeantBy(views, token, slot) = NameTier(views, needle)
    BY <2>2, <2>3, BestAreTheTier
  <2>5. query.kind = "Name" /\ query.needle = needle
    BY <2>1 DEF Query
  <2>. HIDE DEF query
  <2>. QED BY <2>4, <2>5 DEF Candidates, query
<1>. QED BY <1>2, <1>3, <1>4, <1>5

\* What a filter's answer says about the candidates and those of them the rules permit.
FilterTold(r, all, rules, query) ==
  LET fair == Permitted(all, rules)
      random == query.kind \in {"Random", "RandomTeam"}
  IN \/ /\ r.error = None
        /\ r.slots \subseteq Slots(fair)
        /\ ~random => r.slots = Slots(fair) /\ (Cardinality(fair) > 1 => rules.allowMultiple)
     \/ r.error = "NoMatch" /\ all = {}
     \/ /\ r.error = "Immune" /\ fair = {}
        /\ Permitted({[v EXCEPT !.targetable = TRUE] : v \in all}, rules) # {}
     \/ r.error \in {"BotNotAllowed", "DeadNotAllowed"} /\ all # {} /\ fair = {}
     \/ /\ r.error \in {"Ambiguous", "MultiNotAllowed"}
        /\ Cardinality(fair) > 1 /\ ~rules.allowMultiple /\ ~random

LEMMA FilterTells ==
  ASSUME NEW views,
         \A v \in views : {"targetable", "bot", "alive"} \subseteq DOMAIN v /\ v = [f \in DOMAIN v |-> v[f]],
         NEW query, NEW arg \in Arg, NEW slot, NEW r \in FilterRoster(views, query, arg.rules, slot)
  PROVE  FilterTold(r, Candidates(views, query, slot), arg.rules, query)
<1>. DEFINE all == Candidates(views, query, slot)
            fair == Permitted(all, arg.rules)
            random == query.kind \in {"Random", "RandomTeam"}
<1>. SUFFICES \/ /\ r.error = None
                 /\ r.slots \subseteq Slots(fair)
                 /\ ~random => r.slots = Slots(fair) /\ (Cardinality(fair) > 1 => arg.rules.allowMultiple)
              \/ r.error = "NoMatch" /\ all = {}
              \/ /\ r.error = "Immune" /\ fair = {}
                 /\ Permitted({[v EXCEPT !.targetable = TRUE] : v \in all}, arg.rules) # {}
              \/ r.error \in {"BotNotAllowed", "DeadNotAllowed"} /\ all # {} /\ fair = {}
              \/ /\ r.error \in {"Ambiguous", "MultiNotAllowed"}
                 /\ Cardinality(fair) > 1 /\ ~arg.rules.allowMultiple /\ ~random
  BY DEF FilterTold
<1>. DEFINE rules == arg.rules
            bodies == IF rules.allowBots THEN all ELSE {p \in all : ~p.bot}
            living == IF rules.allowDead THEN bodies ELSE {p \in bodies : p.alive}
            open == {p \in living : p.targetable}
            many == Cardinality(open)
<1>1. rules.allowBots \in BOOLEAN /\ rules.allowDead \in BOOLEAN /\ rules.allowMultiple \in BOOLEAN
  BY DEF Arg
<1>2. open = fair /\ living = {v \in all : (rules.allowBots \/ ~v.bot) /\ (rules.allowDead \/ v.alive)}
  BY <1>1 DEF Permitted
<1>3. /\ all = {} => bodies = {}
      /\ bodies = {} => living = {}
      /\ living = {} => open = {}
      /\ all \subseteq views
  BY CandidatesAreThere
<1>4. /\ \A error, count : Failed(error, count).error = error
      /\ \A slots : Resolved(slots).slots = slots /\ Resolved(slots).error = None
  BY DEF Failed, Resolved
<1>5. \/ all = {} /\ r = Failed("NoMatch", 0)
      \/ all # {} /\ bodies = {} /\ r = Failed("BotNotAllowed", 0)
      \/ bodies # {} /\ living = {} /\ r = Failed("DeadNotAllowed", 0)
      \/ living # {} /\ open = {} /\ r = Failed("Immune", 0)
      \/ random /\ \E p \in open : r = Resolved({p.slot})
      \/ /\ ~random /\ many > 1 /\ ~rules.allowMultiple
         /\ r = Failed(IF query.kind = "Name" THEN "Ambiguous" ELSE "MultiNotAllowed", many)
      \/ ~random /\ ~(many > 1 /\ ~rules.allowMultiple) /\ r = Resolved(Slots(open))
  <2>. HIDE DEF open, living, bodies
  <2>. QED BY ZenonT(60), <1>3 DEF FilterRoster, open, living, bodies
<1>6. ASSUME NEW v \in living
      PROVE  Permitted({[w EXCEPT !.targetable = TRUE] : w \in all}, rules) # {}
  <2>. DEFINE open1 == [v EXCEPT !.targetable = TRUE]
  <2>1. v \in all /\ v \in views /\ (rules.allowBots \/ ~v.bot) /\ (rules.allowDead \/ v.alive)
    BY <1>2, <1>3
  <2>2. open1.targetable /\ open1.bot = v.bot /\ open1.alive = v.alive
    BY <2>1
  <2>3. open1 \in {[w EXCEPT !.targetable = TRUE] : w \in all}
    BY <2>1
  <2>. HIDE DEF open1
  <2>4. open1 \in Permitted({[w EXCEPT !.targetable = TRUE] : w \in all}, rules)
    BY <2>1, <2>2, <2>3 DEF Permitted
  <2>. QED BY <2>4
<1>. HIDE DEF open, living, bodies
<1>7. CASE living # {} /\ open = {} /\ r = Failed("Immune", 0)
  BY <1>2, <1>4, <1>6, <1>7
<1>8. CASE random /\ \E p \in open : r = Resolved({p.slot})
  BY <1>2, <1>4, <1>8 DEF Slots
<1>9. CASE ~random /\ ~(many > 1 /\ ~rules.allowMultiple) /\ r = Resolved(Slots(open))
  BY <1>1, <1>2, <1>4, <1>9
<1>10. CASE /\ ~random /\ many > 1 /\ ~rules.allowMultiple
            /\ r = Failed(IF query.kind = "Name" THEN "Ambiguous" ELSE "MultiNotAllowed", many)
  BY <1>2, <1>4, <1>10
<1>11. CASE all = {} /\ r = Failed("NoMatch", 0)
  BY <1>4, <1>11
<1>12. CASE \/ all # {} /\ bodies = {} /\ r = Failed("BotNotAllowed", 0)
            \/ bodies # {} /\ living = {} /\ r = Failed("DeadNotAllowed", 0)
  BY <1>2, <1>3, <1>4, <1>12
<1>. QED BY <1>5, <1>7, <1>8, <1>9, <1>10, <1>11, <1>12

\* Arguments that are no targets leave the targets alone.
LEMMA TargetsStay ==
  ASSUME NEW c, c = [f \in Fields |-> c[f]], NEW spec \in Arg, spec.kind \notin {"Target", "TargetOrSteamId"},
         NEW args, NEW caller, NEW d \in ResolveArg(c, spec, args, caller)
  PROVE  d.target = c.target /\ d.targets = c.targets
<1>. DEFINE token == args[c.i]
<1>1. CASE d \in DurationArg(c, token, spec)
  BY <1>1 DEF DurationArg, Took, Fail, Fields
<1>2. CASE \/ d = c \/ d = [c EXCEPT !.reason = "fallback"] \/ d = Usage(c)
           \/ d = [Took(c) EXCEPT !.steamId = token.number] \/ d = Fail(c, "badSteamId")
           \/ d = [Took(c) EXCEPT !.int = CastInt(token.number)]
           \/ d = [Took(c) EXCEPT !.word = token]
           \/ d = [c EXCEPT !.i = Len(args) + 1, !.reason = SubSeq(args, c.i, Len(args))]
  BY <1>2 DEF Took, Fail, Usage, Fields
<1>3. \/ d \in DurationArg(c, token, spec)
      \/ d = c \/ d = [c EXCEPT !.reason = "fallback"] \/ d = Usage(c)
      \/ d = [Took(c) EXCEPT !.steamId = token.number] \/ d = Fail(c, "badSteamId")
      \/ d = [Took(c) EXCEPT !.int = CastInt(token.number)]
      \/ d = [Took(c) EXCEPT !.word = token]
      \/ d = [c EXCEPT !.i = Len(args) + 1, !.reason = SubSeq(args, c.i, Len(args))]
  BY DEF ResolveArg
<1>. QED BY <1>1, <1>2, <1>3

\* In a plain command that begins with a target, what this argument made of the targets, or the
\* refusal it ended in, stands to the end.
Stands(c, b) == c.target = b.target /\ c.targets = b.targets /\ (b.state # "ok" => c = b)

LEMMA FirstTargetStands ==
  ASSUME KnownBySlot, NEW cmd, cmd.args \in Seq(Arg), PlainSpec(cmd), cmd.args # << >>,
         cmd.args[1].kind = "Target", NEW args, NEW caller, NEW e \in ResolveArgs(cmd, args, caller)
  PROVE  \E b \in ResolveArg(Context(1), cmd.args[1], args, caller) : Stands(e, b)
<1>. DEFINE last == Len(cmd.args)
            first == ResolveArg(Context(1), cmd.args[1], args, caller)
<1>1. last \in Nat /\ last >= 1 /\ DOMAIN cmd.args = 1 .. last /\ \A j \in 1 .. last : cmd.args[j] \in Arg
  <2>1. last \in Nat /\ last # 0
    BY EmptySeq, LenProperties
  <2>. QED BY <2>1
<1>2. PICK after :
        /\ ResolveArgs(cmd, args, caller) = after[last]
        /\ after[0] = Beginning
        /\ \A n \in 1 .. last : after[n] = OneMore(after[n - 1], cmd.args[n], args, caller)
  BY <1>1, ArgsInOrder
<1>. HIDE DEF last, first
<1>. DEFINE Good(d) == EntitledContext(d, caller) /\ \E b \in first : Stands(d, b)
            G == {n \in Nat : n + 1 <= last => \A d \in after[n + 1] : Good(d)}
<1>3. 0 \in G
  <2>1. EntitledContext(Context(1), caller)
    BY DEF EntitledContext, Context, Fields
  <2>2. after[1] = first
    <3>1. 1 \in 1 .. last /\ 1 - 1 = 0
      BY <1>1
    <3>2. after[1] = OneMore(Beginning, cmd.args[1], args, caller)
      BY <1>2, <3>1
    <3>. QED BY <3>2 DEF OneMore, Beginning, first
  <2>3. \A d \in first : EntitledContext(d, caller)
    BY <2>1, ArgumentsKeepEntitled DEF first
  <2>. QED BY <2>2, <2>3 DEF Stands
<1>4. ASSUME NEW n \in Nat, n \in G
      PROVE  n + 1 \in G
  <2>. SUFFICES ASSUME (n + 1) + 1 <= last, NEW d \in after[(n + 1) + 1]
                PROVE  Good(d)
    OBVIOUS
  <2>1. /\ n + 2 \in 1 .. last /\ (n + 2) - 1 = n + 1 /\ (n + 1) + 1 = n + 2
        /\ n + 1 <= last /\ 1 \in 1 .. last /\ 1 < n + 2
    BY <1>1
  <2>2. PICK c \in after[n + 1] : d \in ResolveArg(c, cmd.args[n + 2], args, caller)
    BY <1>2, <2>1 DEF OneMore
  <2>3. EntitledContext(c, caller) /\ \E b \in first : Stands(c, b)
    BY <1>4, <2>1, <2>2
  <2>4. PICK b \in first : Stands(c, b)
    BY <2>3
  <2>5. EntitledContext(d, caller)
    BY <2>2, <2>3, ArgumentsKeepEntitled
  <2>6. cmd.args[n + 2] \in Arg /\ cmd.args[n + 2].kind \notin {"Target", "TargetOrSteamId"}
    <3>1. Fills(cmd.args[1].kind) \cap Fills(cmd.args[n + 2].kind) = {}
      BY <1>1, <2>1 DEF PlainSpec
    <3>. QED BY <1>1, <2>1, <3>1 DEF Fills
  <2>7. d.target = c.target /\ d.targets = c.targets
    BY <2>2, <2>3, <2>6, TargetsStay DEF EntitledContext
  <2>8. c.state # "ok" => d = c
    BY <2>2 DEF ResolveArg
  <2>. QED BY <2>4, <2>5, <2>7, <2>8 DEF Stands
<1>5. last - 1 \in Nat /\ (last - 1) + 1 = last
  BY <1>1
<1>6. Nat \subseteq G
  <2>. HIDE DEF G
  <2>. QED BY <1>3, <1>4, CountedUp
<1>7. \A d \in after[last] : Good(d)
  <2>. DEFINE before == last - 1
  <2>1. before + 1 = last /\ before + 1 <= last
    BY <1>1, <1>5
  <2>2. before \in G
    <3>. HIDE DEF G
    <3>. QED BY <1>5, <1>6
  <2>. HIDE DEF before, Good
  <2>. QED BY <2>1, <2>2
<1>. QED BY <1>2, <1>7 DEF first

\* TargetsAreMeant, of any outcome of a command's first argument.
OutcomeIsMeant(c, rules, token, slot, views) ==
  LET meant == MeantBy(views, token, slot)
      fair == Permitted(meant, rules)
      random == token.word \in RandomWords
      acted == ({c.target} \cup c.targets) \ {None}
  IN CASE c.target # None ->
            /\ acted \subseteq Slots(fair)
            /\ Cardinality(fair) > 1 /\ ~random => rules.allowMultiple /\ acted = Slots(fair)
       [] c.target = None /\ c.reply = "NoMatch" -> meant = {}
       [] c.target = None /\ c.reply = "Immune" ->
            fair = {} /\ Permitted({[v EXCEPT !.targetable = TRUE] : v \in meant}, rules) # {}
       [] c.target = None /\ c.reply \in {"BotNotAllowed", "DeadNotAllowed"} ->
            meant # {} /\ fair = {}
       [] OTHER -> Cardinality(fair) > 1 /\ ~rules.allowMultiple /\ ~random

\* The views of the roster have names and the facts that the rules ask.
LEMMA RosterIsSeen ==
  ASSUME KnownBySlot, NEW caller, NEW v \in Roster(caller)
  PROVE  /\ v.name \in Seq(STRING)
         /\ {"targetable", "bot", "alive"} \subseteq DOMAIN v /\ v = [f \in DOMAIN v |-> v[f]]
<1>1. PICK p \in GetAllPlayers : v = View(p, caller)
  BY DEF Roster
<1>2. p.steamId \in SteamId
  BY DEF GetAllPlayers, KnownBySlot
<1>3. v.name = NameOf[p.steamId]
  BY <1>1 DEF View
<1>4. {"targetable", "bot", "alive"} \subseteq DOMAIN v /\ v = [f \in DOMAIN v |-> v[f]]
  BY <1>1 DEF View
<1>. QED BY <1>2, <1>3, <1>4, NamesAssumption

\* What a first target argument comes to is what its token means.
LEMMA FirstTargetIsMeant ==
  ASSUME KnownBySlot, NEW arg \in Arg, arg.kind = "Target", NEW args \in Seq(Token), args # << >>,
         IsInt(args[1].slot), NEW caller, NEW b \in ResolveArg(Context(1), arg, args, caller)
  PROVE  /\ OutcomeIsMeant(b, arg.rules, args[1], caller.slot, Roster(caller))
         /\ b.state = "ok" => b.target # None
<1>. DEFINE token == args[1]
            c == Context(1)
            views == Roster(caller)
            slot == caller.slot
            query == ParseTargetToken(token)
            all == Candidates(views, query, slot)
            fair == Permitted(all, arg.rules)
            random == query.kind \in {"Random", "RandomTeam"}
<1>1. token \in Token /\ ~(1 > Len(args))
  <2>1. Len(args) \in Nat /\ Len(args) # 0
    BY EmptySeq, LenProperties
  <2>. QED BY <2>1
<1>2. /\ c.i = 1 /\ c.state = "ok" /\ c.target = None /\ c.targets = {}
      /\ c = [f \in Fields |-> c[f]]
  BY DEF Context, Fields
<1>3. b \in TargetArg(c, token, caller, arg)
  BY <1>1, <1>2 DEF ResolveArg
<1>4. PICK r \in ResolveTargets(token, caller, arg.rules) :
        b = IF r.error # None THEN Fail(c, r.error)
            ELSE [Took(c) EXCEPT !.target = CHOOSE s \in r.slots : TRUE,
                                 !.targets = IF arg.rules.allowMultiple THEN r.slots ELSE {}]
  BY <1>3 DEF TargetArg
<1>5. r \in FilterRoster(views, query, arg.rules, slot)
  BY <1>4 DEF ResolveTargets
<1>6. MeantBy(views, token, slot) = all
  BY <1>1, RosterIsSeen, MeantAreCandidates
<1>10. token.word \in RandomWords <=> random
  BY <1>1, RandomByWord
<1>7. FilterTold(r, all, arg.rules, query)
  <2>1. \A v \in views : {"targetable", "bot", "alive"} \subseteq DOMAIN v /\ v = [f \in DOMAIN v |-> v[f]]
    BY RosterIsSeen
  <2>. HIDE DEF views, query, slot
  <2>. QED BY <1>5, <2>1, FilterTells
<1>8. CASE r.error # None
  <2>1. b.target = None /\ b.targets = {} /\ b.reply = r.error /\ b.state = "failed"
    <3>1. b = Fail(c, r.error)
      BY <1>4, <1>8
    <3>. HIDE DEF c
    <3>. QED BY <1>2, <3>1 DEF Fail, Fields
  <2>. HIDE DEF all, views, query, slot, token, c
  <2>2. OutcomeIsMeant(b, arg.rules, token, slot, views)
    BY <1>6, <1>7, <1>8, <1>10, <2>1 DEF OutcomeIsMeant, FilterTold, query
  <2>. QED BY <2>1, <2>2 DEF token, slot, views
<1>9. CASE r.error = None
  <2>. DEFINE chosen == CHOOSE s \in r.slots : TRUE
              many == IF arg.rules.allowMultiple THEN r.slots ELSE {}
  <2>1. r.slots # {} /\ \A s \in r.slots : s # None
    BY <1>4, <1>9, ResolvedAreEntitled, NobodyAssumption DEF Entitled
  <2>2. chosen \in r.slots /\ chosen # None
    BY <2>1
  <2>3. b.target = chosen /\ b.targets = many
    <3>1. b = [Took(c) EXCEPT !.target = chosen, !.targets = many]
      BY <1>4, <1>9
    <3>. HIDE DEF c, chosen, many
    <3>. QED BY <1>2, <3>1 DEF Took, Fields
  <2>. DEFINE acted == ({b.target} \cup b.targets) \ {None}
  <2>4. acted \subseteq r.slots /\ (arg.rules.allowMultiple => acted = r.slots)
    <3>. HIDE DEF chosen
    <3>. QED BY <2>1, <2>2, <2>3
  <2>5. r.slots \subseteq Slots(fair)
        /\ (~random => r.slots = Slots(fair) /\ (Cardinality(fair) > 1 => arg.rules.allowMultiple))
    <3>. HIDE DEF all, query
    <3>. QED BY <1>7, <1>9, ErrorsAssumption DEF FilterTold
  <2>. HIDE DEF all, views, query, slot, token, chosen
  <2>6. OutcomeIsMeant(b, arg.rules, token, slot, views)
    BY <1>6, <1>10, <2>2, <2>3, <2>4, <2>5 DEF OutcomeIsMeant, query
  <2>. QED BY <2>2, <2>3, <2>6 DEF token, slot, views
<1>. QED BY <1>8, <1>9

\* What a command's contexts say of its target and of its arguments, on the roster it was given on.
LEMMA ContextsAreMeant ==
  ASSUME KnownBySlot, NEW cmd, cmd.args \in Seq(Arg), PlainSpec(cmd), NEW args \in Seq(Token), NEW caller,
         Fitting(cmd, args), NEW c \in ResolveArgs(cmd, args, caller)
  PROVE  /\ args # << >> /\ cmd.args # << >> /\ cmd.args[1].kind = "Target" =>
              OutcomeIsMeant(c, cmd.args[1].rules, args[1], caller.slot, Roster(caller))
         /\ c.state = "ok" => \A i \in DOMAIN cmd.args : ArgumentServed(c, cmd.args[i], args, i)
<1>1. ASSUME args # << >>, cmd.args # << >>, cmd.args[1].kind = "Target"
      PROVE  OutcomeIsMeant(c, cmd.args[1].rules, args[1], caller.slot, Roster(caller))
  <2>1. cmd.args[1] \in Arg
    <3>1. Len(cmd.args) \in Nat /\ Len(cmd.args) # 0
      BY <1>1, EmptySeq, LenProperties
    <3>. QED BY <3>1
  <2>2. PICK b \in ResolveArg(Context(1), cmd.args[1], args, caller) : Stands(c, b)
    BY <1>1, FirstTargetStands
  <2>6. IsInt(args[1].slot)
    <3>1. 1 \in DOMAIN args
      BY <1>1, EmptySeq, LenProperties
    <3>. QED BY <3>1 DEF Fitting
  <2>3. /\ OutcomeIsMeant(b, cmd.args[1].rules, args[1], caller.slot, Roster(caller))
        /\ b.state = "ok" => b.target # None
    BY <1>1, <2>1, <2>2, <2>6, FirstTargetIsMeant
  <2>4. CASE b.state = "ok"
    <3>1. c.target = b.target /\ c.targets = b.targets /\ b.target # None
      BY <2>2, <2>3, <2>4 DEF Stands
    <3>. QED BY <2>3, <3>1 DEF OutcomeIsMeant
  <2>5. CASE b.state # "ok"
    BY <2>2, <2>3, <2>5 DEF Stands
  <2>. QED BY <2>4, <2>5
<1>2. ASSUME c.state = "ok", NEW i \in DOMAIN cmd.args
      PROVE  ArgumentServed(c, cmd.args[i], args, i)
  <2>1. i \in 1 .. Len(cmd.args)
    OBVIOUS
  <2>. QED BY <1>2, <2>1, CommandsAreServed DEF ServedSoFar
<1>. QED BY <1>1, <1>2

\* What a chat line comes to is what it says.
LEMMA LinesAreMeant ==
  ASSUME PolicyInv, \A cmd \in Spec0 \cup Extra : PlainSpec(cmd), NumbersFit(Lines, Spec0 \cup Extra),
         NEW s \in Slot, NEW line \in Lines,
         HandleChatMessage(bySlot[s], line), UNCHANGED bySlot
  PROVE  ArgumentsAreMeant'
<1>1. PICK p : p = bySlot[s]
  OBVIOUS
<1>2. HandleChatMessage(p, line)
  BY <1>1
<1>3. CASE did' = NotACommand(p, line)
  BY <1>3 DEF NotACommand, NothingDone, ArgumentsAreMeant, TargetsAreMeant, HandlersAreServed
<1>4. CASE \E cmd \in GetCommand(line.word) :
             did' = [NotACommand(p, line) EXCEPT !.cmd = cmd, !.with = Fail(Context(1), "noPermission")]
  <2>1. did'.with.reply = "noPermission" /\ did'.ran = None
    BY <1>4 DEF NotACommand, NothingDone, Fail, Context
  <2>. QED BY <2>1 DEF ArgumentsAreMeant, TargetsAreMeant, HandlersAreServed
<1>5. ASSUME NEW cmd \in GetCommand(line.word), NEW c \in ResolveArgs(cmd, line.args, p),
             did' = [NotACommand(p, line) EXCEPT !.cmd = cmd, !.with = c,
                       !.ran = IF c.state = "ok" THEN cmd ELSE None]
      PROVE  ArgumentsAreMeant'
  <2>1. cmd.args \in Seq(Arg) /\ PlainSpec(cmd) /\ line.args \in Seq(Token)
    BY SpecsAssumption, LinesAssumption DEF GetCommand, PolicyInv
  <2>2. /\ line.args # << >> /\ cmd.args # << >> /\ cmd.args[1].kind = "Target" =>
             OutcomeIsMeant(c, cmd.args[1].rules, line.args[1], p.slot, Roster(p))
        /\ c.state = "ok" => \A i \in DOMAIN cmd.args : ArgumentServed(c, cmd.args[i], line.args, i)
    <3>1. cmd \in Spec0 \cup Extra /\ Matches(cmd, line.word)
      BY DEF GetCommand, PolicyInv, Matches
    <3>2. Fitting(cmd, line.args)
      BY <3>1 DEF Fitting, NumbersFit
    <3>. QED BY <1>5, <2>1, <3>2, ContextsAreMeant DEF PolicyInv
  <2>3. /\ did'.caller = p /\ did'.line = line /\ did'.cmd = cmd /\ did'.with = c
        /\ did'.ran = IF c.state = "ok" THEN cmd ELSE None
    BY <1>5 DEF NotACommand, NothingDone
  <2>4. Roster(did.caller)' = Roster(p)
    <3>1. controller' = controller
      BY DEF HandleChatMessage
    <3>. QED BY <2>3, <3>1 DEF Roster, GetAllPlayers, View, CanTarget
  <2>5. TargetsAreMeant'
    <3>. SUFFICES ASSUME line.args # << >>, cmd.args # << >>, cmd.args[1].kind = "Target"
                  PROVE  TargetsAreMeant'
      BY <2>3 DEF TargetsAreMeant
    <3>1. OutcomeIsMeant(c, cmd.args[1].rules, line.args[1], p.slot, Roster(p))
      BY <2>2
    <3>2. ActedOn' = ({c.target} \cup c.targets) \ {None}
      BY <2>3 DEF ActedOn
    <3>3. Meant(Roster(did.caller), did.line.args[1])' = MeantBy(Roster(p), line.args[1], p.slot)
      BY <2>3, <2>4 DEF Meant, MeantBy, Group, GroupBy
    <3>. QED BY <2>3, <2>4, <3>1, <3>2, <3>3 DEF TargetsAreMeant, OutcomeIsMeant
  <2>6. HandlersAreServed'
    <3>. SUFFICES ASSUME c.state = "ok"
                  PROVE  HandlersAreServed'
      BY <2>3 DEF HandlersAreServed
    <3>1. ASSUME NEW i \in DOMAIN cmd.args
          PROVE  ArgumentServed(c, cmd.args[i], line.args, i) /\ (i > Len(line.args) <=> ~(i <= Len(line.args)))
      <4>1. i \in Nat /\ Len(line.args) \in Nat
        BY <2>1
      <4>. QED BY <2>2, <4>1
    <3>2. did'.ran = cmd
      BY <2>3
    <3>. QED BY <2>3, <3>1, <3>2 DEF HandlersAreServed, ArgumentServed, Served
  <2>. QED BY <2>5, <2>6 DEF ArgumentsAreMeant
<1>. QED BY <1>2, <1>3, <1>4, <1>5 DEF HandleChatMessage

\* A chat command reaches the players that its token means and its rules permit, or is refused with
\* what is true of the roster, and a handler gets every argument from its own token: for any plain
\* commands, any names, teams and deaths, any policy, and any lines whose numbers fit an int.
THEOREM ArgumentsAreMeantHolds ==
  ASSUME \A cmd \in Spec0 \cup Extra : PlainSpec(cmd), NumbersFit(Lines, Spec0 \cup Extra)
  PROVE  ServerSpec => []ArgumentsAreMeant
<1>. DEFINE MeantInv == PolicyInv /\ ArgumentsAreMeant
<1>1. ASSUME did = NothingDone
      PROVE  ArgumentsAreMeant
  BY <1>1 DEF ArgumentsAreMeant, TargetsAreMeant, HandlersAreServed, NothingDone
<1>2. ASSUME did' = NothingDone
      PROVE  ArgumentsAreMeant'
  BY <1>2 DEF ArgumentsAreMeant, TargetsAreMeant, HandlersAreServed, NothingDone
<1>3. ServerInit => MeantInv
  <2>1. ServerInit => PolicyInv
    BY DEF ServerInit, Init, CommandsInit, PolicyInv, KnownBySlot, ActsWithinPolicy, NothingDone
  <2>. QED BY <1>1, <2>1 DEF ServerInit, CommandsInit
<1>4. MeantInv /\ [ServerNext]_serverVars => MeantInv'
  <2>. SUFFICES ASSUME MeantInv, [ServerNext]_serverVars
                PROVE  ArgumentsAreMeant'
    BY PolicyKept
  <2>1. CASE RosterStep
    BY <1>2, <2>1 DEF RosterStep
  <2>2. CASE StateStep \/ TimerStep
    BY <1>2, <2>2 DEF StateStep, TimerStep, commandVars, PolicyInv
  <2>3. CASE CommandStep
    <3>1. bySlot' = bySlot
      BY <2>3 DEF CommandStep, playerVars
    <3>2. CASE did' = NothingDone
      BY <1>2, <3>2
    <3>3. ASSUME NEW s \in Slot, NEW line \in Lines, HandleChatMessage(bySlot[s], line)
          PROVE  ArgumentsAreMeant'
      BY <3>1, <3>3, LinesAreMeant
    <3>4. ASSUME NEW s \in Slot, NEW t \in Slot, NEW action \in Actions, Run(s, t, action)
          PROVE  ArgumentsAreMeant'
      <4>1. did'.cmd = None /\ did'.line = None
        BY <3>4 DEF Run, NothingDone
      <4>. QED BY <4>1 DEF ArgumentsAreMeant, TargetsAreMeant, HandlersAreServed
    <3>. QED BY <2>3, <3>2, <3>3, <3>4
             DEF CommandStep, CommandsNext, Register, Unregister, ControllerChanges
  <2>4. CASE UNCHANGED serverVars
    <3>1. UNCHANGED <<bySlot, controller, did>>
      BY <2>4 DEF serverVars, playerVars, commandVars
    <3>2. Roster(did.caller)' = Roster(did.caller)
      BY <3>1 DEF Roster, GetAllPlayers, View, CanTarget
    <3>3. Meant(Roster(did.caller), did.line.args[1])' = Meant(Roster(did.caller), did.line.args[1])
      BY <3>1, <3>2 DEF Meant, Group
    <3>4. TargetsAreMeant'
      BY <3>1, <3>2, <3>3 DEF ArgumentsAreMeant, TargetsAreMeant, ActedOn
    <3>5. HandlersAreServed'
      BY <3>1 DEF ArgumentsAreMeant, HandlersAreServed
    <3>. QED BY <3>4, <3>5 DEF ArgumentsAreMeant
  <2>. QED BY <2>1, <2>2, <2>3, <2>4 DEF ServerNext
<1>. QED BY <1>3, <1>4, PTL DEF ServerSpec

=============================================================================
