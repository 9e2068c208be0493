------------------------------- MODULE Players -------------------------------
(* Who is on the server, as the kit knows it: Players::PlayerManager with its   *)
(* two indexes, the slot-change feed, and the per-slot state that hangs on the  *)
(* feed (Players::PerSlot and the rings of Sdk::InputHistoryService), driven by *)
(* the connect and disconnect hooks of Core::MetamodPluginBase.                 *)
(*                                                                              *)
(* client is the engine's own view of its slots.  The manager learns of a       *)
(* client only through the hooks: those connected when the plugin is loaded     *)
(* late are unknown to it until they reconnect.                                 *)
EXTENDS Integers, FiniteSets

CONSTANTS
  None,      \* no player
  Object,    \* identities of Player objects and connections
  Slot,      \* player slots
  SteamId,   \* SteamIDs, Bot included
  Bot,       \* the SteamID 0 that every bot shares
  Depths     \* history depths a plugin asks for

ASSUME SlotAssumption == Slot \subseteq Nat
ASSUME SteamIdAssumption == Bot \in SteamId
ASSUME NoneAssumption == None \notin [id : Object, slot : Slot, steamId : SteamId]
ASSUME DepthsAssumption == Depths \subseteq Nat \ {0}

VARIABLES
  client,      \* [Slot -> client or None], the engine's slots
  bySlot,      \* PlayerManager::_playersBySlot
  bySteamId,   \* PlayerManager::_playersBySteamId
  bound,       \* whether the plugin's PerSlot listens to the feed
  data,        \* PerSlot<T>: whose value each slot holds
  missed,      \* history: slots with a value that changed hands while the PerSlot was unbound
  depth,       \* InputHistoryService::_depth
  rings        \* InputHistoryService::_rings

valueVars == <<data, missed>>
playerVars == <<client, bySlot, bySteamId, bound, valueVars, depth, rings>>

Player == [id : Object, slot : Slot, steamId : SteamId]

\* Samples past the count cannot be read, so clearing the head and the count clears them.
EmptyRing(d) == [samples |-> [i \in 0 .. d - 1 |-> None], head |-> 0, count |-> 0]

\* The ago-th newest sample, by the arithmetic of the ring buffer.
At(s, ago) == rings[s].samples[(rings[s].head - 1 - ago + 2 * depth) % depth]

GetPlayerBySlot(s) == bySlot[s]
GetPlayerBySteamId(id) == bySteamId[id]

-------------------------------------------------------------------------------
\* PerSlot<T>'s own listener, which is there only between BindReset and Unbind.
Reset(changed) ==
  IF bound
  THEN /\ data' = [s \in Slot |-> IF s \in changed THEN None ELSE data[s]]
       /\ missed' = missed \ changed
  ELSE /\ UNCHANGED data
       /\ missed' = missed \cup {s \in changed : data[s] # None}

\* Mutant of FireSlotChange: the rings are not on the feed.
FireSlotChangeDataOnly(changed) == Reset(changed) /\ rings' = rings

\* Every listener of the feed, for the slots that changed.
FireSlotChange(changed) ==
  /\ Reset(changed)
  /\ rings' = [s \in Slot |-> IF depth > 0 /\ s \in changed THEN EmptyRing(depth) ELSE rings[s]]

AddPlayer(p) ==
  /\ bySlot' = [bySlot EXCEPT ![p.slot] = p]
  /\ bySteamId' = [bySteamId EXCEPT ![p.steamId] = p]
  /\ FireSlotChange({p.slot})

\* Mutant of RemovePlayer: the index by SteamID keeps its pointer.
RemovePlayerKeepsIndex(s) ==
  IF bySlot[s] # None
  THEN /\ bySlot' = [bySlot EXCEPT ![s] = None]
       /\ FireSlotChange({s})
       /\ UNCHANGED bySteamId
  ELSE UNCHANGED <<bySlot, bySteamId, valueVars, rings>>

RemovePlayer(s) ==
  IF bySlot[s] # None
  THEN /\ bySteamId' = [bySteamId EXCEPT ![bySlot[s].steamId] = None]
       /\ bySlot' = [bySlot EXCEPT ![s] = None]
       /\ FireSlotChange({s})
  ELSE UNCHANGED <<bySlot, bySteamId, valueVars, rings>>

Clear ==
  /\ bySlot' = [s \in Slot |-> None]
  /\ bySteamId' = [id \in SteamId |-> None]
  /\ FireSlotChange({s \in Slot : bySlot[s] # None})
  /\ UNCHANGED <<client, bound, depth>>

-------------------------------------------------------------------------------
\* Objects some state still refers to; a new one is none of them.
Referenced ==
  {p.id : p \in UNION { {client[s], bySlot[s], data[s]} \cup
                        {rings[s].samples[i] : i \in DOMAIN rings[s].samples} : s \in Slot} \ {None}}
       \cup {bySteamId[id].id : id \in {i \in SteamId : bySteamId[i] # None}}

\* A slot is reused after its disconnect; a map change reconnects a client in place; a human connects once.
EngineMayConnect(s, id) ==
  /\ client[s] # None => client[s].steamId = id
  /\ id # Bot => \A t \in Slot \ {s} : client[t] # None => client[t].steamId # id

Hook_OnClientConnected(s, id, obj) ==
  /\ EngineMayConnect(s, id)
  /\ LET p == [id |-> obj, slot |-> s, steamId |-> id] IN
       /\ client' = [client EXCEPT ![s] = p]
       /\ AddPlayer(p)
  /\ UNCHANGED <<bound, depth>>

Hook_ClientDisconnect(s) ==
  /\ client[s] # None
  /\ client' = [client EXCEPT ![s] = None]
  /\ RemovePlayer(s)
  /\ UNCHANGED <<bound, depth>>

-------------------------------------------------------------------------------
BindReset ==
  /\ ~bound
  /\ bound' = TRUE
  /\ UNCHANGED <<client, bySlot, bySteamId, valueVars, depth, rings>>

\* The values stay.
Unbind ==
  /\ bound
  /\ bound' = FALSE
  /\ UNCHANGED <<client, bySlot, bySteamId, valueVars, depth, rings>>

\* The manager that holds the PerSlot is destroyed, and made anew.
Renew ==
  /\ bound' = FALSE
  /\ data' = [s \in Slot |-> None] /\ missed' = {}
  /\ UNCHANGED <<client, bySlot, bySteamId, depth, rings>>

\* The plugin keeps something about the client it serves in the slot.
Store(s) ==
  /\ client[s] # None
  /\ data' = [data EXCEPT ![s] = client[s]]
  /\ missed' = missed \ {s}
  /\ UNCHANGED <<client, bySlot, bySteamId, bound, depth, rings>>

\* The rings after Enable(d): growing the depth starts every ring afresh.
Grown(d) == IF d > depth THEN [s \in Slot |-> EmptyRing(d)] ELSE rings

Enable(d) ==
  /\ depth' = IF d > depth THEN d ELSE depth
  /\ rings' = Grown(d)
  /\ UNCHANGED <<client, bySlot, bySteamId, bound, valueVars>>

\* A ring of depth d with one sample more, the oldest overwritten when it is full.
Pushed(ring, d, view) ==
  [samples |-> [ring.samples EXCEPT ![ring.head] = view],
   head |-> (ring.head + 1) % d,
   count |-> IF ring.count < d THEN ring.count + 1 ELSE d]

\* One decoded command goes into its slot's ring; an invalid view does not.
Recorded(rs, d, s, view) ==
  IF d = 0 \/ s \notin Slot \/ view = None THEN rs
  ELSE [rs EXCEPT ![s] = Pushed(rs[s], d, view)]

Record(s, view) ==
  /\ depth > 0
  /\ rings' = Recorded(rings, depth, s, view)
  /\ UNCHANGED <<client, bySlot, bySteamId, bound, valueVars, depth>>

Init ==
  /\ client \in [Slot -> Player \cup {None}]
  /\ \A s \in Slot : client[s] # None => client[s].slot = s
  /\ \A s, t \in Slot : s # t /\ client[s] # None /\ client[t] # None =>
       /\ client[s].id # client[t].id
       /\ client[s].steamId = client[t].steamId => client[s].steamId = Bot
  /\ bySlot = [s \in Slot |-> None]
  /\ bySteamId = [id \in SteamId |-> None]
  /\ bound = FALSE
  /\ data = [s \in Slot |-> None] /\ missed = {}
  /\ depth = 0
  /\ rings = [s \in Slot |-> EmptyRing(0)]

Next ==
  \/ \E s \in Slot, id \in SteamId, obj \in Object \ Referenced : Hook_OnClientConnected(s, id, obj)
  \/ \E s \in Slot : Hook_ClientDisconnect(s)
  \/ Clear
  \/ BindReset
  \/ Unbind
  \/ Renew
  \/ \E s \in Slot : Store(s)
  \/ \E d \in Depths : Enable(d)
  \/ \E s \in Slot : client[s] # None /\ Record(s, client[s])

PlayersSpec == Init /\ [][Next]_playerVars

-------------------------------------------------------------------------------
PlayersTypeOK ==
  /\ client \in [Slot -> Player \cup {None}]
  /\ bySlot \in [Slot -> Player \cup {None}]
  /\ bySteamId \in [SteamId -> Player \cup {None}]
  /\ bound \in BOOLEAN
  /\ data \in [Slot -> Player \cup {None}] /\ missed \subseteq Slot
  /\ depth \in {0} \cup Depths
  /\ rings \in [Slot -> [samples : [0 .. depth - 1 -> Player \cup {None}], head : Nat, count : 0 .. depth]]
  /\ \A s \in Slot : rings[s].head < depth \/ rings[s].head = 0

\* The index by SteamID never hands out a player who is gone, and finds every human the
\* manager knows, whatever bots share a SteamID with, leave and return: PlayerManager keeps
\* raw pointers there beside the owning index by slot.
IndexIsExact ==
  /\ \A id \in SteamId : bySteamId[id] # None =>
       bySlot[bySteamId[id].slot] = bySteamId[id]
  /\ \A s \in Slot : bySlot[s] # None =>
       \/ bySlot[s].steamId = Bot
       \/ bySteamId[bySlot[s].steamId] = bySlot[s]

\* Whoever is in a slot finds there only his own per-slot values and his own commands,
\* however many players used the slot before him and whether or not the plugin was loaded
\* before he came: the feed resets PerSlot and InputHistoryService at every change.  A PerSlot
\* promises that for the changes between BindReset and Unbind: a value it was not listening
\* for is the plugin's to overwrite, even after it binds again.
NothingLeaksToTheNext ==
  \A s \in Slot : client[s] # None =>
    /\ s \notin missed => data[s] \in {None, client[s]}
    /\ \A ago \in 0 .. rings[s].count - 1 : At(s, ago) = client[s]

=============================================================================
