----------------------------- MODULE Visibility -----------------------------
(***************************************************************************)
(* Sdk::TransmitFilterService and the Sdk::GlowVision of some viewers, on  *)
(* top of the engine's entities.  An entity is known by its index and its  *)
(* handle (index and serial number); the engine reuses the index of an     *)
(* entity that is gone.  The loop of Reconcile is one step per slot: the   *)
(* game thread does nothing else meanwhile, but what a slot's turn does to *)
(* the filter meets what earlier turns did.                                *)
(***************************************************************************)
EXTENDS Integers, FiniteSets, CallbackRegistry

CONSTANTS
  Slots,     \* number of player slots, numbered from 0
  Viewers,   \* the slots whose players have a GlowVision
  Actors,    \* the slots whose players spawn, die and are hidden
  Index,     \* the entity indices left for props
  Looks,     \* team and model of a living player's pawn
  MaxSpawns  \* bound: entities spawned in a behaviour

Slot == 0 .. Slots - 1
NoSlot == -1
NoIndex == -1

ASSUME SlotsAssumption == Slots \in Nat \ {0} /\ Viewers \cup Actors \subseteq Slot
ASSUME IndexAssumption == NoIndex \notin Index
ASSUME LooksAssumption == "none" \notin Looks
ASSUME SpawnsAssumption == MaxSpawns \in Nat

VARIABLES
  flags,     \* _state and _activeCount: [pawn, controller, count]
  exclusive, \* _exclusive: index -> beneficiary
  pairs,     \* viewer -> slot -> the GlowPair
  turn,      \* Reconcile's locals: whose vision and which slot is next
  world,     \* the engine's entities: index -> [serial, kind, viewer]
  spawned,   \* entities spawned so far, the source of serial numbers
  look,      \* slot -> team and model, "none" for absent, dead, spectating
             \* or vetoed by the vision's filter
  restarted  \* the engine has removed clones by itself (history)

filterVars == <<flags, exclusive>>
vars == <<flags, exclusive, pairs, turn, world, spawned, look, restarted>>

NoHandleOf == [index |-> NoIndex, serial |-> 0]
NoPair == [relay |-> NoHandleOf, glow |-> NoHandleOf, look |-> "none"]
NoTurn == [viewer |-> NoSlot, slot |-> NoSlot]
Free == [serial |-> 0, kind |-> "free", viewer |-> NoSlot]

Calm == turn = NoTurn

-----------------------------------------------------------------------------
(* TransmitFilterService.                                                  *)

Flagged(f) == f.pawn \cup f.controller

\* Mutant of SetFlag: clearing a flag always counts down.
SetFlagUncounted(f, which, slot, value) ==
  IF value
  THEN [f EXCEPT ![which] = @ \cup {slot}, !.count = IF slot \in Flagged(f) THEN @ ELSE @ + 1]
  ELSE [f EXCEPT ![which] = @ \ {slot}, !.count = @ - 1]

\* SetFlag keeps the number of slots that have any flag.
SetFlag(f, which, slot, value) ==
  LET set == [f EXCEPT ![which] = IF value THEN @ \cup {slot} ELSE @ \ {slot}]
      Active(g) == IF slot \in Flagged(g) THEN 1 ELSE 0
  IN  [set EXCEPT !.count = @ + Active(set) - Active(f)]

\* SetEntityExclusive overwrites the beneficiary of an index it knows.
SetEntityExclusive(entries, indices, viewer) ==
  [i \in DOMAIN entries \cup indices |-> IF i \in indices THEN viewer ELSE entries[i]]

ClearEntityExclusive(entries, indices) == Remove(entries, indices)

\* The slots OnCheckTransmit collects: it stops at the activeCount-th.
Collected ==
  {s \in Flagged(flags) : Cardinality({t \in Flagged(flags) : t < s}) < flags.count}

\* What OnCheckTransmit clears from the snapshot of one recipient, who may be
\* observing somebody.
PawnsCleared(recipient, observed) == (Collected \cap flags.pawn) \ {recipient, observed}
ControllersCleared(recipient) == (Collected \cap flags.controller) \ {recipient}
EntitiesCleared(recipient) == {i \in DOMAIN exclusive : exclusive[i] # recipient}

SetPawnHidden(slot, hidden) ==
  /\ Calm
  /\ flags' = SetFlag(flags, "pawn", slot, hidden)
  /\ UNCHANGED <<exclusive, pairs, turn, world, spawned, look, restarted>>

SetControllerHidden(slot, hidden) ==
  /\ Calm
  /\ flags' = SetFlag(flags, "controller", slot, hidden)
  /\ UNCHANGED <<exclusive, pairs, turn, world, spawned, look, restarted>>

-----------------------------------------------------------------------------
(* GlowVision.                                                             *)

Active(pair) == pair.relay # NoHandleOf

\* ResolveEntityHandle: the serial number is compared with the index's own.
Resolves(handle) == handle # NoHandleOf /\ world[handle.index].serial = handle.serial

Handles(pair) == {pair.relay, pair.glow}
IndicesOf(pair) == {h.index : h \in Handles(pair)}

\* EntityOps.Remove: the engine frees the entity at the end of the frame.
Doomed(handles) ==
  [i \in Index |->
     IF \E h \in handles : h.index = i /\ Resolves(h)
     THEN [world[i] EXCEPT !.kind = "doomed"] ELSE world[i]]

Spawned(entities, index, viewer, serial) ==
  [entities EXCEPT ![index] = [serial |-> serial, kind |-> "clone", viewer |-> viewer]]

FreeIn(entities) == {i \in Index : entities[i].kind = "free"}

Desired(viewer, slot) == slot # viewer /\ look[slot] # "none" /\ slot \notin flags.pawn

Stale(viewer, slot) ==
  LET pair == pairs[viewer][slot] IN
  /\ Active(pair)
  /\ \/ ~Desired(viewer, slot)
     \/ look[slot] # pair.look
     \/ \E h \in Handles(pair) : ~Resolves(h)

\* Mutant of DestroyPair: the filter entries stay.
DestroyPairKeepsEntries(pair) == [entries |-> exclusive, world |-> Doomed(Handles(pair))]

\* DestroyPair: both indices leave the filter before the entities go.
DestroyPair(pair) ==
  [entries |-> ClearEntityExclusive(exclusive, IndicesOf(pair)),
   world |-> Doomed(Handles(pair))]

\* The filter and the entities when the turn of a slot has dealt with a pair
\* that is stale.
Base(viewer, slot) ==
  IF Stale(viewer, slot) THEN DestroyPair(pairs[viewer][slot])
  ELSE [entries |-> exclusive, world |-> world]

\* CreatePair with both spawns done.
CreatePair(base, viewer, slot, relay, glow) ==
  /\ spawned + 2 <= MaxSpawns
  /\ relay \in FreeIn(base.world) /\ glow \in FreeIn(base.world) /\ relay # glow
  /\ world' = Spawned(Spawned(base.world, relay, viewer, spawned + 1), glow, viewer, spawned + 2)
  /\ spawned' = spawned + 2
  /\ exclusive' = SetEntityExclusive(base.entries, {relay, glow}, viewer)
  /\ pairs' = [pairs EXCEPT ![viewer][slot] =
                 [relay |-> [index |-> relay, serial |-> spawned + 1],
                  glow |-> [index |-> glow, serial |-> spawned + 2], look |-> look[slot]]]

\* CreatePair when the relay, or after it the glow prop, cannot be spawned: the
\* relay is removed again.
CreateFails(base, viewer, slot) ==
  /\ exclusive' = base.entries
  /\ pairs' = [pairs EXCEPT ![viewer][slot] = NoPair]
  /\ \/ world' = base.world /\ UNCHANGED spawned
     \/ \E relay \in FreeIn(base.world) :
          /\ spawned < MaxSpawns
          /\ spawned' = spawned + 1
          /\ world' = [base.world EXCEPT ![relay] =
                         [serial |-> spawned + 1, kind |-> "doomed", viewer |-> viewer]]

\* Reconcile starts, on the effect's tick.
Reconcile(viewer) ==
  /\ Calm
  /\ turn' = [viewer |-> viewer, slot |-> 0]
  /\ UNCHANGED <<flags, exclusive, pairs, world, spawned, look, restarted>>

NextTurn == IF turn.slot = Slots - 1 THEN NoTurn ELSE [turn EXCEPT !.slot = @ + 1]

\* The turn of a slot whose pair is missing or stale although it should glow.
Refresh ==
  /\ ~Calm /\ Desired(turn.viewer, turn.slot)
  /\ Stale(turn.viewer, turn.slot) \/ ~Active(pairs[turn.viewer][turn.slot])
  /\ LET base == Base(turn.viewer, turn.slot) IN
     \/ \E relay, glow \in Index : CreatePair(base, turn.viewer, turn.slot, relay, glow)
     \/ CreateFails(base, turn.viewer, turn.slot)
  /\ turn' = NextTurn
  /\ UNCHANGED <<flags, look, restarted>>

\* The turn of a slot that should not glow, or glows as it should.
Settle ==
  /\ ~Calm
  /\ \/ ~Desired(turn.viewer, turn.slot)
     \/ Active(pairs[turn.viewer][turn.slot]) /\ ~Stale(turn.viewer, turn.slot)
  /\ LET base == Base(turn.viewer, turn.slot) IN
     exclusive' = base.entries /\ world' = base.world
  /\ pairs' = IF Stale(turn.viewer, turn.slot)
              THEN [pairs EXCEPT ![turn.viewer][turn.slot] = NoPair] ELSE pairs
  /\ turn' = NextTurn
  /\ UNCHANGED <<flags, spawned, look, restarted>>

\* All pairs of a viewer at once.
Remaining(viewer) ==
  LET gone == {pairs[viewer][s] : s \in {t \in Slot : Active(pairs[viewer][t])}} IN
  [entries |-> ClearEntityExclusive(exclusive, UNION {IndicesOf(p) : p \in gone}),
   world |-> Doomed(UNION {Handles(p) : p \in gone})]

\* Destroy, from the effect's OnStop.
Destroy(viewer) ==
  /\ Calm
  /\ exclusive' = Remaining(viewer).entries
  /\ world' = Remaining(viewer).world
  /\ pairs' = [pairs EXCEPT ![viewer] = [s \in Slot |-> NoPair]]
  /\ UNCHANGED <<flags, turn, spawned, look, restarted>>

\* A disconnect: the plugin cancels the player's effects, which destroys a
\* vision, and the kit tells the filter.  The slot is empty until it respawns.
OnPlayerDisconnect(slot) ==
  /\ Calm
  /\ flags' = SetFlag(SetFlag(flags, "pawn", slot, FALSE), "controller", slot, FALSE)
  /\ LET after == IF slot \in Viewers THEN Remaining(slot)
                  ELSE [entries |-> exclusive, world |-> world]
     IN  /\ exclusive' = Remove(after.entries, {i \in DOMAIN after.entries : after.entries[i] = slot})
         /\ world' = after.world
  /\ pairs' = [v \in Viewers |-> IF v = slot THEN [s \in Slot |-> NoPair] ELSE pairs[v]]
  /\ look' = [look EXCEPT ![slot] = "none"]
  /\ UNCHANGED <<turn, spawned, restarted>>

-----------------------------------------------------------------------------
(* The engine and the players.                                             *)

\* A spawn, a death, a change of team or model.
Appear(slot, as) ==
  /\ Calm
  /\ look' = [look EXCEPT ![slot] = as]
  /\ UNCHANGED <<flags, exclusive, pairs, turn, world, spawned, restarted>>

\* A round restart removes every prop.
RoundRestart ==
  /\ Calm
  /\ world' = [i \in Index |-> IF world[i].kind = "free" THEN world[i]
                               ELSE [world[i] EXCEPT !.kind = "doomed"]]
  /\ restarted' = TRUE
  /\ UNCHANGED <<flags, exclusive, pairs, turn, spawned, look>>

\* The end of the frame frees what was removed in it.
CleanUp ==
  /\ Calm /\ \E i \in Index : world[i].kind = "doomed"
  /\ world' = [i \in Index |-> IF world[i].kind = "doomed" THEN Free ELSE world[i]]
  /\ UNCHANGED <<flags, exclusive, pairs, turn, spawned, look, restarted>>

Init ==
  /\ flags = [pawn |-> {}, controller |-> {}, count |-> 0]
  /\ exclusive = NoItems
  /\ pairs = [v \in Viewers |-> [s \in Slot |-> NoPair]]
  /\ turn = NoTurn
  /\ world = [i \in Index |-> Free]
  /\ spawned = 0
  /\ look = [s \in Slot |-> "none"]
  /\ restarted = FALSE

Next ==
  \/ \E slot \in Actors, hidden \in BOOLEAN :
       SetPawnHidden(slot, hidden) \/ SetControllerHidden(slot, hidden)
  \/ \E slot \in Slot : OnPlayerDisconnect(slot)
  \/ \E viewer \in Viewers : Reconcile(viewer) \/ Destroy(viewer)
  \/ Refresh \/ Settle
  \/ \E slot \in Actors, as \in Looks \cup {"none"} : Appear(slot, as)
  \/ RoundRestart \/ CleanUp

Spec == Init /\ [][Next]_vars

-----------------------------------------------------------------------------

EntityType == [serial : 0 .. MaxSpawns, kind : {"free", "clone", "doomed"}, viewer : Viewers \cup {NoSlot}]
HandleType == [index : Index \cup {NoIndex}, serial : 0 .. MaxSpawns]

\* Types; the count is of slots, not of flags.
TypeOK ==
  /\ flags \in [pawn : SUBSET Slot, controller : SUBSET Slot, count : 0 .. Slots]
  /\ DOMAIN exclusive \subseteq Index /\ \A i \in DOMAIN exclusive : exclusive[i] \in Slot
  /\ pairs \in [Viewers -> [Slot -> [relay : HandleType, glow : HandleType, look : Looks \cup {"none"}]]]
  /\ turn = NoTurn \/ (turn.viewer \in Viewers /\ turn.slot \in Slot)
  /\ world \in [Index -> EntityType]
  /\ spawned \in 0 .. MaxSpawns
  /\ look \in [Slot -> Looks \cup {"none"}]
  /\ restarted \in BOOLEAN

\* "Hiding a player here stops the server from networking the chosen entities":
\* a hidden pawn is sent to its own player and to the clients observing it and
\* to nobody else, a hidden controller only to its player, and no other pawn or
\* controller is withheld, although OnCheckTransmit stops early at a count.
HiddenAreFiltered ==
  Calm => \A r \in Slot :
    /\ \A observed \in Slot \cup {NoSlot} :
         PawnsCleared(r, observed) = {s \in flags.pawn : s # r /\ s # observed}
    /\ ControllersCleared(r) = flags.controller \ {r}

\* A clone that lives is one that Destroy would find, and an index in the
\* filter is one that Destroy would clear, also when the engine removed the
\* clones and gave their indices to new ones.
Held(v) == UNION {Handles(pairs[v][s]) : s \in {t \in Slot : Active(pairs[v][t])}}

NothingLeftBehind ==
  /\ TypeOK
  /\ \A i \in Index : world[i].kind = "clone" =>
       [index |-> i, serial |-> world[i].serial] \in Held(world[i].viewer)
  /\ \A i \in DOMAIN exclusive : \E v \in Viewers : i \in {h.index : h \in Held(v)}

\* "Both transmit-filtered exclusively to the beneficiary": a client that is
\* not the viewer never receives a clone.
ClonesArePrivate ==
  Calm => \A i \in Index, r \in Slot :
    world[i].kind = "clone" /\ r # world[i].viewer => i \in EntitiesCleared(r)

\* As long as only GlowVision removes its clones, they are private, and nothing
\* that is not a clone is withheld from anybody.
PrivateUntilRestart ==
  Calm /\ ~restarted =>
    /\ ClonesArePrivate
    /\ \A i \in Index, r \in Slot : i \in EntitiesCleared(r) => world[i].kind = "clone"

\* What a vision has put into the world and into the filter stays its own to
\* remove, and until a restart only its viewer gets to see it.
ClonesAreTheViewers == NothingLeftBehind /\ PrivateUntilRestart

=============================================================================
