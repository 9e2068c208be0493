------------------------------ MODULE Entities -------------------------------
(* The kit's calls into the game's entities once it runs: EntityOpsService and  *)
(* EffectOps, EntitySystem's handles, and PlayerController.  The game recycles  *)
(* the identity slots of its entities, a new serial number for each new one.    *)
EXTENDS Startup

CONSTANTS
  PlayerSlot,     \* 0 .. n
  IdentitySlot,   \* of the entity list: a controller's is its slot + 1, the others are shared
  PawnField,      \* the pawn's fields the kit reads and sets by name: "m_iHealth", "m_iTeamNum", ...
  MaxSerial       \* bound: entities an identity slot has seen

ASSUME IdentityAssumption ==
  /\ PlayerSlot \subseteq Nat /\ {slot + 1 : slot \in PlayerSlot} \subseteq IdentitySlot
  /\ None \notin [kind : {"pawn", "observer"}, slot : PlayerSlot]

VARIABLES
  identity,    \* the entity list: [serial, what] of each identity slot
  cached,      \* SchemaService: the fields whose offset is cached
  movement,    \* the offsets ResolveSchemaOffsets found, None before it ran
  hit          \* the last call on a player, until the game moves on: whose, what it reached

entityVars == <<identity, cached, movement, hit>>

Shared == IdentitySlot \ {slot + 1 : slot \in PlayerSlot}
Vacant(i) == identity[i].what = None
HandleOf(i) == << i, identity[i].serial >>
Invalid == << >>
NoHit == [of |-> None, what |-> None]

\* An entity in a slot that was free; and one gone, whose handles no longer match.
Placed(i, what) == [identity EXCEPT ![i].what = what]
Gone(i) == [identity EXCEPT ![i] = [serial |-> @.serial + 1, what |-> None]]

(* ---- EntitySystem ---------------------------------------------------------- *)

\* GetEntitySystem: from the load on, or read again when the game had none yet.
GetEntitySystem == "EntitySystem" \in interfaces \/ EntitySystemReadable

\* Mutant of ResolveEntityHandle: the serial number is not compared.
ResolveByIndex(handle) ==
  IF handle = Invalid \/ ~GetEntitySystem THEN None
  ELSE IF identity[handle[1]].what = None THEN None ELSE handle[1]

\* The identity slot a handle still stands for.
ResolveEntityHandle(handle) ==
  IF handle = Invalid \/ ~GetEntitySystem THEN None
  ELSE IF HandleOf(handle[1]) = handle THEN handle[1] ELSE None

GetPlayerController(slot) ==
  IF ~GetEntitySystem \/ slot \notin PlayerSlot \/ Vacant(slot + 1) THEN None ELSE slot + 1

\* SchemaService::GetOffset: a field that is found is cached, one that is not is looked up again.
HasOffset(field) == "SchemaSystem" \in interfaces /\ (field \in cached \/ field \in host.fields)
Caches(fields) == cached' = cached \cup {f \in fields : HasOffset(f)}

(* ---- EntityOps and EffectOps ----------------------------------------------- *)

CanSpawn == \A name \in Spawning : ops[name] # None

\* CreateByName, when the engine makes one: nothing dispatched, a builder that owns its keyvalues.
Created == [kind |-> "effect", spawned |-> FALSE, keyvalues |-> "none", model |-> FALSE,
            timed |-> FALSE, inputs |-> << >>]

\* Mutant of DispatchSpawn: the builder keeps the pointer it hands over and frees it at scope exit.
DispatchSpawnKeeping(entity) ==
  IF ops["DispatchSpawn"] = None THEN entity
  ELSE [entity EXCEPT !.spawned = TRUE, !.keyvalues = "freed"]

\* Detach: from here the keyvalues are the engine's, and the destructor leaves them alone.
DispatchSpawn(entity) ==
  IF ops["DispatchSpawn"] = None THEN entity
  ELSE [entity EXCEPT !.spawned = TRUE, !.keyvalues = "engine"]

AddIOEvent(entity, input) ==
  IF ops["CEntitySystem_AddEntityIOEvent"] = None \/ ~GetEntitySystem THEN entity
  ELSE [entity EXCEPT !.inputs = Append(@, input)]

RemoveDelayed(entity) == AddIOEvent(entity, "Kill")

SetModel(entity) == IF ops["CBaseModelEntity_SetModel"] = None THEN entity ELSE [entity EXCEPT !.model = TRUE]

Timed(entity) == [entity EXCEPT !.timed = TRUE]

SpawnParticle(i) ==
  /\ identity' = Placed(i, Timed(AddIOEvent(AddIOEvent(DispatchSpawn(Created), "DestroyImmediately"), "Kill")))
  /\ UNCHANGED cached

BeamFields == {"m_fWidth", "m_vecEndPos", "m_clrRender"}
SpawnBeam(i) ==
  /\ identity' = Placed(i, Timed(RemoveDelayed(DispatchSpawn(Created))))
  /\ Caches(BeamFields)

SpawnProp(i, timed) ==
  /\ LET prop == SetModel(DispatchSpawn(Created))
     IN identity' = Placed(i, IF timed THEN Timed(RemoveDelayed(prop)) ELSE prop)
  /\ UNCHANGED cached

\* EntityOpsService::Spawn, with the caller's class and keyvalues.
Spawn(i) ==
  /\ identity' = Placed(i, DispatchSpawn(Created))
  /\ UNCHANGED cached

SpawnsEffect ==
  /\ CanSpawn
  /\ \E i \in Shared : /\ Vacant(i)
                       /\ \/ SpawnParticle(i) \/ SpawnBeam(i) \/ Spawn(i)
                          \/ \E timed \in BOOLEAN : SpawnProp(i, timed)
  /\ UNCHANGED <<movement, hit>>

Effects == {i \in Shared : ~Vacant(i) /\ identity[i].what.kind = "effect"}

\* Remove, of an entity its caller knows to be there.
UtilRemove(i) ==
  /\ identity[i].serial < MaxSerial
  /\ identity' = IF ops["UTIL_Remove"] = None THEN identity ELSE Gone(i)
  /\ UNCHANGED <<cached, movement, hit>>

\* The game's queue of inputs: a Kill ends the entity.  Rounds end, too.
GameFires(i) ==
  /\ identity[i].serial < MaxSerial
  /\ identity[i].what.inputs # << >>
  /\ identity' = IF Head(identity[i].what.inputs) = "Kill" THEN Gone(i)
                 ELSE [identity EXCEPT ![i].what.inputs = Tail(@)]
  /\ UNCHANGED <<cached, movement, hit>>

(* ---- players --------------------------------------------------------------- *)

\* The game: a controller comes, gets a pawn, loses it or gets another, and goes.  It has two
\* handles: m_hPlayerPawn of its player pawn, m_hPawn of the pawn it possesses now.
ControllerComes(slot) ==
  /\ Vacant(slot + 1)
  /\ identity' = Placed(slot + 1, [kind |-> "controller", slot |-> slot, pawn |-> Invalid, current |-> Invalid])

PawnComes(slot, i) ==
  /\ ~Vacant(slot + 1) /\ Vacant(i)
  /\ identity' = [Placed(i, [kind |-> "pawn", slot |-> slot]) EXCEPT
                    ![slot + 1].what = [@ EXCEPT !.pawn = HandleOf(i), !.current = HandleOf(i)]]

\* While he is dead or watches he possesses an observer's pawn and keeps his own.
Observes(slot, i) ==
  /\ ~Vacant(slot + 1) /\ Vacant(i)
  /\ identity' = [Placed(i, [kind |-> "observer", slot |-> slot]) EXCEPT ![slot + 1].what.current = HandleOf(i)]

\* He is given his own pawn again.
Repossesses(slot) ==
  /\ ~Vacant(slot + 1)
  /\ identity' = [identity EXCEPT ![slot + 1].what.current = identity[slot + 1].what.pawn]

\* The controller's handles are left as they are until it gets the next pawn.
PawnGoes(i) ==
  /\ ~Vacant(i) /\ identity[i].what.kind # "effect" /\ identity[i].serial < MaxSerial
  /\ identity' = Gone(i)

ControllerGoes(slot) ==
  /\ ~Vacant(slot + 1) /\ identity[slot + 1].serial < MaxSerial
  /\ identity' = Gone(slot + 1)

GameMovesPlayers ==
  /\ \/ \E slot \in PlayerSlot : ControllerComes(slot) \/ ControllerGoes(slot)
     \/ \E slot \in PlayerSlot, i \in Shared : PawnComes(slot, i) \/ Observes(slot, i)
     \/ \E slot \in PlayerSlot : Repossesses(slot)
     \/ \E i \in Shared : PawnGoes(i)
  /\ hit' = NoHit
  /\ UNCHANGED <<cached, movement>>

\* PlayerController::GetPawn, of a controller read for this call.
GetPawn(slot) ==
  LET controller == GetPlayerController(slot)
  IN IF controller = None \/ ~HasOffset("m_hPlayerPawn") THEN None
     ELSE ResolveEntityHandle(identity[controller].what.pawn)

\* A call reaches what it is for, when that is there and the field or function is, too.
Reaches(slot, i, allowed) ==
  hit' = [of |-> slot, what |-> IF i # None /\ allowed THEN identity[i].what ELSE None]

\* SetPawnField and GetPawnField, behind GetHealth, SetHealth, GetTeam, SetMoveType, SetRender, ...
OnPawnField(slot, field) ==
  /\ Reaches(slot, GetPawn(slot), HasOffset(field))
  /\ Caches({"m_hPlayerPawn"} \cup (IF GetPawn(slot) = None THEN {} ELSE {field}))
  /\ UNCHANGED movement

\* CallVtableByName: Slay and Teleport call the pawn, ChangeTeam and Respawn the controller.
CallOnPawn(slot, name) ==
  /\ Reaches(slot, GetPawn(slot), GetOffset(gamedata, name) >= 0)
  /\ Caches({"m_hPlayerPawn"})
  /\ UNCHANGED movement

CallOnController(slot, name) ==
  /\ Reaches(slot, GetPlayerController(slot), GetOffset(gamedata, name) >= 0)
  /\ UNCHANGED <<cached, movement>>

\* SetModelScale: an input to the pawn.
SetModelScale(slot) ==
  /\ Reaches(slot, GetPawn(slot), ops["CEntityInstance_AcceptInput"] # None)
  /\ Caches({"m_hPlayerPawn"})
  /\ UNCHANGED movement

\* SetPlayerName, in the controller's own buffer.
SetPlayerName(slot) ==
  /\ Reaches(slot, GetPlayerController(slot), HasOffset("m_iszPlayerName"))
  /\ Caches({"m_iszPlayerName"})
  /\ UNCHANGED movement

\* GetSceneNodeField: the origin is two components away from the pawn, each looked up
\* when the one before it is there.
ToOrigin == << "m_CBodyComponent", "m_pSceneNode", "m_vecAbsOrigin" >>
ReadsOrigin(slot) ==
  /\ Reaches(slot, GetPawn(slot), \A i \in DOMAIN ToOrigin : HasOffset(ToOrigin[i]))
  /\ Caches({"m_hPlayerPawn"} \cup
            { ToOrigin[i] : i \in {i \in DOMAIN ToOrigin :
                                     /\ GetPawn(slot) # None
                                     /\ \A j \in 1 .. i - 1 : HasOffset(ToOrigin[j])} })
  /\ UNCHANGED movement

\* ResolveSchemaOffsets: once, and for good, whatever it finds.
MovementFields == { "m_hPawn", "m_pMovementServices", "m_nButtons", "m_pButtonStates" }
ResolveSchemaOffsets ==
  IF movement # None THEN UNCHANGED <<cached, movement>>
  ELSE /\ movement' = {f \in MovementFields : HasOffset(f)}
       /\ Caches(MovementFields)

\* GetPlayerMovementServices, of the pawn its controller possesses.
GetPlayerMovementServices(slot) ==
  LET controller == GetPlayerController(slot)
  IN IF ~({"m_hPawn", "m_pMovementServices"} \subseteq movement') \/ controller = None THEN None
     ELSE ResolveEntityHandle(identity[controller].what.current)

GetPlayerButtons(slot) ==
  /\ ResolveSchemaOffsets
  /\ Reaches(slot, GetPlayerMovementServices(slot), {"m_nButtons", "m_pButtonStates"} \subseteq movement')

CallsOnPlayer(slot) ==
  /\ \/ \E field \in PawnField : OnPawnField(slot, field)
     \/ CallOnPawn(slot, "CommitSuicide")
     \/ CallOnController(slot, "Respawn")
     \/ SetModelScale(slot)
     \/ SetPlayerName(slot)
     \/ ReadsOrigin(slot)
     \/ GetPlayerButtons(slot)
  /\ UNCHANGED identity

EntitiesInit ==
  /\ identity = [i \in IdentitySlot |-> [serial |-> 0, what |-> None]]
  /\ cached = {}
  /\ movement = None
  /\ hit = NoHit

EntitiesNext ==
  \/ host.scene = "effects" /\ (SpawnsEffect \/ \E i \in Effects : UtilRemove(i) \/ GameFires(i))
  \/ host.scene = "players" /\ (GameMovesPlayers \/ \E slot \in PlayerSlot : CallsOnPlayer(slot))

(* ---- properties ------------------------------------------------------------ *)

(* Every entity the kit made went through DispatchSpawn with keyvalues nobody    *)
(* else frees, and one with a lifetime that the game can still kill has its Kill *)
(* in the game's queue.                                                          *)
SpawnsAreWhole ==
  \A i \in Effects :
    LET entity == identity[i].what IN
    /\ entity.spawned /\ entity.keyvalues = "engine"
    /\ entity.timed /\ ops["CEntitySystem_AddEntityIOEvent"] # None /\ GetEntitySystem
         => entity.inputs # << >> /\ entity.inputs[Len(entity.inputs)] = "Kill"

(* A call on a player reaches that player's controller or one of his pawns, or   *)
(* nothing: never the pawn of another that has since taken the place of the one  *)
(* its controller last pointed at.                                               *)
CallsHitTheirPlayer == hit.what # None => hit.what.kind # "effect" /\ hit.what.slot = hit.of

=============================================================================
