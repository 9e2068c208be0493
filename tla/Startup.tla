------------------------------- MODULE Startup -------------------------------
(* CS2Kit::Initialize stage by stage, as MetamodPluginBase::Load runs it, with  *)
(* the load report and the plugin's own stages in OnLoad.                       *)
EXTENDS Signatures

CONSTANT Hosts    \* the game processes and gamedata files the kit is loaded with

ASSUME StatusAssumption == None # "ok"

\* An object as the loader lists it: its loadable segments by ascending address, as its program
\* header has them, none of them empty.
IsObject(object) ==
  /\ object # None
  /\ object.addr \in Nat
  /\ object.segments \in Seq([base : Nat, bytes : Seq(Nat)]) /\ object.segments # << >>
  /\ object.addr <= object.segments[1].base
  /\ \A i \in 1 .. Len(object.segments) : object.segments[i].bytes # << >>
  /\ \A i, j \in 1 .. Len(object.segments) :
       i < j => EndOf(object.segments[i]) <= object.segments[j].base

\* A section's entry: nothing for this platform, something else, or a signature.
IsEntry(entry, platform) ==
  entry[platform] \notin {None, Broken} => entry[platform].pattern \in Seq(Int)

ASSUME HostsAssumption ==
  /\ None \notin Int
  /\ \A h \in Hosts :
       /\ h.process.objects \in Seq(Range(h.process.objects))
       /\ \A i \in DOMAIN h.process.objects : IsObject(h.process.objects[i])
       /\ h.file.signatures \in Seq(Range(h.file.signatures))
       /\ \A i \in DOMAIN h.file.signatures : IsEntry(h.file.signatures[i], h.process.platform)
       /\ \A i, j \in DOMAIN h.file.signatures :
            h.file.signatures[i].name = h.file.signatures[j].name => i = j

VARIABLES
  host,         \* where the kit is loaded: process, file, missing, ...
  phase,        \* the next stage, "onload", "running", "refused" or "thrown"
  interfaces,   \* Interfaces: those that are not null
  gamedata,     \* GameData: its three tables
  report,       \* LoadReport: the stages that ran
  ops,          \* EntityOpsService: the engine function behind each slot
  error         \* what Metamod is told of a refused load

startupVars == <<host, phase, interfaces, gamedata, report, ops, error>>

Required == << "ServerGameDLL", "ServerGameClients", "NetworkServerService", "GameEntities", "Engine",
               "GameEventSystem", "NetworkMessages", "SchemaSystem", "CVar", "GameResourceService" >>

OpNames == { "CreateEntityByName", "DispatchSpawn", "CEntityInstance_AcceptInput",
             "CEntitySystem_AddEntityIOEvent", "UTIL_Remove", "CBaseModelEntity_SetModel",
             "CBaseEntity_EmitSoundParams", "CBaseEntity_EmitSoundFilter" }

PrecacheNames == { "IGameSystem_InitAllSystems_pFirst", "IGameSystem_LoopPostInitAllSystems_pEventDispatcher",
                   "IGameSystem_LoopDestroyAllSystems_s_GameSystems" }

Stages == << "GameData", "Messages", "Schema", "Entities", "EntityOps", "Precache",
             "GameEventManager", "ConVars", "Events", "Transmit", "onload" >>

Following(stage) == Stages[1 + CHOOSE i \in DOMAIN Stages : Stages[i] = stage]

(* ---- LoadReport ------------------------------------------------------------ *)

Run(name, status, detail) ==
  report' = Append(report, [name |-> name, status |-> status, detail |-> detail])

StatusOf(name) ==
  IF \E i \in DOMAIN report : report[i].name = name
  THEN report[CHOOSE i \in DOMAIN report : /\ report[i].name = name
                                           /\ \A j \in 1 .. i - 1 : report[j].name # name].status
  ELSE None

IsOk(name) == StatusOf(name) = "ok"

Failures == {i \in DOMAIN report : report[i].status = "failed"}
FirstFailure ==
  IF Failures = {} THEN None ELSE report[CHOOSE i \in Failures : \A j \in Failures : i <= j].name

(* ---- CS2Kit::Initialize ---------------------------------------------------- *)

\* The interfaces, up to the first that is missing.
ResolveInterfaces ==
  /\ phase = "interfaces"
  /\ LET gone == {i \in DOMAIN Required : Required[i] \in host.missing}
         first == CHOOSE i \in gone : \A j \in gone : i <= j
     IN IF gone = {}
        THEN /\ phase' = "GameData"
             /\ interfaces' = {Required[i] : i \in DOMAIN Required}
             /\ UNCHANGED error
        ELSE /\ phase' = "refused"
             /\ interfaces' = {Required[i] : i \in 1 .. first - 1}
             /\ error' = Required[first]
  /\ UNCHANGED <<host, gamedata, report, ops>>

\* One stage that degrades the load when its subsystem is not there.
Degradable(name, ok) ==
  /\ phase' = Following(name)
  /\ Run(name, IF ok THEN "ok" ELSE "degraded", {})
  /\ UNCHANGED <<host, error>>

\* An exception leaves Initialize, and Load with it.
Thrown ==
  /\ phase' = "thrown"
  /\ UNCHANGED <<host, interfaces, report, ops, error>>

GameDataStage ==
  /\ phase = "GameData"
  /\ LET load == LoadGameData(host.file, host.process.platform)
         resolved == ResolveAll(host.process, load.data)
         failures == FailureSummary(resolved)
     IN IF load.ok /\ ResolveAllThrows(load.data)
        THEN gamedata' = load.data /\ Thrown
        ELSE /\ gamedata' = IF load.ok THEN resolved ELSE load.data
             /\ phase' = Following("GameData")
             /\ IF load.ok
                THEN Run("GameData", IF failures.failed \cup failures.ambiguous = {} THEN "ok" ELSE "degraded",
                         failures.failed \cup failures.ambiguous)
                ELSE Run("GameData", "degraded", {"file"})
             /\ UNCHANGED <<host, interfaces, ops, error>>

\* The only stage that aborts the load.
MessagesStage ==
  /\ phase = "Messages"
  /\ LET ok == {"GameEventSystem", "NetworkMessages"} \subseteq interfaces
     IN /\ Run("Messages", IF ok THEN "ok" ELSE "failed", {})
        /\ phase' = IF ok THEN Following("Messages") ELSE "refused"
        /\ error' = IF ok THEN error ELSE "Messages"
  /\ UNCHANGED <<host, interfaces, gamedata, ops>>

SchemaStage ==
  /\ phase = "Schema"
  /\ Degradable("Schema", "SchemaSystem" \in interfaces)
  /\ UNCHANGED <<interfaces, gamedata, ops>>

\* ReadEntitySystemPointer: the game's entity system, once it has one.
EntitySystemReadable ==
  /\ "GameResourceService" \in interfaces
  /\ GetOffset(gamedata, "GameEntitySystem") >= 0

\* EntitySystem::Initialize reads the pointer and succeeds whatever it finds.
EntitiesStage ==
  /\ phase = "Entities"
  /\ Degradable("Entities", TRUE)
  /\ interfaces' = IF EntitySystemReadable /\ host.entitySystem
                   THEN interfaces \cup {"EntitySystem"} ELSE interfaces
  /\ UNCHANGED <<gamedata, ops>>

Spawning == { "CreateEntityByName", "DispatchSpawn", "CEntityInstance_AcceptInput" }

Found(name) == FindSignature(host.process, gamedata, name)

EntityOpsStage ==
  /\ phase = "EntityOps"
  /\ IF \E name \in OpNames \ DOMAIN gamedata.resolved : ScanThrows(gamedata, name)
     THEN Thrown /\ UNCHANGED gamedata
     ELSE /\ ops' = [name \in OpNames |-> Found(name)]
          /\ Degradable("EntityOps", \A name \in Spawning : Found(name) # None)
          /\ UNCHANGED <<interfaces, gamedata>>

PrecacheStage ==
  /\ phase = "Precache"
  /\ IF \E name \in PrecacheNames \ DOMAIN gamedata.resolved : ScanThrows(gamedata, name)
     THEN Thrown /\ UNCHANGED gamedata
     ELSE /\ Degradable("Precache", \A name \in PrecacheNames :
                                      ResolveSignature(host.process, gamedata, name) # None)
          /\ UNCHANGED <<interfaces, gamedata, ops>>

\* InitGameEventManager: the pointer at the resolved address may still be null.
GameEventManagerStage ==
  /\ phase = "GameEventManager"
  /\ IF \E name \in {"GameEventManager", "LegacyGameEventListener"} \ DOMAIN gamedata.resolved :
             ScanThrows(gamedata, name)
     THEN Thrown /\ UNCHANGED gamedata
     ELSE LET manager == /\ ResolveSignature(host.process, gamedata, "GameEventManager") # None
                         /\ host.eventManager
          IN /\ interfaces' = IF manager THEN interfaces \cup {"GameEventManager"} ELSE interfaces
             /\ Degradable("GameEventManager", manager)
             /\ UNCHANGED <<gamedata, ops>>

ConVarsStage ==
  /\ phase = "ConVars"
  /\ Degradable("ConVars", "CVar" \in interfaces)
  /\ UNCHANGED <<interfaces, gamedata, ops>>

EventsStage ==
  /\ phase = "Events"
  /\ Degradable("Events", "GameEventManager" \in interfaces)
  /\ UNCHANGED <<interfaces, gamedata, ops>>

\* The last stage; then the pumps and the status sections, which change no state here.
TransmitStage ==
  /\ phase = "Transmit"
  /\ phase' = "onload"
  /\ Run("Transmit", IF GetOffset(gamedata, "CheckTransmitPlayerSlot") >= 0 THEN "ok" ELSE "degraded", {})
  /\ UNCHANGED <<host, interfaces, gamedata, ops, error>>

(* ---- OnLoad ---------------------------------------------------------------- *)

\* A stage of the plugin that needs one of the kit's: skipped unless that one is ok.  What it
\* comes to otherwise is the plugin's own.
PluginStage(name, needs) ==
  /\ phase = "onload"
  /\ StatusOf(name) = None
  /\ \E status \in IF IsOk(needs) THEN host.plugin ELSE {"skipped"} :
       Run(name, status, {})
  /\ UNCHANGED <<host, phase, interfaces, gamedata, ops, error>>

\* A plugin that gives up is destroyed with the services, with its first failure as the error.
OnLoadReturns(ok) ==
  /\ phase = "onload" /\ StatusOf("Effects") # None
  /\ phase' = IF ok THEN "running" ELSE "refused"
  /\ error' = IF ok THEN error
              ELSE IF FirstFailure # None THEN FirstFailure ELSE "Plugin initialization failed"
  /\ UNCHANGED <<host, interfaces, gamedata, report, ops>>

StartupInit ==
  /\ host \in Hosts
  /\ phase = "interfaces"
  /\ interfaces = {}
  /\ gamedata = NoGameData
  /\ report = << >>
  /\ ops = [name \in OpNames |-> None]
  /\ error = None

StartupNext ==
  \/ ResolveInterfaces \/ GameDataStage \/ MessagesStage \/ SchemaStage \/ EntitiesStage
  \/ EntityOpsStage \/ PrecacheStage \/ GameEventManagerStage \/ ConVarsStage \/ EventsStage
  \/ TransmitStage
  \/ PluginStage("Effects", "EntityOps")
  \/ \E ok \in BOOLEAN : OnLoadReturns(ok)

(* ---- properties ------------------------------------------------------------ *)

\* Where a pattern stands in a library: by definition, not by scanning.
Library(file) ==
  LET objects == host.process.objects
      named == {i \in DOMAIN objects : objects[i].file = file}
      Wider(i, j) == Span(objects[i]) > Span(objects[j]) \/ (Span(objects[i]) = Span(objects[j]) /\ i <= j)
  IN {objects[i] : i \in {i \in named : \A j \in named : Wider(i, j)}}

Mapped(object) ==
  IF host.process.platform = "windows" THEN {ImageRange(object)}
  ELSE {object.segments[k] : k \in DOMAIN object.segments}

Places(sig) ==
  LET In(range) == {range.base + at : at \in {at \in 0 .. Len(range.bytes) - Len(sig.pattern) :
                     \A j \in DOMAIN sig.pattern : \/ sig.pattern[j] = Wild
                                                   \/ sig.pattern[j] % 256 = range.bytes[at + j]}}
  IN IF sig.pattern = << >> THEN {}
     ELSE UNION {In(range) : range \in UNION {Mapped(o) : o \in Library(sig.library)}}

(* A signature is answered with the lowest place of the game's own library where *)
(* its pattern stands, with nothing when there is none, and is known as unique   *)
(* exactly when there is one; overlapping matches, a stub of the same name and   *)
(* the gap between two segments included, with the cache and without.  The       *)
(* tables do not change once the stage is over.                                  *)
ResolutionsAreTrue ==
  phase = Following("GameData") =>
    \A name \in DOMAIN gamedata.signatures :
      LET places == Places(gamedata.signatures[name])
          answer == FindSignature(host.process, gamedata, name)
      IN /\ IF places = {} THEN answer = None ELSE answer \in places /\ \A p \in places : answer <= p
         /\ name \in DOMAIN gamedata.resolved /\ places # {}
              => (gamedata.resolved[name].unique <=> Cardinality(places) = 1)

\* What the file has for this platform.
Given == {e.name : e \in {host.file.signatures[i] : i \in DOMAIN host.file.signatures}}
           \ {e.name : e \in {e \in {host.file.signatures[i] : i \in DOMAIN host.file.signatures} :
                                e[host.process.platform] = None}}

Reported == UNION {report[i].detail : i \in DOMAIN report}

\* Each signature of the file that leads nowhere or to more than one place is named in the
\* report, unless the whole file is.
SignaturesAreReported ==
  \A name \in Given : \/ "file" \in Reported \/ name \in Reported
                       \/ /\ Found(name) # None
                          /\ ResolveSignature(host.process, gamedata, name) # None
                          /\ Cardinality(Places(gamedata.signatures[name])) = 1

(* EntityOps is ok only with its three spawning functions, GameEventManager and   *)
(* Events only with the manager, and a plugin stage that needs EntityOps runs only *)
(* when it is.  The other stages are the code's own word: Entities is ok whatever  *)
(* it finds, and EntityOps is ok without the functions behind AddIOEvent, Remove,  *)
(* SetModel and the sounds.                                                        *)
StagesAreHonest ==
  /\ IsOk("EntityOps") => \A name \in Spawning : ops[name] # None
  /\ IsOk("Events") \/ IsOk("GameEventManager") => "GameEventManager" \in interfaces
  /\ StatusOf("Effects") \notin {None, "skipped"} => \A name \in Spawning : ops[name] # None

(* By the time the plugin starts, each signature the file gives for this platform  *)
(* that does not lead to one place is in the load report, and so are the spawning  *)
(* functions and the event manager when the kit has to do without them.  A vtable  *)
(* offset the file lacks is not in it, nor is a function the file does not list.   *)
SignaturesAndStagesShow == phase = "onload" => SignaturesAreReported /\ StagesAreHonest

(* LoadReport.hpp says of a stage that is ok: "Fully initialized."  Entities is ok *)
(* without the offset it reads the entity system by.                               *)
OkIsFullyInitialized == IsOk("Entities") => EntitySystemReadable

=============================================================================
