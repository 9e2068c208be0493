------------------------------- MODULE Plugin --------------------------------
(* Core::MetamodPluginBase over the kit's services: Load with its stages and    *)
(* its failures, the standard hooks, Defer, and Unload, for any number of loads *)
(* of one server process.  OnLoad, OnUnload and the cleanups are the plugin's   *)
(* own and may call the services at each point.  A load that fails before       *)
(* OnLoad leaves nothing behind and is a step that changes nothing.             *)
EXTENDS EngineFeeds, HttpClient, Migrator

CONSTANTS
  Together,       \* the sets of services that one plugin uses
  Us,             \* the server of this plugin, among those that migrate the database
  MaxCleanups     \* bound: cleanups the plugin defers itself

ASSUME TogetherAssumption == Together \subseteq SUBSET 
                                {"events", "resources", "console", "requests", "migrations"}

VARIABLES
  uses,       \* the services this plugin uses
  phase,      \* "off", "loading", "on", "unloading", "deferred" or "stopping"
  deferred,   \* _deferred
  hooks       \* whose SourceHook hooks are installed: "kit", "plugin"

pluginVars == <<feedVars, httpVars, migratorVars, uses, phase, deferred, hooks>>
baseVars == <<uses, phase, deferred, hooks>>

\* Load up to the plugin's OnLoad.
Load(resolved, signatures) ==
  /\ phase = "off"
  /\ "events" \notin uses => ~resolved
  /\ "resources" \notin uses => ~signatures
  /\ FreshServices(resolved, signatures)
  /\ phase' = "loading"
  /\ hooks' = {"kit", "plugin"}
  /\ deferred' = << "kitHooks", "pluginHook" >>
  /\ UNCHANGED <<uses, httpVars>>

\* Defer: a hook's removal stands beside its installation, and a farewell posts a request.
Defer ==
  /\ Len(deferred) < 2 + MaxCleanups
  /\ deferred' = Append(deferred, "farewell")
  /\ UNCHANGED <<uses, phase, hooks, feedVars, httpVars>>

OnLoadReturns(ok) ==
  /\ phase = "loading" /\ ~Running(Us)
  /\ phase' = IF ok THEN "on" ELSE "deferred"
  /\ UNCHANGED <<uses, deferred, hooks, feedVars, httpVars>>

Unload ==
  /\ phase = "on" /\ GameThreadFree /\ firing = None
  /\ phase' = "unloading"
  /\ UNCHANGED <<uses, deferred, hooks, feedVars, httpVars>>

OnUnloadReturns ==
  /\ phase = "unloading"
  /\ phase' = "deferred"
  /\ UNCHANGED <<uses, deferred, hooks, feedVars, httpVars>>

\* One turn of RunDeferred, from the last cleanup to the first.
RunDeferred ==
  /\ phase = "deferred" /\ deferred # << >>
  /\ deferred' = SubSeq(deferred, 1, Len(deferred) - 1)
  /\ LET cleanup == deferred[Len(deferred)] IN
       /\ hooks' = CASE cleanup = "kitHooks" -> hooks \ {"kit"}
                     [] cleanup = "pluginHook" -> hooks \ {"plugin"}
                     [] OTHER -> hooks
       /\ IF cleanup = "farewell" /\ Request \ Waiting # {}
          THEN \E r \in Request \ Waiting : Post(r)
          ELSE UNCHANGED httpVars
  /\ UNCHANGED <<uses, phase, feedVars>>

\* CS2Kit::Shutdown, up to the wait for the requests.
Shutdown ==
  /\ phase = "deferred" /\ deferred = << >>
  /\ Unprecache /\ ForgetEvents /\ Stop
  /\ phase' = "stopping"
  /\ UNCHANGED <<manager, nextHandle, firing, resources, others, manifest, consoleVars, uses, deferred, hooks>>

\* The pumps are cancelled and the services destroyed, the status command with them.
Destroy ==
  /\ phase = "stopping" /\ StopReturns
  /\ phase' = "off"
  /\ NoServices
  /\ UNCHANGED <<uses, deferred, hooks>>

\* What OnLoad, OnUnload and the plugin's callbacks may call, on the game thread.
PluginCalls ==
  /\ phase \in {"loading", "on", "unloading"} /\ GameThreadFree /\ firing = None /\ ~Running(Us)
  /\ \/ "requests" \in uses /\ Defer
     \/ /\ \/ "events" \in uses /\ \E e \in Event : Listen(e)
           \/ \E h \in DOMAIN listeners : RemoveListener(h)
           \/ "resources" \in uses /\ \E path \in Resource : AddResource(path)
           \/ "console" \in uses /\ OnChange
           \/ "console" \in uses /\ ~command /\ InstallCommand
        /\ UNCHANGED <<baseVars, httpVars>>
     \/ /\ "requests" \in uses
        /\ \E r \in Request : Post(r)
        /\ UNCHANGED <<baseVars, feedVars>>

\* Mutant of GameFrame: the pump is not registered again by the second Initialize.
GameFrameWithoutPump ==
  /\ phase = "on" /\ firing = None /\ "kit" \in hooks
  /\ Complete \/ StopReturns
  /\ UNCHANGED <<baseVars, feedVars>>

\* Hook_GameFrame pumps the HTTP client through the scheduler; a frame ends with its batch.
GameFrame ==
  /\ phase = "on" /\ firing = None /\ "kit" \in hooks
  /\ DispatchCompletions \/ Collect \/ Complete \/ StopReturns
  /\ UNCHANGED <<baseVars, feedVars>>

\* The engine, between two frames.
Hook_StartupServer ==
  /\ phase \in {"off", "on"} /\ GameThreadFree /\ firing = None
  /\ MapStarts("kit" \in hooks)
  /\ UNCHANGED <<baseVars, httpVars>>

OtherPlugins ==
  /\ phase \in {"off", "on"} /\ GameThreadFree /\ firing = None
  /\ "resources" \in uses
  /\ \E f \in Other : OtherComes(f) \/ OtherGoes(f)
  /\ UNCHANGED <<baseVars, httpVars>>

\* The engine fires an event, and the service's walk of its listeners goes on.
Events ==
  /\ phase = "on" /\ GameThreadFree
  /\ EngineFires \/ Delivery \/ ListenerCalls
  /\ UNCHANGED <<baseVars, httpVars>>

PluginInit ==
  /\ uses \in Together
  /\ FeedsInit /\ HttpInit /\ MigratorInit
  /\ phase = "off" /\ deferred = << >> /\ hooks = {}

Teardown == OnUnloadReturns \/ RunDeferred \/ Shutdown \/ Destroy
Worker(r) == Answer(r) /\ UNCHANGED <<baseVars, feedVars>>

PluginStep ==
  \/ \E resolved, signatures \in BOOLEAN : Load(resolved, signatures)
  \/ \E ok \in BOOLEAN : OnLoadReturns(ok)
  \/ Unload
  \/ Teardown
  \/ PluginCalls
  \/ GameFrame
  \/ Hook_StartupServer
  \/ OtherPlugins
  \/ Events
  \/ \E r \in Request : Worker(r)

\* OnLoad migrates its database and waits for the end; other servers do as they please.
Migrates(s) ==
  /\ "migrations" \in uses /\ (s = Us => phase = "loading")
  /\ RunMigrations(s)

MigratorRuns ==
  /\ \E s \in Server : Migrates(s) \/ Lock(s) \/ MigrationStep(s) \/ Fails(s)
  /\ UNCHANGED <<feedVars, httpVars, baseVars>>

PluginNext == (PluginStep /\ UNCHANGED migratorVars) \/ MigratorRuns

\* OnLoad, OnUnload, the cleanups and event listeners return, frames come between events, each
\* request has a timeout, statements come to an end, and the database grants its lock in the
\* order it was asked.
Fairness ==
  /\ WF_pluginVars(Teardown /\ UNCHANGED migratorVars)
  /\ WF_pluginVars(\E ok \in BOOLEAN : OnLoadReturns(ok) /\ UNCHANGED migratorVars)
  /\ SF_pluginVars(GameFrame /\ UNCHANGED migratorVars)
  /\ WF_pluginVars(Delivery /\ UNCHANGED <<baseVars, httpVars, migratorVars>>)
  /\ \A r \in Request : WF_pluginVars(Worker(r) /\ UNCHANGED migratorVars)
  /\ \A s \in Server :
       /\ WF_pluginVars(MigrationStep(s) /\ UNCHANGED <<feedVars, httpVars, baseVars>>)
       /\ SF_pluginVars(Lock(s) /\ UNCHANGED <<feedVars, httpVars, baseVars>>)

PluginSpec == PluginInit /\ [][PluginNext]_pluginVars /\ Fairness

-------------------------------------------------------------------------------
PluginTypeOK ==
  /\ phase \in {"off", "loading", "on", "unloading", "deferred", "stopping"}
  /\ hooks \subseteq {"kit", "plugin"}
  /\ deferred \in Seq({"kitHooks", "pluginHook", "farewell"})
  /\ DOMAIN listeners \subseteq 1 .. nextHandle - 1
  /\ registered \subseteq Event /\ attached \in [Event -> Nat]
  /\ manifest \subseteq Resource /\ session \subseteq Factory
  /\ phase = "off" => deferred = << >> /\ Waiting = {}

\* When no plugin is loaded, nothing of it is left in the engine or on a thread, however far the
\* load had come, whatever OnUnload and the cleanups set up on the way out, and however many
\* maps and loads came before; only the convar callback stays.
EngineForgetsThePlugin ==
  phase = "off" =>
    /\ hooks = {} /\ attached = NotAttached /\ ~command
    /\ Kit \notin Reached \cup session
    /\ working = {}

\* A request is called back or dropped in the end, and an unload or a failed load comes to its
\* end, with requests in flight, completions and cleanups that post more, and OnUnload in any mood.
RequestsSettle == \A r \in Request : r \in Waiting ~> r \notin Waiting
TeardownEnds == phase \in {"unloading", "deferred", "stopping"} ~> phase = "off"

\* Nothing the plugin has started stays open for ever: a request is answered or dropped, a
\* teardown ends whatever its cleanups post, and a run of migrations ends although the lock is
\* held by another server.
RunsEnd == RequestsSettle /\ TeardownEnds /\ MigrationsEnd

=============================================================================
