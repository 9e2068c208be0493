---------------------------- MODULE EngineFeeds ------------------------------
(* What the kit leaves inside the engine: its game event listener               *)
(* (Sdk::GameEventService), its game system (Sdk::PrecacheService and           *)
(* Sdk::GameSystemFactory), its convar callback (Sdk::ConVarService) and its    *)
(* console command (Core::StatusService).  The engine's listener table, its     *)
(* list of factories, linked through the factories themselves and shared with   *)
(* other plugins, and its session are external; they outlive a load.            *)
EXTENDS Integers, Sequences, FiniteSets, CallbackRegistry

CONSTANTS
  None,
  Event,       \* names of game events
  Resource,    \* resource paths
  Other,       \* factories of the game and of other plugins
  Kit,         \* the kit's own factory
  EventVerbs   \* what an event's listener may do to the registry while it is called

ASSUME VerbsAssumption == EventVerbs \subseteq {"listen", "remove self", "remove others"}
ASSUME KitAssumption == Kit \notin Other /\ None \notin Other \cup {Kit}

MaxHandle == 3     \* bound: handles a load gives out

Factory == Other \cup {Kit}

VARIABLES
  manager,     \* whether Interfaces.GameEventManager is resolved
  listeners,   \* GameEventService::_listeners, by handle, and the next handle
  nextHandle,
  registered,  \* _registeredEvents
  attached,    \* external: how often the engine's table has the service, by event
  refused,     \* history: the registered events that the engine's last AddListener refused
  firing,      \* the event that is being delivered and how far FireGameEvent's walk is, or None
  resources,   \* PrecacheService::_resources
  others,      \* external: the others' factories that were linked and not unlinked
  linked,      \* whether _factory is set
  head, next,  \* external: the engine's factory list
  session,     \* external: the factories whose systems are in the session
  manifest,    \* the resources of the session's manifest
  hasCallback, \* external: whether the engine has GlobalConVarChangeCallback
  installed,   \* _globalCallbackInstalled
  command      \* external: whether the engine has the status command

feedVars == <<manager, listeners, nextHandle, registered, attached, refused, firing, resources, others,
              linked, head, next, session, manifest, hasCallback, installed, command>>
eventVars == <<manager, listeners, nextHandle, registered, attached, refused, firing>>
precacheVars == <<resources, others, linked, head, next, session, manifest>>
consoleVars == <<hasCallback, installed, command>>

-------------------------------------------------------------------------------
\* The listeners of an event, and a walk of the registry that has met none of them yet.
ListenersOf(items, e) == {h \in DOMAIN items : items[h] = e}
WalkOf(e, rounds) ==
  [event |-> e, rounds |-> rounds, start |-> ListenersOf(listeners, e), left |-> ListenersOf(listeners, e),
   running |-> NoHandle, heard |-> {}, again |-> {}]

\* Where a walk under way may go on when its callback changes _listeners to items: erasing an item
\* ahead takes it out; an insertion may rehash, and erasing the item that is being visited leaves
\* the loop on a dead iterator, so that it may go on anywhere.
Onward(items, safe) ==
  IF safe THEN {firing.left \cap DOMAIN items} ELSE SUBSET ListenersOf(items, firing.event)

Listen(e) ==
  /\ nextHandle <= MaxHandle
  /\ IF ~manager THEN UNCHANGED eventVars
     ELSE /\ IF e \in registered THEN UNCHANGED <<attached, refused>>
             ELSE \/ attached' = [attached EXCEPT ![e] = @ + 1] /\ UNCHANGED refused
                  \/ refused' = refused \cup {e} /\ UNCHANGED attached
          /\ registered' = registered \cup {e}
          /\ listeners' = Add(listeners, nextHandle, e)
          /\ nextHandle' = nextHandle + 1
          /\ IF firing = None THEN UNCHANGED firing
             ELSE \E left \in Onward(listeners', FALSE) : firing' = [firing EXCEPT !.left = left]
          /\ UNCHANGED manager
  /\ UNCHANGED <<precacheVars, consoleVars>>

RemoveListener(h) ==
  /\ listeners' = Remove(listeners, {h})
  /\ IF firing = None THEN UNCHANGED firing
     ELSE \E left \in Onward(listeners', h # firing.running) : firing' = [firing EXCEPT !.left = left]
  /\ UNCHANGED <<manager, nextHandle, registered, attached, refused, precacheVars, consoleVars>>

NotAttached == [e \in Event |-> 0]

\* Mutant of Reattached: a listener that survived is attached again.
ReattachedTwice(table, accepted) == [e \in Event |-> IF e \in accepted THEN table[e] + 1 ELSE table[e]]

\* OnServerStartup's work on the table the engine kept: detach, then attach what is accepted.
Reattached(table, accepted) == [e \in Event |-> IF e \in accepted THEN 1 ELSE 0]

\* OnServerStartup.
OnServerStartup(table) ==
  IF ~manager \/ registered = {} THEN attached' = table /\ UNCHANGED refused
  ELSE \E accepted \in SUBSET registered :
         attached' = Reattached(table, accepted) /\ refused' = registered \ accepted

\* RemoveAllListeners.
ForgetEvents ==
  /\ attached' = IF manager THEN NotAttached ELSE attached
  /\ registered' = {} /\ listeners' = NoItems /\ refused' = {}

\* The engine fires e and calls the service once for each place it has in the table; each call of
\* FireGameEvent walks the registry as it is, item by item, and calls the listeners of e.
FireGameEvent(e) ==
  /\ firing = None /\ attached[e] > 0
  /\ firing' = WalkOf(e, attached[e])

CallListener(h) ==
  /\ firing # None /\ firing.running = NoHandle /\ h \in firing.left
  /\ firing' = [firing EXCEPT !.running = h, !.left = @ \ {h}, !.heard = @ \cup {h},
                              !.again = IF h \in firing.heard THEN @ \cup {h} ELSE @]

\* What the callback does to the registry before it returns.
ListenerCalls ==
  /\ firing # None /\ firing.running # NoHandle
  /\ \/ "listen" \in EventVerbs /\ \E e \in Event : Listen(e)
     \/ "remove self" \in EventVerbs /\ RemoveListener(firing.running)
     \/ "remove others" \in EventVerbs /\ \E h \in DOMAIN listeners \ {firing.running} : RemoveListener(h)

ListenerReturns ==
  /\ firing # None /\ firing.running # NoHandle
  /\ firing' = [firing EXCEPT !.running = NoHandle]

WalkDone == firing # None /\ firing.running = NoHandle /\ firing.left = {}

WalkEnds ==
  /\ WalkDone
  /\ firing' = IF firing.rounds = 1 THEN None
               ELSE [firing EXCEPT !.rounds = @ - 1, !.left = ListenersOf(listeners, firing.event)]

\* The delivery of the event goes on.
Delivery ==
  /\ (\E h \in DOMAIN listeners : CallListener(h)) \/ ListenerReturns \/ WalkEnds
  /\ UNCHANGED <<manager, listeners, nextHandle, registered, attached, refused, precacheVars, consoleVars>>

EngineFires ==
  /\ \E e \in Event : FireGameEvent(e)
  /\ UNCHANGED <<manager, listeners, nextHandle, registered, attached, refused, precacheVars, consoleVars>>

-------------------------------------------------------------------------------
\* GameSystemFactory's constructor: any factory goes to the head of the list.
Link(f) ==
  /\ next' = [next EXCEPT ![f] = head]
  /\ head' = f

\* The factories a walk along the list meets.
Reached ==
  {f \in Factory : \A S \in SUBSET Factory :
     ({head} \ {None} \subseteq S /\ \A g \in S : next[g] \in S \cup {None}) => f \in S}

\* Unregister: the cursor that holds f skips it.
Unlink(f) ==
  /\ head' = IF head = f THEN next[f] ELSE head
  /\ next' = [g \in Factory |-> IF g \in Reached /\ next[g] = f /\ g # f THEN next[f] ELSE next[g]]

\* Another plugin is loaded or unloaded.
OtherComes(f) ==
  /\ f \notin others
  /\ Link(f)
  /\ others' = others \cup {f}
  /\ UNCHANGED <<resources, linked, session, manifest, eventVars, consoleVars>>

OtherGoes(f) ==
  /\ f \in others
  /\ Unlink(f)
  /\ others' = others \ {f}
  /\ session' = session \ {f}
  /\ UNCHANGED <<resources, linked, manifest, eventVars, consoleVars>>

AddResource(path) ==
  /\ resources' = resources \cup {path}
  /\ UNCHANGED <<others, linked, head, next, session, manifest, eventVars, consoleVars>>

\* Mutant of Unprecache: the live game system is left in the session.
UnprecacheFactoryOnly ==
  /\ linked' = FALSE
  /\ session' = session
  /\ IF linked THEN Unlink(Kit) ELSE UNCHANGED <<head, next>>

\* PrecacheService::Shutdown.
Unprecache ==
  /\ linked' = FALSE
  /\ session' = IF linked THEN session \ {Kit} ELSE session
  /\ IF linked THEN Unlink(Kit) ELSE UNCHANGED <<head, next>>

-------------------------------------------------------------------------------
\* OnChange and RemoveChangeListener change only the service's own registry otherwise.
OnChange ==
  /\ installed' = TRUE
  /\ hasCallback' = TRUE
  /\ UNCHANGED <<command, eventVars, precacheVars>>

InstallCommand ==
  /\ command' = TRUE
  /\ UNCHANGED <<installed, hasCallback, eventVars, precacheVars>>

-------------------------------------------------------------------------------
\* The engine resets its listener table during map startup; a listener may survive it.
TableAfterReset == {attached, NotAttached}

\* InitAllSystems walks the factories; the systems it finds build the session's manifest.
\* Then the StartupServer hook, if it is installed, attaches the listener again.
MapStarts(hooked) ==
  /\ session' = Reached
  /\ manifest' = IF Kit \in Reached THEN resources ELSE {}
  /\ \E table \in TableAfterReset :
       IF hooked THEN OnServerStartup(table) ELSE attached' = table /\ UNCHANGED refused
  /\ UNCHANGED <<manager, listeners, nextHandle, registered, firing,
                 resources, others, linked, head, next, consoleVars>>

FeedsInit ==
  /\ manager = FALSE /\ listeners = NoItems /\ nextHandle = FirstHandle
  /\ registered = {} /\ attached = NotAttached /\ refused = {} /\ firing = None
  /\ resources = {} /\ others = {} /\ linked = FALSE
  /\ head = None /\ next = [f \in Factory |-> None]
  /\ session = {} /\ manifest = {}
  /\ hasCallback = FALSE /\ installed = FALSE /\ command = FALSE

\* The services of a new load, with the interfaces and signatures it resolves; what the engine
\* has stays.
FreshServices(resolved, signatures) ==
  /\ manager' = resolved
  /\ linked' = signatures
  /\ IF signatures THEN Link(Kit) ELSE UNCHANGED <<head, next>>
  /\ UNCHANGED <<listeners, nextHandle, registered, attached, refused, firing,
                 resources, others, session, manifest, consoleVars>>

\* The services' own state goes with them; StatusService's command unregisters itself.
NoServices ==
  /\ manager' = FALSE
  /\ listeners' = NoItems /\ nextHandle' = FirstHandle /\ registered' = {} /\ refused' = {}
  /\ resources' = {} /\ linked' = FALSE
  /\ installed' = FALSE /\ command' = FALSE
  /\ UNCHANGED <<attached, firing, others, head, next, session, manifest, hasCallback>>

-------------------------------------------------------------------------------
\* While the services live, a fired event reaches each of its listeners exactly once, over any
\* number of maps, whether the engine keeps or drops its table when a map starts and whatever
\* listeners other listeners remove during the delivery: the engine calls the service once for
\* each event it did not refuse, and the walk meets every listener that is there from the start of
\* the delivery to its end, and none of them again.
EventsArriveOnce ==
  /\ \A h \in DOMAIN listeners : listeners[h] \notin refused => attached[listeners[h]] = 1
  /\ firing # None => firing.again = {}
  /\ WalkDone => firing.start \cap DOMAIN listeners \subseteq firing.heard

\* The factories that a walk of the engine's list meets are those that are linked: the kit's, for as
\* long as the service has one, and everybody else's, whoever came or went first.
ListIsWhole == Reached = others \cup (IF linked THEN {Kit} ELSE {})

\* What the engine hands out reaches everybody who asked for it, once.
FeedsAreExact == EventsArriveOnce /\ ListIsWhole

=============================================================================
