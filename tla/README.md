# Verification of cs2-kit

cs2-kit is a C++ library for Counter-Strike 2 server plugins (Metamod). This
directory models the parts of it that carry control flow: timers, effects on
players, the database worker and its migrations, HTTP requests, the life of a
plugin and what it leaves in the engine, the start of the kit over game data
and signatures, the player registry, chat commands and their targets, movement
and input history, prompts, menus, wizards, per-client visibility, and the
calls into entities, the console and translations. TLC checks the models on small
instances; TLAPS proves, for every instance and under the hypotheses of section 5,
the safety of timers, effects, the database layer, prompts, menus, per-client
visibility, the player registry, the life of a plugin, its requests and its
migrations, and both refinements. Where the code does not do what its
documentation says, section 6 lists it, with the property that fails.

## 1. The system

Everything runs on the game thread except the database worker and the HTTP
requests. What makes the single-threaded part hard is re-entrancy: nearly every
component calls plugin code (timer callbacks, `OnTick`/`OnStop`, validators,
menu rows, `OnClose`, slot listeners, completion callbacks, cleanups) in the
middle of its own work, and that code may call the component again. The second
difficulty is identity: timers, menu rows, panels and per-slot values remember
a slot, handles remember an index, and both are reused by others.

| Component | State | Operations | Hard behaviour |
|---|---|---|---|
| `Core::CallbackRegistry` | handle -> item, next handle | Add, Remove, Clear, Find | handles are never reused; pointers and iterators die on mutation |
| `Core::Scheduler` | timers by handle | Delay, Repeat, DelayAndRepeat, NextTick, EveryFrame, Cancel, CancelAll, OnGameFrame | callbacks mutate the registry in mid-frame |
| `Core::ScheduledEffect` | tick timer, stop timer, stopped | construct, Stop, move-assign, destroy | five ways to end, one `OnStop` |
| `Core::EffectManager`, dispatch | slot -> id -> effect | Apply, Cancel, four sweeps, Toggle/Apply/Clear | `OnStop` re-enters Apply and the sweeps |
| `Database::PostgresDatabase` | job queue, worker, connection, completions | Start, Stop, Query, Exec, QueryBlocking, WithConnection, DispatchCompletions | two threads, lost connections, drain deadline |
| `Database::Migrator` | history table, advisory lock | RunMigrations | partial failure, concurrent servers, lost commit replies |
| `Http::HttpClient` | pending requests with futures | Get, Post, DispatchCompletions, Stop | completions post or stop in mid-dispatch |
| `Core::MetamodPluginBase`, `CS2Kit` | services, hooks, deferred cleanups, load report | Load, Unload, Defer, Initialize, Shutdown | a load may fail anywhere; nothing may stay in the engine |
| `Sdk::GameEventService` | listeners, event names | Listen, RemoveListener, OnServerStartup, FireGameEvent | the engine may drop its table at each map or refuse a listener; listeners change the registry while it is walked |
| `Sdk::PrecacheService` | factory, resources | Add, Initialize, Shutdown | an intrusive list shared with other plugins |
| `Sdk::GameData`, `SigScanner`, `Schema` | offsets, signatures, resolutions | Load, ResolveAll, FindSignature, GetOffset | partial files, ambiguous or malformed patterns, two libraries of one name |
| `Players::PlayerManager`, `PerSlot` | slot -> player, SteamID -> player, slot listeners | AddPlayer, RemovePlayer, Clear | slots are reused, bots share a SteamID, raw pointers |
| `Sdk::MovementHook`, `InputHistoryService` | the decoded view, rings | Install, pre and post hook, Enable, Record | one view for all players; rings change depth |
| `Commands`, `Targeting`, `ActionDispatcher` | command table | HandleChatMessage, target resolution, menu actions | selectors, permission, immunity, rows that outlive their target |
| `Sdk::PawnOps`, `PersistentCenterHtml` | godmode flag, timers by slot | Slap, ToggleGodmode, Show, Stop | act later on whoever is in the slot |
| `Sdk::ChatInputCapture` | slot -> pending capture and timer | BeginCapture, TryConsume, CancelCapture, timeout, disconnect | the validator begins or cancels captures; timers name only a slot |
| `Menu::MenuManager` | slot -> stack of menus, cursor, freeze | OpenMenu, CloseMenu, CloseAllMenus, frame input, freeze | rows and `OnClose` open and close menus in mid-call |
| `Menu::Flow` | step index, answers | Start, step, confirm, finish | back and forth over a stack it does not own; validity changes |
| `Sdk::TransmitFilter` | hidden flags, exclusive entities, count | SetPawnHidden, SetControllerHidden, Set/ClearEntityExclusive, CheckTransmit | the count and the flags must agree |
| `Sdk::GlowVision` | slot -> pair of clone entities | Reconcile, Destroy | the engine removes clones and reuses their indices |
| `Sdk` entities, controllers, effects | resolved functions, cached offsets | Spawn family, calls on a player | stale handles, five engine calls per spawn, ownership of keyvalues |
| `Sdk::ConVarService`, `Utils::Translations` | console buffer, languages by slot | ExecuteServerCommand, OnChange, SetLanguage, SetPlayerLanguage, Get | one buffer for all commands; a language outlives its player |
| `Sdk::MessageSystem` | none | Send, SendTextMsg, SendCenterHtml | each call allocates, posts and gives back |

How they interact: the scheduler is the heart. The database pump, the HTTP
pump, menu input, effects, refreshed panels, fall protection and the timeouts of
chat captures are all its timers. A menu's custom rows begin chat captures; a
flow's steps are menus; glow visions run on the tick of an effect and write into
the transmit filter; commands and menu actions read the roster and the policy; a
disconnect reaches the plugin first, then menus, captures and the filter, then
the player registry, whose slot change feed resets per-slot state.

What makes each correct, in a line: timers run when due, in their own frame and
never after a cancel; an effect ends exactly once and can always be reached;
database statements take effect in order and results do not lie; a migration
runs once whoever races; each request is called back or dropped, once; an
unloaded plugin leaves nothing behind; an event reaches each of its listeners
once; a signature that failed shows in the report; a signature is where it says;
the registry knows exactly who is there and nothing of one player reaches the
next; commands do what their token means and the policy allows; a prompt is
answered by its own player; the cursor is on a row and movement is given back; a
wizard acts once, on what it showed; clones are private; a call reaches its own
player; console commands stay apart, and a player reads his own language.

## 2. Modules

| Module | What it is |
|---|---|
| `CallbackRegistry` | the registry as operators on functions, used by every owner of one |
| `Timers` | timer arithmetic of `Scheduler.cpp` |
| `Scheduler` | one action per scheduler operation and per step of `OnGameFrame` |
| `SchedulerHistory` | history variables and the scheduler's properties |
| `TimerService` | abstract: what a timer client is promised |
| `Effects` | ScheduledEffect, EffectManager, EffectDispatch over `Timers` |
| `PostgresDatabase` | the database layer: threads, queue, connection, completions |
| `AsyncStore` | abstract: what a database client is promised |
| `ChatInput` | the captures of one slot, their validators and timeouts |
| `MenuManager` | the menus of one slot, input, freeze |
| `Flow` | the wizards of one player over an abstraction of menus and captures |
| `Visibility` | TransmitFilter and GlowVision over the engine's entities |
| `Players` | PlayerManager, PerSlot and the rings of InputHistoryService behind the hooks |
| `Movement` | MovementHook around each command (extends `Players`) |
| `Targeting` | the target grammar and the roster filter as pure operators |
| `Commands` | CommandManager, TargetResolver, ActionDispatcher over `Players` and `Targeting` |
| `SlotTimers` | Slap's fall protection, PersistentCenterHtml (extends `Players`) |
| `Server` | the composition of the five above on one roster |
| `HttpClient` | requests, completions, Stop |
| `EngineFeeds` | GameEventService, PrecacheService, convar callback and console command in the engine |
| `Migrator` | RunMigrations of several servers on one database |
| `Plugin` | MetamodPluginBase: the composition of the three above over any number of loads |
| `Signatures` | GameData and SigScanner as pure operators |
| `Startup` | CS2Kit::Initialize stage by stage with LoadReport (extends `Signatures`) |
| `Entities` | EntitySystem, EntityOps, EffectOps, PlayerController over a started kit |
| `Messaging` | the console commands of ConVarService and Translations over a started kit |
| `Kit` | the composition of the four above |
| `SchedulerProofs`, `EffectsProofs`, `PostgresProofs`, `DialogProofs`, `ServerProofs`, `EngineProofs`, `MenuProofs`, `PluginProofs` | theorems |
| `MC*` | constants for the model checker |

An operator whose comment begins "Mutant of" is a plausible wrong version of
the definition it names. No specification uses it: put in place of the right
one, it must make the property it belongs to fail.

### Scheduler

`timers`/`nextId` are the registry; `now`, `toFire`, `current` and `interval`
are the locals of `OnGameFrame`; `pc` says whether the thread is outside a
frame, in its loop, or in a callback. While it is outside or in a callback,
every client operation is enabled: a callback may register and cancel anything,
itself included. `unordered_map` order is unspecified, so the loop takes any
handle of the snapshot next. The steady clock advances at any moment.
`NextTick` is `Delay(0)`. Handles and the clock are bounded by `MaxHandle` and
`MaxClock`.

### Effects

Re-entrancy is explicit: `stack` holds one activation record per function that
is on the call stack (frame, sweep, apply, assignment, `OnTick`, `OnStop`), and
plugin verbs are enabled whenever plugin code is on top. `inst` is the set of
shared `State` objects; `effects` is the manager's map; `applied` stands for
what a `Setup` body did to the player and its `OnStop` undoes. The verbs that
plugin code uses between frames, from `OnTick` and from `OnStop` are constants,
so each run says which re-entrancy it allows. `StopSparesAssigned` excludes the
one re-entrancy whose effect C++ does not define: an `OnStop` that erases the
map node which the assignment that runs it is writing to (see section 6).
Bounds: `MaxEffects` instances, `MaxClock` ticks.

### PostgresDatabase

Every step that holds a mutex is one action. The worker takes a job, ensures a
connection (`conn` distinguishes a socket that is open, one that is dead while
`is_open()` still says open, and one known to be closed), runs it, and
finishes it. A failure may come before or after the server committed. The
game thread starts (with a blocking ping), stops (join, cancel the pump,
destroy completions), dispatches batches and runs callbacks, which may submit
again; helper threads submit and wait. `Expire` is the drain deadline. The
server side (`known`, `committed`, `Disconnect`) is external. Statements, rows
and result data are left out: nothing here depends on them. Bounds: `MaxJobs`,
`MaxStarts`.

### ChatInput

One slot; slots share nothing. `pending` is the slot's capture, `alarms` the
live timers, which hold nothing but the slot: firing cancels whatever is
pending. `call` holds the copies that `TryConsume` makes before it runs the
validator; while it runs, `BeginCapture` and `CancelCapture` are enabled.
`AcceptAfterBegin` says whether a validator that began the next capture may
accept its own line (FALSE in the run; section 6 says what happens otherwise).
Frames, and with them timers, do not happen inside a call. Plugin code is taken
to prompt players who are connected.

### MenuManager

One slot; slots share only the freeze switch. A menu is the sequence of the
kinds of its rows; the stack is `MenuStack`. Each frame reads the held keys
(`Pressed`, the debounce, the else-if chain of keys) and calls the row under the
cursor. Row callbacks and `OnClose` are plugin code: `calls` is the call stack,
and `OpenMenu`, `CloseMenu`, `CloseAllMenus` and `SetFreezePlayer` are enabled
while it is not empty. The player's controller and pawn are external: `body` says
whether there is neither, a controller without a pawn, or both, and `Embody`
changes it between calls, under an open menu as well; `move` is the pawn's
MoveType. `SetPlayerFrozen` does nothing without a controller, and without a pawn
it reads and remembers None, as the code does. `original` and `kept` are history:
the MoveType of the pawn there is, and whether it was there when the first menu
opened. `FreezeAnytime` says whether plugin code flips the freeze switch while a
menu is open (it is FALSE in the runs; see section 6). Rendering is left out.

### Flow

One player with several wizards. The stack holds which flow's step (or
confirm dialog) each open menu is; `capture` is the pending custom input; `at`
is `_stepIndex`; `answers` is the state the steps write to. Every key press is
one step. `valid` is what `OnValidate` would say, and may turn false at any
moment. `Skips` gives the steps whose predicate the first answer falsifies.

### Visibility

`flags` is the filter's per-slot state with its count, `exclusive` its vector of
exclusive entities (indices in it are unique), `pairs` the clones of each
viewer. Handles are an index and a serial number; `world` is the engine's table
of entities, where removed ones stay until the end of the frame and free
indices are reused. `Reconcile`'s loop is one step per slot (`turn`). Which
entities belong to a pawn (weapons, wearables) is abstracted to the pawn; a
snapshot changes no state, so what `OnCheckTransmit` clears is three operators
that the properties read in every state between loops. A plugin is taken to
cancel a leaving player's effects, as the comment in
`TransmitFilterService::OnPlayerDisconnect` says.

### Players, Movement, Commands, SlotTimers, Server

`client` is the engine's view of its slots; `bySlot` and `bySteamId` are the
manager's two indices, a player being an object identity with a slot and a
SteamID; bots share SteamID 0. A plugin loaded late does not know the clients
who are there. Every operation that changes a slot's occupant
includes `FireSlotChange`, which resets the plugin's `PerSlot` (`data`, if
`bound`) and the slot's ring. `Unbind` drops the subscription and keeps the
values, so that a slot may change hands without its value being reset; `missed`
is the history of those slots, until `Renew` replaces the values or the next
change is heard. A map change connects a client again in place. Rings
are the code's arrays with head and count, and `At` is its index arithmetic.

`Movement` adds the view of the last decoded command, which both hooks of all
players share, and whether anyone listens. A command that cannot be read (no
offset, no protobuf) leaves an invalid view. Commands do not nest.

`Commands` resolves a line's arguments one after another as `ResolveArgs` does,
over tokens that are records of what the parser asks about them; names are short
sequences of letters, so that exact, prefix and substring tiers differ.
`controller` says for each slot whether the client has a controller yet, and how
its pawn looks (a player without a pawn is one who is not alive). `did`
records what a line or a menu action came to, so that the properties can judge
it against the roster of that moment. They judge it by `Group`, `Fit` and `Meant`,
which say what a token means after `Targeting.hpp` and share nothing with the
parser that `Targeting` models; a number there means itself. In the parser the
int conversions keep their width: an int has `IntWidth` values, 16 in the runs,
so that a number beyond it fits into a small line. The policy is a set of admins
and an immunity relation.

`SlotTimers` counts the delayed clears on their way per slot and says which
refresh timers live and which one the slot's handle names. `granted` is the
history of a godmode that somebody other than the slap set while no clear was on
its way. What a render
callback does to its own panel is a constant, `RenderVerbs`.

`Server` drives them with one roster. A plugin uses one family of services at a
time (`uses`), chosen in the beginning; the families share nothing but the
roster, so the composition would only multiply their states.

### Plugin, EngineFeeds, HttpClient, Migrator

`phase` is where the plugin's life is, `deferred` the vector of cleanups,
`hooks` whose hooks are in. OnLoad may fail, and OnLoad, OnUnload, completions
and cleanups may call the services. The engine's listener table, its factory
list (linked through the factories: `head`, `next`), its session and its convar
callback outlive a load and are external. `AddListener` may be refused, by
`Listen` and at each map start; the name stays registered either way, as in the
code (`refused` is the history of it). `firing` is one call of `FireGameEvent`
under way: the listeners it has still to come to, the one that runs, and those
it has called. Listeners may do `EventVerbs`. Removing another takes it off the
walk; a listener that removes itself, or one that listens (the map may rehash),
leaves the loop with an invalid iterator, after which it may go on at any
listeners of the event (the model's choice for what C++ does not define, short
of a crash). A listener fires no event itself. `HttpClient`'s dispatch is the
code's two loops: `it` walks the pending requests, each turn takes a ready one
out into `batch` or goes past it (a worker may answer in between), and then one
completion runs at a time, which may post or stop. `Migrator` has one step per
transaction and per file the loop passes over; a statement or the connection may
fail at any of them, and an in-doubt commit is a failure with effect. `Together`
lists the sets of services one plugin uses together, as in `Server`.

### Startup, Signatures, Entities, Messaging, Kit

A host is a process (loaded objects with segments of bytes), a gamedata file
and what the engine offers. `Startup` runs the stages of `Initialize` in their
order; each decides from the host and from what earlier stages left, appends to
the report and may end the load. `Signatures` scans the bytes as the scanner
does: the widest object of the library's name on Linux, the module's one image
on Windows, each segment on its own. `Entities` gives each identity slot a
serial number that goes up when its entity goes; calls on players are families
(read or write a pawn field, call on pawn or controller) because each does the
same checks. A controller has two handles, of its player pawn (`m_hPlayerPawn`)
and of the pawn it possesses (`m_hPawn`), which differ while the player observes;
movement services are reached by the second. `Messaging` keeps the console's
buffer as tokens, and languages as sets of keys; what a lookup found is kept with
the language the player asked for and the server's.
`Kit` runs either after a startup that ended in "running".

## 3. Runs

| Run | Question | Bounds |
|---|---|---|
| `scheduler` | do frames keep every promise while callbacks change the timers, and implement `TimerService`? | 3 handles, clock 0..2 |
| `effects` | `OnStop` once, nothing orphaned, sweeps complete and sparing what they met, timed effects end, under full re-entrancy | 3 instances, 2 ids, clock 0..1 |
| `effects_reapply` | does re-applying leave the new state? It does not | 3 instances, 1 id |
| `postgres` | order, truth, conservation (`StatementsAreSafe`), a final Stop, liveness of waiters and Stop; refinement of `AsyncStore` | 3 jobs, 2 starts, a helper thread |
| `chat_input` | is a prompt timed out only when due, answered only by its player, and does it end? | 3 captures, timeout 2 |
| `menu_manager` | cursor, freeze, held keys and typing under nested callbacks, while pawns come and go | 2 menus, depth 2, 3 nested calls |
| `flow` | does a wizard keep its screens in order, and act once, validly, on what its dialog shows? | 2 flows of 3 steps, depth 4 |
| `flow_back` | has every applicable step been answered at the end? Not after going back | 1 flow of 3 steps |
| `visibility` | is hiding exact, is anything orphaned, are clones private until a restart? | 3 slots, 1 viewer, 4 indices, 6 spawns |
| `server` | is the registry exact, does anything leak to the next player, do commands and actions do what is meant and allowed, are delayed acts accounted for? | 3 slots, 2 SteamIDs and bots, depths 1 and 2, 22 lines, ints of 16 values |
| `plugin` | does an unloaded plugin leave nothing, do events arrive once though listeners remove others, do requests and migrations end once? | 2 events, 3 handles, 3 requests, 2 other factories, 2 servers, 3 migrations, any number of loads |
| `startup` | are signatures right, does the report show those that fail, are spawns whole, do calls reach their player, do commands stay apart, are texts the player's own? | 51 hosts, 2 slots, 4 identity slots, 1 reuse |

Several properties are conjunctions of named parts, each with its own comment:
`FramesAreExact` (NewTimersWait, FrameServesDue), `StatementsAreSafe`
(CommitsInOrder, ResultsAreTrue, NothingIsLost, PreparedAreKnown), `StopIsFinal`
(StopSettles, StoppedIsSilent), `WaitsEnd` (BlockedAreReleased, StopReturns,
CallbacksArrive), `SessionInv` (TypeOK, CursorOnRow), `MovementIsLent`
(FrozenWhileOpen, and MoveRestored for a pawn that was there all along),
`KeysAreMeant`, `ScreensAgree` (types, StepsInOrder, InputIsCurrent,
ConfirmShowsState, StepsApply), `FinishIsJustified`, `ClonesAreTheViewers`,
`ArgumentsAreMeant` (TargetsAreMeant, HandlersAreServed),
`DelayedActsAreAccounted` (ProtectionIsLent, GrantsStand, StopEndsThePanel),
`FeedsAreExact` (EventsArriveOnce, ListIsWhole), `MigrationsAreTold`, `RunsEnd`
(RequestsSettle, TeardownEnds, MigrationsEnd), `SignaturesAndStagesShow`
(SignaturesAreReported, StagesAreHonest).

What some of them leave out is said here once more, because the names are short.
`SweepsSpareTheRest` is about effects that were live when the sweep began.
`MovementIsLent` is about a pawn that was there when the first menu opened.
`ActsWithinPolicy` is about players whom a command or a row was handed as its
target; a bare SteamID hands it none. `ArgumentsAreMeant` is checked over lines
whose numbers are ints (`MCServer` asserts it). `DelayedActsAreAccounted`
promises only godmode that was granted while no clear was on its way, does not
say whom a clear finds in the slot, and nothing ends a panel when its player
leaves. `NothingLeaksToTheNext` leaves out values whose change of hands no
`PerSlot` was bound to hear. In `EventsArriveOnce` an event the engine refused
reaches nobody. `SpawnsAreWhole` promises a Kill only to a kit that has
`AddEntityIOEvent` and an entity system.

Why the bounds are enough. Three timers make one that fires, one that it cancels
and one it registers in the same frame. Three effects make an old one, its
replacement, and one that an `OnStop` creates. Three database jobs make a ping,
a write and a read behind it, or two pings around a restart with a job that was
left over. Three captures make a pending one, its replacement and one begun
inside a validator. A menu of five rows with two per page has rows of each kind
and a short last page on which nothing can be selected. Three steps, one of them
skipped for one answer, let `_stepIndex`, the stack and the answers disagree.
Six spawns are two pairs and a rebuilt one, four indices leave no choice but to
reuse those of the stale pairs. A pawn that comes, goes and comes again makes
one read, one that is missing and one that is given what was read. Entity
indices are interchangeable in the model (symmetry), and no liveness is checked
there. Two slots with two SteamIDs each let a player move, a bot leave while
another stays, and a slot change hands with and without a leave in between;
rings of depths 1 and 2 wrap and grow. The roster of commands has names that
match each other exactly, as a prefix and inside. Three requests make one in the
batch, one its completion posts and one still under way. Three listeners on two
events make one that is called, one ahead of it and one behind. Three files, two
of one version, make a complete, a failing and an ambiguous directory for
servers of different releases. The hosts vary one thing at a time around a whole
one: each odd kind of signature at each name that something needs, a
displacement that leads to address 0, each way a file can be bad, each missing
interface or manager.

`CHECK_DEADLOCK FALSE` stands where a behaviour may end: an unloaded plugin
makes no more calls, a refused load is over, and the bounds on effects and jobs
run out.

## 4. Fairness

The engine calls `OnGameFrame` on every server tick and plugin callbacks return,
so frame steps are weakly fair; so is time. Clients are never fair. The database
worker is fair because `connect_timeout` bounds connects and statements are
assumed to return: without the second assumption `Stop` waits for a hanging
statement, as the code does. In `ChatInput` frames fall between calls, so ticks
and due timers are strongly fair: a player who keeps typing lines that are
refused does not stop the frames that come between two lines. In `Plugin` a
teardown's steps, OnLoad's return and the delivery of an event are weakly fair,
since they are plain calls that return; each request is answered, since it has a
timeout; frames are strongly fair, since the engine ticks whatever events it
fires in between; a migration's statements end; and the database grants its lock
in the order it was asked, which is strong fairness of `Lock`. Whether a plugin
is ever unloaded is not fair. The other modules state safety only.

## 5. Proofs

Assumptions are the named ASSUMEs of the modules: sets and bounds of the right
kind (a directory is finite, `Missing` is no server, the kit's factory is
nobody else's), nothing about their size.

`SchedulerProofs`, about `HSpec`, for any number of handles, any clock bound and
any argument sets: type correctness; `OneShotsEnd`; `RepeatsUntilCancelled`
(when no client passes interval 0); `CancelledNeverRuns`; `NewTimersWait`,
`FrameServesDue` and their conjunction, `FramesAreExact`; and `PacedFirings`, which
no run checks by itself (`ImplementsTimerService` covers it). The
types are not inductive by themselves, and none of the action properties follows
from them. The inductive invariant ties the frame's locals to the registry:
snapshot handles are older than the frame's first new handle, the running
handle's copied interval is its registered one while it is still registered,
cancelled handles are not registered, every timer the frame found due is in the
rest of the snapshot, running, or re-armed past the frame's clock reading, and
no repeating timer is due before its pace. `ImplementsTimerService` follows step
by step: the invariant says that a handle the loop is about to call is one whose
abstract timer is due in this frame; beginning and ending a frame and skipping a
stale handle are stutters.

`EffectsProofs`, about `Spec`, for any slots, ids, descriptors, numbers of
effects and verbs that plugin code calls between frames, from `OnTick` and from
`OnStop`, to any depth, with or without `StopSparesAssigned`:
`StopsExactlyOnce`, `NothingOrphaned`, `SweepsReachEveryVictim`, and
`SweepsSpareTheRest`, of effects that were live when the sweep began (one stored
under a pending id meanwhile may be ended: section 6). None is inductive,
because each speaks of what functions further down the stack are going to do.
`IInv` gives every activation record its meaning (`Meant`): an effect that is
being stored was built for the key it is stored under; the state an assignment
writes over has ended; a live victim of a sweep is still the entry of a key the
sweep has to come to; an effect that was live at its start and that it does not
select is not the entry of one. `Over` says what may stand above what, and that
is what keeps a nested Apply from putting one of the others back under a key
that a sweep below it will cancel: an effect stored inside a sweep is younger
than the sweep. `TimerOwned` says that a timer in the scheduler is the one its
effect remembers, so that `Stop` leaves none. `AfterEnding` is the one argument
for every step that ends effects.

`PostgresProofs`, about `Spec`, for any threads, names, kinds and numbers of
jobs and restarts: `TypeOK`, `CommitsInOrder`, `PreparedAreKnown`,
`ResultsAreTrue`, `NothingIsLost`, `StopSettles`, `StatementsAreSafe`, and, when
no callback calls Stop (`~StopInCallbacks`), `StoppedIsSilent`, `StopIsFinal`
and the refinement of `AsyncStore` (`ImplementsAsyncStore`). The strengthening
has one part per theme: the queue is increasing, above the job in hand, which is
above everything committed (`OrderInv`); unanswered jobs are the queue and the
job in hand (`PendingInv`); what an outcome or a verdict says about the server
(`TruthInv`); what the flags say about the worker while Stop joins it
(`StopInv`); no pump without a run (`SilentInv`); the statement cache is within
what the session knows (`CacheInv`).

`DialogProofs`, about `Spec`, for any timeout and any number of captures:
`CaptureInv`, `TimeoutsAreDue`, `TextFromOwner`. Each has the hypothesis
`~AcceptAfterBegin`: a validator that began the next capture does not accept its
own line (section 6 says what happens if it does). That the
running timer belongs to the pending capture is not inductive: `CallInv` adds
that while a validator runs that has begun nothing, what is pending is the
capture it answers with the handle that was copied; `AgeInv` that a timer has as
much time left as its capture has not used up; `OwnerInv` that a prompt was
begun for the player who is there; `AbsentInv` that nothing is pending on an
empty slot.

Its second part is about `FlowSpec`, for any flows, steps, values, skip
predicates and depth of the menu stack: `ScreensAgree` and `FinishIsJustified`,
with no hypothesis beyond the assumptions on the constants (numbers of the right
kind, `Unset` is no value, and no answer skips the first step). Of a finish the
second says that there is at most one and that the flow was valid at that moment;
which steps were answered by then is `flow_back`'s question. `FlowInv` says
that the steps of one flow lie on the stack in their order and none beyond
`_stepIndex` (`OrderInv`), so that going back never leaves a later screen under
an earlier one; that the pending input belongs to the last step its flow has on
the stack (`AskedInv`); that every confirm dialog, not only the one on top,
shows the answers confirming would act on (`ShownInv`); and that a flow that has
acted has neither a menu nor an input left with which it could act again
(`OverInv`).

The first part of `ServerProofs` is about `PlayersSpec` (the registry, per-slot
values and rings with every operation of `Players`), for any sets of slots,
SteamIDs, objects and history depths: `PlayersTypeOK`, `IndexIsExact`,
`NothingLeaksToTheNext`. `IndexInv` is the strengthening for the index: what the
manager has in a slot is the engine's client of that slot or nobody, and each
entry of the SteamID index is under the player's own SteamID. `LeakInv` is the
one for the feed: values and samples belong to the client of their slot (values,
where the `PerSlot` was bound to hear the last change of hands), and a ring's
samples up to its count are the ones written since the slot changed hands; the
lemmas about `Pushed` say what writing at the head does to what `At` reads.

The second part is about `ServerSpec`, the composition. `ServerImplementsPlayers`:
if no pre listener enables the history inside a dispatch (`PreVerbs = {}`), every
step of the services is a step of `Players` or leaves the registry alone, so that
`IndexIsExact` and `NothingLeaksToTheNext` carry over (`ServerIndexIsExact`,
`ServerLeaksNothing`). `ProtectionIsLent` and `GrantsStand` have no such hypothesis;
`DelayedActsAreAccounted` holds if `None` is not a timer and a render callback
shows no panel itself (`RenderVerbs` within `{"stop"}`). `PawnInv` adds
that an empty slot has no protection, because the delayed clear that finds nobody
leaves the flag as it is, and that no clear is on its way while a grant stands;
`PanelInv` is about the screens Stop, Show and Refresh
pass on, each with the timer of its handle and no other.

The third part is about the commands and menu rows of `ServerSpec`, for any
commands, lines, rows, names and policy. `ActsWithinPolicy` has no hypothesis,
and does not cover bare SteamIDs: `PolicyInv` adds that the registry has a
player under his own slot only, that nobody outside the command family has an
outcome, and that the registered commands are of the declared shape;
`EntitledContext` is what holds of the context while `ResolveArgs` works, that
whoever is in it was found on this roster and may be acted on. The arguments are
an unbounded sequence; the induction over them is one over the set of lengths
for which the claim holds (`CountedUp`, from the well-foundedness of the
naturals), which needs no theorem with an operator parameter.
`ArgumentsAreMeant` assumes that no argument overwrites what another filled and
that the tail is the last (`PlainSpec`), and that the slot numbers and Int
arguments of the lines are ints (`NumbersFit`); the code enforces neither,
`MCServer` asserts both of its commands and lines, and section 6 says what a
number beyond does. `CastIntFits` says that the cast keeps an int,
`WordsSelectTheirGroup` and `RandomByWord` that the parser's selectors are the
documented groups. `FirstTargetStands` says that what the first argument made of
the target is still there at the end; `BestAreTheTier`, that the exact, prefix
and substring tiers of the code are the best by `Fit`, for names and fragments
of any length; `FilterTells`, that each refusal is the true one; `ServedSoFar`,
which argument is at which token after n of them. The constants' assumptions are
the declared shapes of commands, tokens and names, and that `None` is no slot,
no SteamID and no error.

The first part of `EngineProofs` is about the `Spec` of `Visibility`, for any
slots, viewers, entity indices and numbers of spawns: `HiddenAreFiltered` and
`ClonesAreTheViewers`. That `OnCheckTransmit` may stop after `_activeCount`
slots needs `CountInv`, the count is the cardinality of the flagged slots, over
every order of setting, clearing and disconnecting. For clones the invariant is
a predicate of filter, world and pairs, kept by each single engine call, because
`Reconcile` destroys and creates in the middle of its loop: every clone and
every entry has a pair that will remove it (`Whole`), and as long as the engine
has removed nothing by itself the handles are living clones, no two pairs share
an index and exactly the clones are exclusive (`Lent`).

The second part is about `KitSpec`, for any hosts, slots, identity slots,
serials, commands, languages and keys. `StagesAreHonest`, which speaks of
EntityOps, Events, GameEventManager and the plugin's own effects stage but not
of Entities (section 6), follows from `ReportInv`: each entry of the report says
the truth of interfaces and engine functions that are there from its stage on
(`Says`), and later stages take nothing away (`Monotone`). `SpawnsAreWhole` and
`CallsHitTheirPlayer` follow from `EntitiesInv`: the list is empty until the kit
runs, so that every effect in it went through a kit that could spawn; an effect
is whole (`WholeEffect`) after each single call that may be interrupted by the
next; and a controller's handle, for which only the serial number is compared,
has a serial no greater than its place's, and when they are equal the pawn there
is the controller's own (`PointsAtOwn`), because serials only grow.
`TextsAreTheirOwn` follows from `LanguagesInv`, which says that a player who is
gone has no language, and needs that `None` is no language code. For
`CommandsStayApart`, `LineAdded` says what one more line does to the lines of a
buffer of any length; it has the hypothesis `SingleLines`: a caller hands over
one command, with or without its line end, because the code appends a text with
several lines as it is; `MCStartup` asserts it of the commands of the run.

`ResolutionsAreTrue` compares the scan, which resumes, walks and recurses, with
`Places`, which only says where a pattern stands. Its parts are about any bytes,
any pattern and any number of segments and objects. The scan's recursive functions
exist (`HitsAreThere` downward from the end of a range, `StepByStep` upward, both
by `CountedUp`); the hits of a range list its matches in ascending order
(`Listed`, `HitsListed`: the place after the first match is where the rest
begins); ranges one behind the other list the places of all (`RangesListed`);
the walk over the loaded objects finds the widest of the name, the first of equals
(`WidestIsSelected`). An ascending list tells what the kit asks: whether there is
a place, the lowest, and whether it is the only one (`ListedTells`).
`GameDataInv` carries the tables and their entry in the report through the later
stages; with it and `StagesAreHonest` follows `SignaturesAndStagesShow`.
`HostsAssumption` is what the system gives: a program header lists the loadable
segments by ascending address and they do not overlap, empty ones are skipped
(`SigScanner.cpp:158`), a JSON object has a name once, a pattern is a sequence of
numbers, and a null pointer is no address; `MCStartup` checks it of its hosts.

`MenuProofs`, about `Spec`, for any menus, page size, debounce, depth of nested
callbacks, and pawns that come and go: `SessionInv`, `KeysAreMeant`, and, if the
freeze switch is not flipped while a menu is open (`~FreezeAnytime`),
`MovementIsLent`, for the pawn that was there when the first menu opened. The
cursor is not on a row while an `OnClose` runs, so `CursorInv` holds only where
no `CloseMenu` is on the call stack; that the search for a selectable row around
the ring ends on one when the page has one is a lemma about `%` and least
elements. `MoveInv` says who has the movement of such a pawn: the menus while
frozen, else the player.
`KeyInv` says that a key still down since a menu was opened is among those the
next frame compares with, or that this frame is inside the debounce.

`PluginProofs`, about `PluginSpec`, over any number of loads and any events,
resources, factories, requests, servers and migration files. `EachRequestOnce`:
`HttpInv` adds that a worker that is not done belongs to a pending request, which
is why a request collected from the list cannot be answered again.
`FeedsAreExact` has the hypothesis that listeners change the registry inside a
delivery only by removing others (`EventVerbs` within `{"remove others"}`;
section 6 says what the rest does): `EventInv` says that the engine's table has the
service once for exactly the registered events that the engine did not refuse (so
that what survives a map start is replaced, not added to), `WalkInv` that a listener
which is there has been called in this walk or is ahead of it, and none is both;
for the list of factories, `Reached` is the least set a walk cannot
leave, and the invariant adds a ranking along the walk, which says that the list
has no cycle; with it `Link` adds one factory and `Unlink` removes one whoever
else is linked (`LinkAdds`, `UnlinkRemoves`). `EngineForgetsThePlugin`: `BaseInv`
says that an installed hook has its cleanup in `deferred`, so that an empty list
means no hooks, and what each phase has left of listeners, factory, command and
workers; the kit's system is in a session only while its factory is linked.
`MigrationsAreTold` has the hypothesis `Unreadable = {}` (section 6 says what
happens to a file that cannot be opened). `MigratorInv` gives for each place in a
run what the run knows: who is past the lock and has not lost its connection
holds it (`HasLock`); the files to come are ordered and everything of the
directory that is not to come was applied or passed over, at or below the
reported version, which is the table's greatest (`Applying`); a run about to
unlock is done or has an excuse in its directory (`Finishing`). A step of one run
keeps what the others know, because who changes the table has the lock
(`OthersKeep`).

Only model-checked: all liveness (`DueTimersAreServed`, `TimedEffectsEnd`,
`WaitsEnd`, `TimedCapturesEnd`, `RunsEnd`), which the prover does not reach;
`CommandsAreTheirOwn`; `PlayersMatchEffects` and `FinishAnswered`, which the
code does not keep, like the properties of section 6 that no run checks. Every
other property of a passing run is a theorem; where one has a hypothesis, it is
named above.

## 6. Where the code and its documentation disagree

Shown by a run:

- `effects_reapply`: applying an active effect again runs the new Setup before
  the old `OnStop`, which then undoes the new state.
- `flow_back`: after R, the next answer advances from the step that was left, so
  a step in between can stay unanswered.

Shown by the models, too, but checked by none of the runs: each of these
properties says what the documentation does, and TLC finds it violated, within a
minute, when it is checked in place of those of a run's configuration and that
configuration is changed as said.

| Property | Configuration | Changed | What the code does |
|---|---|---|---|
| `DeathSweepKeepsSession` | `MCEffects` | | A sweep walks ids: a Session effect that an `OnStop` body stores under an id the death sweep has still to come to is ended by it (`EffectManager.cpp:55-64`). `docs/players.md:124` says the sweep keeps those. |
| `AcceptedWereHeard` | `MCChatInput` | `AcceptAfterBegin = TRUE` | A validator that begins the next capture and returns true loses it, and its timer stays behind (`ChatInputCapture.cpp:51-56`). `ChatInputCapture.hpp:36` allows a capture to be begun while one is active. |
| `MoveRestored` | `MCMenuManager` | | A player whose pawn spawns under an open menu, or who had none when it was opened, is given what was read of no pawn: None (`MenuManager.cpp:159-164`). `MenuManager.hpp:34` says the original MoveType is restored. |
| `ClonesArePrivate` | `MCVisibility` | | After a round restart the stale pair of a later slot clears the filter entry of a rebuilt clone that got its old index (`GlowVision.cpp:36`). `docs/sdk/visibility.md:46` says both are exclusive to the beneficiary. |
| `BareIdsAreOffline` | `MCServer` | `Lines <- MCIdLines` | A bare number is taken for a SteamID whether or not its owner is online, and `CanTarget` is not asked (`CommandManager.cpp:177-180`), against the comment above it and `docs/commands.md:5`. |
| `TargetsAreMeant` | `MCServer` | `Lines <- MCWideLines` | `#<n>` is parsed to 64 bits and cast to int (`Targeting.cpp:68`): a large number reaches another slot. |
| `HandlersAreServed` | `MCServer` | `Lines <- MCWideLines` | So is an Int argument (`CommandManager.cpp:221`): the handler gets a number nobody typed. |
| `StopEndsThePanel` | `MCServer` | `RenderVerbs = {"show"}` | A panel whose render callback calls `Show` for its own slot leaves a refresh timer that no handle names (`PersistentCenterHtml.cpp:26`). |
| `CommandsAreTheirOwn` | `MCServer` | `PreVerbs = {"history"}` | A pre-movement listener that enables the input history makes it record a view that was not decoded for this command (`MovementHook.cpp:156`). |
| `EventsArriveOnce` | `MCPlugin` | `EventVerbs = {"listen", "remove self"}` | `FireGameEvent` walks the live registry (`GameEventService.cpp:107-113`). `docs/sdk/events.md:32` allows `Listen` at any time, and `CallbackRegistry.hpp:17` asks such callers for a snapshot. |
| `OkIsFullyInitialized` | `MCStartup` | | The Entities stage is Ok without the entity system's offset (`Entity.cpp:95`), unlike what `LoadReport.hpp:13` says of Ok. |
| `ActiveBeforeEnglish` | `MCStartup` | | `Translations::Get` goes from the player's language to English, past the active one (`Translations.cpp:158-170`), which `Translations.hpp:35` names as the first fallback. |

Met while modelling. Where a constant is named, the model shows it when the
constant is set so:

- `SetFreezePlayer(false)` while a menu is open leaves the player frozen when it
  closes (`MenuManager.cpp:149`; `FreezeAnytime = TRUE`).
- `Repeat` with interval 0 fires once: 0 is the marker of one-shots
  (`RepeatsUntilCancelledHolds` has the hypothesis that excludes it).
- An `OnStop` that re-applies or cancels its own id while `insert_or_assign`
  assigns over the entry (`StopSparesAssigned = FALSE`) leaves the assignment
  writing into an erased node.
- A completion callback that calls `PostgresDatabase::Stop` does not stop the
  rest of its batch (`StopInCallbacks = TRUE`); `HttpClient::Stop` from a
  completion likewise drops what is pending but not the rest of the batch
  (`HttpClient.cpp:118`; the header says undelivered completions are dropped).
- `AddListener`'s failure is not looked at when `Listen` registers a name, which
  stays in `_registeredEvents`: later listeners of the event do not try again
  before the next map (`GameEventService.cpp:59`, `:76-79`).
- `PerSlot::Unbind` keeps the values, and changes of hands while it is unbound do
  not reset them (`PerSlot.hpp:37-44`).
- The delayed clear of a slap takes godmode from whoever has it in the slot by
  then, granted since the slap, to the same or the next client
  (`PawnOps.cpp:94-98`). The comment at `:88` is about what was granted before.
- Nothing ends a panel when its player leaves: the next client in the slot is
  sent it (`PersistentCenterHtml.cpp:25`).
- A vtable offset the file lacks, or an optional function it does not list for
  the platform, is in no load report; the calls that need it do nothing
  (`PlayerController.cpp:38`).
- `SetPlayerLanguage` does not ask whether the player is there; a language set for
  an empty slot would be the next player's. The model's callers set it for
  players who are connected.
- The global convar callback is never removed, so the engine keeps a pointer
  into an unloaded library (`ConVarService.cpp:225`);
  `EngineForgetsThePlugin` leaves it out by name.
- A malformed hex token in a pattern throws out of the GameData stage
  (`SigScanner.cpp:48`), so the load ends in an exception and not a report; a
  parse error after the offsets leaves them in the tables (`GameData.cpp:67`).
- `AddIOEvent` does nothing, silently, when its function is unresolved: an
  effect entity with a lifetime then stays (`EntityOps.cpp:164`).
- A migration file that cannot be opened is recorded as applied
  (`Migrator.cpp:40`; `Unreadable` not empty).
- A cleanup that defers another one appends to the vector that `RunDeferred`
  walks (`MetamodPluginBase.cpp:122`); the model's cleanups do not.
- A refused line does not extend the timeout of its capture; a menu without rows
  cannot be closed with R; `CloseAllMenus` leaves the pending capture of a flow,
  which can bring the flow back.

## 7. Plan

The next to model are the change listeners of `ConVarService`, the command filters
of `MovementHook`, a listener that fires an event itself, and raw bodies that use
the database from its own worker. What
the signatures' displacements lead to (`Target`) has no second definition to be
compared with; a wrong one is seen only when it leads to address 0.

Not modelled, and why: row mapping, REST helper, `Utils` other than
translations (stateless conversions); sending messages, setting and replicating
convars and status sections (each call only hands something to the engine, or
appends a line); menu options, builder and rendering
(HTML layout, state that belongs to the plugin); logging, configuration files,
paths (I/O); vtable and ABI structures, JSON and SQL text (data, no control).
