----------------------------- MODULE Scheduler ------------------------------
(***************************************************************************)
(* Core::Scheduler.  One game thread alternates between OnGameFrame and    *)
(* the rest of the plugin.  The callback of a timer is client code: while  *)
(* it runs (pc = "callback") it may call every operation again, so a frame *)
(* is a loop over a snapshot of handles whose registrations change under   *)
(* it.  The steady clock advances at any moment, inside a frame too.       *)
(***************************************************************************)
EXTENDS Timers

CONSTANTS
  MaxHandle,  \* bound: handles a behaviour may allocate
  MaxClock,   \* bound: the clock stops here
  Delays,     \* the delayMs arguments clients pass
  Intervals   \* the intervalMs arguments clients pass

ASSUME BoundsAssumption == MaxHandle \in Nat /\ MaxClock \in Nat
ASSUME ArgumentsAssumption == Delays \subseteq Int /\ Intervals \subseteq Int

VARIABLES
  timers,    \* _timers: handle -> timer
  nextId,    \* the registry's _nextId
  clock,     \* GetCurrentTimeMs()
  pc,        \* "idle" between frames, "loop" in OnGameFrame, "callback" in a callback
  now,       \* OnGameFrame's local: the clock read once per frame
  toFire,    \* OnGameFrame's local: snapshot handles not visited yet
  current,   \* OnGameFrame's local: the handle whose callback runs
  interval   \* OnGameFrame's local: that timer's interval, copied out

registry == <<timers, nextId>>
locals == <<now, toFire, current, interval>>
vars == <<timers, nextId, clock, pc, now, toFire, current, interval>>

Registered == DOMAIN timers
Handle == FirstHandle .. MaxHandle
Timer == [next : Int, interval : Int]

Init ==
  /\ timers = NoItems
  /\ nextId = FirstHandle
  /\ clock = 0
  /\ pc = "idle"
  /\ now = 0
  /\ toFire = {}
  /\ current = NoHandle
  /\ interval = OneShot

-----------------------------------------------------------------------------
(* Client operations: from game code between frames and from callbacks.    *)

InClient == pc \in {"idle", "callback"}

Register(next, ivl) ==
  /\ InClient
  /\ nextId <= MaxHandle
  /\ timers' = Add(timers, nextId, [next |-> next, interval |-> ivl])
  /\ nextId' = nextId + 1
  /\ UNCHANGED <<clock, pc, locals>>

\* NextTick is Delay with delayMs = 0.
Delay(delayMs) == Register(clock + delayMs, OneShot)
Repeat(intervalMs) == Register(clock + intervalMs, intervalMs)
DelayAndRepeat(delayMs, intervalMs) == Register(clock + delayMs, intervalMs)
EveryFrame == Register(0, EveryFrameSentinel)

Cancel(id) ==
  /\ InClient
  /\ timers' = Remove(timers, {id})
  /\ UNCHANGED <<nextId, clock, pc, locals>>

CancelAll ==
  /\ InClient
  /\ timers' = NoItems
  /\ UNCHANGED <<nextId, clock, pc, locals>>

-----------------------------------------------------------------------------
(* OnGameFrame.                                                            *)

\* An empty registry returns before reading the clock: nothing changes.
BeginFrame ==
  /\ pc = "idle"
  /\ Registered # {}
  /\ pc' = "loop"
  /\ now' = clock
  /\ toFire' = Due(timers, clock)
  /\ UNCHANGED <<registry, clock, current, interval>>

\* Mutant of Skip: a cancelled handle ends the loop instead of being skipped.
SkipRest(id) ==
  /\ pc = "loop"
  /\ id \in toFire \ Registered
  /\ toFire' = {}
  /\ UNCHANGED <<registry, clock, pc, now, current, interval>>

\* The handle was cancelled by an earlier callback of this frame.
Skip(id) ==
  /\ pc = "loop"
  /\ id \in toFire \ Registered
  /\ toFire' = toFire \ {id}
  /\ UNCHANGED <<registry, clock, pc, now, current, interval>>

\* Mutant of Fire: no re-find before the call.
FireUnchecked(id) ==
  /\ pc = "loop"
  /\ id \in toFire
  /\ pc' = "callback"
  /\ toFire' = toFire \ {id}
  /\ current' = id
  /\ interval' = OneShot
  /\ UNCHANGED <<registry, clock, now>>

Fire(id) ==
  /\ pc = "loop"
  /\ id \in toFire \cap Registered
  /\ pc' = "callback"
  /\ toFire' = toFire \ {id}
  /\ current' = id
  /\ interval' = timers[id].interval
  /\ UNCHANGED <<registry, clock, now>>

\* The callback returns.  The loop's locals die with the iteration.
Return ==
  /\ pc = "callback"
  /\ pc' = "loop"
  /\ timers' = Settled(timers, current, interval, now)
  /\ current' = NoHandle
  /\ interval' = OneShot
  /\ UNCHANGED <<nextId, clock, now, toFire>>

EndFrame ==
  /\ pc = "loop"
  /\ toFire = {}
  /\ pc' = "idle"
  /\ now' = 0
  /\ UNCHANGED <<registry, clock, toFire, current, interval>>

Tick ==
  /\ clock < MaxClock
  /\ clock' = clock + 1
  /\ UNCHANGED <<registry, pc, locals>>

-----------------------------------------------------------------------------

OneShotRequest == \E d \in Delays : Delay(d)

RepeatRequest ==
  \/ \E i \in Intervals : Repeat(i)
  \/ \E d \in Delays, i \in Intervals : DelayAndRepeat(d, i)
  \/ EveryFrame

Withdrawal == CancelAll \/ \E id \in Handle : Cancel(id)

Client == OneShotRequest \/ RepeatRequest \/ Withdrawal

Frame ==
  \/ BeginFrame
  \/ \E id \in Handle : Skip(id) \/ Fire(id)
  \/ Return
  \/ EndFrame

Next == Client \/ Frame \/ Tick

\* The engine calls OnGameFrame on every server tick and callbacks return,
\* so frame steps go on happening; time passes.  Clients owe nothing.
Fairness == WF_vars(Frame) /\ WF_vars(Tick)

Spec == Init /\ [][Next]_vars /\ Fairness

-----------------------------------------------------------------------------

\* Every variable keeps its type; a snapshot only holds allocated handles.
TypeOK ==
  /\ nextId \in FirstHandle .. MaxHandle + 1
  /\ Registered \subseteq FirstHandle .. nextId - 1
  /\ timers \in [Registered -> Timer]
  /\ clock \in 0 .. MaxClock
  /\ pc \in {"idle", "loop", "callback"}
  /\ now \in 0 .. clock
  /\ toFire \subseteq FirstHandle .. nextId - 1
  /\ current \in 0 .. nextId - 1
  /\ interval \in Int

=============================================================================
