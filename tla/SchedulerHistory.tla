-------------------------- MODULE SchedulerHistory --------------------------
(***************************************************************************)
(* Scheduler with history variables, and what the scheduler owes its       *)
(* clients stated over them.  The history reads the steps of Scheduler and *)
(* never constrains them.                                                  *)
(***************************************************************************)
EXTENDS Scheduler

VARIABLES
  repeating, \* handles obtained from Repeat, DelayAndRepeat or EveryFrame
  cancelled, \* handles removed by Cancel or CancelAll
  ran,       \* handles whose callback has started at least once
  newFrom,   \* nextId when the running frame took its snapshot
  pace       \* handle -> clock before which its next firing would be early

history == <<repeating, cancelled, ran, newFrom, pace>>
hvars == <<timers, nextId, clock, pc, now, toFire, current, interval,
           repeating, cancelled, ran, newFrom, pace>>

HInit ==
  /\ Init
  /\ repeating = {}
  /\ cancelled = {}
  /\ ran = {}
  /\ newFrom = FirstHandle
  /\ pace = [h \in Handle |-> 0]

HClient ==
  /\ \/ (OneShotRequest \/ Withdrawal) /\ UNCHANGED repeating
     \/ RepeatRequest /\ repeating' = repeating \cup {nextId}
  /\ cancelled' = cancelled \cup (Registered \ DOMAIN timers')
  /\ pace' = [h \in Handle |->
                IF h \in DOMAIN timers' \ Registered THEN timers'[h].next ELSE pace[h]]
  /\ UNCHANGED <<ran, newFrom>>

HBeginFrame ==
  /\ BeginFrame
  /\ newFrom' = nextId
  /\ UNCHANGED <<repeating, cancelled, ran, pace>>

HFire(id) ==
  /\ Fire(id)
  /\ ran' = ran \cup {id}
  /\ UNCHANGED <<repeating, cancelled, newFrom, pace>>

\* A served repeat may not be served again for another interval.
HReturn ==
  /\ Return
  /\ pace' = IF interval > 0 THEN [pace EXCEPT ![current] = @ + interval] ELSE pace
  /\ UNCHANGED <<repeating, cancelled, ran, newFrom>>

HOther ==
  /\ (\E id \in Handle : Skip(id)) \/ EndFrame \/ Tick
  /\ UNCHANGED history

HNext == HClient \/ HBeginFrame \/ (\E id \in Handle : HFire(id)) \/ HReturn \/ HOther

HSpec == HInit /\ [][HNext]_hvars
LiveSpec == HSpec /\ Fairness

-----------------------------------------------------------------------------

StartsCallback(id) == pc = "loop" /\ pc' = "callback" /\ current' = id

\* Once Cancel or CancelAll has removed a handle its callback never starts
\* again, also when the cancelling code is another callback of the very frame
\* whose snapshot already holds the handle (the re-find in OnGameFrame).
CancelledNeverRuns ==
  [][\A id \in Handle : StartsCallback(id) => id \notin cancelled]_hvars

\* A timer registered by a callback waits for a later frame even when it is
\* already due, so NextTick chains and Delay(0) cannot spin inside a frame.
NewTimersWait ==
  [][\A id \in Handle : StartsCallback(id) => id < newFrom]_hvars

\* A frame leaves no timer behind that it found due: a NextTick registered
\* before the frame has run, or was cancelled, when the frame ends.
FrameServesDue ==
  [][(pc = "loop" /\ pc' = "idle") =>
       \A id \in Registered :
         id < newFrom /\ timers[id].interval >= 0 => timers[id].next > now]_hvars

\* A frame serves exactly what it found due: nothing newer, nothing less.
FramesAreExact == NewTimersWait /\ FrameServesDue

\* However late frames are, a repeating timer has not started more callbacks
\* than its first due time and its interval allow: no burst catches up.
PacedFirings ==
  [][\A id \in Handle :
       StartsCallback(id) /\ timers[id].interval > 0 => pace[id] <= clock]_hvars

\* A one-shot whose callback has started is registered only until that
\* callback returns, so it can never be served a second time.
OneShotsEnd ==
  \A id \in Registered :
    timers[id].interval = OneShot /\ id \in ran => id = current

\* Every due timer is served or cancelled: neither re-arming repeats nor
\* every-frame timers nor client activity starve it.
DueTimersAreServed ==
  \A id \in Handle :
    (id \in Registered /\ timers[id].next <= clock) ~> (current = id \/ id \notin Registered)

\* The frame loop implements the promise made to clients.
Service == INSTANCE TimerService
             WITH armed <- timers, used <- FirstHandle .. nextId - 1, serving <- current
ImplementsTimerService == Service!SSpec

\* Repeat's documentation: "Run callback every intervalMs milliseconds", until
\* its handle is cancelled.  So a repeating timer stays registered.
RepeatsUntilCancelled == repeating \ cancelled \subseteq Registered

=============================================================================
