-------------------------- MODULE SchedulerProofs ---------------------------
(***************************************************************************)
(* Proofs about the scheduler for any number of handles, any clock bound   *)
(* and any delays and intervals.                                           *)
(***************************************************************************)
EXTENDS SchedulerHistory, TLAPS

-----------------------------------------------------------------------------
(* The registry and timer operators.                                       *)

\* Add registers the new handle and leaves every other item alone.
LEMMA AddProperties ==
  ASSUME NEW items, NEW id, NEW item, id \notin DOMAIN items
  PROVE  /\ DOMAIN Add(items, id, item) = DOMAIN items \cup {id}
         /\ Add(items, id, item)[id] = item
         /\ \A i \in DOMAIN items : Add(items, id, item)[i] = items[i]
BY DEF Add

\* Remove drops exactly the given handles.
LEMMA RemoveProperties ==
  ASSUME NEW items, NEW ids
  PROVE  /\ DOMAIN Remove(items, ids) = DOMAIN items \ ids
         /\ \A i \in DOMAIN items \ ids : Remove(items, ids)[i] = items[i]
BY DEF Remove, Restrict

\* After a callback a repeating timer is due one interval from the frame's
\* clock reading, a one-shot is gone, and no other timer has changed.
LEMMA SettledProperties ==
  ASSUME NEW D, NEW ts \in [D -> Timer], NEW id, NEW ivl \in Int, NEW t \in Int
  PROVE  /\ DOMAIN Settled(ts, id, ivl, t) =
              IF id \in D /\ ivl # OneShot THEN D ELSE D \ {id}
         /\ \A i \in D \ {id} : Settled(ts, id, ivl, t)[i] = ts[i]
         /\ id \in D /\ ivl # OneShot =>
              /\ Settled(ts, id, ivl, t)[id].next = NextAfter(ivl, t)
              /\ Settled(ts, id, ivl, t)[id].interval = ts[id].interval
         /\ Settled(ts, id, ivl, t) \in [DOMAIN Settled(ts, id, ivl, t) -> Timer]
<1>1. CASE id \in D /\ ivl # OneShot
  <2>1. Settled(ts, id, ivl, t) = [ts EXCEPT ![id].next = NextAfter(ivl, t)]
    BY <1>1 DEF Settled
  <2>2. NextAfter(ivl, t) \in Int
    BY DEF NextAfter
  <2>. QED BY <1>1, <2>1, <2>2 DEF Timer
<1>2. CASE ~(id \in D /\ ivl # OneShot)
  <2>1. Settled(ts, id, ivl, t) = [i \in D \ {id} |-> ts[i]]
    BY <1>2 DEF Settled, Remove, Restrict
  <2>. QED BY <1>2, <2>1
<1>. QED BY <1>1, <1>2

-----------------------------------------------------------------------------
(* The inductive invariant, part by part.                                  *)

HistoryTypeOK ==
  /\ repeating \subseteq FirstHandle .. nextId - 1
  /\ cancelled \subseteq FirstHandle .. nextId - 1
  /\ ran \subseteq FirstHandle .. nextId - 1
  /\ newFrom \in FirstHandle .. nextId
  /\ pace \in [Handle -> Int]

\* Cancelled handles are out of the registry (and, as handles are never
\* reused, stay out).
CancelledGone == cancelled \cap Registered = {}

\* The locals of OnGameFrame are only alive inside a frame.
LocalsDead ==
  /\ pc = "idle" => toFire = {}
  /\ pc # "callback" => current = NoHandle

\* The snapshot holds older timers that are due at the frame's clock reading.
SnapshotDue ==
  \A id \in toFire : id < newFrom /\ (id \in Registered => timers[id].next <= now)

\* The timer being served came from the snapshot and was due.
ServingDue ==
  pc = "callback" =>
    /\ current \in ran
    /\ current \in FirstHandle .. newFrom - 1
    /\ current \notin toFire
    /\ current \in Registered =>
         interval = timers[current].interval /\ timers[current].next <= now

\* What the running frame has already visited is not due any more.
VisitedServed ==
  pc # "idle" =>
    \A id \in Registered :
      id < newFrom /\ timers[id].interval >= 0 /\ id \notin toFire /\ id # current =>
        timers[id].next > now

\* A repeating timer is never due before its pace allows.
Paced == \A id \in Registered : timers[id].interval > 0 => pace[id] <= timers[id].next

\* Without a zero interval a timer that repeats is neither stored nor served
\* as a one-shot.
RepeatersRepeat ==
  OneShot \notin Intervals =>
    /\ RepeatsUntilCancelled
    /\ \A id \in repeating \cap Registered : timers[id].interval # OneShot

IInv ==
  /\ TypeOK
  /\ HistoryTypeOK
  /\ CancelledGone
  /\ LocalsDead
  /\ SnapshotDue
  /\ ServingDue
  /\ VisitedServed
  /\ Paced
  /\ OneShotsEnd
  /\ RepeatersRepeat

-----------------------------------------------------------------------------

LEMMA InitIInv == HInit => IInv
BY BoundsAssumption
   DEF HInit, Init, IInv, TypeOK, HistoryTypeOK, CancelledGone, LocalsDead, SnapshotDue,
       ServingDue, VisitedServed, Paced, OneShotsEnd, RepeatersRepeat, RepeatsUntilCancelled,
       Registered, NoItems, NoHandle, FirstHandle, OneShot, Handle

\* What every request to register a timer does to the registry.
LEMMA RegisterEffect ==
  ASSUME IInv, NEW next \in Int, NEW ivl \in Int, Register(next, ivl)
  PROVE  /\ nextId \in Handle
         /\ nextId \notin Registered
         /\ DOMAIN timers' = Registered \cup {nextId}
         /\ timers'[nextId] = [next |-> next, interval |-> ivl]
         /\ \A i \in Registered : timers'[i] = timers[i]
         /\ timers' \in [DOMAIN timers' -> Timer]
<1>. USE DEF IInv, TypeOK, Registered, FirstHandle
<1>1. nextId \notin DOMAIN timers /\ nextId \in Handle
  BY BoundsAssumption DEF Register, Handle
<1>2. timers' = [i \in DOMAIN timers \cup {nextId} |->
                   IF i \in DOMAIN timers THEN timers[i]
                   ELSE [next |-> next, interval |-> ivl]]
  BY DEF Register, Add
<1>3. [next |-> next, interval |-> ivl] \in Timer
  BY DEF Timer
<1>4. \A i \in DOMAIN timers : timers[i] \in Timer
  OBVIOUS
<1>. QED BY <1>1, <1>2, <1>3, <1>4

\* A request keeps the invariant, whichever operation made it.
LEMMA RequestIInv ==
  ASSUME IInv, NEW next \in Int, NEW ivl \in Int, Register(next, ivl),
         \/ UNCHANGED repeating
         \/ ivl \in Intervals \cup {EveryFrameSentinel} /\ repeating' = repeating \cup {nextId},
         cancelled' = cancelled \cup (Registered \ DOMAIN timers'),
         pace' = [h \in Handle |->
                    IF h \in DOMAIN timers' \ Registered THEN timers'[h].next ELSE pace[h]],
         UNCHANGED <<ran, newFrom>>
  PROVE  IInv'
<1>1. /\ nextId \in Handle
      /\ nextId \notin Registered
      /\ DOMAIN timers' = Registered \cup {nextId}
      /\ timers'[nextId] = [next |-> next, interval |-> ivl]
      /\ \A i \in Registered : timers'[i] = timers[i]
      /\ timers' \in [DOMAIN timers' -> Timer]
  BY RegisterEffect
<1>2. /\ nextId' = nextId + 1
      /\ UNCHANGED <<clock, pc, now, toFire, current, interval>>
  BY DEF Register, locals
<1>3. cancelled' = cancelled
  BY <1>1
<1>4. pace' \in [Handle -> Int] /\ pace'[nextId] = next
      /\ \A h \in Registered : h \in Handle => pace'[h] = pace[h]
  BY <1>1 DEF IInv, HistoryTypeOK, Timer
<1>5. /\ FirstHandle \in Int /\ nextId \in Int /\ FirstHandle <= nextId /\ nextId <= MaxHandle
      /\ MaxHandle \in Int /\ Registered' = DOMAIN timers'
      /\ Registered \subseteq FirstHandle .. nextId - 1
      /\ toFire \subseteq FirstHandle .. nextId - 1 /\ nextId \notin toFire
      /\ newFrom \in FirstHandle .. nextId
  BY <1>1, BoundsAssumption DEF IInv, TypeOK, HistoryTypeOK, Registered, Handle, FirstHandle
<1>6. FirstHandle .. nextId - 1 \subseteq FirstHandle .. nextId' - 1 /\ nextId \in FirstHandle .. nextId' - 1
  BY <1>2, <1>5
<1>7. TypeOK' /\ HistoryTypeOK'
  <2>1. TypeOK'
    <3>1. nextId' \in FirstHandle .. MaxHandle + 1
      BY <1>2, <1>5
    <3>2. DOMAIN timers' \subseteq FirstHandle .. nextId' - 1
      BY <1>1, <1>5, <1>6
    <3>3. toFire' \subseteq FirstHandle .. nextId' - 1
      BY <1>2, <1>5, <1>6
    <3>4. current' \in 0 .. nextId' - 1
      BY <1>2, <1>5 DEF IInv, TypeOK
    <3>. QED BY <1>1, <1>2, <3>1, <3>2, <3>3, <3>4 DEF IInv, TypeOK, Registered
  <2>2. repeating' \subseteq FirstHandle .. nextId' - 1
    BY <1>6 DEF IInv, HistoryTypeOK
  <2>3. (cancelled' \cup ran') \subseteq FirstHandle .. nextId' - 1
    BY <1>3, <1>6 DEF IInv, HistoryTypeOK
  <2>4. newFrom' \in FirstHandle .. nextId'
    BY <1>2, <1>5
  <2>. QED BY <1>4, <2>1, <2>2, <2>3, <2>4 DEF HistoryTypeOK
<1>8. nextId \notin cancelled /\ nextId \notin ran
  BY <1>5 DEF IInv, HistoryTypeOK
<1>9. CancelledGone' /\ LocalsDead'
  <2>1. CancelledGone'
    BY <1>1, <1>3, <1>5, <1>8 DEF CancelledGone, IInv
  <2>2. LocalsDead'
    BY <1>2 DEF LocalsDead, IInv
  <2>. QED BY <2>1, <2>2
<1>10. SnapshotDue' /\ ServingDue' /\ VisitedServed'
  <2>1. SnapshotDue'
    BY <1>1, <1>2, <1>5 DEF SnapshotDue, IInv
  <2>2. ServingDue'
    <3>1. current \in FirstHandle .. newFrom - 1 => current # nextId
      BY <1>5
    <3>. QED BY <1>1, <1>2, <1>5, <3>1 DEF ServingDue, IInv
  <2>3. VisitedServed'
    <3>1. ~(nextId < newFrom)
      BY <1>5
    <3>. QED BY <1>1, <1>2, <1>5, <3>1 DEF VisitedServed, IInv
  <2>. QED BY <2>1, <2>2, <2>3
<1>11. Paced'
  <2>. SUFFICES ASSUME NEW id \in Registered', timers'[id].interval > 0
                PROVE  pace'[id] <= timers'[id].next
    BY DEF Paced
  <2>1. CASE id = nextId
    BY <1>1, <1>4, <2>1
  <2>2. CASE id \in Registered
    <3>1. id \in Handle
      BY <2>2, <1>5, <1>1 DEF Handle
    <3>. QED BY <1>1, <1>4, <2>2, <3>1 DEF Paced, IInv
  <2>. QED BY <1>1, <1>5, <2>1, <2>2
<1>12. OneShotsEnd'
  BY <1>1, <1>2, <1>5, <1>8 DEF OneShotsEnd, IInv
<1>13. RepeatersRepeat'
  BY <1>1, <1>2, <1>3, <1>5, <1>8
     DEF IInv, HistoryTypeOK, RepeatersRepeat, RepeatsUntilCancelled, OneShot, EveryFrameSentinel
<1>. QED BY <1>7, <1>9, <1>10, <1>11, <1>12, <1>13 DEF IInv

\* Cancel and CancelAll remove handles and touch nothing else.
LEMMA WithdrawalIInv ==
  ASSUME IInv, Withdrawal, UNCHANGED <<repeating, ran, newFrom>>,
         cancelled' = cancelled \cup (Registered \ DOMAIN timers'),
         pace' = [h \in Handle |->
                    IF h \in DOMAIN timers' \ Registered THEN timers'[h].next ELSE pace[h]]
  PROVE  IInv'
<1>1. PICK S : timers' = Remove(timers, S)
  <2>1. NoItems = Remove(timers, DOMAIN timers)
    BY DEF NoItems, Remove, Restrict
  <2>. QED BY <2>1 DEF Withdrawal, Cancel, CancelAll
<1>2. /\ DOMAIN timers' = Registered \ S
      /\ \A i \in DOMAIN timers' : timers'[i] = timers[i]
  BY <1>1 DEF Remove, Restrict, Registered
<1>3. timers' \in [DOMAIN timers' -> Timer]
  BY <1>1, <1>2 DEF Remove, Restrict, IInv, TypeOK, Registered
<1>4. UNCHANGED <<nextId, clock, pc, now, toFire, current, interval>>
  BY DEF Withdrawal, Cancel, CancelAll, locals
<1>5. pace' = pace
  BY <1>2 DEF IInv, HistoryTypeOK
<1>6. cancelled' = cancelled \cup (Registered \ DOMAIN timers')
  OBVIOUS
<1>. USE DEF IInv, TypeOK, HistoryTypeOK, Registered, FirstHandle
<1>7. TypeOK' /\ HistoryTypeOK'
  BY <1>2, <1>3, <1>4, <1>5
<1>8. CancelledGone' /\ LocalsDead'
  BY <1>2, <1>4 DEF CancelledGone, LocalsDead
<1>9. SnapshotDue' /\ ServingDue' /\ VisitedServed'
  BY <1>2, <1>4 DEF SnapshotDue, ServingDue, VisitedServed
<1>10. Paced' /\ OneShotsEnd'
  BY <1>2, <1>4, <1>5 DEF Paced, OneShotsEnd
<1>11. RepeatersRepeat'
  BY <1>2, <1>4 DEF RepeatersRepeat, RepeatsUntilCancelled
<1>. QED BY <1>7, <1>8, <1>9, <1>10, <1>11

LEMMA ClientIInv == IInv /\ HClient => IInv'
<1>. SUFFICES ASSUME IInv, HClient PROVE IInv'
  OBVIOUS
<1>. USE ArgumentsAssumption DEF HClient
<1>1. clock \in Int
  BY BoundsAssumption DEF IInv, TypeOK
<1>2. CASE OneShotRequest /\ UNCHANGED repeating
  <2>1. PICK next \in Int : Register(next, OneShot)
    BY <1>1, <1>2 DEF OneShotRequest, Delay
  <2>. QED BY <1>2, <2>1, RequestIInv DEF OneShot
<1>3. CASE RepeatRequest /\ repeating' = repeating \cup {nextId}
  <2>1. PICK next \in Int, ivl \in Intervals \cup {EveryFrameSentinel} : Register(next, ivl)
    <3>1. ASSUME NEW i \in Intervals, Repeat(i)
          PROVE  \E next \in Int : Register(next, i)
      BY <1>1, <3>1 DEF Repeat
    <3>2. ASSUME NEW d \in Delays, NEW i \in Intervals, DelayAndRepeat(d, i)
          PROVE  \E next \in Int : Register(next, i)
      BY <1>1, <3>2 DEF DelayAndRepeat
    <3>3. ASSUME EveryFrame
          PROVE  \E next \in Int : Register(next, EveryFrameSentinel)
      BY <3>3 DEF EveryFrame
    <3>. QED BY <1>3, <3>1, <3>2, <3>3 DEF RepeatRequest
  <2>2. ivl \in Int
    BY DEF EveryFrameSentinel
  <2>. QED BY <1>3, <2>1, <2>2, RequestIInv
<1>4. CASE Withdrawal /\ UNCHANGED repeating
  BY <1>4, WithdrawalIInv
<1>. QED BY <1>2, <1>3, <1>4

-----------------------------------------------------------------------------

LEMMA BeginFrameIInv == IInv /\ HBeginFrame => IInv'
BY BoundsAssumption
   DEF HBeginFrame, BeginFrame, IInv, TypeOK, HistoryTypeOK, CancelledGone, LocalsDead,
       SnapshotDue, ServingDue, VisitedServed, Paced, OneShotsEnd, RepeatersRepeat,
       RepeatsUntilCancelled, Registered, registry, Due, FirstHandle, NoHandle, Timer

LEMMA FireIInv == ASSUME NEW id \in Handle PROVE IInv /\ HFire(id) => IInv'
<1>. SUFFICES ASSUME IInv, HFire(id) PROVE IInv'
  OBVIOUS
<1>. USE DEF HFire, Fire, IInv, TypeOK, HistoryTypeOK, Registered, registry, FirstHandle
<1>1. timers[id] \in Timer /\ id \in toFire /\ id \in DOMAIN timers
  OBVIOUS
<1>2. TypeOK' /\ HistoryTypeOK'
  BY <1>1 DEF Timer
<1>3. CancelledGone' /\ LocalsDead' /\ Paced' /\ RepeatersRepeat'
  BY DEF CancelledGone, LocalsDead, Paced, RepeatersRepeat, RepeatsUntilCancelled
<1>4. SnapshotDue' /\ ServingDue'
  BY <1>1 DEF SnapshotDue, ServingDue
<1>5. VisitedServed'
  BY <1>1 DEF VisitedServed, LocalsDead, NoHandle
<1>6. OneShotsEnd'
  BY <1>1 DEF OneShotsEnd, LocalsDead, NoHandle
<1>. QED BY <1>2, <1>3, <1>4, <1>5, <1>6

LEMMA ReturnIInv == IInv /\ HReturn => IInv'
<1>. SUFFICES ASSUME IInv, HReturn PROVE IInv'
  OBVIOUS
<1>. USE DEF HReturn, Return, IInv, TypeOK, HistoryTypeOK, Registered, FirstHandle
<1>. DEFINE kept == current \in Registered /\ interval # OneShot
<1>1. /\ DOMAIN timers' = IF kept THEN Registered ELSE Registered \ {current}
      /\ \A i \in Registered \ {current} : timers'[i] = timers[i]
      /\ kept => /\ timers'[current].next = NextAfter(interval, now)
                 /\ timers'[current].interval = timers[current].interval
      /\ timers' \in [DOMAIN timers' -> Timer]
  <2>1. now \in Int /\ interval \in Int /\ timers \in [DOMAIN timers -> Timer]
    BY BoundsAssumption
  <2>. DEFINE new == Settled(timers, current, interval, now)
  <2>2. timers' = new
    OBVIOUS
  <2>3. /\ DOMAIN new = IF current \in DOMAIN timers /\ interval # OneShot
                        THEN DOMAIN timers ELSE DOMAIN timers \ {current}
        /\ \A i \in DOMAIN timers \ {current} : new[i] = timers[i]
        /\ current \in DOMAIN timers /\ interval # OneShot =>
             /\ new[current].next = NextAfter(interval, now)
             /\ new[current].interval = timers[current].interval
        /\ new \in [DOMAIN new -> Timer]
    BY ONLY <2>1, SettledProperties
  <2>. HIDE DEF new
  <2>. QED BY ONLY <2>2, <2>3 DEF Registered
<1>2. current \in Handle /\ current \in ran
  BY BoundsAssumption DEF ServingDue, Handle
<1>3. pace' \in [Handle -> Int] /\ \A h \in Handle \ {current} : pace'[h] = pace[h]
  BY <1>2
<1>4. interval > 0 => pace'[current] = pace[current] + interval
  BY <1>2
<1>5. TypeOK' /\ HistoryTypeOK'
  BY <1>1, <1>3 DEF NoHandle, OneShot
<1>6. CancelledGone' /\ LocalsDead'
  BY <1>1 DEF CancelledGone, LocalsDead
<1>7. SnapshotDue' /\ ServingDue'
  BY <1>1 DEF SnapshotDue, ServingDue
<1>8. kept /\ interval > 0 => timers'[current].next > now
  BY <1>1, BoundsAssumption DEF NextAfter
<1>9. VisitedServed'
  BY <1>1, <1>8 DEF VisitedServed, ServingDue, OneShot
<1>10. Paced'
  <2>1. ASSUME kept, timers[current].interval > 0
        PROVE  pace'[current] <= timers'[current].next
    <3>1. /\ interval = timers[current].interval
          /\ timers[current].next <= now
          /\ pace[current] <= timers[current].next
      BY <2>1 DEF ServingDue, Paced
    <3>2. timers[current].next \in Int /\ pace[current] \in Int /\ now \in Int /\ interval \in Int
      BY <1>2, <2>1, BoundsAssumption DEF Timer
    <3>3. timers'[current].next = now + interval /\ pace'[current] = pace[current] + interval
      BY <1>1, <1>4, <2>1, <3>1 DEF NextAfter
    <3>. HIDE DEF Return, HReturn, IInv, TypeOK, HistoryTypeOK
    <3>. QED BY <2>1, <3>1, <3>2, <3>3
  <2>2. ASSUME NEW id \in Registered \ {current}, timers[id].interval > 0
        PROVE  pace'[id] <= timers'[id].next
    BY <1>1, <1>3, <2>2, BoundsAssumption DEF Paced, Handle
  <2>. QED BY <1>1, <2>1, <2>2 DEF Paced
<1>11. OneShotsEnd'
  BY <1>1 DEF OneShotsEnd, ServingDue
<1>12. RepeatersRepeat'
  BY <1>1 DEF RepeatersRepeat, RepeatsUntilCancelled, ServingDue, CancelledGone
<1>. QED BY <1>5, <1>6, <1>7, <1>9, <1>10, <1>11, <1>12

LEMMA OtherIInv == IInv /\ HOther => IInv'
<1>. SUFFICES ASSUME IInv, HOther PROVE IInv'
  OBVIOUS
<1>. USE DEF HOther, history, IInv, TypeOK, HistoryTypeOK, Registered, registry, locals, FirstHandle
<1>1. ASSUME NEW id \in Handle, Skip(id) PROVE IInv'
  BY <1>1 DEF Skip, CancelledGone, LocalsDead, SnapshotDue, ServingDue, VisitedServed, Paced,
              OneShotsEnd, RepeatersRepeat, RepeatsUntilCancelled
<1>2. ASSUME EndFrame PROVE IInv'
  BY <1>2, BoundsAssumption
     DEF EndFrame, CancelledGone, LocalsDead, SnapshotDue, ServingDue, VisitedServed, Paced,
         OneShotsEnd, RepeatersRepeat, RepeatsUntilCancelled
<1>3. ASSUME Tick PROVE IInv'
  BY <1>3, BoundsAssumption
     DEF Tick, CancelledGone, LocalsDead, SnapshotDue, ServingDue, VisitedServed, Paced,
         OneShotsEnd, RepeatersRepeat, RepeatsUntilCancelled
<1>. QED BY <1>1, <1>2, <1>3

LEMMA NextIInv == IInv /\ [HNext]_hvars => IInv'
<1>1. ASSUME IInv, UNCHANGED hvars PROVE IInv'
  BY <1>1 DEF hvars, IInv, TypeOK, HistoryTypeOK, CancelledGone, LocalsDead, SnapshotDue,
              ServingDue, VisitedServed, Paced, OneShotsEnd, RepeatersRepeat,
              RepeatsUntilCancelled, Registered
<1>. QED
  BY <1>1, ClientIInv, BeginFrameIInv, FireIInv, ReturnIInv, OtherIInv DEF HNext

LEMMA Invariance == HSpec => []IInv
BY InitIInv, NextIInv, PTL DEF HSpec

-----------------------------------------------------------------------------
(* The theorems.                                                           *)

\* Every reachable state is well typed: in particular handles are never
\* reused and a snapshot only holds handles that were handed out.
THEOREM TypeCorrect == HSpec => []TypeOK
BY Invariance, PTL DEF IInv

\* A one-shot whose callback has started is registered at most until it
\* returns (Scheduler.cpp removes it in the iteration that served it).
THEOREM OneShotsEndHolds == HSpec => []OneShotsEnd
BY Invariance, PTL DEF IInv

\* Unless a client asks for a zero interval, a repeating timer stays
\* registered until it is cancelled.
THEOREM RepeatsUntilCancelledHolds ==
  ASSUME OneShot \notin Intervals
  PROVE  HSpec => []RepeatsUntilCancelled
<1>1. IInv => RepeatsUntilCancelled
  BY DEF IInv, RepeatersRepeat
<1>. QED BY <1>1, Invariance, PTL

\* What the invariant says of the step that starts a callback.
LEMMA StartsCallbackFacts ==
  ASSUME IInv, [HNext]_hvars, NEW id \in Handle, StartsCallback(id)
  PROVE  /\ id \in toFire \cap Registered
         /\ id \notin cancelled
         /\ id < newFrom
         /\ timers[id].interval > 0 => pace[id] <= clock
<1>1. Fire(id)
  <2>1. pc # "callback" /\ pc' = "callback" /\ current' = id
    BY DEF StartsCallback
  <2>2. CASE \E h \in Handle : HFire(h)
    BY <2>1, <2>2 DEF HFire, Fire
  <2>3. CASE HClient
    BY <2>1, <2>3
       DEF HClient, OneShotRequest, RepeatRequest, Withdrawal, Delay, Repeat, DelayAndRepeat,
           EveryFrame, Register, Cancel, CancelAll
  <2>4. CASE HBeginFrame \/ HReturn \/ HOther \/ UNCHANGED hvars
    BY <2>1, <2>4
       DEF HBeginFrame, HReturn, HOther, BeginFrame, Return, Skip, EndFrame, Tick, hvars
  <2>. QED BY <2>2, <2>3, <2>4 DEF HNext
<1>2. id \in toFire \cap Registered
  BY <1>1 DEF Fire
<1>3. timers[id].next <= now /\ id < newFrom
  BY <1>2 DEF IInv, SnapshotDue
<1>4. timers[id].interval > 0 => pace[id] <= clock
  BY <1>2, <1>3, BoundsAssumption
     DEF IInv, TypeOK, HistoryTypeOK, Paced, Timer, FirstHandle
<1>. QED BY <1>2, <1>3, <1>4 DEF IInv, CancelledGone

\* A cancelled handle never runs again, even when the frame's snapshot was
\* taken before the cancellation.
THEOREM CancelledNeverRunsHolds == HSpec => CancelledNeverRuns
<1>1. IInv /\ [HNext]_hvars =>
        [\A id \in Handle : StartsCallback(id) => id \notin cancelled]_hvars
  BY StartsCallbackFacts
<1>. QED BY <1>1, Invariance, PTL DEF HSpec, CancelledNeverRuns

\* A timer registered during a frame does not run in that frame.
THEOREM NewTimersWaitHolds == HSpec => NewTimersWait
<1>1. IInv /\ [HNext]_hvars =>
        [\A id \in Handle : StartsCallback(id) => id < newFrom]_hvars
  BY StartsCallbackFacts
<1>. QED BY <1>1, Invariance, PTL DEF HSpec, NewTimersWait

\* Repeats are never served ahead of their interval.
THEOREM PacedFiringsHolds == HSpec => PacedFirings
<1>1. IInv /\ [HNext]_hvars =>
        [\A id \in Handle :
           StartsCallback(id) /\ timers[id].interval > 0 => pace[id] <= clock]_hvars
  BY StartsCallbackFacts
<1>. QED BY <1>1, Invariance, PTL DEF HSpec, PacedFirings

\* A frame ends with nothing due that it found registered.
THEOREM FrameServesDueHolds == HSpec => FrameServesDue
<1>. DEFINE A == (pc = "loop" /\ pc' = "idle") =>
                   \A id \in Registered :
                     id < newFrom /\ timers[id].interval >= 0 => timers[id].next > now
<1>1. IInv /\ [HNext]_hvars => A
  <2>. SUFFICES ASSUME IInv, [HNext]_hvars, pc = "loop", pc' = "idle",
                       NEW id \in Registered, id < newFrom, timers[id].interval >= 0
                PROVE  timers[id].next > now
    OBVIOUS
  <2>1. EndFrame
    <3>1. CASE HClient
      BY <3>1 DEF HClient, OneShotRequest, RepeatRequest, Withdrawal, Delay, Repeat,
                  DelayAndRepeat, EveryFrame, Register, Cancel, CancelAll
    <3>2. CASE HBeginFrame \/ (\E h \in Handle : HFire(h)) \/ HReturn \/ HOther \/ UNCHANGED hvars
      BY <3>2 DEF HBeginFrame, HFire, HReturn, HOther, BeginFrame, Fire, Return, Skip, Tick, hvars
    <3>. QED BY <3>1, <3>2 DEF HNext
  <2>2. toFire = {} /\ current = NoHandle
    BY <2>1 DEF EndFrame, IInv, LocalsDead
  <2>3. id # current
    BY <2>2 DEF IInv, TypeOK, FirstHandle, NoHandle
  <2>. QED BY <2>2, <2>3 DEF IInv, VisitedServed
<1>2. HSpec => [][A]_hvars
  BY <1>1, Invariance, PTL DEF HSpec
<1>. QED BY <1>2 DEF FrameServesDue

\* A frame serves exactly what it found due, for any timers and any clients.
THEOREM FramesAreExactHolds == HSpec => FramesAreExact
BY NewTimersWaitHolds, FrameServesDueHolds DEF FramesAreExact

-----------------------------------------------------------------------------
(* The frame loop implements TimerService.                                 *)

LEMMA RequestArms ==
  ASSUME IInv, NEW next \in Int, NEW ivl \in Int, Register(next, ivl)
  PROVE  nextId \in Handle /\ Service!Arm(nextId)
<1>1. nextId' = nextId + 1 /\ nextId \in Nat \ {0} /\ UNCHANGED <<clock, current>>
  BY DEF Register, locals, IInv, TypeOK, FirstHandle
<1>2. FirstHandle .. nextId' - 1 = (FirstHandle .. nextId - 1) \cup {nextId}
  BY <1>1 DEF FirstHandle
<1>3. nextId \notin FirstHandle .. nextId - 1
  BY <1>1 DEF FirstHandle
<1>4. [next |-> next, interval |-> ivl] \in [next : Int, interval : Int]
  OBVIOUS
<1>. QED BY <1>1, <1>2, <1>3, <1>4, RegisterEffect DEF Service!Arm, Registered

LEMMA WithdrawalDisarms ==
  ASSUME IInv, Withdrawal
  PROVE  \E S \in SUBSET Handle : Service!Disarm(S)
<1>1. ASSUME NEW id \in Handle, Cancel(id)
      PROVE  Service!Disarm({id})
  BY <1>1 DEF Cancel, Service!Disarm, Remove, Restrict, locals
<1>2. ASSUME CancelAll
      PROVE  Service!Disarm(Handle)
  <2>1. Registered \subseteq Handle
    BY BoundsAssumption DEF IInv, TypeOK, Handle, FirstHandle
  <2>2. timers' = [i \in DOMAIN timers \ Handle |-> timers[i]]
    BY <1>2, <2>1 DEF CancelAll, NoItems, Registered
  <2>. QED BY <1>2, <2>2 DEF CancelAll, Service!Disarm, locals
<1>. QED BY <1>1, <1>2 DEF Withdrawal

LEMMA ClientIsService ==
  ASSUME IInv, HClient
  PROVE  Service!SNext
<1>1. clock \in Int
  BY BoundsAssumption DEF IInv, TypeOK
<1>2. CASE OneShotRequest
  <2>1. PICK d \in Delays : Register(clock + d, OneShot)
    BY <1>2 DEF OneShotRequest, Delay
  <2>. QED BY <1>1, <2>1, RequestArms, ArgumentsAssumption DEF Service!SNext, OneShot
<1>3. CASE RepeatRequest
  <2>1. ASSUME NEW i \in Intervals, Repeat(i)
        PROVE  Service!SNext
    BY <1>1, <2>1, RequestArms, ArgumentsAssumption DEF Repeat, Service!SNext
  <2>2. ASSUME NEW d \in Delays, NEW i \in Intervals, DelayAndRepeat(d, i)
        PROVE  Service!SNext
    BY <1>1, <2>2, RequestArms, ArgumentsAssumption DEF DelayAndRepeat, Service!SNext
  <2>3. CASE EveryFrame
    BY <2>3, RequestArms DEF EveryFrame, EveryFrameSentinel, Service!SNext
  <2>. QED BY <1>3, <2>1, <2>2, <2>3 DEF RepeatRequest
<1>4. CASE Withdrawal
  BY <1>4, WithdrawalDisarms DEF Service!SNext
<1>. QED BY <1>2, <1>3, <1>4 DEF HClient

LEMMA FireServes ==
  ASSUME IInv, NEW id \in Handle, HFire(id)
  PROVE  Service!Serve(id)
<1>1. id \in toFire \cap Registered /\ pc = "loop" /\ UNCHANGED <<timers, nextId, clock>>
  BY DEF HFire, Fire, registry
<1>2. current = 0 /\ current' = id
  BY <1>1 DEF HFire, Fire, IInv, LocalsDead, NoHandle
<1>3. timers[id].next <= now /\ now <= clock
  BY <1>1, BoundsAssumption DEF IInv, SnapshotDue, TypeOK
<1>4. timers[id].next \in Int /\ now \in Int /\ clock \in Int
  BY <1>1, BoundsAssumption DEF IInv, TypeOK, Timer, Registered
<1>. QED BY <1>1, <1>2, <1>3, <1>4 DEF Service!Serve, Registered

LEMMA ReturnFinishes ==
  ASSUME IInv, HReturn
  PROVE  Service!Finish
<1>1. /\ pc = "callback" /\ current' = 0
      /\ timers' = Settled(timers, current, interval, now)
      /\ UNCHANGED <<nextId, clock>>
  BY DEF HReturn, Return, NoHandle
<1>2. current # 0
  BY <1>1, BoundsAssumption DEF IInv, TypeOK, HistoryTypeOK, ServingDue, FirstHandle
<1>3. CASE current \notin DOMAIN timers
  <2>1. timers' = [i \in DOMAIN timers |-> timers[i]]
    BY <1>1, <1>3 DEF Settled, Remove, Restrict
  <2>2. timers' = timers
    BY <2>1 DEF IInv, TypeOK, Registered
  <2>. QED BY <1>1, <1>2, <1>3, <2>2 DEF Service!Finish
<1>4. CASE current \in DOMAIN timers /\ interval = OneShot
  <2>1. timers[current].interval = 0
    BY <1>1, <1>4 DEF IInv, ServingDue, Registered, OneShot
  <2>2. timers' = [i \in DOMAIN timers \ {current} |-> timers[i]]
    BY <1>1, <1>4 DEF Settled, Remove, Restrict
  <2>. QED BY <1>1, <1>2, <1>4, <2>1, <2>2 DEF Service!Finish
<1>5. CASE current \in DOMAIN timers /\ interval # OneShot
  <2>1. timers[current].interval = interval /\ timers[current].next <= now /\ now <= clock
    BY <1>1, <1>5, BoundsAssumption DEF IInv, ServingDue, Registered, TypeOK
  <2>2. timers[current].next \in Int /\ now \in Int /\ clock \in Int
    BY <1>5, BoundsAssumption DEF IInv, TypeOK, Timer, Registered
  <2>3. now \in timers[current].next .. clock
    BY <2>1, <2>2
  <2>4. timers' = [timers EXCEPT ![current].next =
                     IF timers[current].interval > 0 THEN now + timers[current].interval ELSE now]
    BY <1>1, <1>5, <2>1 DEF Settled, NextAfter
  <2>. QED BY <1>1, <1>2, <1>5, <2>1, <2>3, <2>4 DEF Service!Finish, OneShot
<1>. QED BY <1>3, <1>4, <1>5

\* Every step of the frame loop is a step of the service or invisible to its clients: whatever
\* callbacks do inside a frame, a handle is armed once, served one at a time, only while it
\* is armed and due, and moves on by its interval.
THEOREM ImplementsTimerServiceHolds == HSpec => ImplementsTimerService
<1>1. HInit => Service!SInit
  BY DEF HInit, Init, Service!SInit, NoItems, NoHandle, FirstHandle
<1>2. IInv /\ [HNext]_hvars => [Service!SNext]_(Service!svars)
  <2>. SUFFICES ASSUME IInv, [HNext]_hvars
                PROVE  Service!SNext \/ UNCHANGED <<timers, nextId, clock, current>>
    BY DEF Service!svars
  <2>1. CASE HBeginFrame \/ UNCHANGED hvars
    BY <2>1 DEF HBeginFrame, BeginFrame, registry, hvars
  <2>2. CASE HOther
    <3>1. CASE Tick
      BY <3>1 DEF Tick, registry, locals, Service!SNext, Service!Elapse
    <3>2. CASE EndFrame \/ \E id \in Handle : Skip(id)
      BY <3>2 DEF EndFrame, Skip, registry
    <3>. QED BY <2>2, <3>1, <3>2 DEF HOther
  <2>. QED BY <2>1, <2>2, ClientIsService, FireServes, ReturnFinishes DEF HNext, Service!SNext
<1>. QED BY <1>1, <1>2, Invariance, PTL DEF HSpec, ImplementsTimerService, Service!SSpec

=============================================================================
