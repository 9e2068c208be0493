------------------------------- MODULE Timers -------------------------------
(***************************************************************************)
(* The timer arithmetic of Scheduler.cpp, shared by every module that      *)
(* drives timers.  A timer is [next |-> NextFireTime, interval |-> ...];   *)
(* interval > 0 repeats, 0 is one-shot, < 0 is the every-frame sentinel.   *)
(***************************************************************************)
EXTENDS Integers, CallbackRegistry

OneShot == 0
EveryFrameSentinel == -1

\* Mutant of Due: a timer waits past its own due time.
DueStrict(timers, now) == {id \in DOMAIN timers : now > timers[id].next}

\* The handles OnGameFrame snapshots: due at the frame's clock reading.
Due(timers, now) == {id \in DOMAIN timers : now >= timers[id].next}

\* What follows a callback: re-find the timer, then re-arm it or drop it.
\* Both re-arming branches count from the frame's reading, not from the old
\* NextFireTime, so a late timer is not fired again to catch up.
NextAfter(interval, now) == IF interval > 0 THEN now + interval ELSE now

\* Mutant of Settled: the copied timer is written back without looking the
\* handle up again.
SettledRevives(timers, id, interval, now) ==
  IF interval # OneShot
  THEN [i \in DOMAIN timers \cup {id} |->
          IF i = id THEN [next |-> NextAfter(interval, now), interval |-> interval]
                    ELSE timers[i]]
  ELSE Remove(timers, {id})

Settled(timers, id, interval, now) ==
  IF id \in DOMAIN timers /\ interval # OneShot
  THEN [timers EXCEPT ![id].next = NextAfter(interval, now)]
  ELSE Remove(timers, {id})

=============================================================================
