---------------------------- MODULE TimerService ----------------------------
(***************************************************************************)
(* What the scheduler promises its clients, with no frame and no snapshot: *)
(* a handle is armed once, is served only while it is armed and due, one   *)
(* at a time; a one-shot is gone once served; a repeating timer moves its  *)
(* due time forward by at least its interval each time it is served.       *)
(***************************************************************************)
EXTENDS Integers

CONSTANT Handle

VARIABLES
  armed,    \* armed handle -> [next, interval]
  used,     \* handles handed out so far
  clock,
  serving   \* the handle being served, or 0

svars == <<armed, used, clock, serving>>

SInit == armed = [h \in {} |-> 0] /\ used = {} /\ clock = 0 /\ serving = 0

\* A client asks for a timer: any due time, any interval, a handle never used.
Arm(h) ==
  /\ h \notin used
  /\ used' = used \cup {h}
  /\ DOMAIN armed' = DOMAIN armed \cup {h}
  /\ \A i \in DOMAIN armed : armed'[i] = armed[i]
  /\ armed'[h] \in [next : Int, interval : Int]
  /\ UNCHANGED <<clock, serving>>

\* Clients may drop any timers at any moment, the one being served included.
Disarm(S) ==
  /\ armed' = [i \in DOMAIN armed \ S |-> armed[i]]
  /\ UNCHANGED <<used, clock, serving>>

Serve(h) ==
  /\ serving = 0
  /\ h \in DOMAIN armed
  /\ armed[h].next <= clock
  /\ serving' = h
  /\ UNCHANGED <<armed, used, clock>>

Finish ==
  /\ serving # 0
  /\ serving' = 0
  /\ UNCHANGED <<used, clock>>
  /\ \/ serving \notin DOMAIN armed /\ UNCHANGED armed
     \/ /\ serving \in DOMAIN armed
        /\ armed[serving].interval = 0
        /\ armed' = [i \in DOMAIN armed \ {serving} |-> armed[i]]
     \/ /\ serving \in DOMAIN armed
        /\ armed[serving].interval # 0
        /\ \E t \in armed[serving].next .. clock :
             armed' = [armed EXCEPT ![serving].next =
                         IF armed[serving].interval > 0
                         THEN t + armed[serving].interval ELSE t]

Elapse == clock' \in {clock, clock + 1} /\ UNCHANGED <<armed, used, serving>>

SNext ==
  \/ \E h \in Handle : Arm(h) \/ Serve(h)
  \/ \E S \in SUBSET Handle : Disarm(S)
  \/ Finish
  \/ Elapse

SSpec == SInit /\ [][SNext]_svars

=============================================================================
