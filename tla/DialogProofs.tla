---------------------------- MODULE DialogProofs -----------------------------
(***************************************************************************)
(* Proofs about the dialogs of a player.  The captures of a slot, for any  *)
(* timeout and any number of captures, under the hypothesis that a         *)
(* validator which has begun the next capture does not accept its own      *)
(* line; then wizards, for any flows, steps, predicates and answers.       *)
(***************************************************************************)
EXTENDS ChatInput, Flow, SequenceTheorems, WellFoundedInduction, TLAPS

-----------------------------------------------------------------------------
(* The registry of timers.                                                 *)

\* Add and Remove change the set of handles by exactly what they are given.
LEMMA AlarmDomains ==
  ASSUME NEW items, NEW id, NEW item, NEW ids
  PROVE  /\ DOMAIN Add(items, id, item) = DOMAIN items \cup {id}
         /\ DOMAIN Remove(items, ids) = DOMAIN items \ ids
         /\ \A i \in DOMAIN items : Add(items, id, item)[i] = items[i]
         /\ id \notin DOMAIN items => Add(items, id, item)[id] = item
         /\ \A i \in DOMAIN items \ ids : Remove(items, ids)[i] = items[i]
BY DEF Add, Remove, Restrict

-----------------------------------------------------------------------------
(* The inductive invariant, part by part.                                  *)

\* While a validator runs that has begun nothing, what is pending is the
\* capture it answers, or nothing; the line it was given counts as heard.
CallInv ==
  call # NoCall =>
    /\ call.id \in heard
    /\ ~call.began => pending = NoCapture \/ (pending.id = call.id /\ pending.handle = call.handle)

\* A timer has as much time left as the pending capture has not used up.
AgeInv == \A h \in DOMAIN alarms : alarms[h] = Timeout - age

\* A pending capture was begun for the player who is there.
OwnerInv == pending # NoCapture => pending.id \in Capture /\ owner[pending.id] = occupant

HeardInv == AcceptedWereHeard

IInv == TypeOK /\ TimerIsOwn /\ CallInv /\ AgeInv /\ OwnerInv /\ HeardInv

LEMMA InitIInv == Init => IInv
<1>. SUFFICES ASSUME Init PROVE IInv
  OBVIOUS
<1>1. DOMAIN alarms = {}
  BY DEF Init, NoItems
<1>2. TypeOK
  <2>1. pending \in [id : 0 .. begun, handle : 0 .. begun] /\ pending.handle = NoHandle
    BY DEF Init, NoCapture, NoHandle
  <2>2. call \in [id : 0 .. begun, handle : 0 .. begun, began : BOOLEAN]
    BY DEF Init, NoCall, NoHandle
  <2>3. owner \in [Capture -> 0 .. MaxCaptures] /\ fate \in [Capture -> Fates] /\ heard \subseteq Capture
    BY CapturesAssumption DEF Init, Fates
  <2>4. begun \in 0 .. MaxCaptures /\ occupant \in 0 .. MaxCaptures /\ age \in 0 .. Timeout
    BY TimeoutAssumption, CapturesAssumption DEF Init
  <2>. QED BY <1>1, <2>1, <2>2, <2>3, <2>4 DEF Init, TypeOK
<1>3. TimerIsOwn /\ AgeInv
  BY <1>1 DEF Init, TimerIsOwn, AgeInv, NoCapture, NoHandle
<1>4. CallInv /\ OwnerInv /\ HeardInv
  BY DEF Init, CallInv, OwnerInv, HeardInv, AcceptedWereHeard, Capture
<1>. QED BY <1>2, <1>3, <1>4 DEF IInv

\* The end of the pending capture keeps every fate in its type, and nobody
\* but the pending capture meets one.
LEMMA EndsProperties ==
  ASSUME TypeOK, NEW how \in Fates, Ends(how)
  PROVE  /\ fate' \in [Capture -> Fates]
         /\ \A c \in Capture : fate'[c] = IF c = pending.id THEN how ELSE fate[c]
BY DEF TypeOK, Ends

\* What every way to drop the pending capture establishes.
LEMMA Dropped ==
  ASSUME IInv, NEW how \in Fates, Cancelled(how)
  PROVE  /\ pending' = NoCapture
         /\ DOMAIN alarms' = {}
         /\ fate' \in [Capture -> Fates]
         /\ \A c \in Capture : fate'[c] = IF c = pending.id THEN how ELSE fate[c]
<1>1. DOMAIN alarms' = DOMAIN alarms \ {pending.handle}
  BY AlarmDomains DEF Cancelled
<1>. QED BY <1>1, EndsProperties DEF Cancelled, IInv, TimerIsOwn

LEMMA BeginCaptureIInv ==
  ASSUME IInv, NEW timed \in BOOLEAN, BeginCapture(timed)
  PROVE  IInv'
<1>. DEFINE rest == Remove(alarms, {pending.handle})
<1>. DEFINE new == begun + 1
<1>1. begun \in Nat /\ new \in Capture /\ new \notin {0} /\ new \notin 0 .. begun
  BY CapturesAssumption DEF IInv, TypeOK, BeginCapture, Capture
<1>2. DOMAIN rest = {}
  <2>1. DOMAIN rest = DOMAIN alarms \ {pending.handle}
    BY AlarmDomains
  <2>. QED BY <2>1 DEF IInv, TimerIsOwn
<1>3. DOMAIN alarms' = IF timed THEN {new} ELSE {}
  <2>1. CASE timed
    <3>1. alarms' = Add(rest, new, Timeout)
      BY <2>1 DEF BeginCapture
    <3>2. DOMAIN Add(rest, new, Timeout) = DOMAIN rest \cup {new}
      BY AlarmDomains
    <3>. QED BY <2>1, <3>1, <3>2, <1>2
  <2>2. CASE ~timed
    BY <2>2, <1>2 DEF BeginCapture
  <2>. QED BY <2>1, <2>2
<1>4. \A h \in DOMAIN alarms' : alarms'[h] = Timeout
  <2>1. CASE timed
    <3>1. alarms' = Add(rest, new, Timeout) /\ new \notin DOMAIN rest
      BY <2>1, <1>2 DEF BeginCapture
    <3>2. Add(rest, new, Timeout)[new] = Timeout
      BY <3>1, AlarmDomains
    <3>. QED BY <2>1, <3>1, <3>2, <1>3
  <2>2. CASE ~timed
    BY <2>2, <1>3
  <2>. QED BY <2>1, <2>2
<1>5. pending' = [id |-> new, handle |-> IF timed THEN new ELSE NoHandle]
  BY DEF BeginCapture
<1>6. TypeOK'
  <2>1. begun' = new /\ begun' \in 0 .. MaxCaptures
    BY <1>1, CapturesAssumption DEF BeginCapture, Capture
  <2>2. /\ pending' \in [id : 0 .. begun', handle : 0 .. begun']
        /\ pending'.handle \in {NoHandle, pending'.id}
    BY <1>1, <1>5, <2>1 DEF NoHandle
  <2>3. DOMAIN alarms' \subseteq 1 .. begun' /\ \A h \in DOMAIN alarms' : alarms'[h] \in 0 .. Timeout
    BY <1>1, <1>3, <1>4, <2>1, TimeoutAssumption
  <2>4. call' \in [id : 0 .. begun', handle : 0 .. begun', began : BOOLEAN]
    <3>1. call \in [id : 0 .. begun', handle : 0 .. begun', began : BOOLEAN]
      BY <1>1, <2>1 DEF IInv, TypeOK
    <3>. QED BY <3>1 DEF BeginCapture
  <2>5. owner' \in [Capture -> 0 .. MaxCaptures] /\ fate' \in [Capture -> Fates]
    BY <1>1 DEF IInv, TypeOK, BeginCapture, Fates
  <2>6. age' \in 0 .. Timeout
    BY TimeoutAssumption DEF BeginCapture
  <2>. QED BY <2>1, <2>2, <2>3, <2>4, <2>5, <2>6 DEF IInv, TypeOK, BeginCapture
<1>7. TimerIsOwn'
  BY <1>1, <1>3, <1>5 DEF TimerIsOwn, NoHandle
<1>8. AgeInv'
  <2>1. age' = 0
    BY DEF BeginCapture
  <2>. QED BY <1>4, <2>1, TimeoutAssumption DEF AgeInv
<1>9. CallInv'
  <2>1. CASE call = NoCall
    BY <2>1 DEF BeginCapture, CallInv
  <2>2. CASE call # NoCall
    <3>1. call'.id = call.id /\ call'.began
      BY <2>2 DEF BeginCapture, IInv, TypeOK
    <3>. QED BY <2>2, <3>1 DEF BeginCapture, CallInv, IInv
  <2>. QED BY <2>1, <2>2
<1>10. OwnerInv'
  BY <1>1, <1>5 DEF OwnerInv, BeginCapture, IInv, TypeOK
<1>11. HeardInv'
  BY <1>1 DEF HeardInv, AcceptedWereHeard, BeginCapture, IInv, TypeOK
<1>. QED BY <1>6, <1>7, <1>8, <1>9, <1>10, <1>11 DEF IInv

\* The steps that drop the pending capture without accepting a line.
LEMMA DropIInv ==
  ASSUME IInv, NEW how \in {"cancelled", "left", "timeout"}, Cancelled(how),
         UNCHANGED <<call, begun, occupant, owner, heard, age>>, present' \in BOOLEAN
  PROVE  IInv'
<1>1. /\ pending' = NoCapture
      /\ DOMAIN alarms' = {}
      /\ fate' \in [Capture -> Fates]
      /\ \A c \in Capture : fate'[c] = IF c = pending.id THEN how ELSE fate[c]
  BY Dropped DEF Fates
<1>2. TypeOK'
  BY <1>1 DEF IInv, TypeOK, NoCapture, NoHandle
<1>3. TimerIsOwn' /\ AgeInv' /\ OwnerInv'
  BY <1>1 DEF TimerIsOwn, AgeInv, OwnerInv, NoCapture
<1>4. CallInv'
  BY <1>1 DEF IInv, CallInv
<1>5. HeardInv'
  BY <1>1 DEF IInv, HeardInv, AcceptedWereHeard
<1>. QED BY <1>2, <1>3, <1>4, <1>5 DEF IInv

LEMMA TryConsumeIInv == ASSUME IInv, TryConsume PROVE IInv'
<1>1. pending.id \in Capture
  BY DEF IInv, OwnerInv, TryConsume
<1>2. call' = [id |-> pending.id, handle |-> pending.handle, began |-> FALSE]
  BY DEF TryConsume
<1>3. TypeOK'
  BY <1>1, <1>2 DEF IInv, TypeOK, TryConsume
<1>4. CallInv'
  BY <1>2 DEF CallInv, TryConsume
<1>5. TimerIsOwn' /\ AgeInv' /\ OwnerInv' /\ HeardInv'
  BY DEF IInv, TryConsume, TimerIsOwn, AgeInv, OwnerInv, HeardInv, AcceptedWereHeard
<1>. QED BY <1>3, <1>4, <1>5 DEF IInv

LEMMA RefusedIInv == ASSUME IInv, Refused PROVE IInv'
<1>1. TypeOK'
  BY CapturesAssumption DEF IInv, TypeOK, Refused, history, NoCall, NoHandle
<1>2. CallInv'
  BY DEF CallInv, Refused
<1>3. TimerIsOwn' /\ AgeInv' /\ OwnerInv' /\ HeardInv'
  BY DEF IInv, Refused, history, TimerIsOwn, AgeInv, OwnerInv, HeardInv, AcceptedWereHeard
<1>. QED BY <1>1, <1>2, <1>3 DEF IInv

LEMMA AcceptedIInv ==
  ASSUME IInv, ~AcceptAfterBegin, Accepted
  PROVE  IInv'
<1>1. call # NoCall /\ call.id \in heard /\ ~call.began
  BY DEF Accepted, IInv, CallInv
<1>2. pending = NoCapture \/ (pending.id = call.id /\ pending.handle = call.handle)
  BY <1>1 DEF IInv, CallInv
<1>3. DOMAIN alarms' = {}
  <2>1. DOMAIN alarms' = DOMAIN alarms \ {call.handle}
    BY AlarmDomains DEF Accepted
  <2>. QED BY <2>1, <1>2 DEF IInv, TimerIsOwn, NoCapture
<1>4. /\ fate' \in [Capture -> Fates]
      /\ \A c \in Capture : fate'[c] = IF c = pending.id THEN "accepted" ELSE fate[c]
  BY EndsProperties DEF Accepted, IInv, Fates
<1>5. TypeOK'
  <2>1. /\ pending' \in [id : 0 .. begun', handle : 0 .. begun'] /\ pending'.handle = NoHandle
        /\ call' \in [id : 0 .. begun', handle : 0 .. begun', began : BOOLEAN]
    BY CapturesAssumption DEF IInv, TypeOK, Accepted, NoCapture, NoCall, NoHandle
  <2>. QED BY <2>1, <1>3, <1>4 DEF IInv, TypeOK, Accepted
<1>6. TimerIsOwn' /\ AgeInv' /\ OwnerInv' /\ CallInv'
  BY <1>3 DEF Accepted, TimerIsOwn, AgeInv, OwnerInv, CallInv, NoCapture
<1>7. HeardInv'
  <2>1. pending.id \in Capture => pending.id \in heard
    BY <1>1, <1>2 DEF NoCapture, Capture
  <2>. QED BY <2>1, <1>4 DEF HeardInv, AcceptedWereHeard, Accepted, IInv
<1>. QED BY <1>5, <1>6, <1>7 DEF IInv

\* A timer that fires is the pending capture's, so firing is a cancellation.
LEMMA FireIsDrop ==
  ASSUME IInv, NEW h \in DOMAIN alarms, Fire(h)
  PROVE  h = pending.handle /\ Cancelled("timeout") /\ age = Timeout
<1>1. h = pending.handle
  BY DEF IInv, TimerIsOwn
<1>2. age = Timeout
  BY TimeoutAssumption DEF IInv, AgeInv, TypeOK, Fire
<1>3. alarms' = Remove(alarms, {pending.handle})
  BY <1>1 DEF Fire
<1>. QED BY <1>1, <1>2, <1>3 DEF Fire, Cancelled

LEMMA TickIInv == ASSUME IInv, Tick PROVE IInv'
<1>1. /\ DOMAIN alarms' = DOMAIN alarms
      /\ \A h \in DOMAIN alarms : alarms'[h] = IF alarms[h] > 0 THEN alarms[h] - 1 ELSE 0
      /\ age' = IF age < Timeout THEN age + 1 ELSE age
  BY DEF Tick
<1>2. age \in 0 .. Timeout /\ age' \in 0 .. Timeout
  BY <1>1, TimeoutAssumption DEF IInv, TypeOK
<1>3. AgeInv'
  BY <1>1, <1>2, TimeoutAssumption DEF IInv, AgeInv
<1>4. \A h \in DOMAIN alarms' : alarms'[h] \in 0 .. Timeout
  BY <1>2, <1>3, TimeoutAssumption DEF AgeInv
<1>5. TypeOK'
  BY <1>1, <1>2, <1>4 DEF IInv, TypeOK, Tick
<1>6. TimerIsOwn' /\ CallInv' /\ OwnerInv' /\ HeardInv'
  BY <1>1 DEF IInv, Tick, TimerIsOwn, CallInv, OwnerInv, HeardInv, AcceptedWereHeard
<1>. QED BY <1>3, <1>5, <1>6 DEF IInv

\* Nobody is prompted in an empty slot, so a new player meets no prompt.
AbsentInv == ~present => pending = NoCapture

LEMMA ConnectIInv == ASSUME IInv, AbsentInv, Connect PROVE IInv'
<1>1. TypeOK'
  BY CapturesAssumption DEF IInv, TypeOK, Connect, captureVars
<1>2. OwnerInv'
  BY DEF AbsentInv, OwnerInv, Connect, captureVars
<1>3. TimerIsOwn' /\ AgeInv' /\ CallInv' /\ HeardInv'
  BY DEF IInv, Connect, captureVars, TimerIsOwn, AgeInv, CallInv, HeardInv, AcceptedWereHeard
<1>. QED BY <1>1, <1>2, <1>3 DEF IInv

LEMMA NextIInv ==
  ASSUME ~AcceptAfterBegin, IInv, AbsentInv, [Next]_vars
  PROVE  IInv' /\ AbsentInv'
<1>1. CASE \E timed \in BOOLEAN : BeginCapture(timed)
  <2>1. PICK timed \in BOOLEAN : BeginCapture(timed)
    BY <1>1
  <2>. QED BY <2>1, BeginCaptureIInv DEF BeginCapture, AbsentInv
<1>2. CASE CancelCapture
  <2>1. IInv'
    BY <1>2, DropIInv DEF CancelCapture, IInv, TypeOK
  <2>. QED BY <1>2, <2>1 DEF CancelCapture, Cancelled, AbsentInv
<1>3. CASE TryConsume
  BY <1>3, TryConsumeIInv DEF TryConsume, AbsentInv
<1>4. CASE Refused
  BY <1>4, RefusedIInv DEF Refused, AbsentInv
<1>5. CASE Accepted
  BY <1>5, AcceptedIInv DEF Accepted, AbsentInv
<1>6. CASE FireAny
  <2>1. PICK h \in DOMAIN alarms : Fire(h)
    BY <1>6 DEF FireAny
  <2>2. Cancelled("timeout")
    BY <2>1, FireIsDrop
  <2>3. IInv'
    BY <2>1, <2>2, DropIInv DEF Fire, IInv, TypeOK
  <2>. QED BY <2>1, <2>3 DEF Fire, AbsentInv
<1>7. CASE Tick
  BY <1>7, TickIInv DEF Tick, AbsentInv
<1>8. CASE OnPlayerDisconnect
  <2>1. IInv'
    BY <1>8, DropIInv DEF OnPlayerDisconnect
  <2>. QED BY <1>8, <2>1 DEF OnPlayerDisconnect, Cancelled, AbsentInv
<1>9. CASE Connect
  BY <1>9, ConnectIInv DEF Connect, AbsentInv
<1>10. CASE UNCHANGED vars
  BY <1>10 DEF vars, captureVars, history, IInv, TypeOK, TimerIsOwn, CallInv, AgeInv, OwnerInv,
               HeardInv, AcceptedWereHeard, AbsentInv
<1>. QED BY <1>1, <1>2, <1>3, <1>4, <1>5, <1>6, <1>7, <1>8, <1>9, <1>10 DEF Next

LEMMA Invariance ==
  ASSUME ~AcceptAfterBegin
  PROVE  Spec => [](IInv /\ AbsentInv)
<1>1. Init => IInv /\ AbsentInv
  BY InitIInv DEF Init, AbsentInv
<1>2. IInv /\ AbsentInv /\ [Next]_vars => (IInv /\ AbsentInv)'
  BY NextIInv
<1>. QED BY <1>1, <1>2, PTL DEF Spec

-----------------------------------------------------------------------------

\* Types, and the only timer that ever runs is the pending capture's own.
THEOREM CaptureInvHolds ==
  ASSUME ~AcceptAfterBegin
  PROVE  Spec => []CaptureInv
<1>1. IInv => CaptureInv
  BY DEF IInv, CaptureInv
<1>. QED BY <1>1, Invariance, PTL

\* No capture is cancelled by a timeout before its time is up.
THEOREM TimeoutsAreDueHolds ==
  ASSUME ~AcceptAfterBegin
  PROVE  Spec => TimeoutsAreDue
<1>1. ASSUME IInv, [Next]_vars, NEW c \in Capture, fate'[c] = "timeout", fate[c] # "timeout"
      PROVE  age = Timeout
  <2>1. CASE FireAny
    BY <2>1, <1>1, FireIsDrop DEF FireAny
  <2>2. CASE \E timed \in BOOLEAN : BeginCapture(timed)
    BY <2>2, <1>1 DEF BeginCapture, IInv, TypeOK
  <2>3. CASE CancelCapture
    <3>1. Ends("cancelled")
      BY <2>3 DEF CancelCapture, Cancelled
    <3>. QED BY <3>1, <1>1, EndsProperties DEF IInv, Fates
  <2>4. CASE Accepted
    <3>1. Ends("accepted")
      BY <2>4 DEF Accepted
    <3>. QED BY <3>1, <1>1, EndsProperties DEF IInv, Fates
  <2>5. CASE OnPlayerDisconnect
    <3>1. Ends("left")
      BY <2>5 DEF OnPlayerDisconnect, Cancelled
    <3>. QED BY <3>1, <1>1, EndsProperties DEF IInv, Fates
  <2>6. CASE TryConsume \/ Refused \/ Tick \/ Connect \/ UNCHANGED vars
    BY <2>6, <1>1 DEF TryConsume, Refused, Tick, Connect, vars, history
  <2>. QED BY <2>1, <2>2, <2>3, <2>4, <2>5, <2>6, <1>1 DEF Next
<1>2. IInv /\ [Next]_vars =>
        [\A c \in Capture : fate'[c] = "timeout" /\ fate[c] # "timeout" => age = Timeout]_vars
  BY <1>1
<1>. QED BY <1>2, Invariance, PTL DEF Spec, TimeoutsAreDue

\* A line of chat reaches only a prompt begun for the player who typed it.
THEOREM TextFromOwnerHolds ==
  ASSUME ~AcceptAfterBegin
  PROVE  Spec => TextFromOwner
<1>1. ASSUME IInv, [Next]_vars, NEW c \in Capture, call'.id = c, call = NoCall
      PROVE  owner[c] = occupant
  <2>1. call' # NoCall
    BY <1>1 DEF NoCall, Capture
  <2>2. TryConsume
    BY <2>1, <1>1 DEF Next, BeginCapture, CancelCapture, Refused, Accepted, FireAny, Fire, Tick,
                      OnPlayerDisconnect, Connect, vars, captureVars
  <2>. QED BY <2>2, <1>1 DEF TryConsume, IInv, OwnerInv
<1>2. IInv /\ [Next]_vars =>
        [\A c \in Capture : c \in heard' /\ call'.id = c /\ call = NoCall => owner[c] = occupant]_vars
  BY <1>1
<1>. QED BY <1>2, Invariance, PTL DEF Spec, TextFromOwner

-----------------------------------------------------------------------------
(* Wizards.                                                                *)

Menu == [flow : Flows \cup {NoFlow}, step : 0 .. ConfirmStep, shown : State \cup {<<>>}]

\* Every confirm dialog on the stack shows what confirming would act on.
ShownInv == \A n \in 1 .. Len(stack) : stack[n].step = ConfirmStep => stack[n].shown = answers[stack[n].flow]

\* A flow that has acted is over: no menu and no capture of it is left.
OverInv ==
  \A f \in Flows :
    /\ finished[f] \in {0, 1}
    /\ finished[f] = 1 => f \in started /\ capture.flow # f /\ \A n \in 1 .. Len(stack) : stack[n].flow # f

FlowInv ==
  /\ stack \in Seq(Menu) /\ FlowTypeOK
  /\ StepsInOrder /\ InputIsCurrent /\ ShownInv /\ StepsApply /\ OverInv

\* A nonempty set of naturals has a least element, and Min is that element.
LEMMA LeastStep ==
  ASSUME NEW S \in SUBSET Nat, S # {}
  PROVE  Min(S) \in S
<1>. DEFINE R == {ss \in Nat \X Nat : ss[1] < ss[2]}
<1>1. IsWellFoundedOn(R, Nat)
  BY NatLessThanWellFounded DEF OpToRel
<1>. HIDE DEF R
<1>2. PICK x \in S : \A y \in S : ~ (<<y, x>> \in R)
  BY <1>1, WFMin
<1>3. ASSUME NEW y \in S
      PROVE  x <= y
  <2>1. x \in Nat /\ y \in Nat /\ <<y, x>> \notin R
    BY <1>2
  <2>2. <<y, x>> \in R <=> y < x
    BY <2>1 DEF R
  <2>. QED BY <2>1, <2>2
<1>. QED BY <1>3 DEF Min

\* The steps that apply are steps.
LEMMA NextStep ==
  ASSUME NEW state, NEW from \in Nat \ {0}, Applicable(state, from) # {}
  PROVE  /\ Min(Applicable(state, from)) \in Step
         /\ Min(Applicable(state, from)) >= from
         /\ state[1] \notin Skips[Min(Applicable(state, from))]
<1>1. Applicable(state, from) \in SUBSET Nat
  BY StepsAssumption DEF Applicable
<1>2. Min(Applicable(state, from)) \in Applicable(state, from)
  BY <1>1, LeastStep
<1>. QED BY <1>2, StepsAssumption DEF Applicable, Step

\* What is on a stack with one menu more, and on one with the last menu taken off.
LEMMA OneOnTop ==
  ASSUME NEW s \in Seq(Menu), NEW m \in Menu
  PROVE  /\ Append(s, m) \in Seq(Menu) /\ Len(Append(s, m)) = Len(s) + 1
         /\ \A n \in 1 .. Len(s) : Append(s, m)[n] = s[n]
         /\ Append(s, m)[Len(s) + 1] = m
         /\ \A n \in 1 .. Len(s) + 1 : n \in 1 .. Len(s) \/ n = Len(s) + 1
BY AppendProperties

LEMMA OneTakenOff ==
  ASSUME NEW s \in Seq(Menu), s # <<>>
  PROVE  LET t == SubSeq(s, 1, Len(s) - 1) IN
         /\ t \in Seq(Menu) /\ Len(t) = Len(s) - 1
         /\ \A n \in 1 .. Len(t) : n \in 1 .. Len(s) /\ t[n] = s[n]
<1>. DEFINE n == Len(s) - 1
            t == SubSeq(s, 1, n)
<1>1. n \in Nat /\ Len(s) = n + 1 /\ 1 \in Int /\ \A i \in 1 .. n : s[i] \in Menu
  <2>1. Len(s) \in Nat /\ Len(s) # 0
    BY EmptySeq, LenProperties
  <2>. QED BY <2>1
<1>. HIDE DEF n
<1>2. t \in Seq(Menu) /\ Len(t) = (IF 1 <= n THEN n - 1 + 1 ELSE 0) /\ \A i \in 1 .. n - 1 + 1 : t[i] = s[1 + i - 1]
  BY ONLY <1>1, SubSeqProperties DEF t
<1>3. (IF 1 <= n THEN n - 1 + 1 ELSE 0) = n /\ n - 1 + 1 = n /\ \A i \in 1 .. n : 1 + i - 1 = i /\ i \in 1 .. n + 1
  BY <1>1
<1>. HIDE DEF t
<1>4. t \in Seq(Menu) /\ Len(t) = n /\ \A i \in 1 .. n : i \in 1 .. Len(s) /\ t[i] = s[i]
  BY <1>1, <1>2, <1>3
<1>. QED BY <1>4 DEF n, t

\* What a menu of the stack may be.
LEMMA OnStack ==
  ASSUME FlowInv, NEW n \in 1 .. Len(stack)
  PROVE  /\ stack[n] \in Menu
         /\ stack[n].flow = NoFlow => stack[n].step = 0
         /\ stack[n].flow # NoFlow =>
              stack[n].flow \in started /\ stack[n].flow \in Flows /\ stack[n].step \in 1 .. ConfirmStep /\ stack[n].shown \in State
         /\ stack[n].step \in Step => stack[n].flow # NoFlow /\ stack[n].step <= at[stack[n].flow]
BY StepsAssumption DEF FlowInv, FlowTypeOK, StepsInOrder, Step

\* The player's menus are all closed.
LEMMA AllClosed ==
  ASSUME FlowInv, stack' = <<>>, capture' \in {capture, NoPrompt},
         at' \in [Flows -> Step], answers' \in [Flows -> State],
         started \subseteq started', started' \subseteq Flows, valid' \subseteq Flows, finished' \in [Flows -> Nat],
         \A f \in Flows : \/ finished'[f] = finished[f]
                          \/ finished[f] = 0 /\ finished'[f] = 1 /\ f \in started' /\ capture'.flow # f
  PROVE  FlowInv'
<1>1. Len(stack') = 0 /\ 1 .. 0 = {} /\ stack' \in Seq(Menu)
  OBVIOUS
<1>2. \A f \in Flows : NoPrompt.flow # f
  BY FlowsAssumption DEF NoPrompt
<1>3. FlowTypeOK'
  BY <1>1, DepthAssumption DEF FlowInv, FlowTypeOK, NoPrompt
<1>4. OverInv'
  BY <1>1, <1>2 DEF FlowInv, OverInv
<1>. QED BY <1>1, <1>3, <1>4 DEF FlowInv, StepsInOrder, InputIsCurrent, ShownInv, StepsApply, Menu, State

\* A flow opens its next menu.
LEMMA NextOpens ==
  ASSUME FlowInv, NEW f \in Flows, NEW step \in 1 .. ConfirmStep, NEW shown \in State,
         Len(stack) < MaxDepth, stack' = Append(stack, [flow |-> f, step |-> step, shown |-> shown]),
         \/ capture' = NoPrompt
         \/ capture' = capture /\ capture.flow # f,
         started \subseteq started', started' \subseteq Flows, f \in started', valid' \subseteq Flows,
         finished' = finished, finished[f] = 0,
         at' \in [Flows -> Step], \A g \in Flows \ {f} : at'[g] = at[g],
         step \in Step => step <= at'[f],
         answers' \in [Flows -> State], \A g \in Flows \ {f} : answers'[g] = answers[g],
         step = ConfirmStep => shown = answers'[f],
         step \in Step => answers'[f][1] \notin Skips[step],
         \A n \in 1 .. Len(stack) : stack[n].flow = f =>
           /\ stack[n].step < step /\ stack[n].step # ConfirmStep /\ stack[n].step <= at'[f]
           /\ stack[n].step \in Step => answers'[f][1] \notin Skips[stack[n].step]
  PROVE  FlowInv'
<1>. DEFINE menu == [flow |-> f, step |-> step, shown |-> shown]
            depth == Len(stack)
<1>1. f # NoFlow /\ Steps \in Nat /\ ConfirmStep \in Nat /\ MaxDepth \in Nat
  BY FlowsAssumption, StepsAssumption, DepthAssumption DEF ConfirmStep
<1>2. menu \in Menu /\ menu.flow = f /\ menu.step = step /\ menu.shown = shown
  BY <1>1 DEF Menu
<1>. HIDE DEF menu
<1>3. stack \in Seq(Menu) /\ depth \in Nat
  BY DEF FlowInv
<1>4. /\ stack' \in Seq(Menu) /\ Len(stack') = depth + 1
      /\ \A n \in 1 .. depth : stack'[n] = stack[n]
      /\ stack'[depth + 1] = menu
      /\ \A n \in 1 .. depth + 1 : n \in 1 .. depth \/ n = depth + 1
  <2>1. stack' = Append(stack, menu)
    BY DEF menu
  <2>. QED BY <1>2, <1>3, <2>1, OneOnTop
<1>. HIDE DEF depth
<1>5. /\ finished \in [Flows -> Nat] /\ at \in [Flows -> Step] /\ answers \in [Flows -> State]
      /\ capture = NoPrompt \/ (capture.flow \in started /\ capture.step \in Step)
      /\ started \subseteq Flows
  BY DEF FlowInv, FlowTypeOK
<1>6. FlowTypeOK'
  <2>1. \A n \in 1 .. Len(stack') :
          IF stack'[n].flow = NoFlow THEN stack'[n].step = 0
          ELSE stack'[n].flow \in started' /\ stack'[n].step \in 1 .. ConfirmStep /\ stack'[n].shown \in State
    <3>. TAKE n \in 1 .. Len(stack')
    <3>1. CASE n \in 1 .. depth
      BY <1>4, <3>1, OnStack DEF depth
    <3>2. CASE n = depth + 1
      BY <1>1, <1>2, <1>4, <3>2
    <3>. QED BY <1>4, <3>1, <3>2
  <2>2. Len(stack') <= MaxDepth
    BY <1>1, <1>3, <1>4 DEF depth
  <2>3. capture' = NoPrompt \/ (capture'.flow \in started' /\ capture'.step \in Step)
    BY <1>5
  <2>. QED BY <1>5, <2>1, <2>2, <2>3 DEF FlowTypeOK, State
<1>7. StepsInOrder'
  <2>1. ASSUME NEW m \in 1 .. Len(stack'), NEW n \in 1 .. Len(stack'),
               m < n, stack'[m].flow = stack'[n].flow, stack'[m].flow # NoFlow
        PROVE  stack'[m].step < stack'[n].step
    <3>1. m \in 1 .. depth
      BY <1>3, <1>4, <2>1
    <3>2. CASE n \in 1 .. depth
      BY <1>4, <2>1, <3>1, <3>2 DEF FlowInv, StepsInOrder, depth
    <3>3. CASE n = depth + 1
      BY <1>2, <1>4, <2>1, <3>1, <3>3 DEF depth
    <3>. QED BY <1>4, <2>1, <3>2, <3>3
  <2>2. ASSUME NEW n \in 1 .. Len(stack'), stack'[n].step \in Step
        PROVE  stack'[n].step <= at'[stack'[n].flow]
    <3>1. CASE n \in 1 .. depth
      <4>1. stack[n].flow \in Flows /\ stack[n].step <= at[stack[n].flow]
        BY <1>4, <2>2, <3>1, OnStack DEF depth
      <4>2. CASE stack[n].flow = f
        BY <1>4, <3>1, <4>2 DEF depth
      <4>3. CASE stack[n].flow # f
        BY <1>4, <3>1, <4>1, <4>3 DEF depth
      <4>. QED BY <4>2, <4>3
    <3>2. CASE n = depth + 1
      BY <1>2, <1>4, <2>2, <3>2
    <3>. QED BY <1>4, <2>2, <3>1, <3>2
  <2>. QED BY <2>1, <2>2 DEF StepsInOrder
<1>8. InputIsCurrent'
  <2>. SUFFICES ASSUME capture' # NoPrompt, NEW n \in 1 .. Len(stack'), stack'[n].flow = capture'.flow
                PROVE  stack'[n].step <= capture'.step
    BY DEF InputIsCurrent
  <2>1. capture' = capture /\ capture.flow # f
    OBVIOUS
  <2>2. n \in 1 .. depth
    BY <1>2, <1>4, <2>1
  <2>. QED BY <1>4, <2>1, <2>2 DEF FlowInv, InputIsCurrent, depth
<1>9. ASSUME NEW n \in 1 .. depth, stack[n].flow # NoFlow
      PROVE  /\ stack[n].flow \in Flows
             /\ stack[n].flow # f => answers'[stack[n].flow] = answers[stack[n].flow]
  BY <1>9, OnStack DEF depth
<1>10. ShownInv'
  <2>. SUFFICES ASSUME NEW n \in 1 .. Len(stack'), stack'[n].step = ConfirmStep
                PROVE  stack'[n].shown = answers'[stack'[n].flow]
    BY DEF ShownInv
  <2>1. CASE n \in 1 .. depth
    <3>1. stack[n].flow # NoFlow /\ stack[n].flow # f
      BY <1>1, <1>4, <2>1, OnStack, StepsAssumption DEF depth, ConfirmStep
    <3>. QED BY <1>4, <1>9, <2>1, <3>1 DEF FlowInv, ShownInv, depth
  <2>2. CASE n = depth + 1
    BY <1>2, <1>4, <2>2
  <2>. QED BY <1>4, <2>1, <2>2
<1>11. StepsApply'
  <2>. SUFFICES ASSUME NEW n \in 1 .. Len(stack'), stack'[n].step \in Step
                PROVE  answers'[stack'[n].flow][1] \notin Skips[stack'[n].step]
    BY DEF StepsApply
  <2>1. CASE n \in 1 .. depth
    <3>1. stack[n].flow # NoFlow /\ stack[n].step \in Step
      BY <1>4, <2>1, OnStack DEF depth
    <3>2. CASE stack[n].flow = f
      BY <1>4, <2>1, <3>1, <3>2 DEF depth
    <3>3. CASE stack[n].flow # f
      BY <1>4, <1>9, <2>1, <3>1, <3>3 DEF FlowInv, StepsApply, depth
    <3>. QED BY <3>2, <3>3
  <2>2. CASE n = depth + 1
    BY <1>2, <1>4, <2>2
  <2>. QED BY <1>4, <2>1, <2>2
<1>12. OverInv'
  <2>. SUFFICES ASSUME NEW g \in Flows, finished[g] = 1
                PROVE  g \in started' /\ capture'.flow # g /\ \A n \in 1 .. Len(stack') : stack'[n].flow # g
    BY DEF FlowInv, OverInv
  <2>1. g # f /\ g \in started' /\ capture.flow # g /\ \A n \in 1 .. depth : stack[n].flow # g
    BY DEF FlowInv, OverInv, depth
  <2>2. capture'.flow # g
    BY <2>1, FlowsAssumption DEF NoPrompt
  <2>. QED BY <1>2, <1>4, <2>1, <2>2
<1>. QED BY <1>4, <1>6, <1>7, <1>8, <1>10, <1>11, <1>12 DEF FlowInv, Menu, State

\* A flow that acts or is refused closes everything.
LEMMA FinishCloses ==
  ASSUME FlowInv, NEW f \in started, RunFinish(f), finished[f] = 0, capture' = NoPrompt,
         at' \in [Flows -> Step], answers' \in [Flows -> State], started' = started, valid' = valid
  PROVE  FlowInv'
<1>1. finished \in [Flows -> Nat] /\ started \subseteq Flows /\ valid \subseteq Flows /\ f # NoFlow
  BY FlowsAssumption DEF FlowInv, FlowTypeOK
<1>2. stack' = <<>> /\ finished' \in [Flows -> Nat]
      /\ \A g \in Flows : finished'[g] = finished[g] \/ (g = f /\ finished'[g] = 1)
  BY <1>1 DEF RunFinish
<1>3. capture'.flow = NoFlow
  BY DEF NoPrompt
<1>4. \A g \in Flows : \/ finished'[g] = finished[g]
                       \/ finished[g] = 0 /\ finished'[g] = 1 /\ g \in started' /\ capture'.flow # g
  BY <1>1, <1>2, <1>3
<1>. QED BY <1>1, <1>2, <1>4, AllClosed

\* A row or a line of chat answers the last step of its flow.
LEMMA AnswerKeeps ==
  ASSUME FlowInv, NEW f \in started, NEW s \in Step, NEW value \in Values, Answer(f, s, value),
         finished[f] = 0, \A n \in 1 .. Len(stack) : stack[n].flow = f => stack[n].step <= s,
         capture' = NoPrompt, started' = started, valid' = valid
  PROVE  FlowInv'
<1>. DEFINE state == [answers[f] EXCEPT ![s] = value]
            from == at[f] + 1
            next == Min(Applicable(state, from))
<1>1. /\ f \in Flows /\ f # NoFlow /\ started \subseteq Flows /\ valid \subseteq Flows
      /\ Steps \in Nat \ {0} /\ ConfirmStep = Steps + 1 /\ 1 \in Step /\ Step \subseteq Nat
      /\ at \in [Flows -> Step] /\ answers \in [Flows -> State] /\ finished \in [Flows -> Nat]
  BY FlowsAssumption, StepsAssumption DEF FlowInv, FlowTypeOK, Step, ConfirmStep
<1>2. state \in State /\ (s # 1 => state[1] = answers[f][1])
  BY <1>1 DEF State
<1>3. /\ answers' \in [Flows -> State] /\ answers'[f] = state /\ \A g \in Flows \ {f} : answers'[g] = answers[g]
      /\ OpenFrom(f, state, from)
  <2>1. answers' = [answers EXCEPT ![f] = state] /\ OpenFrom(f, state, from)
    BY DEF Answer
  <2>. HIDE DEF state
  <2>. QED BY <1>1, <1>2, <2>1
<1>4. from \in Nat \ {0} /\ from > at[f] /\ at[f] \in Nat
  <2>1. at[f] \in Nat
    BY <1>1
  <2>. QED BY <2>1
<1>. HIDE DEF state, from
<1>5. ASSUME NEW n \in 1 .. Len(stack), stack[n].flow = f
      PROVE  /\ stack[n].step \in Step /\ stack[n].step <= s /\ stack[n].step <= at[f]
             /\ stack[n].step # ConfirmStep
             /\ answers'[f][1] \notin Skips[stack[n].step]
  <2>1. stack[n].step \in 1 .. ConfirmStep /\ stack[n].step <= s
    BY <1>1, <1>5, OnStack
  <2>2. stack[n].step \in Step /\ stack[n].step # ConfirmStep
    BY <1>1, <2>1 DEF Step
  <2>3. stack[n].step <= at[f] /\ answers[f][1] \notin Skips[stack[n].step]
    BY <1>5, <2>2, OnStack DEF FlowInv, StepsApply
  <2>4. CASE s = 1
    <3>1. stack[n].step = 1
      BY <1>1, <2>1, <2>4
    <3>. QED BY <2>1, <2>2, <2>3, <3>1, SkipsAssumption
  <2>5. CASE s # 1
    BY <1>2, <1>3, <2>1, <2>2, <2>3, <2>5
  <2>. QED BY <2>4, <2>5
<1>6. CASE f \notin valid /\ stack' = <<>> /\ UNCHANGED <<at, finished>>
  BY <1>1, <1>3, <1>6, AllClosed
<1>7. CASE /\ f \in valid /\ Applicable(state, from) # {}
           /\ Push(f, next, state) /\ at' = [at EXCEPT ![f] = next]
           /\ UNCHANGED finished
  <2>1. next \in Step /\ next >= from /\ state[1] \notin Skips[next]
    BY <1>4, <1>7, NextStep
  <2>. HIDE DEF next
  <2>2. at' \in [Flows -> Step] /\ at'[f] = next /\ \A g \in Flows \ {f} : at'[g] = at[g]
    BY <1>1, <1>7, <2>1
  <2>3. Len(stack) < MaxDepth /\ stack' = Append(stack, [flow |-> f, step |-> next, shown |-> state])
    BY <1>7 DEF Push
  <2>4. next \in 1 .. ConfirmStep /\ next # ConfirmStep /\ next <= at'[f]
    BY <1>1, <2>1, <2>2 DEF Step
  <2>5. \A n \in 1 .. Len(stack) : stack[n].flow = f =>
          /\ stack[n].step < next /\ stack[n].step # ConfirmStep /\ stack[n].step <= at'[f]
          /\ stack[n].step \in Step => answers'[f][1] \notin Skips[stack[n].step]
    <3>. TAKE n \in 1 .. Len(stack)
    <3>. SUFFICES ASSUME stack[n].flow = f
                  PROVE  stack[n].step < next /\ stack[n].step <= next
      BY <1>5, <2>2
    <3>1. stack[n].step \in Nat /\ stack[n].step <= at[f] /\ next \in Nat
      BY <1>1, <1>5, <2>1
    <3>. QED BY <1>4, <2>1, <3>1
  <2>. QED BY <1>1, <1>2, <1>3, <1>7, <2>1, <2>2, <2>3, <2>4, <2>5, NextOpens, SMTT(60)
<1>8. CASE /\ f \in valid /\ Applicable(state, from) = {} /\ f \in WithConfirm
           /\ Push(f, ConfirmStep, state) /\ UNCHANGED <<at, finished>>
  <2>1. Len(stack) < MaxDepth /\ stack' = Append(stack, [flow |-> f, step |-> ConfirmStep, shown |-> state])
    BY <1>8 DEF Push
  <2>2. ConfirmStep \in 1 .. ConfirmStep /\ ConfirmStep \notin Step
    BY <1>1 DEF Step
  <2>3. \A n \in 1 .. Len(stack) : stack[n].flow = f =>
          /\ stack[n].step < ConfirmStep /\ stack[n].step # ConfirmStep /\ stack[n].step <= at'[f]
          /\ stack[n].step \in Step => answers'[f][1] \notin Skips[stack[n].step]
    <3>. TAKE n \in 1 .. Len(stack)
    <3>. SUFFICES ASSUME stack[n].flow = f
                  PROVE  stack[n].step < ConfirmStep
      BY <1>5, <1>8
    <3>. QED BY <1>1, <1>5 DEF Step
  <2>4. at' \in [Flows -> Step] /\ (\A g \in Flows \ {f} : at'[g] = at[g]) /\ finished' = finished
    BY <1>1, <1>8
  <2>. DEFINE last == ConfirmStep
  <2>5. /\ last \in 1 .. ConfirmStep /\ last \notin Step
        /\ stack' = Append(stack, [flow |-> f, step |-> last, shown |-> state])
        /\ \A n \in 1 .. Len(stack) : stack[n].flow = f =>
             /\ stack[n].step < last /\ stack[n].step # ConfirmStep /\ stack[n].step <= at'[f]
             /\ stack[n].step \in Step => answers'[f][1] \notin Skips[stack[n].step]
    BY <2>1, <2>2, <2>3
  <2>. HIDE DEF last
  <2>. QED BY <1>1, <1>2, <1>3, <2>1, <2>4, <2>5, NextOpens, ZenonT(60)
<1>9. CASE f \in valid /\ RunFinish(f) /\ UNCHANGED at
  BY <1>1, <1>3, <1>9, FinishCloses
<1>. QED BY <1>3, <1>6, <1>7, <1>8, <1>9 DEF OpenFrom

\* The first step of a flow opens: it is never skipped.
LEMMA StartKeeps ==
  ASSUME FlowInv, NEW f \in Flows, Start(f)
  PROVE  FlowInv'
<1>. DEFINE state == answers[f]
            next == Min(Applicable(state, 1))
<1>1. /\ f # NoFlow /\ started \subseteq Flows /\ valid \subseteq Flows /\ f \notin started
      /\ started' = started \cup {f} /\ capture' = capture /\ answers' = answers /\ valid' = valid
      /\ Steps \in Nat \ {0} /\ ConfirmStep = Steps + 1 /\ Step \subseteq Nat
      /\ at \in [Flows -> Step] /\ answers \in [Flows -> State] /\ finished \in [Flows -> Nat]
      /\ OpenFrom(f, state, 1)
  BY FlowsAssumption, StepsAssumption DEF Start, FlowInv, FlowTypeOK, Step, ConfirmStep
<1>2. state \in State /\ 1 \in Applicable(state, 1)
  BY <1>1, SkipsAssumption DEF Applicable
<1>3. \A n \in 1 .. Len(stack) : stack[n].flow # f
  BY <1>1, OnStack
<1>4. capture.flow # f /\ finished[f] = 0
  BY <1>1, FlowsAssumption DEF FlowInv, FlowTypeOK, OverInv, NoPrompt
<1>. HIDE DEF state
<1>5. CASE stack' = <<>> /\ UNCHANGED <<at, finished>>
  BY <1>1, <1>5, AllClosed
<1>6. CASE /\ Push(f, next, state) /\ at' = [at EXCEPT ![f] = next]
           /\ UNCHANGED finished
  <2>1. next \in Step /\ state[1] \notin Skips[next]
    BY <1>2, NextStep
  <2>. HIDE DEF next
  <2>2. at' \in [Flows -> Step] /\ at'[f] = next /\ \A g \in Flows \ {f} : at'[g] = at[g]
    BY <1>1, <1>6, <2>1
  <2>3. Len(stack) < MaxDepth /\ stack' = Append(stack, [flow |-> f, step |-> next, shown |-> state])
    BY <1>6 DEF Push
  <2>4. next \in 1 .. ConfirmStep /\ next # ConfirmStep /\ next <= at'[f]
    BY <1>1, <2>1, <2>2 DEF Step
  <2>5. answers'[f] = state
    BY <1>1 DEF state
  <2>. QED BY <1>1, <1>2, <1>3, <1>4, <1>6, <2>1, <2>2, <2>3, <2>4, <2>5, NextOpens
<1>. QED BY <1>1, <1>2, <1>5, <1>6 DEF OpenFrom

\* The flow of the menu on top has not acted, and no menu of it lies beyond.
LEMMA TopIsOpen ==
  ASSUME FlowInv, stack # <<>>, NEW f \in Flows, Top.flow = f
  PROVE  /\ f \in started /\ finished[f] = 0
         /\ \A n \in 1 .. Len(stack) : stack[n].flow = f => stack[n].step <= Top.step
<1>1. Len(stack) \in 1 .. Len(stack) /\ Len(stack) \in Nat
  <2>1. Len(stack) \in Nat /\ Len(stack) # 0
    BY EmptySeq, LenProperties DEF FlowInv
  <2>. QED BY <2>1
<1>2. f \in started /\ Top.step \in Nat
  BY <1>1, OnStack, FlowsAssumption, StepsAssumption DEF Top, ConfirmStep
<1>3. finished[f] = 0
  BY <1>1 DEF FlowInv, OverInv, Top
<1>4. ASSUME NEW n \in 1 .. Len(stack), stack[n].flow = f
      PROVE  stack[n].step <= Top.step
  <2>1. CASE n = Len(stack)
    BY <1>2, <2>1 DEF Top
  <2>2. CASE n < Len(stack)
    <3>1. stack[n].step < Top.step
      BY <1>1, <1>4, <2>2, FlowsAssumption DEF FlowInv, StepsInOrder, Top
    <3>2. stack[n].step \in Nat
      BY <1>4, OnStack, FlowsAssumption, StepsAssumption DEF ConfirmStep
    <3>. QED BY <1>2, <3>1, <3>2
  <2>. QED BY <1>1, <2>1, <2>2
<1>. QED BY <1>2, <1>3, <1>4

\* The flow of a pending capture has not acted either.
LEMMA AskedIsOpen ==
  ASSUME FlowInv, capture # NoPrompt
  PROVE  capture.flow \in started /\ capture.flow \in Flows /\ capture.step \in Step /\ finished[capture.flow] = 0
BY DEF FlowInv, FlowTypeOK, OverInv

LEMMA FlowInitInv == FlowInit => FlowInv
<1>. SUFFICES ASSUME FlowInit PROVE FlowInv
  OBVIOUS
<1>1. stack = <<>> /\ Len(stack) = 0 /\ 1 .. 0 = {} /\ stack \in Seq(Menu)
  BY DEF FlowInit
<1>2. 1 \in Step
  BY StepsAssumption DEF Step
<1>3. FlowTypeOK
  BY <1>1, <1>2, DepthAssumption DEF FlowInit, FlowTypeOK, State
<1>. QED BY <1>1, <1>3 DEF FlowInit, FlowInv, StepsInOrder, InputIsCurrent, ShownInv, StepsApply, OverInv

LEMMA FlowNextInv == FlowInv /\ [FlowNext]_flowVars => FlowInv'
<1>. SUFFICES ASSUME FlowInv, [FlowNext]_flowVars PROVE FlowInv'
  OBVIOUS
<1>1. /\ finished \in [Flows -> Nat] /\ at \in [Flows -> Step] /\ answers \in [Flows -> State]
      /\ started \subseteq Flows /\ valid \subseteq Flows
  BY DEF FlowInv, FlowTypeOK
<1>2. ASSUME NEW f \in Flows, Start(f)
      PROVE  FlowInv'
  BY <1>2, StartKeeps
<1>3. ASSUME NEW f \in Flows, NEW value \in Values, Pick(f, value)
      PROVE  FlowInv'
  <2>1. /\ stack # <<>> /\ Top.flow = f /\ Top.step \in Step /\ capture = NoPrompt
        /\ Answer(f, Top.step, value) /\ capture' = capture /\ started' = started /\ valid' = valid
    BY <1>3 DEF Pick, OnStep, Listens
  <2>. QED BY <2>1, TopIsOpen, AnswerKeeps
<1>4. ASSUME NEW value \in Values, Say(value)
      PROVE  FlowInv'
  <2>1. /\ capture # NoPrompt /\ Answer(capture.flow, capture.step, value)
        /\ capture' = NoPrompt /\ started' = started /\ valid' = valid
    BY <1>4 DEF Say
  <2>2. \A n \in 1 .. Len(stack) : stack[n].flow = capture.flow => stack[n].step <= capture.step
    BY <2>1 DEF FlowInv, InputIsCurrent
  <2>. QED BY <2>1, <2>2, AskedIsOpen, AnswerKeeps
<1>5. ASSUME NEW f \in Flows, PickCustom(f)
      PROVE  FlowInv'
  <2>1. /\ stack # <<>> /\ Top.flow = f /\ Top.step \in Step
        /\ capture' = [flow |-> f, step |-> Top.step]
        /\ UNCHANGED <<stack, at, answers, started, valid, finished>>
    BY <1>5 DEF PickCustom, OnStep, Listens
  <2>2. /\ f \in started /\ finished[f] = 0
        /\ \A n \in 1 .. Len(stack) : stack[n].flow = f => stack[n].step <= Top.step
    BY <2>1, TopIsOpen
  <2>3. FlowTypeOK' /\ StepsInOrder' /\ ShownInv' /\ StepsApply'
    BY <2>1, <2>2 DEF FlowInv, FlowTypeOK, StepsInOrder, ShownInv, StepsApply
  <2>4. InputIsCurrent' /\ OverInv'
    BY <2>1, <2>2 DEF FlowInv, InputIsCurrent, OverInv
  <2>. QED BY <2>1, <2>3, <2>4 DEF FlowInv, Menu, State
<1>6. ASSUME NEW f \in Flows, Confirm(f)
      PROVE  FlowInv'
  <2>1. /\ stack # <<>> /\ Top.flow = f /\ capture = NoPrompt /\ RunFinish(f)
        /\ UNCHANGED <<capture, at, answers, started, valid>>
    BY <1>6 DEF Confirm, OnConfirm, Listens
  <2>. QED BY <1>1, <2>1, TopIsOpen, FinishCloses
<1>7. ASSUME NEW f \in Flows, Invalidate(f)
      PROVE  FlowInv'
  BY <1>7 DEF Invalidate, FlowInv, FlowTypeOK, StepsInOrder, InputIsCurrent, ShownInv, StepsApply, OverInv, Menu, State
<1>8. CASE CaptureEnds
  <2>1. capture' = NoPrompt /\ UNCHANGED <<stack, at, answers, started, valid, finished>>
    BY <1>8 DEF CaptureEnds
  <2>2. \A f \in Flows : capture'.flow # f
    BY <2>1, FlowsAssumption DEF NoPrompt
  <2>. QED BY <2>1, <2>2 DEF FlowInv, FlowTypeOK, StepsInOrder, InputIsCurrent, ShownInv, StepsApply, OverInv, Menu, State
<1>9. CASE CloseAllMenus \/ Disconnects
  BY <1>1, <1>9, AllClosed DEF CloseAllMenus, Disconnects
<1>10. CASE Back
  <2>1. /\ stack # <<>> /\ stack' = SubSeq(stack, 1, Len(stack) - 1)
        /\ UNCHANGED <<capture, at, answers, started, valid, finished>>
    BY <1>10 DEF Back, Listens
  <2>2. /\ stack' \in Seq(Menu) /\ Len(stack') <= Len(stack) /\ Len(stack) \in Nat /\ Len(stack') \in Nat
        /\ \A n \in 1 .. Len(stack') : n \in 1 .. Len(stack) /\ stack'[n] = stack[n]
    <3>1. stack \in Seq(Menu) /\ Len(stack) \in Nat
      BY DEF FlowInv
    <3>. QED BY <2>1, <3>1, OneTakenOff
  <2>3. Len(stack') <= MaxDepth
    BY <2>2, DepthAssumption DEF FlowInv, FlowTypeOK
  <2>4. FlowTypeOK'
    BY <2>1, <2>2, <2>3 DEF FlowInv, FlowTypeOK, State
  <2>5. StepsInOrder' /\ InputIsCurrent'
    BY <2>1, <2>2 DEF FlowInv, StepsInOrder, InputIsCurrent
  <2>6. ShownInv' /\ StepsApply' /\ OverInv'
    BY <2>1, <2>2 DEF FlowInv, ShownInv, StepsApply, OverInv
  <2>. QED BY <2>2, <2>4, <2>5, <2>6 DEF FlowInv, Menu, State
<1>11. CASE OpenOther
  <2>. DEFINE menu == [flow |-> NoFlow, step |-> 0, shown |-> <<>>]
              depth == Len(stack)
  <2>1. /\ depth < MaxDepth /\ stack' = Append(stack, menu)
        /\ UNCHANGED <<capture, at, answers, started, valid, finished>>
    BY <1>11 DEF OpenOther, Push
  <2>2. /\ menu \in Menu /\ menu.flow = NoFlow /\ menu.step = 0 /\ 0 \notin Step /\ 0 # ConfirmStep
        /\ \A f \in Flows : menu.flow # f
    BY FlowsAssumption, StepsAssumption DEF Menu, ConfirmStep, Step
  <2>. HIDE DEF menu
  <2>3. stack \in Seq(Menu) /\ depth \in Nat
    BY DEF FlowInv
  <2>4. /\ stack' \in Seq(Menu) /\ Len(stack') = depth + 1
        /\ \A n \in 1 .. depth : stack'[n] = stack[n]
        /\ stack'[depth + 1] = menu
        /\ \A n \in 1 .. depth + 1 : n \in 1 .. depth \/ n = depth + 1
    BY <2>1, <2>2, <2>3, OneOnTop
  <2>5. FlowTypeOK'
    <3>1. depth + 1 <= MaxDepth
      BY <2>1, <2>3, DepthAssumption
    <3>. QED BY <2>1, <2>2, <2>4, <3>1 DEF FlowInv, FlowTypeOK, State
  <2>6. StepsInOrder'
    <3>1. \A m, n \in 1 .. depth + 1 : m < n => m \in 1 .. depth
      BY <2>3
    <3>. QED BY <2>1, <2>2, <2>4, <3>1 DEF FlowInv, StepsInOrder
  <2>7. InputIsCurrent'
    <3>1. capture # NoPrompt => capture.flow \in Flows
      BY AskedIsOpen
    <3>. QED BY <2>1, <2>2, <2>4, <3>1 DEF FlowInv, InputIsCurrent
  <2>8. ShownInv' /\ StepsApply' /\ OverInv'
    BY <2>1, <2>2, <2>4 DEF FlowInv, ShownInv, StepsApply, OverInv
  <2>. QED BY <2>4, <2>5, <2>6, <2>7, <2>8 DEF FlowInv, Menu, State
<1>12. CASE UNCHANGED flowVars
  BY <1>12 DEF flowVars, FlowInv, FlowTypeOK, StepsInOrder, InputIsCurrent, ShownInv, StepsApply, OverInv, Menu, State
<1>. QED BY <1>2, <1>3, <1>4, <1>5, <1>6, <1>7, <1>8, <1>9, <1>10, <1>11, <1>12 DEF FlowNext

LEMMA FlowInvariance == FlowSpec => []FlowInv
<1>. QED BY FlowInitInv, FlowNextInv, PTL DEF FlowSpec

\* However the player goes back, types or opens other menus over a wizard, its screens lie on the
\* stack in the order of its steps and none beyond _stepIndex, no later one is open while a line
\* for a step is awaited, the confirm dialog on screen shows the state that confirming acts on, and
\* no step that the state says to skip is on the stack.
THEOREM ScreensAgreeHolds == FlowSpec => []ScreensAgree
<1>1. FlowInv => ScreensAgree
  <2>. SUFFICES ASSUME FlowInv, stack # <<>>, Top.step = ConfirmStep
                PROVE  Top.shown = answers[Top.flow]
    BY DEF FlowInv, ScreensAgree, ConfirmShowsState
  <2>1. Len(stack) \in 1 .. Len(stack)
    <3>1. Len(stack) \in Nat /\ Len(stack) # 0
      BY EmptySeq, LenProperties DEF FlowInv
    <3>. QED BY <3>1
  <2>. QED BY <2>1 DEF FlowInv, ShownInv, Top
<1>. QED BY <1>1, FlowInvariance, PTL

\* A flow acts at most once, and only while its validation passes.
THEOREM FinishIsJustifiedHolds == FlowSpec => FinishIsJustified
<1>1. ASSUME FlowInv, NEW f \in Flows, finished[f] = 0, NEW g \in Flows, RunFinish(f), finished'[g] # finished[g]
      PROVE  finished[g] = 0 /\ g \in valid
  <2>1. finished \in [Flows -> Nat]
    BY <1>1 DEF FlowInv, FlowTypeOK
  <2>2. f \in valid /\ finished' = [finished EXCEPT ![f] = @ + 1]
    BY <1>1 DEF RunFinish
  <2>. QED BY <1>1, <2>1, <2>2
<1>2. ASSUME FlowInv, NEW f \in Flows, finished[f] = 0, NEW state, NEW from, OpenFrom(f, state, from),
             NEW g \in Flows, finished'[g] # finished[g]
      PROVE  finished[g] = 0 /\ g \in valid
  BY <1>1, <1>2 DEF OpenFrom
<1>3. ASSUME FlowInv, FlowNext, NEW g \in Flows, finished'[g] # finished[g]
      PROVE  finished[g] = 0 /\ g \in valid
  <2>1. ASSUME NEW f \in Flows, Start(f)
        PROVE  finished[g] = 0 /\ g \in valid
    <3>1. finished[f] = 0
      BY <1>3, <2>1 DEF Start, FlowInv, OverInv
    <3>. QED BY <1>2, <1>3, <2>1, <3>1 DEF Start
  <2>2. ASSUME NEW f \in Flows, NEW value \in Values, Pick(f, value)
        PROVE  finished[g] = 0 /\ g \in valid
    <3>1. finished[f] = 0
      BY <1>3, <2>2, TopIsOpen DEF Pick, OnStep, Listens
    <3>. QED BY <1>2, <1>3, <2>2, <3>1 DEF Pick, Answer
  <2>3. ASSUME NEW value \in Values, Say(value)
        PROVE  finished[g] = 0 /\ g \in valid
    <3>1. finished[capture.flow] = 0 /\ capture.flow \in Flows
      BY <1>3, <2>3, AskedIsOpen DEF Say
    <3>. QED BY <1>2, <1>3, <2>3, <3>1 DEF Say, Answer
  <2>4. ASSUME NEW f \in Flows, Confirm(f)
        PROVE  finished[g] = 0 /\ g \in valid
    <3>1. finished[f] = 0
      BY <1>3, <2>4, TopIsOpen DEF Confirm, OnConfirm, Listens
    <3>. QED BY <1>1, <1>3, <2>4, <3>1 DEF Confirm
  <2>. QED BY <1>3, <2>1, <2>2, <2>3, <2>4
           DEF FlowNext, PickCustom, Invalidate, CaptureEnds, Back, CloseAllMenus, OpenOther, Disconnects
<1>4. FlowInv /\ [FlowNext]_flowVars =>
        [\A f \in Flows : finished'[f] # finished[f] => finished[f] = 0 /\ f \in valid]_flowVars
  BY <1>3
<1>. QED BY <1>4, FlowInvariance, PTL DEF FlowSpec, FinishIsJustified

=============================================================================
