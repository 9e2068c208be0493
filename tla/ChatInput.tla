----------------------------- MODULE ChatInput -----------------------------
(***************************************************************************)
(* Sdk::ChatInputCapture for one slot: at most one pending prompt, the     *)
(* scheduler timer that cancels it, and TryConsume, which calls the        *)
(* prompt's validator.  The validator is plugin code: it may begin another *)
(* capture, or cancel, before it answers.  Captures are numbered; the      *)
(* timer of a timed capture has the capture's number as its handle.        *)
(***************************************************************************)
EXTENDS Integers, CallbackRegistry

CONSTANTS
  Timeout,          \* timeoutMs of a timed capture, in clock ticks
  AcceptAfterBegin, \* TRUE: a validator that began the next capture may return true
  MaxCaptures       \* bound: captures a behaviour begins

ASSUME TimeoutAssumption == Timeout \in Nat \ {0}
ASSUME CapturesAssumption == MaxCaptures \in Nat

VARIABLES
  pending,  \* _pending[slot], or NoCapture
  alarms,   \* the live timeout timers: handle -> ticks left
  call,     \* TryConsume's locals while the validator runs, or NoCall
  begun,    \* captures begun so far
  present,  \* a player occupies the slot
  \* History:
  occupant, \* how many players have occupied the slot
  owner,    \* capture -> the occupant it was begun for
  fate,     \* capture -> how it ended
  heard,    \* captures whose validator has been given a line
  age       \* ticks since the pending capture was begun, up to Timeout

captureVars == <<pending, alarms, call, begun>>
history == <<occupant, owner, fate, heard, age>>
vars == <<captureVars, present, history>>

Capture == 1 .. MaxCaptures
NoCapture == [id |-> 0, handle |-> NoHandle]
NoCall == [id |-> 0, handle |-> NoHandle, began |-> FALSE]
Fates == {"none", "pending", "accepted", "replaced", "cancelled", "timeout", "left"}

\* The pending capture ends, for a reason.
Ends(how) == fate' = [c \in Capture |-> IF c = pending.id THEN how ELSE fate[c]]

-----------------------------------------------------------------------------

\* A new capture replaces the old one and its timer.  (Environment: plugin code
\* prompts players who are connected.)
BeginCapture(timed) ==
  /\ present /\ begun < MaxCaptures
  /\ begun' = begun + 1
  /\ pending' = [id |-> begun + 1, handle |-> IF timed THEN begun + 1 ELSE NoHandle]
  /\ LET rest == Remove(alarms, {pending.handle})
     IN  alarms' = IF timed THEN Add(rest, begun + 1, Timeout) ELSE rest
  /\ call' = IF call = NoCall THEN call ELSE [call EXCEPT !.began = TRUE]
  /\ fate' = [c \in Capture |-> IF c = begun + 1 THEN "pending"
                                ELSE IF c = pending.id THEN "replaced" ELSE fate[c]]
  /\ owner' = [owner EXCEPT ![begun + 1] = occupant]
  /\ age' = 0
  /\ UNCHANGED <<present, occupant, heard>>

\* CancelCapture, whoever calls it.
Cancelled(how) ==
  /\ pending' = NoCapture
  /\ alarms' = Remove(alarms, {pending.handle})
  /\ Ends(how)

CancelCapture ==
  /\ pending # NoCapture
  /\ Cancelled("cancelled")
  /\ UNCHANGED <<call, begun, present, occupant, owner, heard, age>>

\* A chat line of the player: TryConsume copies the callback and the handle
\* and calls the validator.
TryConsume ==
  /\ call = NoCall
  /\ present /\ pending # NoCapture
  /\ call' = [id |-> pending.id, handle |-> pending.handle, began |-> FALSE]
  /\ heard' = heard \cup {pending.id}
  /\ UNCHANGED <<pending, alarms, begun, present, occupant, owner, fate, age>>

Refused ==
  /\ call # NoCall
  /\ call' = NoCall
  /\ UNCHANGED <<pending, alarms, begun, present, history>>

\* The validator returns true: the copied handle is cancelled and whatever is
\* pending by now is dropped.
Accepted ==
  /\ call # NoCall
  /\ AcceptAfterBegin \/ ~call.began
  /\ alarms' = Remove(alarms, {call.handle})
  /\ pending' = NoCapture
  /\ call' = NoCall
  /\ Ends("accepted")
  /\ UNCHANGED <<begun, present, occupant, owner, heard, age>>

\* Mutant of Fire: a player who has begun to answer is not timed out.
FireSpares(h) ==
  /\ call = NoCall
  /\ alarms[h] = 0
  /\ pending.id \notin heard
  /\ pending' = NoCapture
  /\ alarms' = Remove(alarms, {h, pending.handle})
  /\ Ends("timeout")
  /\ UNCHANGED <<call, begun, present, occupant, owner, heard, age>>

\* Mutant of Fire: the timer fires ahead of its time.
FireEarly(h) ==
  /\ call = NoCall
  /\ alarms[h] <= 1
  /\ pending' = NoCapture
  /\ alarms' = Remove(alarms, {h, pending.handle})
  /\ Ends("timeout")
  /\ UNCHANGED <<call, begun, present, occupant, owner, heard, age>>

\* The timer of some capture fires, from the scheduler's frame: it names the
\* slot only, so it cancels the capture that is pending there.
Fire(h) ==
  /\ call = NoCall
  /\ alarms[h] = 0
  /\ pending' = NoCapture
  /\ alarms' = Remove(alarms, {h, pending.handle})
  /\ Ends("timeout")
  /\ UNCHANGED <<call, begun, present, occupant, owner, heard, age>>

\* Time passes; a frame may be late.
Tick ==
  /\ call = NoCall
  /\ alarms' = [h \in DOMAIN alarms |-> IF alarms[h] > 0 THEN alarms[h] - 1 ELSE 0]
  /\ age' = IF age < Timeout THEN age + 1 ELSE age
  /\ UNCHANGED <<pending, call, begun, present, occupant, owner, fate, heard>>

\* Mutant of OnPlayerDisconnect: the prompt waits for the next player.
OnPlayerDisconnectKeeps ==
  /\ call = NoCall /\ present
  /\ present' = FALSE
  /\ UNCHANGED <<captureVars, history>>

OnPlayerDisconnect ==
  /\ call = NoCall /\ present
  /\ present' = FALSE
  /\ Cancelled("left")
  /\ UNCHANGED <<call, begun, occupant, owner, heard, age>>

\* Bound: occupants are counted only as far as captures can tell them apart.
Connect ==
  /\ call = NoCall /\ ~present
  /\ occupant < MaxCaptures
  /\ present' = TRUE
  /\ occupant' = occupant + 1
  /\ UNCHANGED <<captureVars, owner, fate, heard, age>>

-----------------------------------------------------------------------------

Init ==
  /\ pending = NoCapture /\ alarms = NoItems /\ call = NoCall
  /\ begun = 0
  /\ present = FALSE
  /\ occupant = 0
  /\ owner = [c \in Capture |-> 0]
  /\ fate = [c \in Capture |-> "none"]
  /\ heard = {}
  /\ age = 0

FireAny == \E h \in DOMAIN alarms : Fire(h)

Next ==
  \/ \E timed \in BOOLEAN : BeginCapture(timed)
  \/ CancelCapture
  \/ TryConsume \/ Refused \/ Accepted
  \/ FireAny \/ Tick
  \/ OnPlayerDisconnect \/ Connect

\* Validators return; chat lines come between frames, so a player who types all
\* the time keeps neither the clock nor the frames from going on.
Fairness == WF_vars(Refused) /\ SF_vars(Tick) /\ SF_vars(FireAny)

Spec == Init /\ [][Next]_vars /\ Fairness

-----------------------------------------------------------------------------

\* Types; the pending capture is the one whose fate is open.
TypeOK ==
  /\ begun \in 0 .. MaxCaptures
  /\ pending \in [id : 0 .. begun, handle : 0 .. begun]
  /\ pending.handle \in {NoHandle, pending.id}
  /\ DOMAIN alarms \subseteq 1 .. begun
  /\ \A h \in DOMAIN alarms : alarms[h] \in 0 .. Timeout
  /\ call \in [id : 0 .. begun, handle : 0 .. begun, began : BOOLEAN]
  /\ present \in BOOLEAN
  /\ occupant \in 0 .. MaxCaptures /\ owner \in [Capture -> 0 .. MaxCaptures]
  /\ fate \in [Capture -> Fates]
  /\ heard \subseteq Capture
  /\ age \in 0 .. Timeout

\* The only timer that is ever running is the pending capture's own, and a
\* timed capture has one: no timer can cancel a prompt it was not set for, and
\* no timed prompt waits forever.
TimerIsOwn == DOMAIN alarms = {pending.handle} \ {NoHandle}

CaptureInv == TypeOK /\ TimerIsOwn

\* "The capture auto-cancels after timeoutMs": never before, however often
\* captures replace each other.
TimeoutsAreDue ==
  [][\A c \in Capture : fate'[c] = "timeout" /\ fate[c] # "timeout" => age = Timeout]_vars

\* A line of chat goes only to a prompt begun for the player who typed it.
TextFromOwner ==
  [][\A c \in Capture : c \in heard' /\ call'.id = c /\ call = NoCall => owner[c] = occupant]_vars

\* "Begin capturing the next chat line": a capture ends as accepted only after its
\* own validator was given a line.  (Where AcceptAfterBegin: one begun by the
\* validator of its predecessor goes with that one's acceptance.)
AcceptedWereHeard == \A c \in Capture : fate[c] = "accepted" => c \in heard

\* Every timed capture ends.
TimedCapturesEnd ==
  \A c \in Capture : (pending.id = c /\ pending.handle # NoHandle) ~> pending.id # c

=============================================================================
