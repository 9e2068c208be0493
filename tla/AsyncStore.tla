----------------------------- MODULE AsyncStore -----------------------------
(***************************************************************************)
(* What the database layer promises to the code that uses it, without      *)
(* threads, connections or batches: statements take effect in the order    *)
(* they were accepted and at most once; every accepted statement is        *)
(* answered or abandoned; an answer that says "ok" is about a statement    *)
(* that took effect; answers are heard in order and at most once; a        *)
(* shutdown may discard answers not heard yet, but no statement it has     *)
(* accepted and not answered.                                              *)
(***************************************************************************)
EXTENDS Naturals, Sequences

CONSTANT Statement  \* naturals, numbered in the order they are accepted

VARIABLES
  pending,  \* accepted and unanswered statements, oldest first
  effective,\* statements that took effect, in order
  answers,  \* [job, ok] answers not heard yet
  heard     \* [job, ok] answers delivered to callbacks, in order

avars == <<pending, effective, answers, heard>>

AInit == pending = <<>> /\ effective = <<>> /\ answers = <<>> /\ heard = <<>>

Took(j) == \E n \in 1 .. Len(effective) : effective[n] = j

Accept(j) ==
  /\ \A n \in 1 .. Len(pending) : pending[n] < j
  /\ \A n \in 1 .. Len(effective) : effective[n] < j
  /\ pending' = Append(pending, j)
  /\ UNCHANGED <<effective, answers, heard>>

TakeEffect ==
  /\ pending # <<>>
  /\ ~Took(Head(pending))
  /\ effective' = Append(effective, Head(pending))
  /\ UNCHANGED <<pending, answers, heard>>

\* Statements without a callback are answered into the void.
Answer(ok) ==
  /\ pending # <<>>
  /\ ok => Took(Head(pending))
  /\ pending' = Tail(pending)
  /\ answers' \in {answers, Append(answers, [job |-> Head(pending), ok |-> ok])}
  /\ UNCHANGED <<effective, heard>>

Hear ==
  /\ answers # <<>>
  /\ heard' = Append(heard, Head(answers))
  /\ answers' = Tail(answers)
  /\ UNCHANGED <<pending, effective>>

Discard ==
  /\ pending = <<>>
  /\ answers' = <<>>
  /\ UNCHANGED <<pending, effective, heard>>

ANext ==
  \/ \E j \in Statement : Accept(j)
  \/ TakeEffect
  \/ \E ok \in BOOLEAN : Answer(ok)
  \/ Hear
  \/ Discard

ASpec == AInit /\ [][ANext]_avars

=============================================================================
