--------------------------- MODULE PostgresProofs ---------------------------
(***************************************************************************)
(* Safety of the database layer for any threads, names, kinds of jobs and  *)
(* number of jobs and restarts.                                            *)
(***************************************************************************)
EXTENDS PostgresDatabase, SequenceTheorems, TLAPS

\* A layer that has not been started is well typed.
LEMMA InitType ==
  ASSUME Init
  PROVE  TypeOK
<1>1. \A S : <<>> \in Seq(S) /\ Len(<<>>) = 0
  BY EmptySeq
<1>2. TypeJobs
  BY <1>1, BoundsAssumption DEF Init, TypeJobs
<1>3. TypeQueue /\ TypeLink /\ TypeReplies
  BY <1>1 DEF Init, TypeQueue, TypeLink, TypeReplies
<1>4. TypeWorker /\ TypeGame
  BY DEF Init, TypeWorker, TypeGame, Verdicts
<1> QED
  BY <1>2, <1>3, <1>4 DEF TypeOK

\* Accepting a job, by a client or by Start's ping, keeps every type.
LEMMA EnqueueType ==
  ASSUME TypeOK, NEW t \in Thread, NEW kind \in AllKinds, NEW name \in Name,
         Enqueue(t, kind, name), UNCHANGED gameVars
  PROVE  TypeOK'
<1> DEFINE new == [kind |-> kind, name |-> name, verdict |-> "none"]
<1>1. /\ jobs' \in Seq(JobType) /\ Len(jobs') = Len(jobs) + 1
      /\ Accepted' = Accepted \cup {Len(jobs) + 1}
      /\ Len(jobs) \in Nat /\ Accepted = 1 .. Len(jobs)
  <2>1. new \in JobType
    BY DEF JobType, Verdicts
  <2>2. jobs \in Seq(JobType) /\ jobs' = Append(jobs, new)
    BY DEF TypeOK, TypeJobs, Enqueue
  <2> QED
    BY ONLY <2>1, <2>2, AppendProperties, LenProperties DEF Accepted
<1>2. TypeJobs'
  BY <1>1, BoundsAssumption DEF TypeOK, TypeJobs, Enqueue, gameVars
<1>3. TypeQueue'
  <2>1. queue \in Seq(Accepted')
    BY <1>1, SeqMonotonic DEF TypeOK, TypeQueue
  <2>2. queue' \in Seq(Accepted')
    BY <2>1, <1>1, AppendProperties DEF Enqueue
  <2> QED
    BY <2>2 DEF TypeOK, TypeQueue, Enqueue
<1>4. TypeWorker'
  BY <1>1 DEF TypeOK, TypeWorker, Enqueue, workerVars
<1>5. TypeLink'
  BY <1>1, SeqMonotonic DEF TypeOK, TypeLink, Enqueue, linkVars
<1>6. TypeReplies'
  <2>1. UNCHANGED <<completions, ready, heard, discarded>>
    BY DEF Enqueue, replyVars
  <2>2. /\ completions \in Seq(Accepted') /\ ready \in Seq(Accepted')
        /\ heard \in Seq(Accepted') /\ discarded \subseteq Accepted'
    BY <1>1, SeqMonotonic DEF TypeOK, TypeReplies
  <2> QED
    BY <2>1, <2>2 DEF TypeReplies
<1>7. TypeGame'
  <2>1. blocked' \in [Thread -> Accepted' \cup {0}]
    BY <1>1 DEF TypeOK, TypeGame, Enqueue
  <2> QED
    BY <2>1 DEF TypeOK, TypeGame, Enqueue, gameVars, replyVars
<1> QED
  BY <1>2, <1>3, <1>4, <1>5, <1>6, <1>7 DEF TypeOK

\* FinishJob touches one verdict and at most lengthens the completions.
LEMMA FinishJobType ==
  ASSUME TypeOK, NEW j \in Accepted, NEW v \in Verdicts, FinishJob(j, v)
  PROVE  /\ jobs' \in Seq(JobType) /\ Len(jobs') = Len(jobs)
         /\ Accepted' = Accepted
         /\ completions' \in Seq(Accepted)
         /\ \A i \in Accepted : jobs'[i].kind = jobs[i].kind
         /\ \A i \in Accepted : jobs'[i].verdict = IF i = j THEN v ELSE jobs[i].verdict
<1> DEFINE new == [kind |-> jobs[j].kind, name |-> jobs[j].name, verdict |-> v]
<1>1. /\ jobs \in Seq(JobType) /\ Accepted = 1 .. Len(jobs) /\ Len(jobs) \in Nat
  BY LenProperties DEF TypeOK, TypeJobs, Accepted
<1>2. jobs[j] \in JobType /\ new \in JobType
  BY <1>1, ElementOfSeq DEF JobType
<1>3. jobs' = [jobs EXCEPT ![j] = new]
  BY DEF FinishJob
<1>4. jobs' \in Seq(JobType) /\ Len(jobs') = Len(jobs)
      /\ \A i \in 1 .. Len(jobs) : jobs'[i] = IF i = j THEN new ELSE jobs[i]
  <2> HIDE DEF new
  <2> QED BY ONLY <1>1, <1>2, <1>3, ExceptSeq
<1>5. Accepted' = Accepted
  BY <1>1, <1>4, LenProperties DEF Accepted
<1>6. completions' \in Seq(Accepted)
  BY AppendProperties DEF TypeOK, TypeReplies, FinishJob
<1>8. \A i \in Accepted : jobs'[i].kind = jobs[i].kind
  BY <1>1, <1>4
<1>9. \A i \in Accepted : jobs'[i].verdict = IF i = j THEN v ELSE jobs[i].verdict
  BY <1>1, <1>4
<1> QED
  BY <1>4, <1>5, <1>6, <1>8, <1>9

\* An accepted job's number and its fields have their types.
LEMMA JobTyped ==
  ASSUME TypeOK, NEW j \in Accepted
  PROVE  /\ j \in Nat \ {0} /\ j \in 1 .. Len(jobs)
         /\ jobs[j].kind \in AllKinds /\ jobs[j].name \in Name /\ jobs[j].verdict \in Verdicts
<1>1. Accepted = 1 .. Len(jobs) /\ Len(jobs) \in Nat /\ jobs \in Seq(JobType)
  BY LenProperties DEF TypeOK, TypeJobs, Accepted
<1>2. jobs[j] \in JobType
  BY <1>1, ElementOfSeq
<1> QED
  BY <1>1, <1>2 DEF JobType

\* A group of variables that a step leaves alone keeps its type, as long as the
\* accepted jobs are the same.
LEMMA SameTypes ==
  ASSUME TypeOK
  PROVE  /\ UNCHANGED <<jobs, since, starts>> => TypeJobs'
         /\ UNCHANGED jobs => Accepted' = Accepted
         /\ Accepted' = Accepted /\ UNCHANGED queueVars => TypeQueue'
         /\ Accepted' = Accepted /\ UNCHANGED workerVars => TypeWorker'
         /\ Accepted' = Accepted /\ UNCHANGED linkVars => TypeLink'
         /\ Accepted' = Accepted /\ UNCHANGED replyVars => TypeReplies'
         /\ Accepted' = Accepted /\ UNCHANGED <<ready, game, resume, pump, blocked>> => TypeGame'
<1>1. UNCHANGED <<jobs, since, starts>> => TypeJobs'
  BY DEF TypeOK, TypeJobs
<1>2. UNCHANGED jobs => Accepted' = Accepted
  BY DEF Accepted
<1>3. Accepted' = Accepted /\ UNCHANGED queueVars => TypeQueue'
  BY DEF TypeOK, TypeQueue, queueVars
<1>4. Accepted' = Accepted /\ UNCHANGED workerVars => TypeWorker'
  BY DEF TypeOK, TypeWorker, workerVars
<1>5. Accepted' = Accepted /\ UNCHANGED linkVars => TypeLink'
  BY DEF TypeOK, TypeLink, linkVars
<1>6. Accepted' = Accepted /\ UNCHANGED replyVars => TypeReplies'
  BY DEF TypeOK, TypeReplies, replyVars
<1>7. Accepted' = Accepted /\ UNCHANGED <<ready, game, resume, pump, blocked>> => TypeGame'
  BY DEF TypeOK, TypeGame
<1> QED
  BY <1>1, <1>2, <1>3, <1>4, <1>5, <1>6, <1>7

\* Every step keeps the types.
LEMMA TypeStep ==
  ASSUME TypeOK, [Next]_vars
  PROVE  TypeOK'
<1>1. ASSUME NEW t \in Thread, NEW kind \in AllKinds, NEW name \in Name, Submit(t, kind, name)
      PROVE  TypeOK'
  BY <1>1, EnqueueType DEF Submit
<1>2. CASE PingSubmit
  BY <1>2, EnqueueType, NameAssumption DEF PingSubmit, AllKinds, Thread
<1>3. ASSUME NEW t \in Thread, Released(t)
      PROVE  TypeOK'
  <2>1. UNCHANGED jobs /\ Accepted' = Accepted
    BY <1>3, SameTypes DEF Released, vars
  <2>2. TypeGame'
    BY <1>3, <2>1 DEF Released, TypeOK, TypeGame, replyVars, gameVars
  <2>3. TypeJobs' /\ TypeQueue' /\ TypeWorker' /\ TypeLink' /\ TypeReplies'
    BY <1>3, <2>1, SameTypes DEF Released, queueVars, workerVars, linkVars, replyVars, gameVars, vars
  <2> QED
    BY <2>2, <2>3 DEF TypeOK
<1>4. CASE Take
  <2>1. UNCHANGED jobs /\ Accepted' = Accepted
    BY <1>4, SameTypes DEF Take, vars
  <2>2. TypeQueue'
    BY <1>4, <2>1, HeadTailProperties DEF Take, TypeOK, TypeQueue
  <2>3. TypeWorker'
    BY <1>4, <2>1, HeadTailProperties, JobTyped DEF Take, TypeOK, TypeWorker, TypeQueue
  <2>4. TypeJobs' /\ TypeLink' /\ TypeReplies' /\ TypeGame'
    BY <1>4, <2>1, SameTypes DEF Take, queueVars, workerVars, linkVars, replyVars, gameVars, vars
  <2> QED
    BY <2>2, <2>3, <2>4 DEF TypeOK
<1>5. CASE DropRest
  <2>1. UNCHANGED jobs /\ Accepted' = Accepted
    BY <1>5, SameTypes DEF DropRest, vars
  <2>2. TypeWorker'
    BY <1>5, <2>1 DEF DropRest, TypeOK, TypeWorker
  <2>3. TypeJobs' /\ TypeQueue' /\ TypeLink' /\ TypeReplies' /\ TypeGame'
    BY <1>5, <2>1, SameTypes DEF DropRest, queueVars, workerVars, linkVars, replyVars, gameVars, vars
  <2> QED
    BY <2>2, <2>3 DEF TypeOK
<1>6. CASE DropOne
  <2>1. Head(queue) \in Accepted /\ FinishJob(Head(queue), "shutdown") /\ "shutdown" \in Verdicts
    BY <1>6, HeadTailProperties DEF DropOne, Verdicts, TypeOK, TypeQueue, TypeWorker
  <2>2. jobs' \in Seq(JobType) /\ Len(jobs') = Len(jobs)
    BY <2>1, FinishJobType
  <2>3. Accepted' = Accepted /\ completions' \in Seq(Accepted)
    BY <2>1, FinishJobType
  <2>4. TypeJobs'
    BY <1>6, <2>3, <2>2 DEF DropOne, TypeOK, TypeJobs, gameVars
  <2>5. TypeQueue'
    BY <1>6, <2>3, HeadTailProperties DEF DropOne, TypeOK, TypeQueue
  <2>6. TypeReplies'
    BY <1>6, <2>3 DEF DropOne, TypeOK, TypeReplies
  <2>7. TypeGame'
    BY <1>6, <2>3 DEF DropOne, TypeOK, TypeGame, gameVars
  <2>8. TypeWorker' /\ TypeLink'
    BY <1>6, <2>3, SameTypes DEF DropOne, queueVars, workerVars, linkVars, replyVars, gameVars, vars
  <2> QED
    BY <2>4, <2>5, <2>6, <2>7, <2>8 DEF TypeOK
<1>7. CASE Exit
  <2>1. UNCHANGED jobs /\ Accepted' = Accepted
    BY <1>7, SameTypes DEF Exit, vars
  <2>2. TypeWorker'
    BY <1>7, <2>1 DEF Exit, TypeOK, TypeWorker
  <2>3. TypeLink'
    BY <1>7, <2>1 DEF Exit, TypeOK, TypeLink
  <2>4. TypeJobs' /\ TypeQueue' /\ TypeReplies' /\ TypeGame'
    BY <1>7, <2>1, SameTypes DEF Exit, queueVars, workerVars, linkVars, replyVars, gameVars, vars
  <2> QED
    BY <2>2, <2>3, <2>4 DEF TypeOK
<1>8. CASE Reuse
  <2>1. UNCHANGED jobs /\ Accepted' = Accepted
    BY <1>8, SameTypes DEF Reuse, vars
  <2>2. TypeWorker'
    BY <1>8, <2>1 DEF Reuse, TypeOK, TypeWorker
  <2>3. TypeJobs' /\ TypeQueue' /\ TypeLink' /\ TypeReplies' /\ TypeGame'
    BY <1>8, <2>1, SameTypes DEF Reuse, queueVars, workerVars, linkVars, replyVars, gameVars, vars
  <2> QED
    BY <2>2, <2>3 DEF TypeOK
<1>9. CASE Reopen
  <2>1. UNCHANGED jobs /\ Accepted' = Accepted
    BY <1>9, SameTypes DEF Reopen, vars
  <2>2. TypeWorker'
    BY <1>9, <2>1 DEF Reopen, TypeOK, TypeWorker, Verdicts
  <2>3. TypeLink'
    BY <1>9, <2>1 DEF Reopen, TypeOK, TypeLink
  <2>4. TypeJobs' /\ TypeQueue' /\ TypeReplies' /\ TypeGame'
    BY <1>9, <2>1, SameTypes DEF Reopen, queueVars, workerVars, linkVars, replyVars, gameVars, vars
  <2> QED
    BY <2>2, <2>3, <2>4 DEF TypeOK
<1>10. CASE RunOk
  <2>1. UNCHANGED jobs /\ Accepted' = Accepted
    BY <1>10, SameTypes DEF RunOk
  <2>2. job \in Accepted
    BY <1>10 DEF RunOk, Running, TypeOK, TypeWorker
  <2>3. jobs[job].name \in Name
    BY <2>2, JobTyped
  <2>4. TypeWorker'
    BY <1>10, <2>1 DEF RunOk, Running, TypeOK, TypeWorker, Verdicts
  <2>5. TypeLink'
    <3>1. Append(committed, job) \in Seq(Accepted)
      BY <2>2, AppendProperties DEF TypeOK, TypeLink
    <3> QED
      BY <1>10, <2>1, <2>3, <3>1 DEF RunOk, TypeOK, TypeLink
  <2>6. TypeJobs' /\ TypeQueue' /\ TypeReplies' /\ TypeGame'
    BY <1>10, <2>1, SameTypes DEF RunOk, queueVars, replyVars, gameVars
  <2> QED
    BY <2>4, <2>5, <2>6 DEF TypeOK
<1>11. CASE RunFails
  <2>1. UNCHANGED jobs /\ Accepted' = Accepted
    BY <1>11, SameTypes DEF RunFails
  <2>2. job \in Accepted
    BY <1>11 DEF RunFails, Running, TypeOK, TypeWorker
  <2>3. jobs[job].name \in Name
    BY <2>2, JobTyped
  <2>4. TypeWorker'
    BY <1>11, <2>1 DEF RunFails, Running, TypeOK, TypeWorker, Verdicts
  <2>5. TypeLink'
    <3>1. Append(committed, job) \in Seq(Accepted)
      BY <2>2, AppendProperties DEF TypeOK, TypeLink
    <3> QED
      BY <1>11, <2>1, <2>3, <3>1 DEF RunFails, TypeOK, TypeLink
  <2>6. TypeJobs' /\ TypeQueue' /\ TypeReplies' /\ TypeGame'
    BY <1>11, <2>1, SameTypes DEF RunFails, queueVars, replyVars, gameVars
  <2> QED
    BY <2>4, <2>5, <2>6 DEF TypeOK
<1>12. ASSUME NEW ok \in BOOLEAN, RawReturns(ok)
      PROVE  TypeOK'
  <2>1. UNCHANGED jobs /\ Accepted' = Accepted
    BY <1>12, SameTypes DEF RawReturns
  <2>2. Append(committed, job) \in Seq(Accepted)
    BY <1>12, AppendProperties DEF RawReturns, Running, TypeOK, TypeWorker, TypeLink
  <2>3. TypeWorker'
    BY <1>12, <2>1 DEF RawReturns, Running, TypeOK, TypeWorker, Verdicts
  <2>4. TypeLink'
    BY <1>12, <2>1, <2>2 DEF RawReturns, TypeOK, TypeLink
  <2>5. TypeJobs' /\ TypeQueue' /\ TypeReplies' /\ TypeGame'
    BY <1>12, <2>1, SameTypes DEF RawReturns, queueVars, replyVars, gameVars
  <2> QED
    BY <2>3, <2>4, <2>5 DEF TypeOK
<1>13. CASE Finish
  <2>1. job \in Accepted /\ FinishJob(job, outcome) /\ outcome \in Verdicts
    BY <1>13 DEF Finish, Verdicts, TypeOK, TypeQueue, TypeWorker
  <2>2. jobs' \in Seq(JobType) /\ Len(jobs') = Len(jobs)
    BY <2>1, FinishJobType
  <2>3. Accepted' = Accepted /\ completions' \in Seq(Accepted)
    BY <2>1, FinishJobType
  <2>4. TypeJobs'
    BY <1>13, <2>3, <2>2 DEF Finish, TypeOK, TypeJobs, gameVars
  <2>5. TypeWorker'
    BY <1>13, <2>3 DEF Finish, TypeOK, TypeWorker, Verdicts
  <2>6. TypeReplies'
    BY <1>13, <2>3 DEF Finish, TypeOK, TypeReplies
  <2>7. TypeGame'
    BY <1>13, <2>3 DEF Finish, TypeOK, TypeGame, gameVars
  <2>8. TypeQueue' /\ TypeLink'
    BY <1>13, <2>3, SameTypes DEF Finish, queueVars, workerVars, linkVars, replyVars, gameVars, vars
  <2> QED
    BY <2>4, <2>5, <2>6, <2>7, <2>8 DEF TypeOK
<1>14. CASE Disconnect
  <2>1. UNCHANGED jobs /\ Accepted' = Accepted
    BY <1>14, SameTypes DEF Disconnect, vars
  <2>2. TypeLink'
    BY <1>14, <2>1 DEF Disconnect, TypeOK, TypeLink
  <2>3. TypeJobs' /\ TypeQueue' /\ TypeWorker' /\ TypeReplies' /\ TypeGame'
    BY <1>14, <2>1, SameTypes DEF Disconnect, queueVars, workerVars, linkVars, replyVars, gameVars, vars
  <2> QED
    BY <2>2, <2>3 DEF TypeOK
<1>15. CASE Start
  <2>1. UNCHANGED jobs /\ Accepted' = Accepted
    BY <1>15, SameTypes DEF Start, vars
  <2>2. TypeJobs'
    BY <1>15, <2>1, LenProperties, BoundsAssumption DEF Start, TypeOK, TypeJobs, gameVars
  <2>3. TypeQueue'
    BY <1>15, <2>1 DEF Start, TypeOK, TypeQueue
  <2>4. TypeWorker'
    BY <1>15, <2>1 DEF Start, TypeOK, TypeWorker
  <2>5. TypeGame'
    BY <1>15, <2>1 DEF Start, TypeOK, TypeGame, replyVars
  <2>6. TypeLink' /\ TypeReplies'
    BY <1>15, <2>1, SameTypes DEF Start, queueVars, workerVars, linkVars, replyVars, gameVars, vars
  <2> QED
    BY <2>2, <2>3, <2>4, <2>5, <2>6 DEF TypeOK
<1>16. CASE PingOk
  <2>1. UNCHANGED jobs /\ Accepted' = Accepted
    BY <1>16, SameTypes DEF PingOk, PingAnswered, vars
  <2>2. TypeGame'
    BY <1>16, <2>1 DEF PingOk, PingAnswered, TypeOK, TypeGame, replyVars
  <2>3. TypeJobs' /\ TypeQueue' /\ TypeWorker' /\ TypeLink' /\ TypeReplies'
    BY <1>16, <2>1, SameTypes DEF PingOk, PingAnswered, queueVars, workerVars, linkVars, replyVars, gameVars, vars
  <2> QED
    BY <2>2, <2>3 DEF TypeOK
<1>17. CASE PingFails
  <2>1. UNCHANGED jobs /\ Accepted' = Accepted
    BY <1>17, SameTypes DEF PingFails, PingAnswered, BeginStop, vars
  <2>2. TypeQueue'
    BY <1>17, <2>1 DEF PingFails, PingAnswered, BeginStop, TypeOK, TypeQueue
  <2>3. TypeGame'
    BY <1>17, <2>1 DEF PingFails, PingAnswered, BeginStop, TypeOK, TypeGame, replyVars
  <2>4. TypeJobs' /\ TypeWorker' /\ TypeLink' /\ TypeReplies'
    BY <1>17, <2>1, SameTypes DEF PingFails, PingAnswered, BeginStop, queueVars, workerVars, linkVars, replyVars, gameVars, vars
  <2> QED
    BY <2>2, <2>3, <2>4 DEF TypeOK
<1>18. CASE Stop
  <2>1. UNCHANGED jobs /\ Accepted' = Accepted
    BY <1>18, SameTypes DEF Stop, BeginStop, vars
  <2>2. TypeQueue'
    BY <1>18, <2>1 DEF Stop, BeginStop, TypeOK, TypeQueue
  <2>3. TypeGame'
    BY <1>18, <2>1 DEF Stop, BeginStop, TypeOK, TypeGame, replyVars
  <2>4. TypeJobs' /\ TypeWorker' /\ TypeLink' /\ TypeReplies'
    BY <1>18, <2>1, SameTypes DEF Stop, BeginStop, queueVars, workerVars, linkVars, replyVars, gameVars, vars
  <2> QED
    BY <2>2, <2>3, <2>4 DEF TypeOK
<1>19. CASE Expire
  <2>1. UNCHANGED jobs /\ Accepted' = Accepted
    BY <1>19, SameTypes DEF Expire, vars
  <2>2. TypeQueue'
    BY <1>19, <2>1 DEF Expire, TypeOK, TypeQueue
  <2>3. TypeJobs' /\ TypeWorker' /\ TypeLink' /\ TypeReplies' /\ TypeGame'
    BY <1>19, <2>1, SameTypes DEF Expire, queueVars, workerVars, linkVars, replyVars, gameVars, vars
  <2> QED
    BY <2>2, <2>3 DEF TypeOK
<1>20. CASE Joined
  <2>1. UNCHANGED jobs /\ Accepted' = Accepted
    BY <1>20, SameTypes DEF Joined, vars
  <2>2. TypeWorker'
    BY <1>20, <2>1 DEF Joined, TypeOK, TypeWorker
  <2>3. TypeReplies'
    BY <1>20, <2>1, EmptySeq, ElementOfSeq DEF Joined, TypeOK, TypeReplies
  <2>4. TypeGame'
    BY <1>20, <2>1 DEF Joined, TypeOK, TypeGame
  <2>5. TypeJobs' /\ TypeQueue' /\ TypeLink'
    BY <1>20, <2>1, SameTypes DEF Joined, queueVars, workerVars, linkVars, replyVars, gameVars, vars
  <2> QED
    BY <2>2, <2>3, <2>4, <2>5 DEF TypeOK
<1>21. CASE Dispatch
  <2>1. UNCHANGED jobs /\ Accepted' = Accepted
    BY <1>21, SameTypes DEF Dispatch, vars
  <2>2. TypeReplies'
    BY <1>21, <2>1, EmptySeq DEF Dispatch, TypeOK, TypeReplies
  <2>3. TypeGame'
    BY <1>21, <2>1 DEF Dispatch, TypeOK, TypeGame
  <2>4. TypeJobs' /\ TypeQueue' /\ TypeWorker' /\ TypeLink'
    BY <1>21, <2>1, SameTypes DEF Dispatch, queueVars, workerVars, linkVars, replyVars, gameVars, vars
  <2> QED
    BY <2>2, <2>3, <2>4 DEF TypeOK
<1>22. CASE Callback
  <2>1. UNCHANGED jobs /\ Accepted' = Accepted
    BY <1>22, SameTypes DEF Callback, vars
  <2>2. TypeReplies'
    BY <1>22, <2>1, HeadTailProperties, AppendProperties DEF Callback, TypeOK, TypeReplies
  <2>3. TypeGame'
    BY <1>22, <2>1 DEF Callback, TypeOK, TypeGame
  <2>4. TypeJobs' /\ TypeQueue' /\ TypeWorker' /\ TypeLink'
    BY <1>22, <2>1, SameTypes DEF Callback, queueVars, workerVars, linkVars, replyVars, gameVars, vars
  <2> QED
    BY <2>2, <2>3, <2>4 DEF TypeOK
<1>23. CASE CallbackReturns
  <2>1. UNCHANGED jobs /\ Accepted' = Accepted
    BY <1>23, SameTypes DEF CallbackReturns, vars
  <2>2. TypeGame'
    BY <1>23, <2>1 DEF CallbackReturns, TypeOK, TypeGame, replyVars
  <2>3. TypeJobs' /\ TypeQueue' /\ TypeWorker' /\ TypeLink' /\ TypeReplies'
    BY <1>23, <2>1, SameTypes DEF CallbackReturns, queueVars, workerVars, linkVars, replyVars, gameVars, vars
  <2> QED
    BY <2>2, <2>3 DEF TypeOK
<1>24. CASE EndDispatch
  <2>1. UNCHANGED jobs /\ Accepted' = Accepted
    BY <1>24, SameTypes DEF EndDispatch, vars
  <2>2. TypeGame'
    BY <1>24, <2>1 DEF EndDispatch, TypeOK, TypeGame, replyVars
  <2>3. TypeJobs' /\ TypeQueue' /\ TypeWorker' /\ TypeLink' /\ TypeReplies'
    BY <1>24, <2>1, SameTypes DEF EndDispatch, queueVars, workerVars, linkVars, replyVars, gameVars, vars
  <2> QED
    BY <2>2, <2>3 DEF TypeOK
<1>25. CASE UNCHANGED vars
  <2>1. UNCHANGED jobs /\ Accepted' = Accepted
    BY <1>25, SameTypes DEF vars
  <2>2. TypeJobs' /\ TypeQueue' /\ TypeWorker' /\ TypeLink' /\ TypeReplies' /\ TypeGame'
    BY <1>25, <2>1, SameTypes DEF vars, queueVars, workerVars, linkVars, replyVars, gameVars, vars
  <2> QED
    BY <2>2 DEF TypeOK
<1>26. CASE Clients
  BY <1>1, <1>26, KindsAssumption, NameAssumption DEF Clients
<1> QED
  BY <1>2, <1>3, <1>4, <1>5, <1>6, <1>7, <1>8, <1>9, <1>10, <1>11, <1>12, <1>13, <1>14, <1>15, <1>16, <1>17, <1>18, <1>19, <1>20, <1>21, <1>22, <1>23, <1>24, <1>25, <1>26
  DEF Next, WorkerStep, GameStep, Thread

-----------------------------------------------------------------------------
(* Order: jobs wait in the order of acceptance, and everything committed is *)
(* older than everything that waits.                                        *)

OrderInv ==
  /\ Increasing(queue)
  /\ \A n \in 1 .. Len(queue) : job < queue[n]
  /\ Increasing(committed)
  /\ \A m \in 1 .. Len(committed), n \in 1 .. Len(queue) : committed[m] < queue[n]
  /\ worker \in {"opening", "running"} => \A m \in 1 .. Len(committed) : committed[m] < job

\* The numbers the order is about are natural numbers up to Len(jobs).
LEMMA Numbers ==
  ASSUME TypeOK
  PROVE  /\ Len(jobs) \in Nat /\ Len(queue) \in Nat /\ Len(committed) \in Nat
         /\ job \in 0 .. Len(jobs)
         /\ \A n \in 1 .. Len(queue) : queue[n] \in 1 .. Len(jobs)
         /\ \A n \in 1 .. Len(committed) : committed[n] \in 1 .. Len(jobs)
<1>1. Accepted = 1 .. Len(jobs) /\ Len(jobs) \in Nat
  BY LenProperties DEF TypeOK, TypeJobs, Accepted
<1>2. queue \in Seq(Accepted) /\ committed \in Seq(Accepted) /\ job \in Accepted \cup {0}
  BY DEF TypeOK, TypeQueue, TypeLink, TypeWorker
<1> QED
  BY <1>1, <1>2, ElementOfSeq, LenProperties

\* A step that leaves queue, job and log alone keeps the order, if it does not
\* bring a job into the hands of the worker.
LEMMA OrderSame ==
  ASSUME OrderInv, UNCHANGED <<queue, job, committed>>,
         worker' \in {"opening", "running"} => worker \in {"opening", "running"}
  PROVE  OrderInv'
  BY DEF OrderInv, Increasing

\* A new job is younger than all others.
LEMMA OrderEnqueue ==
  ASSUME TypeOK, OrderInv, NEW t, NEW kind, NEW name, Enqueue(t, kind, name)
  PROVE  OrderInv'
<1> DEFINE k == Len(jobs) + 1
<1>1. queue' = Append(queue, k) /\ UNCHANGED <<worker, job, committed>>
  BY DEF Enqueue, workerVars, linkVars
<1>2. /\ Len(queue') = Len(queue) + 1
      /\ \A n \in 1 .. Len(queue) : queue'[n] = queue[n]
      /\ queue'[Len(queue) + 1] = k
  <2>1. queue \in Seq(Nat) /\ k \in Nat
    BY Numbers, LenProperties DEF TypeOK, TypeQueue, TypeJobs, Accepted
  <2> QED
    BY <2>1, <1>1, AppendProperties
<1>3. \A n \in 1 .. Len(queue') : n \in 1 .. Len(queue) \/ n = Len(queue) + 1
  BY <1>2, Numbers
<1>4. Increasing(queue')
  BY <1>2, <1>3, Numbers DEF OrderInv, Increasing
<1>5. \A n \in 1 .. Len(queue') : job < queue'[n]
  BY <1>2, <1>3, Numbers DEF OrderInv
<1>6. \A m \in 1 .. Len(committed), n \in 1 .. Len(queue') : committed[m] < queue'[n]
  BY <1>2, <1>3, Numbers DEF OrderInv
<1> QED
  BY <1>1, <1>4, <1>5, <1>6 DEF OrderInv

\* What remains of the queue without its head.
LEMMA OrderTail ==
  ASSUME TypeOK, OrderInv, queue # <<>>, queue' = Tail(queue)
  PROVE  /\ Increasing(queue')
         /\ Head(queue) \in 1 .. Len(jobs)
         /\ \A n \in 1 .. Len(queue') : Head(queue) < queue'[n] /\ job < queue'[n]
         /\ \A m \in 1 .. Len(committed) : committed[m] < Head(queue)
         /\ \A m \in 1 .. Len(committed), n \in 1 .. Len(queue') : committed[m] < queue'[n]
<1>1. queue \in Seq(Accepted)
  BY DEF TypeOK, TypeQueue
<1>2. /\ Len(queue') = Len(queue) - 1 /\ Len(queue) \in Nat \ {0}
      /\ \A n \in 1 .. Len(queue') : queue'[n] = queue[n + 1]
      /\ Head(queue) = queue[1]
  BY <1>1, HeadTailProperties, EmptySeq
<1>3. \A n \in 1 .. Len(queue') : n + 1 \in 1 .. Len(queue) /\ 1 < n + 1
  BY <1>2
<1> QED
  BY <1>2, <1>3, Numbers DEF OrderInv, Increasing

\* The worker commits the job in its hands.
LEMMA OrderCommit ==
  ASSUME TypeOK, OrderInv, worker = "running", committed' = Append(committed, job),
         UNCHANGED <<queue, job>>, worker' = "finishing"
  PROVE  OrderInv'
<1>1. committed \in Seq(Nat) /\ job \in Nat
  BY Numbers, LenProperties DEF TypeOK, TypeLink, TypeJobs, Accepted
<1>2. /\ Len(committed') = Len(committed) + 1
      /\ \A n \in 1 .. Len(committed) : committed'[n] = committed[n]
      /\ committed'[Len(committed) + 1] = job
  BY <1>1, AppendProperties
<1>3. \A n \in 1 .. Len(committed') : n \in 1 .. Len(committed) \/ n = Len(committed) + 1
  BY <1>2, Numbers
<1>4. Increasing(committed')
  BY <1>2, <1>3, Numbers DEF OrderInv, Increasing
<1>5. \A m \in 1 .. Len(committed'), n \in 1 .. Len(queue) : committed'[m] < queue[n]
  BY <1>2, <1>3, Numbers DEF OrderInv
<1> QED
  BY <1>4, <1>5 DEF OrderInv

\* Every step keeps the order.
LEMMA OrderStep ==
  ASSUME TypeOK, OrderInv, [Next]_vars
  PROVE  OrderInv'
<1>1. CASE Clients \/ PingSubmit
  BY <1>1, OrderEnqueue DEF Clients, Submit, PingSubmit
<1>2. CASE Take
  <2>1. queue # <<>> /\ queue' = Tail(queue) /\ job' = Head(queue) /\ committed' = committed
    BY <1>2 DEF Take, linkVars
  <2> QED
    BY <2>1, OrderTail DEF OrderInv
<1>3. CASE DropOne
  <2>1. queue # <<>> /\ queue' = Tail(queue) /\ UNCHANGED <<worker, job, committed>>
    BY <1>3 DEF DropOne, workerVars, linkVars
  <2> QED
    BY <2>1, OrderTail DEF OrderInv
<1>4. CASE Finish
  <2>1. job' = 0 /\ worker' = "idle" /\ UNCHANGED <<queue, committed>>
    BY <1>4 DEF Finish, queueVars, linkVars
  <2>2. \A n \in 1 .. Len(queue) : 0 < queue[n]
    BY Numbers
  <2> QED
    BY <2>1, <2>2 DEF OrderInv
<1>5. CASE RunOk \/ RunFails \/ \E ok \in BOOLEAN : RawReturns(ok)
  <2>1. /\ worker = "running" /\ worker' = "finishing" /\ UNCHANGED <<queue, job>>
        /\ committed' = committed \/ committed' = Append(committed, job)
    BY <1>5 DEF RunOk, RunFails, RawReturns, Running, queueVars
  <2> QED
    BY <2>1, OrderCommit, OrderSame
<1>6. CASE DropRest \/ Exit \/ Reuse \/ Reopen
  BY <1>6, OrderSame DEF DropRest, Exit, Reuse, Reopen, queueVars, linkVars
<1>7. CASE Disconnect \/ Expire \/ PingOk \/ PingFails \/ Stop \/ UNCHANGED vars
  BY <1>7, OrderSame
  DEF Disconnect, Expire, PingOk, PingFails, Stop, BeginStop, queueVars, workerVars, linkVars, vars
<1>8. CASE Start \/ Joined
  BY <1>8, OrderSame DEF Start, Joined, queueVars, linkVars
<1>9. CASE Dispatch \/ Callback \/ CallbackReturns \/ EndDispatch \/ \E t \in Thread : Released(t)
  BY <1>9, OrderSame
  DEF Dispatch, Callback, CallbackReturns, EndDispatch, Released, queueVars, workerVars, linkVars
<1> QED
  BY <1>1, <1>2, <1>3, <1>4, <1>5, <1>6, <1>7, <1>8, <1>9 DEF Next, WorkerStep, GameStep, Thread

-----------------------------------------------------------------------------
(* The statement cache and the server's session.                           *)

CacheInv == conn = "open" => prepared \subseteq known

\* A session is only ever opened with an empty cache, and both grow together.
LEMMA CacheStep ==
  ASSUME CacheInv, [Next]_vars
  PROVE  CacheInv'
<1>1. CASE UNCHANGED <<conn, prepared, known>>
  BY <1>1 DEF CacheInv
<1>2. CASE conn' # "open"
  BY <1>2 DEF CacheInv
<1>3. CASE Reopen
  BY <1>3 DEF Reopen, CacheInv
<1>4. CASE RunOk
  BY <1>4 DEF RunOk, CacheInv
<1>5. CASE RunFails \/ Exit \/ Disconnect
  BY <1>2, <1>5 DEF RunFails, Exit, Disconnect
<1>6. CASE Clients \/ PingSubmit \/ Take \/ DropRest \/ DropOne \/ Reuse \/ Finish
             \/ \E ok \in BOOLEAN : RawReturns(ok)
  BY <1>1, <1>6
  DEF Clients, Submit, PingSubmit, Enqueue, Take, DropRest, DropOne, Reuse, Finish, RawReturns, linkVars
<1>7. CASE Expire \/ PingOk \/ PingFails \/ Stop \/ Start \/ Joined \/ UNCHANGED vars
  BY <1>1, <1>7 DEF Expire, PingOk, PingFails, Stop, BeginStop, Start, Joined, linkVars, vars
<1>8. CASE Dispatch \/ Callback \/ CallbackReturns \/ EndDispatch \/ \E t \in Thread : Released(t)
  BY <1>1, <1>8 DEF Dispatch, Callback, CallbackReturns, EndDispatch, Released, linkVars
<1> QED
  BY <1>3, <1>4, <1>5, <1>6, <1>7, <1>8 DEF Next, WorkerStep, GameStep, Thread

-----------------------------------------------------------------------------
(* Results: a job is with the worker, or it has a true result.             *)

PendingInv ==
  /\ \A j \in Accepted : jobs[j].verdict = "none" <=> j = job \/ j \in Elements(queue)
  /\ worker = "finishing" => outcome # "none"

TruthInv ==
  /\ ResultsAreTrue
  /\ worker = "finishing" =>
       /\ outcome = "ok" /\ jobs[job].kind # "raw" => job \in Elements(committed)
       /\ outcome \in {"no connection", "shutdown"} => job \notin Elements(committed)

\* The elements of a sequence with one more at its end.
LEMMA ElementsAppend ==
  ASSUME NEW S, NEW s \in Seq(S), NEW e \in S
  PROVE  Elements(Append(s, e)) = Elements(s) \cup {e}
<1>1. /\ Len(s) \in Nat /\ Len(Append(s, e)) = Len(s) + 1
      /\ \A n \in 1 .. Len(s) : Append(s, e)[n] = s[n]
      /\ Append(s, e)[Len(s) + 1] = e
  BY AppendProperties, LenProperties
<1>2. \A n \in 1 .. Len(s) + 1 : n \in 1 .. Len(s) \/ n = Len(s) + 1
  BY <1>1
<1>3. 1 .. Len(s) \subseteq 1 .. Len(s) + 1 /\ Len(s) + 1 \in 1 .. Len(s) + 1
  BY <1>1
<1> QED
  BY <1>1, <1>2, <1>3 DEF Elements

\* The elements of a sequence are its head and those of its tail.
LEMMA ElementsTail ==
  ASSUME NEW S, NEW s \in Seq(S), s # <<>>
  PROVE  Elements(s) = {Head(s)} \cup Elements(Tail(s))
<1>1. /\ Len(s) \in Nat \ {0} /\ Len(Tail(s)) = Len(s) - 1 /\ Head(s) = s[1]
      /\ \A n \in 1 .. Len(s) - 1 : Tail(s)[n] = s[n + 1]
  BY HeadTailProperties, EmptySeq
<1>2. \A n \in 1 .. Len(s) : n = 1 \/ (n - 1 \in 1 .. Len(s) - 1 /\ s[n] = Tail(s)[n - 1])
  BY <1>1
<1>3. \A n \in 1 .. Len(s) - 1 : n + 1 \in 1 .. Len(s)
  BY <1>1
<1>4. ASSUME NEW e \in Elements(s)
      PROVE  e \in {Head(s)} \cup Elements(Tail(s))
  <2>1. PICK n \in 1 .. Len(s) : e = s[n]
    BY <1>4 DEF Elements
  <2>2. CASE n = 1
    BY <2>1, <2>2, <1>1
  <2>3. CASE n - 1 \in 1 .. Len(s) - 1 /\ s[n] = Tail(s)[n - 1]
    BY <2>1, <2>3, <1>1 DEF Elements
  <2> QED
    BY <1>2, <2>2, <2>3
<1>5. ASSUME NEW e \in {Head(s)} \cup Elements(Tail(s))
      PROVE  e \in Elements(s)
  <2>1. CASE e = Head(s)
    BY <1>1, <2>1 DEF Elements
  <2>2. CASE e \in Elements(Tail(s))
    BY <1>1, <1>3, <2>2 DEF Elements
  <2> QED
    BY <1>5, <2>1, <2>2
<1> QED
  BY <1>4, <1>5

\* A new job has no result and is in the queue; the others are as they were.
LEMMA EnqueueJobs ==
  ASSUME TypeOK, NEW t \in Thread, NEW kind \in AllKinds, NEW name \in Name, Enqueue(t, kind, name)
  PROVE  /\ Accepted' = Accepted \cup {Len(jobs) + 1} /\ Len(jobs) + 1 \notin Accepted
         /\ jobs'[Len(jobs) + 1].verdict = "none"
         /\ \A j \in Accepted : jobs'[j] = jobs[j]
         /\ Elements(queue') = Elements(queue) \cup {Len(jobs) + 1}
<1> DEFINE new == [kind |-> kind, name |-> name, verdict |-> "none"]
<1>1. /\ jobs \in Seq(JobType) /\ new \in JobType /\ jobs' = Append(jobs, new)
      /\ Accepted = 1 .. Len(jobs) /\ Len(jobs) \in Nat
  BY LenProperties DEF TypeOK, TypeJobs, Accepted, JobType, Verdicts, Enqueue
<1>2. /\ jobs' \in Seq(JobType) /\ Len(jobs') = Len(jobs) + 1
      /\ \A j \in 1 .. Len(jobs) : jobs'[j] = jobs[j]
      /\ jobs'[Len(jobs) + 1] = new
  <2> HIDE DEF new
  <2> QED BY ONLY <1>1, AppendProperties
<1>3. Accepted' = 1 .. Len(jobs) + 1
  BY ONLY <1>2, LenProperties DEF Accepted
<1>4. queue' = Append(queue, Len(jobs) + 1) /\ queue \in Seq(Nat) /\ Len(jobs) + 1 \in Nat
  BY <1>1, SeqMonotonic DEF Enqueue, TypeOK, TypeQueue
<1>5. Elements(queue') = Elements(queue) \cup {Len(jobs) + 1}
  BY ONLY <1>4, ElementsAppend
<1> QED
  BY <1>1, <1>2, <1>3, <1>5

\* The head of the queue is in no other place.
LEMMA HeadOnce ==
  ASSUME TypeOK, OrderInv, queue # <<>>
  PROVE  /\ Head(queue) \in Accepted
         /\ Elements(queue) = {Head(queue)} \cup Elements(Tail(queue))
         /\ Head(queue) \notin Elements(Tail(queue))
         /\ Head(queue) \notin Elements(committed)
         /\ job \notin Elements(queue)
<1>1. queue \in Seq(Accepted) /\ Elements(queue) = {Head(queue)} \cup Elements(Tail(queue))
  BY ElementsTail DEF TypeOK, TypeQueue
<1>2. /\ Len(queue) \in Nat \ {0} /\ Len(Tail(queue)) = Len(queue) - 1 /\ Head(queue) = queue[1]
      /\ \A n \in 1 .. Len(queue) - 1 : Tail(queue)[n] = queue[n + 1]
      /\ Head(queue) \in Accepted
  BY <1>1, HeadTailProperties, EmptySeq
<1>3. \A n \in 1 .. Len(queue) - 1 : queue[1] < queue[n + 1]
  BY <1>2 DEF OrderInv, Increasing
<1>4. Head(queue) \notin Elements(Tail(queue))
  BY <1>2, <1>3, Numbers DEF Elements
<1>5. Head(queue) \notin Elements(committed)
  BY <1>2, Numbers DEF OrderInv, Elements
<1>6. job \notin Elements(queue)
  BY Numbers DEF OrderInv, Elements
<1> QED
  BY <1>1, <1>2, <1>4, <1>5, <1>6

\* A step that leaves jobs, queue and the worker's job alone loses none of them.
LEMMA PendingSame ==
  ASSUME PendingInv, UNCHANGED <<jobs, queue, job>>, worker' = "finishing" => outcome' # "none"
  PROVE  PendingInv'
  BY DEF PendingInv, Accepted

\* Every step leaves each job with the worker or with a result.
LEMMA PendingStep ==
  ASSUME TypeOK, OrderInv, PendingInv, [Next]_vars
  PROVE  PendingInv'
<1>1. ASSUME NEW t \in Thread, NEW kind \in AllKinds, NEW name \in Name, Enqueue(t, kind, name)
      PROVE  PendingInv'
  <2>1. UNCHANGED <<worker, job, outcome>> /\ job # Len(jobs) + 1
    BY <1>1, Numbers DEF Enqueue, workerVars
  <2> QED
    BY <1>1, <2>1, EnqueueJobs DEF PendingInv
<1>2. CASE Clients \/ PingSubmit
  BY <1>1, <1>2, KindsAssumption, NameAssumption
  DEF Clients, Submit, PingSubmit, Thread, AllKinds
<1>3. CASE Take
  <2>1. /\ queue # <<>> /\ queue' = Tail(queue) /\ job' = Head(queue) /\ job = 0
        /\ UNCHANGED jobs /\ worker' = "opening"
    BY <1>3 DEF Take, TypeOK, TypeWorker
  <2>2. 0 \notin Accepted
    BY JobTyped
  <2> QED
    BY <2>1, <2>2, HeadOnce DEF PendingInv, Accepted
<1>4. CASE DropOne
  <2>1. /\ queue # <<>> /\ queue' = Tail(queue) /\ FinishJob(Head(queue), "shutdown")
        /\ UNCHANGED <<worker, job, outcome>> /\ job = 0 /\ worker = "dropping"
    BY <1>4 DEF DropOne, workerVars, TypeOK, TypeWorker
  <2>2. Head(queue) \in Accepted /\ "shutdown" \in Verdicts /\ 0 \notin Accepted
    BY <2>1, HeadOnce, JobTyped DEF Verdicts
  <2>3. /\ Accepted' = Accepted
        /\ \A j \in Accepted :
             jobs'[j].verdict = IF j = Head(queue) THEN "shutdown" ELSE jobs[j].verdict
    BY <2>1, <2>2, FinishJobType
  <2> QED
    BY <2>1, <2>2, <2>3, HeadOnce DEF PendingInv
<1>5. CASE Finish
  <2>1. /\ FinishJob(job, outcome) /\ job' = 0 /\ worker' = "idle" /\ UNCHANGED queue
        /\ job \in Accepted /\ outcome \in Verdicts /\ outcome # "none"
    BY <1>5 DEF Finish, queueVars, PendingInv, TypeOK, TypeWorker
  <2>2. /\ Accepted' = Accepted
        /\ \A j \in Accepted : jobs'[j].verdict = IF j = job THEN outcome ELSE jobs[j].verdict
    BY <2>1, FinishJobType
  <2>3. 0 \notin Accepted /\ job \notin Elements(queue)
    BY JobTyped, Numbers DEF OrderInv, Elements
  <2> QED
    BY <2>1, <2>2, <2>3 DEF PendingInv
<1>6. CASE RunOk \/ RunFails \/ \E ok \in BOOLEAN : RawReturns(ok)
  BY <1>6, PendingSame DEF RunOk, RunFails, RawReturns, queueVars
<1>7. CASE DropRest \/ Exit \/ Reuse \/ Reopen
  BY <1>7, PendingSame DEF DropRest, Exit, Reuse, Reopen, queueVars
<1>8. CASE Disconnect \/ Expire \/ PingOk \/ PingFails \/ Stop \/ UNCHANGED vars
  BY <1>8, PendingSame
  DEF Disconnect, Expire, PingOk, PingFails, Stop, BeginStop, queueVars, workerVars, vars, PendingInv
<1>9. CASE Start \/ Joined
  BY <1>9, PendingSame DEF Start, Joined, queueVars
<1>10. CASE Dispatch \/ Callback \/ CallbackReturns \/ EndDispatch \/ \E t \in Thread : Released(t)
  BY <1>10, PendingSame
  DEF Dispatch, Callback, CallbackReturns, EndDispatch, Released, queueVars, workerVars, PendingInv
<1> QED
  BY <1>2, <1>3, <1>4, <1>5, <1>6, <1>7, <1>8, <1>9, <1>10 DEF Next, WorkerStep, GameStep, Thread

\* A step that writes neither results nor the server's log keeps results true.
LEMMA TruthSame ==
  ASSUME TruthInv, UNCHANGED <<jobs, committed>>,
         worker' = "finishing" => UNCHANGED <<worker, job, outcome>>
  PROVE  TruthInv'
  BY DEF TruthInv, ResultsAreTrue, Accepted

\* The worker ends a job that it has committed, or that it has not.
LEMMA TruthCommit ==
  ASSUME TypeOK, PendingInv, TruthInv, worker = "running", worker' = "finishing",
         UNCHANGED <<jobs, job>>,
         committed' = committed \/ committed' = Append(committed, job),
         outcome' \notin {"no connection", "shutdown"},
         outcome' = "ok" /\ jobs[job].kind # "raw" => committed' = Append(committed, job)
  PROVE  TruthInv'
<1>1. job \in Accepted /\ committed \in Seq(Accepted)
  BY DEF TypeOK, TypeWorker, TypeLink
<1>2. Elements(Append(committed, job)) = Elements(committed) \cup {job}
  BY <1>1, ElementsAppend, ZenonT(60)
<1>3. jobs[job].verdict = "none"
  <2>1. \A j \in Accepted : j = job => jobs[j].verdict = "none"
    BY DEF PendingInv
  <2> QED
    BY <1>1, <2>1
<1>4. ResultsAreTrue'
  BY <1>2, <1>3 DEF TruthInv, ResultsAreTrue, Accepted
<1>5. outcome' = "ok" /\ jobs'[job'].kind # "raw" => job' \in Elements(committed')
  BY <1>2
<1> QED
  BY <1>4, <1>5 DEF TruthInv

\* Every step keeps the results true.
LEMMA TruthStep ==
  ASSUME TypeOK, OrderInv, PendingInv, TruthInv, [Next]_vars
  PROVE  TruthInv'
<1>1. ASSUME NEW t \in Thread, NEW kind \in AllKinds, NEW name \in Name, Enqueue(t, kind, name)
      PROVE  TruthInv'
  <2>1. UNCHANGED <<worker, job, outcome, committed>>
    BY <1>1 DEF Enqueue, workerVars, linkVars
  <2>2. worker = "finishing" => job \in Accepted
    BY DEF TypeOK, TypeWorker
  <2> QED
    BY <1>1, <2>1, <2>2, EnqueueJobs DEF TruthInv, ResultsAreTrue
<1>2. CASE Clients \/ PingSubmit
  BY <1>1, <1>2, KindsAssumption, NameAssumption
  DEF Clients, Submit, PingSubmit, Thread, AllKinds
<1>3. CASE DropOne
  <2>1. /\ queue # <<>> /\ FinishJob(Head(queue), "shutdown")
        /\ UNCHANGED <<worker, committed>> /\ worker = "dropping"
    BY <1>3 DEF DropOne, workerVars, linkVars
  <2>2. Head(queue) \in Accepted /\ "shutdown" \in Verdicts
    BY <2>1, HeadOnce DEF Verdicts
  <2>3. /\ Accepted' = Accepted
        /\ \A j \in Accepted : jobs'[j].kind = jobs[j].kind
        /\ \A j \in Accepted :
             jobs'[j].verdict = IF j = Head(queue) THEN "shutdown" ELSE jobs[j].verdict
    BY <2>1, <2>2, FinishJobType
  <2> QED
    BY <2>1, <2>2, <2>3, HeadOnce DEF TruthInv, ResultsAreTrue
<1>4. CASE Finish
  <2>1. /\ FinishJob(job, outcome) /\ worker = "finishing" /\ worker' = "idle"
        /\ UNCHANGED committed /\ job \in Accepted /\ outcome \in Verdicts
    BY <1>4 DEF Finish, linkVars, TypeOK, TypeWorker
  <2>2. /\ Accepted' = Accepted
        /\ \A j \in Accepted : jobs'[j].kind = jobs[j].kind
        /\ \A j \in Accepted : jobs'[j].verdict = IF j = job THEN outcome ELSE jobs[j].verdict
    BY <2>1, FinishJobType
  <2> QED
    BY <2>1, <2>2 DEF TruthInv, ResultsAreTrue
<1>5. CASE RunOk \/ RunFails \/ \E ok \in BOOLEAN : RawReturns(ok)
  <2>1. /\ worker = "running" /\ worker' = "finishing" /\ UNCHANGED <<jobs, job>>
        /\ committed' = committed \/ committed' = Append(committed, job)
        /\ outcome' \notin {"no connection", "shutdown"}
        /\ outcome' = "ok" /\ jobs[job].kind # "raw" => committed' = Append(committed, job)
    BY <1>5 DEF RunOk, RunFails, RawReturns, Running
  <2> QED
    BY <2>1, TruthCommit
<1>6. CASE Reopen
  <2>1. UNCHANGED <<jobs, job, committed>> /\ worker = "opening"
    BY <1>6 DEF Reopen
  <2>2. job \notin Elements(committed)
    BY <2>1, Numbers DEF OrderInv, Elements
  <2>3. worker' = "finishing" => outcome' = "no connection"
    BY <1>6 DEF Reopen
  <2> QED
    BY <2>1, <2>2, <2>3 DEF TruthInv, ResultsAreTrue, Accepted
<1>7. CASE Take \/ DropRest \/ Exit \/ Reuse
  BY <1>7, TruthSame DEF Take, DropRest, Exit, Reuse, linkVars
<1>8. CASE Disconnect \/ Expire \/ PingOk \/ PingFails \/ Stop \/ UNCHANGED vars
  BY <1>8, TruthSame
  DEF Disconnect, Expire, PingOk, PingFails, Stop, BeginStop, workerVars, linkVars, vars
<1>9. CASE Start \/ Joined
  BY <1>9, TruthSame DEF Start, Joined, linkVars
<1>10. CASE Dispatch \/ Callback \/ CallbackReturns \/ EndDispatch \/ \E t \in Thread : Released(t)
  BY <1>10, TruthSame
  DEF Dispatch, Callback, CallbackReturns, EndDispatch, Released, workerVars, linkVars
<1> QED
  BY <1>2, <1>3, <1>4, <1>5, <1>6, <1>7, <1>8, <1>9, <1>10 DEF Next, WorkerStep, GameStep, Thread

-----------------------------------------------------------------------------
(* Stopping.                                                               *)

StopInv ==
  /\ worker \in {"none", "exited"} => queue = <<>> /\ ~accepting
  /\ stopping => ~accepting
  /\ worker \in {"exited", "dropping"} => stopping
  /\ worker = "dropping" => expired
  /\ worker # "none" /\ stopping => game = "joining"
  /\ game \in {"ping", "joining"} => worker # "none"
  /\ game = "joining" => stopping
  /\ outcome # "shutdown"
  /\ \A j \in Accepted : j > since /\ jobs[j].verdict = "shutdown" => stopping /\ expired

\* Without Stop calls in callbacks the game thread is out of the dispatch loop
\* when the layer is down, and no pump is registered.
SilentInv ==
  ~StopInCallbacks =>
    /\ resume = "idle"
    /\ worker = "none" => game = "idle" /\ ~pump

\* Every step keeps the facts about the shutdown.
LEMMA StopStep ==
  ASSUME TypeOK, OrderInv, StopInv, [Next]_vars
  PROVE  StopInv'
<1>1. ASSUME NEW t \in Thread, NEW kind \in AllKinds, NEW name \in Name, Enqueue(t, kind, name),
             UNCHANGED gameVars
      PROVE  StopInv'
  <2>1. /\ UNCHANGED <<worker, outcome, accepting, stopping, expired, game, since>>
        /\ accepting
    BY <1>1 DEF Enqueue, workerVars, gameVars
  <2> QED
    BY <1>1, <2>1, EnqueueJobs DEF StopInv
<1>2. CASE Clients \/ PingSubmit
  BY <1>1, <1>2, KindsAssumption, NameAssumption
  DEF Clients, Submit, PingSubmit, Thread, AllKinds
<1>3. CASE DropOne
  <2>1. /\ queue # <<>> /\ FinishJob(Head(queue), "shutdown")
        /\ UNCHANGED <<worker, outcome, accepting, stopping, expired, game, since>>
        /\ worker = "dropping"
    BY <1>3 DEF DropOne, workerVars, gameVars
  <2>2. Head(queue) \in Accepted /\ "shutdown" \in Verdicts
    BY <2>1, HeadOnce DEF Verdicts
  <2>3. Accepted' = Accepted
    BY <2>1, <2>2, FinishJobType
  <2> QED
    BY <2>1, <2>3 DEF StopInv
<1>4. CASE Finish
  <2>1. /\ FinishJob(job, outcome) /\ worker = "finishing" /\ worker' = "idle" /\ outcome' = "none"
        /\ UNCHANGED <<queue, accepting, stopping, expired, game, since>>
        /\ job \in Accepted /\ outcome \in Verdicts
    BY <1>4 DEF Finish, queueVars, gameVars, TypeOK, TypeWorker
  <2>2. /\ Accepted' = Accepted
        /\ \A j \in Accepted : jobs'[j].verdict = IF j = job THEN outcome ELSE jobs[j].verdict
    BY <2>1, FinishJobType
  <2> QED
    BY <2>1, <2>2 DEF StopInv
<1>5. CASE Take
  BY <1>5 DEF Take, StopInv, gameVars, Accepted
<1>6. CASE DropRest \/ Exit
  BY <1>6 DEF DropRest, Exit, StopInv, queueVars, gameVars, Accepted
<1>7. CASE Reuse \/ Reopen
  <2>1. /\ UNCHANGED <<jobs, queue, accepting, stopping, expired, game, since>>
        /\ worker = "opening" /\ worker' \in {"running", "finishing"}
        /\ outcome' = outcome \/ outcome' = "no connection"
    BY <1>7 DEF Reuse, Reopen, queueVars, gameVars
  <2> QED
    BY <2>1 DEF StopInv, Accepted
<1>8. CASE RunOk \/ RunFails \/ \E ok \in BOOLEAN : RawReturns(ok)
  BY <1>8 DEF RunOk, RunFails, RawReturns, Running, StopInv, queueVars, gameVars, Accepted
<1>9. CASE Disconnect \/ UNCHANGED vars
  BY <1>9 DEF Disconnect, vars, StopInv, queueVars, workerVars, gameVars, Accepted
<1>10. CASE Start
  <2>1. Accepted = 1 .. Len(jobs) /\ Len(jobs) \in Nat
    BY LenProperties DEF TypeOK, TypeJobs, Accepted
  <2> QED
    BY <1>10, <2>1 DEF Start, StopInv, Accepted
<1>11. CASE PingOk
  BY <1>11 DEF PingOk, PingAnswered, StopInv, queueVars, workerVars, Accepted
<1>12. CASE PingFails \/ Stop
  BY <1>12 DEF PingFails, PingAnswered, Stop, BeginStop, StopInv, workerVars, Accepted
<1>13. CASE Expire
  BY <1>13 DEF Expire, StopInv, workerVars, gameVars, Accepted
<1>14. CASE Joined
  BY <1>14 DEF Joined, StopInv, queueVars, Accepted, TypeOK, TypeGame
<1>15. CASE Dispatch \/ Callback \/ CallbackReturns \/ EndDispatch
  BY <1>15
  DEF Dispatch, Callback, CallbackReturns, EndDispatch, StopInv, queueVars, workerVars, Accepted
<1>16. ASSUME NEW t \in Thread, Released(t)
      PROVE  StopInv'
  BY <1>16 DEF Released, StopInv, queueVars, workerVars, gameVars, Accepted
<1> QED
  BY <1>2, <1>3, <1>4, <1>5, <1>6, <1>7, <1>8, <1>9, <1>10, <1>11, <1>12, <1>13, <1>14, <1>15, <1>16
  DEF Next, WorkerStep, GameStep, Thread

\* Every step keeps the game thread out of the loop of a layer that is down.
LEMMA SilentStep ==
  ASSUME TypeOK, StopInv, SilentInv, [Next]_vars
  PROVE  SilentInv'
<1>1. CASE UNCHANGED <<game, resume, pump>> /\ (worker' = "none" => worker = "none")
  BY <1>1 DEF SilentInv
<1>2. CASE Clients \/ PingSubmit \/ Take \/ DropRest \/ DropOne \/ Exit \/ Reuse \/ Reopen \/ Finish
  BY <1>1, <1>2
  DEF Clients, Submit, PingSubmit, Enqueue, Take, DropRest, DropOne, Exit, Reuse, Reopen, Finish,
      workerVars, gameVars
<1>3. CASE RunOk \/ RunFails \/ \E ok \in BOOLEAN : RawReturns(ok)
  BY <1>1, <1>3 DEF RunOk, RunFails, RawReturns, Running, gameVars
<1>4. CASE Disconnect \/ Expire \/ UNCHANGED vars \/ \E t \in Thread : Released(t)
  BY <1>1, <1>4 DEF Disconnect, Expire, Released, vars, workerVars, gameVars
<1>5. CASE Start
  BY <1>5 DEF Start, SilentInv
<1>6. CASE PingOk \/ PingFails \/ Stop
  BY <1>6 DEF PingOk, PingFails, PingAnswered, Stop, BeginStop, StopInv, SilentInv, workerVars
<1>7. CASE Joined
  BY <1>7 DEF Joined, SilentInv
<1>8. CASE Dispatch \/ Callback \/ CallbackReturns \/ EndDispatch
  BY <1>8
  DEF Dispatch, Callback, CallbackReturns, EndDispatch, SilentInv, workerVars
<1> QED
  BY <1>2, <1>3, <1>4, <1>5, <1>6, <1>7, <1>8 DEF Next, WorkerStep, GameStep, Thread

-----------------------------------------------------------------------------
(* Callbacks: each query's is in one place, and they are called in order.   *)

\* Callbacks are in the order of acceptance and older than every job without a
\* result; a query with a result has its callback there, or Stop destroyed it.
ReplyInv ==
  /\ Increasing(Callbacks)
  /\ \A n \in 1 .. Len(Callbacks), m \in 1 .. Len(queue) : Callbacks[n] < queue[m]
  /\ job # 0 => \A n \in 1 .. Len(Callbacks) : Callbacks[n] < job
  /\ \A j \in discarded : jobs[j].verdict # "none"
  /\ \A j \in Accepted : jobs[j].kind = "query" /\ jobs[j].verdict # "none" =>
        (j \in Elements(Callbacks) <=> j \notin discarded)

\* The elements of a concatenation, by position.
LEMMA ElementsConcat ==
  ASSUME NEW S, NEW s \in Seq(S), NEW t \in Seq(S)
  PROVE  Elements(s \o t) = Elements(s) \cup Elements(t)
<1>1. /\ Len(s) \in Nat /\ Len(t) \in Nat /\ Len(s \o t) = Len(s) + Len(t)
      /\ \A n \in 1 .. Len(s) : (s \o t)[n] = s[n]
      /\ \A n \in 1 .. Len(t) : (s \o t)[Len(s) + n] = t[n]
  <2>1. \A n \in 1 .. Len(s) + Len(t) : (s \o t)[n] = IF n <= Len(s) THEN s[n] ELSE t[n - Len(s)]
    BY ConcatProperties
  <2>2. Len(s) \in Nat /\ Len(t) \in Nat /\ Len(s \o t) = Len(s) + Len(t)
    BY LenProperties, ConcatProperties
  <2> QED
    BY <2>1, <2>2
<1>2. \A n \in 1 .. Len(s) + Len(t) :
        n \in 1 .. Len(s) \/ \E m \in 1 .. Len(t) : n = Len(s) + m
  <2> SUFFICES ASSUME NEW n \in 1 .. Len(s) + Len(t), n \notin 1 .. Len(s)
               PROVE  \E m \in 1 .. Len(t) : n = Len(s) + m
    OBVIOUS
  <2>1. n - Len(s) \in 1 .. Len(t) /\ n = Len(s) + (n - Len(s))
    BY <1>1
  <2> QED
    BY <2>1
<1>3. /\ \A n \in 1 .. Len(s) : n \in 1 .. Len(s) + Len(t)
      /\ \A n \in 1 .. Len(t) : Len(s) + n \in 1 .. Len(s) + Len(t)
  BY <1>1
<1>4. ASSUME NEW e \in Elements(s \o t)
      PROVE  e \in Elements(s) \cup Elements(t)
  <2>1. PICK n \in 1 .. Len(s) + Len(t) : e = (s \o t)[n]
    BY <1>1, <1>4 DEF Elements
  <2>2. CASE n \in 1 .. Len(s)
    BY <1>1, <2>1, <2>2 DEF Elements
  <2>3. CASE \E m \in 1 .. Len(t) : n = Len(s) + m
    BY <1>1, <2>1, <2>3 DEF Elements
  <2> QED
    BY <1>2, <2>2, <2>3
<1>5. ASSUME NEW e \in Elements(s) \cup Elements(t)
      PROVE  e \in Elements(s \o t)
  BY <1>1, <1>3, <1>5 DEF Elements
<1> QED
  BY <1>4, <1>5

\* The first part of an increasing concatenation is increasing, and has nothing
\* in common with the second.
LEMMA IncreasingConcat ==
  ASSUME NEW S, S \subseteq Nat, NEW s \in Seq(S), NEW t \in Seq(S), Increasing(s \o t)
  PROVE  /\ Increasing(s)
         /\ Elements(s) \cap Elements(t) = {}
<1>1. /\ Len(s) \in Nat /\ Len(t) \in Nat /\ Len(s \o t) = Len(s) + Len(t)
      /\ \A n \in 1 .. Len(s) + Len(t) : (s \o t)[n] = IF n <= Len(s) THEN s[n] ELSE t[n - Len(s)]
  BY LenProperties, ConcatProperties
<1>2. \A n \in 1 .. Len(s) : n \in 1 .. Len(s \o t) /\ (s \o t)[n] = s[n]
  BY <1>1
<1>3. Increasing(s)
  BY <1>2 DEF Increasing
<1>4. ASSUME NEW m \in 1 .. Len(s), NEW n \in 1 .. Len(t)
      PROVE  s[m] # t[n]
  <2>1. /\ Len(s) + n \in 1 .. Len(s \o t) /\ (s \o t)[Len(s) + n] = t[n] /\ m < Len(s) + n
    BY <1>1
  <2>2. s[m] < t[n]
    BY <1>2, <2>1 DEF Increasing
  <2>3. s[m] \in Nat /\ t[n] \in Nat
    BY ElementOfSeq
  <2> QED
    BY <2>2, <2>3
<1> QED
  BY <1>3, <1>4 DEF Elements

\* A number larger than all of an increasing sequence may be appended to it.
LEMMA IncreasingAppend ==
  ASSUME NEW S, S \subseteq Nat, NEW s \in Seq(S), NEW e \in S, Increasing(s),
         \A n \in 1 .. Len(s) : s[n] < e
  PROVE  Increasing(Append(s, e))
<1>1. /\ Len(s) \in Nat /\ Len(Append(s, e)) = Len(s) + 1
      /\ \A n \in 1 .. Len(s) : Append(s, e)[n] = s[n]
      /\ Append(s, e)[Len(s) + 1] = e
  BY LenProperties, AppendProperties
<1>2. \A n \in 1 .. Len(s) + 1 : n \in 1 .. Len(s) \/ n = Len(s) + 1
  BY <1>1
<1>3. SUFFICES ASSUME NEW m \in 1 .. Len(s) + 1, NEW n \in 1 .. Len(s) + 1, m < n
               PROVE  Append(s, e)[m] < Append(s, e)[n]
  BY <1>1 DEF Increasing
<1>4. m \in 1 .. Len(s)
  BY <1>1, <1>3
<1>5. CASE n \in 1 .. Len(s)
  BY <1>1, <1>3, <1>4, <1>5 DEF Increasing
<1>6. CASE n = Len(s) + 1
  BY <1>1, <1>4, <1>6
<1> QED
  BY <1>2, <1>5, <1>6

\* Moving the head of one sequence to the end of the one before it changes
\* nothing of their concatenation.
LEMMA MoveHead ==
  ASSUME NEW S, NEW s \in Seq(S), NEW t \in Seq(S), t # <<>>
  PROVE  Append(s, Head(t)) \o Tail(t) = s \o t
<1>1. /\ Head(t) \in S /\ Tail(t) \in Seq(S) /\ Len(Tail(t)) = Len(t) - 1
      /\ Head(t) = t[1] /\ \A n \in 1 .. Len(t) - 1 : Tail(t)[n] = t[n + 1]
      /\ Len(t) \in Nat \ {0} /\ Len(s) \in Nat
  BY HeadTailProperties, EmptySeq, LenProperties
<1> DEFINE u == Append(s, Head(t))
<1>2. /\ u \in Seq(S) /\ Len(u) = Len(s) + 1 /\ u[Len(s) + 1] = t[1]
      /\ \A n \in 1 .. Len(s) : u[n] = s[n]
  BY <1>1, AppendProperties
<1> HIDE DEF u
<1>3. /\ u \o Tail(t) \in Seq(S) /\ Len(u \o Tail(t)) = Len(s) + Len(t)
      /\ \A n \in 1 .. Len(s) + Len(t) :
           (u \o Tail(t))[n] = IF n <= Len(s) + 1 THEN u[n] ELSE Tail(t)[n - (Len(s) + 1)]
  <2>1. u \in Seq(S) /\ Tail(t) \in Seq(S) /\ Len(u) + Len(Tail(t)) = Len(s) + Len(t)
    BY <1>1, <1>2
  <2>2. /\ u \o Tail(t) \in Seq(S) /\ Len(u \o Tail(t)) = Len(u) + Len(Tail(t))
        /\ \A n \in 1 .. Len(u) + Len(Tail(t)) :
             (u \o Tail(t))[n] = IF n <= Len(u) THEN u[n] ELSE Tail(t)[n - Len(u)]
    BY ONLY <2>1, ConcatProperties
  <2> QED
    BY ONLY <2>1, <2>2, <1>2
<1>4. /\ s \o t \in Seq(S) /\ Len(s \o t) = Len(s) + Len(t)
      /\ \A n \in 1 .. Len(s) + Len(t) : (s \o t)[n] = IF n <= Len(s) THEN s[n] ELSE t[n - Len(s)]
  BY <1>1, ConcatProperties
<1>5. ASSUME NEW n \in 1 .. Len(s) + Len(t)
      PROVE  (u \o Tail(t))[n] = (s \o t)[n]
  <2>1. CASE n \in 1 .. Len(s)
    BY <1>1, <1>2, <1>3, <1>4, <2>1
  <2>2. CASE n = Len(s) + 1
    BY <1>1, <1>2, <1>3, <1>4, <2>2
  <2>3. CASE n > Len(s) + 1
    <3>1. /\ n - (Len(s) + 1) \in 1 .. Len(t) - 1 /\ n - (Len(s) + 1) + 1 = n - Len(s)
      BY <1>1, <2>3
    <3>2. Tail(t)[n - (Len(s) + 1)] = t[n - Len(s)]
      BY <1>1, <3>1
    <3> QED
      BY <1>1, <1>3, <1>4, <2>3, <3>2
  <2>4. n \in 1 .. Len(s) \/ n = Len(s) + 1 \/ n > Len(s) + 1
    BY <1>1
  <2> QED
    BY <2>1, <2>2, <2>3, <2>4
<1> QED
  BY <1>3, <1>4, <1>5, SeqEqual DEF u

\* What the callbacks are made of.
LEMMA CallbacksTyped ==
  ASSUME TypeOK
  PROVE  /\ heard \in Seq(Accepted) /\ ready \in Seq(Accepted) /\ completions \in Seq(Accepted)
         /\ heard \o ready \in Seq(Accepted) /\ Callbacks \in Seq(Accepted)
         /\ Len(Callbacks) \in Nat
         /\ \A n \in 1 .. Len(Callbacks) : Callbacks[n] \in Accepted
         /\ Accepted \subseteq Nat
         /\ Elements(Callbacks) = Elements(heard \o ready) \cup Elements(completions)
<1>1. heard \in Seq(Accepted) /\ ready \in Seq(Accepted) /\ completions \in Seq(Accepted)
  BY DEF TypeOK, TypeReplies
<1>2. heard \o ready \in Seq(Accepted) /\ Callbacks \in Seq(Accepted)
  BY <1>1, ConcatProperties DEF Callbacks
<1>3. Len(Callbacks) \in Nat /\ \A n \in 1 .. Len(Callbacks) : Callbacks[n] \in Accepted
  BY <1>2, LenProperties, ElementOfSeq
<1>4. Accepted \subseteq Nat
  BY JobTyped
<1>5. Elements(Callbacks) = Elements(heard \o ready) \cup Elements(completions)
  <2>1. Elements((heard \o ready) \o completions)
          = Elements(heard \o ready) \cup Elements(completions)
    BY <1>1, <1>2, ElementsConcat, ZenonT(60)
  <2>2. Callbacks = (heard \o ready) \o completions
    BY DEF Callbacks
  <2> QED
    BY <2>1, <2>2
<1> QED
  BY <1>1, <1>2, <1>3, <1>4, <1>5

\* A step keeps the account of callbacks if it finishes no job, accepts none,
\* and at most moves callbacks from one place to the next.
LEMMA ReplySame ==
  ASSUME ReplyInv, UNCHANGED <<jobs, queue, job, Callbacks, discarded>>
  PROVE  ReplyInv'
  BY DEF ReplyInv, Increasing, Elements, Accepted

\* A job in hand that is older than the queue gets its result.
LEMMA ReplyFinish ==
  ASSUME TypeOK, OrderInv, ReplyInv, NEW j \in Accepted, NEW v \in Verdicts \ {"none"},
         jobs[j].verdict = "none", FinishJob(j, v),
         \A n \in 1 .. Len(Callbacks) : Callbacks[n] < j,
         \A m \in 1 .. Len(queue') : j < queue'[m],
         \A n \in 1 .. Len(Callbacks), m \in 1 .. Len(queue') : Callbacks[n] < queue'[m],
         job' = 0, UNCHANGED <<heard, ready, discarded>>
  PROVE  ReplyInv'
<1>1. /\ Accepted' = Accepted
      /\ \A i \in Accepted : jobs'[i].kind = jobs[i].kind
      /\ \A i \in Accepted : jobs'[i].verdict = IF i = j THEN v ELSE jobs[i].verdict
  BY FinishJobType
<1>2. discarded \subseteq Accepted
  BY DEF TypeOK, TypeReplies
<1>3. \A i \in discarded : jobs'[i].verdict # "none"
  BY <1>1, <1>2 DEF ReplyInv
<1>4. j \notin discarded
  BY DEF ReplyInv
<1>5. CASE jobs[j].kind = "query"
  <2>1. completions' = Append(completions, j)
    BY <1>5 DEF FinishJob
  <2>2. Callbacks' = Append(Callbacks, j)
    <3>1. Append(completions, j) = completions \o <<j>> /\ <<j>> \in Seq(Accepted)
      BY AppendIsConcat, CallbacksTyped
    <3>2. Callbacks' = (heard \o ready) \o (completions \o <<j>>)
      BY <2>1, <3>1 DEF Callbacks
    <3>3. Callbacks' = Callbacks \o <<j>>
      <4> DEFINE kept == heard \o ready
      <4>1. kept \in Seq(Accepted) /\ completions \in Seq(Accepted)
        BY CallbacksTyped
      <4> HIDE DEF kept
      <4>2. kept \o (completions \o <<j>>) = (kept \o completions) \o <<j>>
        BY <3>1, <4>1, ConcatAssociative
      <4> QED
        BY <3>2, <4>2 DEF Callbacks, kept
    <3> QED
      BY <3>3, CallbacksTyped, AppendIsConcat
  <2>3. /\ Len(Callbacks') = Len(Callbacks) + 1 /\ Callbacks'[Len(Callbacks) + 1] = j
        /\ \A n \in 1 .. Len(Callbacks) : Callbacks'[n] = Callbacks[n]
    BY <2>2, CallbacksTyped, AppendProperties
  <2>4. \A n \in 1 .. Len(Callbacks') : n \in 1 .. Len(Callbacks) \/ n = Len(Callbacks) + 1
    <3> DEFINE size == Len(Callbacks)
               size2 == Len(Callbacks')
    <3>1. size \in Nat /\ size2 = size + 1
      BY <2>3, CallbacksTyped
    <3> HIDE DEF size, size2
    <3>2. \A n \in 1 .. size2 : n \in 1 .. size \/ n = size + 1
      BY ONLY <3>1
    <3> QED
      BY <3>2 DEF size, size2
  <2>5. Increasing(Callbacks')
    BY <2>2, CallbacksTyped, IncreasingAppend DEF ReplyInv
  <2>6. \A n \in 1 .. Len(Callbacks'), m \in 1 .. Len(queue') : Callbacks'[n] < queue'[m]
    BY <2>3, <2>4
  <2>7. Elements(Callbacks') = Elements(Callbacks) \cup {j}
    BY <2>2, CallbacksTyped, ElementsAppend
  <2>8. \A i \in Accepted : jobs'[i].kind = "query" /\ jobs'[i].verdict # "none" =>
          (i \in Elements(Callbacks') <=> i \notin discarded)
    BY <1>1, <1>4, <2>7 DEF ReplyInv
  <2> QED
    BY <1>1, <1>3, <2>5, <2>6, <2>8 DEF ReplyInv
<1>6. CASE jobs[j].kind # "query"
  <2>1. Callbacks' = Callbacks
    BY <1>6 DEF FinishJob, Callbacks
  <2>2. Elements(Callbacks') = Elements(Callbacks) /\ Increasing(Callbacks')
    BY <2>1 DEF ReplyInv
  <2>3. \A i \in Accepted : jobs'[i].kind = "query" /\ jobs'[i].verdict # "none" =>
          (i \in Elements(Callbacks') <=> i \notin discarded)
    BY <1>1, <1>6, <2>2 DEF ReplyInv
  <2> QED
    BY <1>1, <1>3, <2>1, <2>2, <2>3 DEF ReplyInv
<1> QED
  BY <1>5, <1>6

\* Every step keeps the account of callbacks.
LEMMA ReplyStep ==
  ASSUME TypeOK, OrderInv, PendingInv, ReplyInv, [Next]_vars
  PROVE  ReplyInv'
<1>1. ASSUME NEW t \in Thread, NEW kind \in AllKinds, NEW name \in Name, Enqueue(t, kind, name)
      PROVE  ReplyInv'
  <2> DEFINE k == Len(jobs) + 1
  <2>1. /\ UNCHANGED <<job, Callbacks, discarded>>
        /\ queue' = Append(queue, k) /\ queue \in Seq(Nat) /\ k \in Nat
    BY <1>1, Numbers, JobTyped, SeqMonotonic
    DEF Enqueue, workerVars, replyVars, Callbacks, TypeOK, TypeQueue
  <2>2. /\ Len(queue') = Len(queue) + 1 /\ queue'[Len(queue) + 1] = k
        /\ \A m \in 1 .. Len(queue) : queue'[m] = queue[m]
    BY <2>1, AppendProperties
  <2>3. \A m \in 1 .. Len(queue') : m \in 1 .. Len(queue) \/ m = Len(queue) + 1
    BY <2>2, Numbers
  <2>4. \A n \in 1 .. Len(Callbacks) : Callbacks[n] < k
    BY CallbacksTyped, JobTyped, Numbers
  <2>5. \A n \in 1 .. Len(Callbacks), m \in 1 .. Len(queue') : Callbacks[n] < queue'[m]
    BY <2>2, <2>3, <2>4 DEF ReplyInv
  <2>6. discarded \subseteq Accepted
    BY DEF TypeOK, TypeReplies
  <2>7. \A j \in discarded : jobs'[j].verdict # "none"
    BY <1>1, <2>6, EnqueueJobs DEF ReplyInv
  <2>8. \A j \in Accepted' : jobs'[j].kind = "query" /\ jobs'[j].verdict # "none" =>
          (j \in Elements(Callbacks) <=> j \notin discarded)
    BY <1>1, EnqueueJobs DEF ReplyInv
  <2>9. Elements(Callbacks') = Elements(Callbacks) /\ Increasing(Callbacks')
    BY <2>1 DEF ReplyInv
  <2> QED
    BY <2>1, <2>5, <2>7, <2>8, <2>9 DEF ReplyInv
<1>2. CASE Clients \/ PingSubmit
  BY <1>1, <1>2, KindsAssumption, NameAssumption
  DEF Clients, Submit, PingSubmit, Thread, AllKinds
<1>3. CASE Take
  <2>1. /\ queue # <<>> /\ queue' = Tail(queue) /\ job' = Head(queue)
        /\ UNCHANGED <<jobs, Callbacks, discarded>>
    BY <1>3 DEF Take, replyVars, Callbacks
  <2>2. /\ Len(queue') = Len(queue) - 1 /\ Len(queue) \in Nat \ {0} /\ Head(queue) = queue[1]
        /\ \A n \in 1 .. Len(queue') : queue'[n] = queue[n + 1]
    BY <2>1, HeadTailProperties, EmptySeq DEF TypeOK, TypeQueue
  <2>3. 1 \in 1 .. Len(queue) /\ \A n \in 1 .. Len(queue') : n + 1 \in 1 .. Len(queue)
    BY <2>2
  <2>4. Elements(Callbacks') = Elements(Callbacks) /\ Increasing(Callbacks')
    BY <2>1 DEF ReplyInv
  <2>5. \A n \in 1 .. Len(Callbacks'), m \in 1 .. Len(queue') : Callbacks'[n] < queue'[m]
    BY <2>1, <2>2, <2>3 DEF ReplyInv
  <2>6. \A n \in 1 .. Len(Callbacks') : Callbacks'[n] < job'
    BY <2>1, <2>2, <2>3 DEF ReplyInv
  <2> QED
    BY <2>1, <2>4, <2>5, <2>6 DEF ReplyInv, Accepted
<1>4. CASE DropOne
  <2>1. /\ queue # <<>> /\ queue' = Tail(queue) /\ FinishJob(Head(queue), "shutdown")
        /\ UNCHANGED <<job, heard, ready, discarded>> /\ job = 0
    BY <1>4 DEF DropOne, workerVars, TypeOK, TypeWorker
  <2>2. /\ Len(queue') = Len(queue) - 1 /\ Len(queue) \in Nat \ {0} /\ Head(queue) = queue[1]
        /\ \A n \in 1 .. Len(queue') : queue'[n] = queue[n + 1]
    BY <2>1, HeadTailProperties, EmptySeq DEF TypeOK, TypeQueue
  <2>3. 1 \in 1 .. Len(queue) /\ \A n \in 1 .. Len(queue') : n + 1 \in 1 .. Len(queue)
    BY <2>2
  <2>4. Head(queue) \in Accepted /\ Head(queue) \in Elements(queue)
    BY <2>1, HeadOnce
  <2>5. jobs[Head(queue)].verdict = "none" /\ "shutdown" \in Verdicts \ {"none"}
    BY <2>4 DEF PendingInv, Verdicts
  <2>6. \A n \in 1 .. Len(Callbacks) : Callbacks[n] < Head(queue)
    BY <2>2, <2>3 DEF ReplyInv
  <2>7. \A m \in 1 .. Len(queue') : Head(queue) < queue'[m]
    BY <2>1, OrderTail
  <2>8. \A n \in 1 .. Len(Callbacks), m \in 1 .. Len(queue') : Callbacks[n] < queue'[m]
    BY <2>2, <2>3 DEF ReplyInv
  <2> QED
    BY <2>1, <2>4, <2>5, <2>6, <2>7, <2>8, ReplyFinish
<1>5. CASE Finish
  <2>1. /\ FinishJob(job, outcome) /\ job' = 0 /\ UNCHANGED <<queue, heard, ready, discarded>>
        /\ job \in Accepted /\ outcome \in Verdicts \ {"none"} /\ job # 0
    BY <1>5 DEF Finish, queueVars, PendingInv, TypeOK, TypeWorker
  <2>2. jobs[job].verdict = "none"
    BY <2>1 DEF PendingInv
  <2>3. \A m \in 1 .. Len(queue') : job < queue'[m]
    BY <2>1 DEF OrderInv
  <2>4. \A n \in 1 .. Len(Callbacks) : Callbacks[n] < job
    BY <2>1 DEF ReplyInv
  <2>5. \A n \in 1 .. Len(Callbacks), m \in 1 .. Len(queue') : Callbacks[n] < queue'[m]
    BY <2>1 DEF ReplyInv
  <2> QED
    BY <2>1, <2>2, <2>3, <2>4, <2>5, ReplyFinish
<1>6. CASE Joined
  <2>1. /\ UNCHANGED <<jobs, queue, job, heard, ready>>
        /\ completions' = <<>> /\ discarded' = discarded \cup Elements(completions)
    BY <1>6 DEF Joined, queueVars, Elements
  <2> DEFINE kept == heard \o ready
  <2>2. Callbacks' = kept /\ Callbacks = kept \o completions
    BY <2>1, CallbacksTyped, ConcatEmptySeq DEF Callbacks
  <2>3. kept \in Seq(Accepted) /\ completions \in Seq(Accepted) /\ Accepted \subseteq Nat
    BY CallbacksTyped
  <2>4. Increasing(kept) /\ Elements(kept) \cap Elements(completions) = {}
    BY <2>2, <2>3, IncreasingConcat DEF ReplyInv
  <2>5. \A n \in 1 .. Len(kept) : n \in 1 .. Len(Callbacks) /\ Callbacks[n] = kept[n]
    <3> HIDE DEF kept
    <3> QED
      BY <2>2, <2>3, ConcatProperties, LenProperties
  <2>6. Elements(Callbacks) = Elements(kept) \cup Elements(completions)
    BY CallbacksTyped
  <2>7. \A j \in Elements(completions) : jobs[j].verdict # "none"
    <3> SUFFICES ASSUME NEW j \in Elements(completions) PROVE jobs[j].verdict # "none"
      OBVIOUS
    <3>1. j \in Elements(Callbacks)
      BY <2>6
    <3>2. PICK n \in 1 .. Len(Callbacks) : j = Callbacks[n]
      BY <3>1 DEF Elements
    <3>3. j \in Accepted
      BY <3>2, CallbacksTyped
    <3>4. j # job /\ j \notin Elements(queue)
      BY <3>2, <3>3, JobTyped, Numbers DEF ReplyInv, Elements
    <3> QED
      BY <3>3, <3>4 DEF PendingInv
  <2>8. \A j \in Accepted : jobs[j].kind = "query" /\ jobs[j].verdict # "none" =>
          (j \in Elements(kept) <=> j \notin discarded')
    BY <2>1, <2>4, <2>6 DEF ReplyInv
  <2> HIDE DEF kept
  <2> QED
    BY <2>1, <2>2, <2>4, <2>5, <2>7, <2>8 DEF ReplyInv, Accepted
<1>7. CASE Dispatch
  <2>1. /\ UNCHANGED <<jobs, queue, job, heard, discarded>>
        /\ ready = <<>> /\ ready' = completions /\ completions' = <<>>
    BY <1>7 DEF Dispatch, queueVars, workerVars, TypeOK, TypeGame
  <2>2. Callbacks' = heard \o completions /\ Callbacks = heard \o completions
    <3>1. heard \o ready = heard
      BY <2>1, CallbacksTyped, ConcatEmptySeq
    <3>2. heard \o completions \in Seq(Accepted)
      BY CallbacksTyped, ConcatProperties
    <3>3. (heard \o completions) \o <<>> = heard \o completions
      BY <3>2, ConcatEmptySeq
    <3> QED
      BY <2>1, <3>1, <3>3 DEF Callbacks
  <2> QED
    BY <2>1, <2>2, ReplySame
<1>8. CASE Callback
  <2>1. /\ UNCHANGED <<jobs, queue, job, completions, discarded>>
        /\ ready # <<>> /\ heard' = Append(heard, Head(ready)) /\ ready' = Tail(ready)
    BY <1>8 DEF Callback, queueVars, workerVars
  <2>2. heard' \o ready' = heard \o ready
    BY <2>1, CallbacksTyped, MoveHead
  <2>3. Callbacks' = Callbacks
    BY <2>1, <2>2 DEF Callbacks
  <2> QED
    BY <2>1, <2>3, ReplySame
<1>9. CASE RunOk \/ RunFails \/ \E ok \in BOOLEAN : RawReturns(ok)
  BY <1>9, ReplySame DEF RunOk, RunFails, RawReturns, queueVars, replyVars, Callbacks
<1>10. CASE DropRest \/ Exit \/ Reuse \/ Reopen
  BY <1>10, ReplySame DEF DropRest, Exit, Reuse, Reopen, queueVars, replyVars, Callbacks
<1>11. CASE Disconnect \/ Expire \/ PingOk \/ PingFails \/ Stop \/ UNCHANGED vars
  BY <1>11, ReplySame
  DEF Disconnect, Expire, PingOk, PingFails, Stop, BeginStop, queueVars, workerVars, replyVars, vars,
      Callbacks
<1>12. CASE Start \/ CallbackReturns \/ EndDispatch \/ \E t \in Thread : Released(t)
  BY <1>12, ReplySame
  DEF Start, CallbackReturns, EndDispatch, Released, queueVars, workerVars, replyVars, Callbacks
<1> QED
  BY <1>2, <1>3, <1>4, <1>5, <1>6, <1>7, <1>8, <1>9, <1>10, <1>11, <1>12
  DEF Next, WorkerStep, GameStep, Thread

-----------------------------------------------------------------------------
(* The theorems.                                                           *)

\* The types hold in every reachable state, for any constants.
THEOREM TypeCorrect == Spec => []TypeOK
<1>1. Init => TypeOK
  BY InitType
<1>2. TypeOK /\ [Next]_vars => TypeOK'
  BY TypeStep
<1> QED
  BY <1>1, <1>2, PTL DEF Spec

\* "Jobs run FIFO": the server commits jobs in the order of their acceptance
\* and none twice, whatever is lost, refused or restarted.
THEOREM CommitsInOrderHolds == Spec => []CommitsInOrder
<1>1. Init => OrderInv
  <2> SUFFICES ASSUME Init PROVE OrderInv
    OBVIOUS
  <2>1. queue = <<>> /\ committed = <<>> /\ worker = "none"
    BY DEF Init
  <2>2. Len(queue) = 0 /\ Len(committed) = 0
    BY <2>1, EmptySeq
  <2> QED
    BY <2>1, <2>2 DEF OrderInv, Increasing
<1>2. TypeOK /\ OrderInv /\ [Next]_vars => OrderInv'
  BY OrderStep
<1>3. OrderInv => CommitsInOrder
  BY DEF OrderInv, CommitsInOrder
<1> QED
  BY <1>1, <1>2, <1>3, TypeCorrect, PTL DEF Spec

\* The statement cache never claims a statement the server's session does not
\* have.
THEOREM PreparedAreKnownHolds == Spec => []PreparedAreKnown
<1>1. Init => CacheInv
  BY DEF Init, CacheInv
<1>2. CacheInv /\ [Next]_vars => CacheInv'
  BY CacheStep
<1>3. CacheInv => PreparedAreKnown
  BY DEF CacheInv, PreparedAreKnown
<1> QED
  BY <1>1, <1>2, <1>3, PTL DEF Spec

\* Everything known about queue, results and shutdown, as one invariant.
Inv == TypeOK /\ OrderInv /\ PendingInv /\ TruthInv /\ StopInv /\ SilentInv /\ ReplyInv

\* The invariant holds in every reachable state.
LEMMA InvCorrect == Spec => []Inv
<1>1. Init => Inv
  <2> SUFFICES ASSUME Init PROVE Inv
    OBVIOUS
  <2>1. /\ queue = <<>> /\ committed = <<>> /\ jobs = <<>> /\ worker = "none" /\ outcome = "none"
        /\ ~accepting /\ ~stopping /\ game = "idle" /\ resume = "idle" /\ ~pump
    BY DEF Init
  <2>2. Len(queue) = 0 /\ Len(committed) = 0 /\ Accepted = {}
    BY <2>1, EmptySeq DEF Accepted
  <2>3. OrderInv
    BY <2>1, <2>2 DEF OrderInv, Increasing
  <2>4. PendingInv /\ TruthInv
    BY <2>1, <2>2 DEF PendingInv, TruthInv, ResultsAreTrue
  <2>5. StopInv /\ SilentInv
    BY <2>1, <2>2 DEF StopInv, SilentInv
  <2>6. ReplyInv
    <3>1. completions = <<>> /\ ready = <<>> /\ heard = <<>> /\ discarded = {} /\ job = 0
      BY DEF Init
    <3>2. Callbacks = <<>> /\ Len(Callbacks) = 0
      BY <3>1, EmptySeq, ConcatEmptySeq DEF Callbacks
    <3> QED
      BY <2>2, <3>1, <3>2 DEF ReplyInv, Increasing
  <2> QED
    BY <2>3, <2>4, <2>5, <2>6, InitType DEF Inv
<1>2. Inv /\ [Next]_vars => Inv'
  BY TypeStep, OrderStep, PendingStep, TruthStep, StopStep, SilentStep, ReplyStep DEF Inv
<1> QED
  BY <1>1, <1>2, PTL DEF Spec

\* A result never lies: "ok" means the server committed, and a job refused by a
\* dead connection or by Stop had no effect.
THEOREM ResultsAreTrueHolds == Spec => []ResultsAreTrue
<1>1. Inv => ResultsAreTrue
  BY DEF Inv, TruthInv
<1> QED
  BY <1>1, InvCorrect, PTL

\* No accepted job is forgotten, and the callback of a query with a result is
\* called once, in the order of acceptance, unless Stop destroys it.
THEOREM NothingIsLostHolds == Spec => []NothingIsLost
<1>1. Inv => NothingIsLost
  BY DEF Inv, PendingInv, ReplyInv, NothingIsLost
<1> QED
  BY <1>1, InvCorrect, PTL

\* What the server did, what results say and what callbacks hear agree.
THEOREM StatementsAreSafeHolds == Spec => []StatementsAreSafe
BY CommitsInOrderHolds, ResultsAreTrueHolds, NothingIsLostHolds, PreparedAreKnownHolds, PTL
DEF StatementsAreSafe

\* Stop returns to a settled layer: every job of the run has its result, and
\* none was dropped before the deadline.
LEMMA StopSettlesHolds == Spec => StopSettles
<1> DEFINE Settles ==
      /\ queue = <<>> /\ ~accepting
      /\ completions' = <<>> /\ ~pump'
      /\ \A j \in Accepted : j > since =>
           /\ jobs[j].verdict # "none"
           /\ jobs[j].verdict = "shutdown" => expired
<1>1. Inv /\ [Next]_vars => [Joined => Settles]_vars
  <2> SUFFICES ASSUME Inv, Joined PROVE Settles
    OBVIOUS
  <2>1. worker = "exited" /\ completions' = <<>> /\ ~pump'
    BY DEF Joined
  <2>2. queue = <<>> /\ ~accepting
    BY <2>1 DEF Inv, StopInv
  <2>3. job = 0 /\ Elements(queue) = {}
    BY <2>1, <2>2, EmptySeq DEF Inv, TypeOK, TypeWorker, Elements
  <2>4. \A j \in Accepted : jobs[j].verdict # "none"
    BY <2>3, JobTyped DEF Inv, PendingInv
  <2>5. \A j \in Accepted : j > since /\ jobs[j].verdict = "shutdown" => expired
    BY DEF Inv, StopInv
  <2> QED
    BY <2>1, <2>2, <2>4, <2>5
<1> QED
  BY <1>1, InvCorrect, PTL DEF Spec, StopSettles

\* As long as no callback calls Stop, no callback runs outside a run of the
\* layer.
LEMMA StoppedIsSilentHolds ==
  ASSUME ~StopInCallbacks
  PROVE  Spec => StoppedIsSilent
<1>1. Inv /\ [Next]_vars => [heard' # heard => worker # "none"]_vars
  <2> SUFFICES ASSUME Inv, Next, heard' # heard PROVE worker # "none"
    OBVIOUS
  <2>1. CASE Callback
    BY <2>1 DEF Callback, Inv, SilentInv
  <2>2. CASE Clients \/ PingSubmit \/ Take \/ DropRest \/ DropOne \/ Exit \/ Reuse \/ Reopen \/ Finish
    BY <2>2
    DEF Clients, Submit, PingSubmit, Enqueue, Take, DropRest, DropOne, Exit, Reuse, Reopen, Finish,
        replyVars
  <2>3. CASE RunOk \/ RunFails \/ \E ok \in BOOLEAN : RawReturns(ok)
    BY <2>3 DEF RunOk, RunFails, RawReturns, replyVars
  <2>4. CASE Disconnect \/ Expire \/ PingOk \/ PingFails \/ Stop \/ Start \/ Joined
    BY <2>4 DEF Disconnect, Expire, PingOk, PingFails, Stop, BeginStop, Start, Joined, replyVars
  <2>5. CASE Dispatch \/ CallbackReturns \/ EndDispatch \/ \E t \in Thread : Released(t)
    BY <2>5 DEF Dispatch, CallbackReturns, EndDispatch, Released, replyVars
  <2> QED
    BY <2>1, <2>2, <2>3, <2>4, <2>5 DEF Next, WorkerStep, GameStep, Thread
<1> QED
  BY <1>1, InvCorrect, PTL DEF Spec, StoppedIsSilent

\* If no callback calls Stop, Stop settles every job and nothing is heard after it.
THEOREM StopIsFinalHolds ==
  ASSUME ~StopInCallbacks
  PROVE  Spec => StopIsFinal
BY StopSettlesHolds, StoppedIsSilentHolds DEF StopIsFinal

-----------------------------------------------------------------------------
(* The layer implements AsyncStore.                                        *)

\* What a callback is told of one job.
Letter(j, results) == [job |-> j, ok |-> results[j].verdict = "ok"]
Letters == [job : Nat, ok : BOOLEAN]

\* What is told of the jobs of a sequence is a sequence, job by job.
LEMMA ToldTyped ==
  ASSUME NEW s \in Seq(Nat), NEW results
  PROVE  /\ Told(s, results) \in Seq(Letters)
         /\ Len(Told(s, results)) = Len(s)
         /\ \A n \in 1 .. Len(s) : Told(s, results)[n] = Letter(s[n], results)
         /\ \A n \in 1 .. Len(s) : Letter(s[n], results) \in Letters
<1>1. Len(s) \in Nat /\ \A n \in 1 .. Len(s) : s[n] \in Nat
  BY LenProperties, ElementOfSeq
<1>2. \A n \in 1 .. Len(s) : Letter(s[n], results) \in Letters
  BY <1>1 DEF Letter, Letters
<1>3. Told(s, results) = [n \in 1 .. Len(s) |-> Letter(s[n], results)]
  BY DEF Told, Letter
<1>4. Told(s, results) \in [1 .. Len(s) -> Letters]
  BY <1>2, <1>3
<1>5. Told(s, results) \in Seq(Letters)
  BY <1>1, <1>4, SeqDef
<1>6. DOMAIN Told(s, results) = 1 .. Len(Told(s, results)) /\ Len(Told(s, results)) \in Nat
  BY <1>5, LenProperties
<1>7. DOMAIN Told(s, results) = 1 .. Len(s)
  BY <1>3
<1>8. Len(Told(s, results)) = Len(s)
  BY <1>1, <1>6, <1>7
<1> QED
  BY <1>2, <1>3, <1>5, <1>8

\* Nothing is told of no job.
LEMMA ToldEmpty ==
  ASSUME NEW results
  PROVE  Told(<<>>, results) = <<>>
<1>1. <<>> \in Seq(Nat) /\ Len(<<>>) = 0
  BY EmptySeq
<1>2. Told(<<>>, results) \in Seq(Letters) /\ Len(Told(<<>>, results)) = 0
  BY <1>1, ToldTyped
<1> QED
  BY <1>2, EmptySeq

\* What is told of one more job comes last.
LEMMA ToldAppend ==
  ASSUME NEW s \in Seq(Nat), NEW j \in Nat, NEW results
  PROVE  Told(Append(s, j), results) = Append(Told(s, results), Letter(j, results))
<1> DEFINE t == Append(s, j)
<1>1. /\ t \in Seq(Nat) /\ Len(t) = Len(s) + 1 /\ t[Len(s) + 1] = j /\ Len(s) \in Nat
      /\ \A n \in 1 .. Len(s) : t[n] = s[n]
  BY AppendProperties, LenProperties
<1> HIDE DEF t
<1>2. /\ Told(t, results) \in Seq(Letters) /\ Len(Told(t, results)) = Len(t)
      /\ \A n \in 1 .. Len(t) : Told(t, results)[n] = Letter(t[n], results)
  BY <1>1, ToldTyped
<1>3. /\ Told(s, results) \in Seq(Letters) /\ Len(Told(s, results)) = Len(s)
      /\ \A n \in 1 .. Len(s) : Told(s, results)[n] = Letter(s[n], results)
  BY ToldTyped
<1>4. Letter(j, results) \in Letters
  BY DEF Letter, Letters
<1> DEFINE u == Append(Told(s, results), Letter(j, results))
<1>5. /\ u \in Seq(Letters) /\ Len(u) = Len(s) + 1 /\ u[Len(s) + 1] = Letter(j, results)
      /\ \A n \in 1 .. Len(s) : u[n] = Letter(s[n], results)
  BY <1>3, <1>4, AppendProperties
<1> HIDE DEF u
<1>6. \A n \in 1 .. Len(s) + 1 : n \in 1 .. Len(s) \/ n = Len(s) + 1
  BY <1>1
<1>7. \A n \in 1 .. Len(s) + 1 : Told(t, results)[n] = u[n]
  BY <1>1, <1>2, <1>5, <1>6
<1>8. Told(t, results) = u
  BY <1>1, <1>2, <1>5, <1>7, SeqEqual
<1> QED
  BY <1>8 DEF t, u

\* Telling the first leaves the others to be told.
LEMMA ToldTail ==
  ASSUME NEW s \in Seq(Nat), s # <<>>, NEW results
  PROVE  /\ Told(s, results) # <<>>
         /\ Head(Told(s, results)) = Letter(Head(s), results)
         /\ Tail(Told(s, results)) = Told(Tail(s), results)
<1>1. /\ Tail(s) \in Seq(Nat) /\ Len(Tail(s)) = Len(s) - 1 /\ Head(s) = s[1]
      /\ Len(s) \in Nat \ {0} /\ \A n \in 1 .. Len(s) - 1 : Tail(s)[n] = s[n + 1]
  BY HeadTailProperties, EmptySeq
<1> DEFINE t == Told(s, results)
<1>2. /\ t \in Seq(Letters) /\ Len(t) = Len(s)
      /\ \A n \in 1 .. Len(s) : t[n] = Letter(s[n], results)
  BY ToldTyped
<1>3. /\ Told(Tail(s), results) \in Seq(Letters) /\ Len(Told(Tail(s), results)) = Len(s) - 1
      /\ \A n \in 1 .. Len(s) - 1 : Told(Tail(s), results)[n] = Letter(Tail(s)[n], results)
  BY <1>1, ToldTyped
<1> HIDE DEF t
<1>4. t # <<>>
  BY <1>1, <1>2, EmptySeq
<1>5. /\ Tail(t) \in Seq(Letters) /\ Len(Tail(t)) = Len(s) - 1 /\ Head(t) = t[1]
      /\ \A n \in 1 .. Len(s) - 1 : Tail(t)[n] = t[n + 1]
  BY <1>2, <1>4, HeadTailProperties
<1>6. 1 \in 1 .. Len(s) /\ \A n \in 1 .. Len(s) - 1 : n + 1 \in 1 .. Len(s)
  BY <1>1
<1>7. Head(t) = Letter(Head(s), results)
  BY <1>1, <1>2, <1>5, <1>6
<1>8. \A n \in 1 .. Len(s) - 1 : Tail(t)[n] = Told(Tail(s), results)[n]
  BY <1>1, <1>2, <1>3, <1>5, <1>6
<1>9. Tail(t) = Told(Tail(s), results)
  BY <1>3, <1>5, <1>8, SeqEqual
<1> QED
  BY <1>4, <1>7, <1>9 DEF t

\* What is told of jobs does not depend on the results of others.
LEMMA ToldSame ==
  ASSUME NEW s, NEW old, NEW new,
         \A n \in 1 .. Len(s) : new[s[n]].verdict = old[s[n]].verdict
  PROVE  Told(s, new) = Told(s, old)
BY DEF Told

\* The callbacks not heard yet and the heard ones, as sequences of numbers.
LEMMA ToldPlaces ==
  ASSUME TypeOK
  PROVE  /\ heard \in Seq(Nat) /\ ready \in Seq(Nat) /\ completions \in Seq(Nat)
         /\ ready \o completions \in Seq(Nat)
         /\ \A n \in 1 .. Len(heard) : heard[n] \in Elements(Callbacks)
         /\ \A n \in 1 .. Len(ready \o completions) :
              (ready \o completions)[n] \in Elements(Callbacks)
<1>1. heard \in Seq(Nat) /\ ready \in Seq(Nat) /\ completions \in Seq(Nat)
  BY CallbacksTyped, SeqMonotonic
<1>2. ready \o completions \in Seq(Nat) /\ heard \o ready \in Seq(Nat)
  BY <1>1, ConcatProperties
<1>3. Elements(ready \o completions) = Elements(ready) \cup Elements(completions)
  BY <1>1, ElementsConcat
<1>4. Elements(Callbacks) = (Elements(heard) \cup Elements(ready)) \cup Elements(completions)
  BY <1>1, ElementsConcat, CallbacksTyped
<1>5. /\ \A n \in 1 .. Len(heard) : heard[n] \in Elements(heard)
      /\ \A n \in 1 .. Len(ready \o completions) :
           (ready \o completions)[n] \in Elements(ready \o completions)
  BY DEF Elements
<1> QED
  BY <1>1, <1>2, <1>3, <1>4, <1>5

\* A step that changes no result of a job whose callback is known changes
\* nothing of what callbacks are told.
LEMMA ToldKept ==
  ASSUME TypeOK, \A j \in Elements(Callbacks) : jobs'[j].verdict = jobs[j].verdict
  PROVE  /\ Told(heard, jobs') = Told(heard, jobs)
         /\ Told(ready \o completions, jobs') = Told(ready \o completions, jobs)
BY ToldPlaces, ToldSame

\* The jobs without a result, by where they are.
LEMMA UnansweredIs ==
  ASSUME TypeOK
  PROVE  /\ queue \in Seq(Nat)
         /\ job = 0 => Unanswered = queue
         /\ job # 0 => /\ Unanswered # <<>> /\ Head(Unanswered) = job
                       /\ Tail(Unanswered) = queue
                       /\ \A n \in 1 .. Len(Unanswered) :
                            Unanswered[n] = job \/ Unanswered[n] \in Elements(queue)
         /\ Unanswered \in Seq(Nat)
<1>1. queue \in Seq(Nat) /\ job \in Nat
  BY Numbers, JobTyped, SeqMonotonic DEF TypeOK, TypeQueue
<1>2. job = 0 => Unanswered = queue
  BY <1>1, ConcatEmptySeq DEF Unanswered
<1>3. ASSUME job # 0
      PROVE  /\ Unanswered # <<>> /\ Head(Unanswered) = job /\ Tail(Unanswered) = queue
             /\ \A n \in 1 .. Len(Unanswered) :
                  Unanswered[n] = job \/ Unanswered[n] \in Elements(queue)
             /\ Unanswered \in Seq(Nat)
  <2> DEFINE hand == <<job>>
  <2>1. hand \in Seq(Nat) /\ Len(hand) = 1 /\ hand[1] = job /\ Len(queue) \in Nat
    BY <1>1, LenProperties
  <2>2. Unanswered = hand \o queue
    BY <1>3 DEF Unanswered
  <2> HIDE DEF hand
  <2>3. /\ Unanswered \in Seq(Nat) /\ Len(Unanswered) = 1 + Len(queue)
        /\ \A n \in 1 .. 1 + Len(queue) :
             Unanswered[n] = IF n <= 1 THEN hand[n] ELSE queue[n - 1]
    <3>1. /\ hand \o queue \in Seq(Nat) /\ Len(hand \o queue) = Len(hand) + Len(queue)
          /\ \A n \in 1 .. Len(hand) + Len(queue) :
               (hand \o queue)[n] = IF n <= Len(hand) THEN hand[n] ELSE queue[n - Len(hand)]
      BY ONLY <1>1, <2>1, ConcatProperties
    <3> QED
      BY ONLY <2>1, <2>2, <3>1
  <2>4. Unanswered # <<>>
    BY <2>1, <2>3, EmptySeq
  <2>5. /\ Head(Unanswered) = Unanswered[1] /\ Tail(Unanswered) \in Seq(Nat)
        /\ Len(Tail(Unanswered)) = Len(queue)
        /\ \A n \in 1 .. Len(queue) : Tail(Unanswered)[n] = Unanswered[n + 1]
    BY <2>1, <2>3, <2>4, HeadTailProperties
  <2>6. Unanswered[1] = job
    BY <2>1, <2>3
  <2>7. \A n \in 1 .. Len(queue) : n + 1 \in 1 .. 1 + Len(queue) /\ ~(n + 1 <= 1) /\ n + 1 - 1 = n
    BY <2>1
  <2>8. \A n \in 1 .. Len(queue) : Tail(Unanswered)[n] = queue[n]
    BY <2>3, <2>5, <2>7
  <2>9. Tail(Unanswered) = queue
    BY <1>1, <2>5, <2>8, SeqEqual
  <2>10. \A n \in 1 .. 1 + Len(queue) : n = 1 \/ (n - 1 \in 1 .. Len(queue) /\ ~(n <= 1))
    BY <2>1
  <2>11. \A n \in 1 .. Len(Unanswered) : Unanswered[n] = job \/ Unanswered[n] \in Elements(queue)
    BY <2>3, <2>6, <2>10 DEF Elements
  <2> QED
    BY <2>3, <2>4, <2>5, <2>6, <2>9, <2>11
<1> QED
  BY <1>1, <1>2, <1>3

\* The head of a concatenation is that of its first part.
LEMMA HeadTailConcat ==
  ASSUME NEW S, NEW s \in Seq(S), NEW t \in Seq(S), s # <<>>
  PROVE  s \o t # <<>> /\ Head(s \o t) = Head(s) /\ Tail(s \o t) = Tail(s) \o t
<1>1. /\ Tail(s) \in Seq(S) /\ Len(Tail(s)) = Len(s) - 1 /\ Head(s) = s[1]
      /\ Len(s) \in Nat \ {0} /\ Len(t) \in Nat /\ \A n \in 1 .. Len(s) - 1 : Tail(s)[n] = s[n + 1]
  BY HeadTailProperties, EmptySeq, LenProperties
<1> DEFINE u == s \o t
<1>2. /\ u \in Seq(S) /\ Len(u) = Len(s) + Len(t)
      /\ \A n \in 1 .. Len(s) + Len(t) : u[n] = IF n <= Len(s) THEN s[n] ELSE t[n - Len(s)]
  BY ConcatProperties
<1> HIDE DEF u
<1>3. u # <<>>
  BY <1>1, <1>2, EmptySeq
<1>4. /\ Tail(u) \in Seq(S) /\ Len(Tail(u)) = Len(s) - 1 + Len(t) /\ Head(u) = u[1]
      /\ \A n \in 1 .. Len(s) - 1 + Len(t) : Tail(u)[n] = u[n + 1]
  <2>1. /\ Tail(u) \in Seq(S) /\ Len(Tail(u)) = Len(u) - 1 /\ Head(u) = u[1]
        /\ \A n \in 1 .. Len(Tail(u)) : Tail(u)[n] = u[n + 1]
    BY <1>2, <1>3, HeadTailProperties
  <2> QED
    BY <1>1, <1>2, <2>1
<1> DEFINE v == Tail(s) \o t
<1>5. /\ v \in Seq(S) /\ Len(v) = Len(s) - 1 + Len(t)
      /\ \A n \in 1 .. Len(s) - 1 + Len(t) :
           v[n] = IF n <= Len(s) - 1 THEN Tail(s)[n] ELSE t[n - (Len(s) - 1)]
  BY <1>1, ConcatProperties
<1> HIDE DEF v
<1>6. ASSUME NEW n \in 1 .. Len(s) - 1 + Len(t)
      PROVE  Tail(u)[n] = v[n]
  <2>1. n + 1 \in 1 .. Len(s) + Len(t) /\ Tail(u)[n] = u[n + 1]
    BY <1>1, <1>4
  <2>2. CASE n \in 1 .. Len(s) - 1
    BY <1>1, <1>2, <1>5, <2>1, <2>2
  <2>3. CASE n > Len(s) - 1
    <3>1. ~(n + 1 <= Len(s)) /\ n + 1 - Len(s) = n - (Len(s) - 1)
      BY <1>1, <2>3
    <3>2. u[n + 1] = t[n + 1 - Len(s)]
      BY <1>2, <2>1, <3>1
    <3>3. v[n] = t[n - (Len(s) - 1)]
      BY <1>1, <1>5, <2>3
    <3> QED
      BY <2>1, <3>1, <3>2, <3>3
  <2>4. n \in 1 .. Len(s) - 1 \/ n > Len(s) - 1
    BY <1>1
  <2> QED
    BY <2>2, <2>3, <2>4
<1>7. Tail(u) = v
  BY <1>4, <1>5, <1>6, SeqEqual
<1>8. Head(u) = Head(s)
  BY <1>1, <1>2, <1>4
<1> QED
  BY <1>3, <1>7, <1>8 DEF u, v

\* Accepting a job is accepting a statement younger than all there are.
LEMMA EnqueueAccepts ==
  ASSUME Inv, NEW t \in Thread, NEW kind \in AllKinds, NEW name \in Name, Enqueue(t, kind, name)
  PROVE  Store!ANext
<1> DEFINE k == Len(jobs) + 1
<1>1. TypeOK /\ OrderInv
  BY DEF Inv
<1>2. k \in JobId
  BY <1>1, Numbers, BoundsAssumption DEF Enqueue, JobId
<1>3. /\ UNCHANGED <<job, committed, completions, ready, heard, Callbacks>>
      /\ queue' = Append(queue, k)
  BY DEF Enqueue, workerVars, linkVars, replyVars, Callbacks
<1>4. \A j \in Elements(Callbacks) : jobs'[j].verdict = jobs[j].verdict
  BY <1>1, EnqueueJobs, CallbacksTyped DEF Elements
<1>5. /\ Told(ready \o completions, jobs)' = Told(ready \o completions, jobs)
      /\ Told(heard, jobs)' = Told(heard, jobs)
  BY <1>1, <1>3, <1>4, ToldKept
<1>6. \A n \in 1 .. Len(Unanswered) : Unanswered[n] \in 1 .. Len(jobs)
  <2>1. \A j \in Elements(queue) : j \in 1 .. Len(jobs)
    BY <1>1, Numbers DEF Elements
  <2>2. CASE job = 0
    BY <1>1, <2>2, UnansweredIs, Numbers
  <2>3. CASE job # 0
    BY <1>1, <2>1, <2>3, UnansweredIs, Numbers
  <2> QED
    BY <2>2, <2>3
<1>7. \A n \in 1 .. Len(Unanswered) : Unanswered[n] < k
  BY <1>1, <1>6, Numbers
<1>8. \A n \in 1 .. Len(committed) : committed[n] < k
  BY <1>1, Numbers
<1>9. Unanswered' = Append(Unanswered, k)
  <2>1. queue \in Seq(Nat) /\ k \in Nat /\ job \in Nat
    BY <1>1, UnansweredIs, Numbers
  <2> DEFINE hand == IF job = 0 THEN <<>> ELSE <<job>>
  <2>2. hand \in Seq(Nat)
    BY <2>1, EmptySeq
  <2>3. Unanswered = hand \o queue /\ Unanswered' = hand \o Append(queue, k)
    BY <1>3 DEF Unanswered
  <2> HIDE DEF hand, k
  <2>4. Append(queue, k) = queue \o <<k>> /\ <<k>> \in Seq(Nat)
    BY <2>1, AppendIsConcat
  <2>5. hand \o (queue \o <<k>>) = (hand \o queue) \o <<k>>
    BY <2>1, <2>2, <2>4, ConcatAssociative
  <2>6. hand \o queue \in Seq(Nat)
    BY <2>1, <2>2, ConcatProperties
  <2>7. Append(hand \o queue, k) = (hand \o queue) \o <<k>>
    BY <2>1, <2>6, AppendIsConcat
  <2> QED
    BY <2>3, <2>4, <2>5, <2>7
<1>10. Store!Accept(k)
  BY <1>3, <1>5, <1>7, <1>8, <1>9 DEF Store!Accept
<1> QED
  BY <1>2, <1>10 DEF Store!ANext

\* Finishing the oldest job without a result is answering it.
LEMMA FinishAnswers ==
  ASSUME Inv, NEW j \in Accepted, NEW v \in Verdicts \ {"none"}, FinishJob(j, v),
         Unanswered # <<>>, Head(Unanswered) = j, Unanswered' = Tail(Unanswered),
         jobs[j].verdict = "none",
         \A n \in 1 .. Len(Callbacks) : Callbacks[n] < j,
         v = "ok" /\ jobs[j].kind = "query" => j \in Elements(committed),
         UNCHANGED <<committed, ready, heard>>
  PROVE  Store!ANext
<1>1. TypeOK
  BY DEF Inv
<1>2. /\ \A i \in Accepted : jobs'[i].verdict = IF i = j THEN v ELSE jobs[i].verdict
      /\ j \in Nat
  BY <1>1, FinishJobType, JobTyped
<1>3. j \notin Elements(Callbacks)
  BY <1>1, <1>2, CallbacksTyped DEF Elements
<1>4. \A i \in Elements(Callbacks) : jobs'[i].verdict = jobs[i].verdict
  BY <1>1, <1>2, <1>3, CallbacksTyped DEF Elements
<1> DEFINE batch == ready \o completions
<1>5. Told(heard, jobs') = Told(heard, jobs) /\ Told(batch, jobs') = Told(batch, jobs)
  BY <1>1, <1>4, ToldKept
<1>6. Told(heard, jobs)' = Told(heard, jobs)
  BY <1>5
<1>7. CASE jobs[j].kind # "query"
  <2>1. Told(batch, jobs)' = Told(batch, jobs)
    BY <1>5, <1>7 DEF FinishJob
  <2>2. Store!Answer(FALSE)
    BY <1>6, <2>1 DEF Store!Answer
  <2> QED
    BY <2>2 DEF Store!ANext
<1>8. CASE jobs[j].kind = "query"
  <2>1. batch' = Append(batch, j)
    <3>1. ready \in Seq(Nat) /\ completions \in Seq(Nat) /\ batch \in Seq(Nat)
      BY <1>1, ToldPlaces
    <3>2. Append(completions, j) = completions \o <<j>> /\ <<j>> \in Seq(Nat)
      BY <1>2, <3>1, AppendIsConcat
    <3>3. ready \o (completions \o <<j>>) = (ready \o completions) \o <<j>>
      BY <3>1, <3>2, ConcatAssociative
    <3>4. Append(batch, j) = batch \o <<j>>
      BY <1>2, <3>1, AppendIsConcat
    <3> QED
      BY <1>8, <3>2, <3>3, <3>4 DEF FinishJob
  <2>2. Told(Append(batch, j), jobs') = Append(Told(batch, jobs'), Letter(j, jobs'))
    BY <1>1, <1>2, ToldPlaces, ToldAppend
  <2>3. Letter(j, jobs') = [job |-> j, ok |-> v = "ok"]
    BY <1>2 DEF Letter
  <2>4. Told(batch, jobs)' = Append(Told(batch, jobs), [job |-> j, ok |-> v = "ok"])
    BY <1>5, <2>1, <2>2, <2>3
  <2>5. v = "ok" => Store!Took(j)
    BY <1>8 DEF Store!Took, Elements
  <2>6. (v = "ok") \in BOOLEAN
    OBVIOUS
  <2>7. Store!Answer(v = "ok")
    BY <1>6, <2>4, <2>5 DEF Store!Answer
  <2> QED
    BY <2>6, <2>7 DEF Store!ANext
<1> QED
  BY <1>7, <1>8

\* A step that moves no job, result or callback is invisible.
LEMMA Invisible ==
  ASSUME UNCHANGED <<jobs, queue, job, committed, ready, completions, heard>>
  PROVE  UNCHANGED <<Unanswered, committed, Told(ready \o completions, jobs), Told(heard, jobs)>>
BY DEF Unanswered

\* Every step of the layer is a step of the store or invisible.
LEMMA StoreStep ==
  ASSUME ~StopInCallbacks, Inv, [Next]_vars
  PROVE  \/ Store!ANext
         \/ UNCHANGED <<Unanswered, committed, Told(ready \o completions, jobs), Told(heard, jobs)>>
<1>1. TypeOK /\ OrderInv /\ PendingInv /\ ReplyInv
  BY DEF Inv
<1>2. CASE Clients \/ PingSubmit
  BY <1>2, EnqueueAccepts, KindsAssumption, NameAssumption
  DEF Clients, Submit, PingSubmit, Thread, AllKinds
<1>3. CASE Take
  <2>1. /\ job = 0 /\ queue # <<>> /\ queue' = Tail(queue) /\ job' = Head(queue) /\ job' # 0
        /\ UNCHANGED <<jobs, committed, ready, completions, heard>>
    BY <1>1, <1>3, HeadOnce, JobTyped DEF Take, linkVars, replyVars, TypeOK, TypeWorker
  <2>2. queue \in Seq(Nat) /\ <<>> \in Seq(Nat) /\ Head(queue) \in Nat
    BY <1>1, <2>1, UnansweredIs, EmptySeq, HeadTailProperties
  <2>3. Append(<<>>, Head(queue)) \o Tail(queue) = <<>> \o queue
    BY ONLY <2>1, <2>2, MoveHead
  <2>4. Append(<<>>, Head(queue)) = <<Head(queue)>>
    BY <2>2, AppendIsConcat, ConcatEmptySeq
  <2>5. Unanswered' = Unanswered
    BY <2>1, <2>3, <2>4 DEF Unanswered
  <2> QED
    BY <2>1, <2>5
<1>4. CASE DropOne
  <2>1. /\ queue # <<>> /\ queue' = Tail(queue) /\ FinishJob(Head(queue), "shutdown")
        /\ UNCHANGED <<job, committed, heard, ready>> /\ job = 0
    BY <1>1, <1>4 DEF DropOne, workerVars, linkVars, TypeOK, TypeWorker
  <2>2. Head(queue) \in Accepted /\ Head(queue) \in Elements(queue) /\ Head(queue) = queue[1]
        /\ 1 \in 1 .. Len(queue)
    <3>1. Len(queue) \in Nat \ {0}
      BY <1>1, <2>1, UnansweredIs, EmptySeq
    <3> QED
      BY <1>1, <2>1, <3>1, HeadOnce, UnansweredIs
  <2>3. "shutdown" \in Verdicts \ {"none"} /\ jobs[Head(queue)].verdict = "none"
    BY <1>1, <2>2 DEF Verdicts, PendingInv
  <2>4. \A n \in 1 .. Len(Callbacks) : Callbacks[n] < Head(queue)
    BY <1>1, <2>2 DEF ReplyInv
  <2>5. Unanswered = queue /\ Unanswered' = Tail(queue)
    <3>1. Tail(queue) \in Seq(Nat)
      BY <1>1, <2>1, UnansweredIs, HeadTailProperties
    <3> QED
      BY <1>1, <2>1, <3>1, UnansweredIs, ConcatEmptySeq DEF Unanswered
  <2> QED
    BY <2>1, <2>2, <2>3, <2>4, <2>5, FinishAnswers
<1>5. CASE Finish
  <2>1. /\ worker = "finishing" /\ FinishJob(job, outcome) /\ job' = 0
        /\ UNCHANGED <<queue, committed, heard, ready>>
        /\ job \in Accepted /\ outcome \in Verdicts \ {"none"} /\ job # 0
    BY <1>1, <1>5 DEF Finish, queueVars, linkVars, PendingInv, TypeOK, TypeWorker
  <2>2. jobs[job].verdict = "none"
    BY <1>1, <2>1 DEF PendingInv
  <2>3. \A n \in 1 .. Len(Callbacks) : Callbacks[n] < job
    BY <1>1, <2>1 DEF ReplyInv
  <2>4. outcome = "ok" /\ jobs[job].kind = "query" => job \in Elements(committed)
    BY <2>1 DEF Inv, TruthInv
  <2>5. Unanswered # <<>> /\ Head(Unanswered) = job /\ Tail(Unanswered) = queue
    BY <1>1, <2>1, UnansweredIs
  <2>6. Unanswered' = queue
    BY <1>1, <2>1, UnansweredIs, ConcatEmptySeq DEF Unanswered
  <2> QED
    BY <2>1, <2>2, <2>3, <2>4, <2>5, <2>6, FinishAnswers
<1>6. CASE RunOk \/ RunFails \/ \E ok \in BOOLEAN : RawReturns(ok)
  <2>1. /\ worker = "running" /\ job # 0
        /\ UNCHANGED <<jobs, queue, job, ready, completions, heard>>
        /\ committed' = committed \/ committed' = Append(committed, job)
    BY <1>1, <1>6 DEF RunOk, RunFails, RawReturns, Running, queueVars, replyVars, TypeOK, TypeWorker
  <2>2. CASE committed' = committed
    BY <2>1, <2>2, Invisible
  <2>3. CASE committed' = Append(committed, job)
    <3>1. Unanswered # <<>> /\ Head(Unanswered) = job
      BY <1>1, <2>1, UnansweredIs
    <3>2. ~Store!Took(job)
      BY <1>1, <2>1, Numbers DEF Store!Took, OrderInv
    <3>3. UNCHANGED <<Unanswered, Told(ready \o completions, jobs), Told(heard, jobs)>>
      BY <2>1 DEF Unanswered
    <3>4. Store!TakeEffect
      BY <2>3, <3>1, <3>2, <3>3 DEF Store!TakeEffect
    <3> QED
      BY <3>4 DEF Store!ANext
  <2> QED
    BY <2>1, <2>2, <2>3
<1>7. CASE Joined
  <2>1. /\ UNCHANGED <<jobs, queue, job, committed, heard, ready>> /\ completions' = <<>>
        /\ worker = "exited" /\ game = "joining"
    BY <1>7 DEF Joined, queueVars, linkVars
  <2>2. queue = <<>> /\ job = 0 /\ ready = <<>>
    BY <2>1 DEF Inv, StopInv, SilentInv, TypeOK, TypeWorker, TypeGame
  <2>3. Unanswered = <<>> /\ Unanswered' = Unanswered
    BY <1>1, <2>1, <2>2, UnansweredIs DEF Unanswered
  <2>4. Told(ready \o completions, jobs)' = <<>>
    BY <2>1, <2>2, EmptySeq, ConcatEmptySeq, ToldEmpty
  <2>5. Told(heard, jobs)' = Told(heard, jobs)
    BY <2>1
  <2>6. Store!Discard
    BY <2>1, <2>3, <2>4, <2>5 DEF Store!Discard
  <2> QED
    BY <2>6 DEF Store!ANext
<1>8. CASE Dispatch
  <2>1. /\ UNCHANGED <<jobs, queue, job, committed, heard>>
        /\ ready = <<>> /\ ready' = completions /\ completions' = <<>>
    BY <1>1, <1>8 DEF Dispatch, queueVars, workerVars, linkVars, TypeOK, TypeGame
  <2>2. <<>> \o completions = completions /\ completions \o <<>> = completions
    BY <1>1, ToldPlaces, ConcatEmptySeq
  <2>3. (ready \o completions)' = ready \o completions
    BY <2>1, <2>2
  <2>4. Told(ready \o completions, jobs)' = Told(ready \o completions, jobs)
    BY <2>1, <2>3
  <2>5. Unanswered' = Unanswered /\ Told(heard, jobs)' = Told(heard, jobs)
    BY <2>1 DEF Unanswered
  <2> QED
    BY <2>1, <2>4, <2>5
<1>9. CASE Callback
  <2>1. /\ UNCHANGED <<jobs, queue, job, committed, completions>>
        /\ ready # <<>> /\ heard' = Append(heard, Head(ready)) /\ ready' = Tail(ready)
    BY <1>9 DEF Callback, queueVars, workerVars, linkVars
  <2> DEFINE batch == ready \o completions
  <2>2. /\ heard \in Seq(Nat) /\ ready \in Seq(Nat) /\ completions \in Seq(Nat)
        /\ batch \in Seq(Nat) /\ Head(ready) \in Nat
    BY <1>1, <2>1, ToldPlaces, HeadTailProperties
  <2>3. batch # <<>> /\ Head(batch) = Head(ready) /\ Tail(batch) = Tail(ready) \o completions
    BY ONLY <2>1, <2>2, HeadTailConcat
  <2>4. batch' = Tail(batch)
    BY <2>1, <2>3
  <2> HIDE DEF batch
  <2>5. /\ Told(batch, jobs) # <<>>
        /\ Head(Told(batch, jobs)) = Letter(Head(batch), jobs)
        /\ Tail(Told(batch, jobs)) = Told(Tail(batch), jobs)
    BY <2>2, <2>3, ToldTail
  <2>6. Told(Append(heard, Head(ready)), jobs) = Append(Told(heard, jobs), Letter(Head(ready), jobs))
    BY <2>2, ToldAppend
  <2>7. /\ Told(batch, jobs)' = Tail(Told(batch, jobs))
        /\ Told(heard, jobs)' = Append(Told(heard, jobs), Head(Told(batch, jobs)))
    BY <2>1, <2>3, <2>4, <2>5, <2>6
  <2>8. Unanswered' = Unanswered
    BY <2>1 DEF Unanswered
  <2>9. Store!Hear
    BY <2>1, <2>5, <2>7, <2>8 DEF Store!Hear, batch
  <2> QED
    BY <2>9 DEF Store!ANext
<1>10. CASE DropRest \/ Exit \/ Reuse \/ Reopen
  BY <1>10, Invisible DEF DropRest, Exit, Reuse, Reopen, queueVars, linkVars, replyVars
<1>11. CASE Disconnect \/ Expire \/ PingOk \/ PingFails \/ Stop \/ UNCHANGED vars
  BY <1>11, Invisible
  DEF Disconnect, Expire, PingOk, PingFails, Stop, BeginStop, queueVars, workerVars, linkVars,
      replyVars, vars
<1>12. CASE Start \/ CallbackReturns \/ EndDispatch \/ \E t \in Thread : Released(t)
  BY <1>12, Invisible
  DEF Start, CallbackReturns, EndDispatch, Released, queueVars, workerVars, linkVars, replyVars
<1> QED
  BY <1>2, <1>3, <1>4, <1>5, <1>6, <1>7, <1>8, <1>9, <1>10, <1>11, <1>12
  DEF Next, WorkerStep, GameStep, Thread

\* As long as no callback calls Stop, threads, batches and reconnections keep
\* the promise of AsyncStore: effects and answers in order and at most once, no
\* "ok" without an effect, no accepted job unanswered when answers are dropped.
THEOREM ImplementsAsyncStoreHolds ==
  ASSUME ~StopInCallbacks
  PROVE  Spec => ImplementsAsyncStore
<1>1. Init => Store!AInit
  <2> SUFFICES ASSUME Init PROVE Store!AInit
    OBVIOUS
  <2>1. /\ job = 0 /\ queue = <<>> /\ committed = <<>>
        /\ ready = <<>> /\ completions = <<>> /\ heard = <<>>
    BY DEF Init
  <2>2. <<>> \o <<>> = <<>>
    BY EmptySeq, ConcatEmptySeq
  <2>3. Unanswered = <<>>
    BY <2>1, <2>2 DEF Unanswered
  <2>4. Told(ready \o completions, jobs) = <<>> /\ Told(heard, jobs) = <<>>
    BY <2>1, <2>2, ToldEmpty
  <2> QED
    BY <2>1, <2>3, <2>4 DEF Store!AInit
<1>2. Inv /\ [Next]_vars => [Store!ANext]_(Store!avars)
  BY StoreStep DEF Store!avars
<1> QED
  BY <1>1, <1>2, InvCorrect, PTL DEF Spec, ImplementsAsyncStore, Store!ASpec

=============================================================================
