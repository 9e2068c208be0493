-------------------------- MODULE PostgresDatabase --------------------------
(***************************************************************************)
(* Database::PostgresDatabase: a job queue under _queueMutex, one worker   *)
(* thread that owns the only connection, and completions that travel back  *)
(* to the game thread under _completionMutex.  The game thread starts and  *)
(* stops the layer and runs callbacks; it and any helper thread the plugin *)
(* owns may submit jobs.  The server's side is external: it commits, loses *)
(* the socket, refuses to connect, or commits and loses the reply.         *)
(***************************************************************************)
EXTENDS Naturals, Sequences

CONSTANTS
  Game,            \* the game thread
  Helpers,         \* other threads that submit jobs
  Kinds,           \* the kinds of job clients submit
  Name, Ping,      \* prepared-statement names; the one Start's ping uses
  StopInCallbacks, \* TRUE: a completion callback may call Stop
  MaxJobs,         \* bound: jobs a behaviour accepts, pings included
  MaxStarts        \* bound: times the layer is started

AllKinds == {"query", "exec", "blocking", "raw"}

ASSUME KindsAssumption == Kinds \subseteq AllKinds
ASSUME GameAssumption == Game \notin Helpers
ASSUME NameAssumption == Ping \in Name
ASSUME BoundsAssumption == MaxJobs \in Nat /\ MaxStarts \in Nat

VARIABLES
  jobs,        \* every accepted job: [kind, name, verdict], by job number
  queue,       \* _queue, as job numbers
  accepting, stopping,
  expired,     \* the steady clock has reached _drainDeadline
  worker,      \* where WorkerMain is; "none" when _worker is not joinable
  job,         \* WorkerMain's local job, or 0
  outcome,     \* the result RunJob or the raw body handed to FinishJob
  conn,        \* _connection: "none", "open", "lost" (is_open() lies), "closed"
  prepared,    \* _prepared
  known,       \* names prepared in the server's session (external)
  committed,   \* jobs whose effects the server has committed, in order (external)
  completions, \* _completions, as job numbers
  ready,       \* DispatchCompletions' local batch, what is left of it
  heard,       \* jobs whose callback has been called, in order
  discarded,   \* jobs whose callback Stop destroyed unrun
  game,        \* where the game thread is
  resume,      \* where it continues after Stop
  pump,        \* the per-frame pump is registered
  blocked,     \* thread -> the job whose Waiter it waits on, or 0
  starts,      \* number of Start calls that spawned a worker
  since        \* jobs accepted before the last of them

queueVars == <<queue, accepting, stopping, expired>>
workerVars == <<worker, job, outcome>>
linkVars == <<conn, prepared, known, committed>>
replyVars == <<completions, ready, heard, discarded>>
gameVars == <<game, resume, pump, starts, since>>
vars == <<jobs, queueVars, workerVars, linkVars, replyVars, gameVars, blocked>>

Thread == Helpers \cup {Game}
JobId == 1 .. MaxJobs
Verdicts == {"none", "ok", "no", "failed", "no connection", "shutdown"}
Waits(kind) == kind \in {"blocking", "raw"}
Accepted == DOMAIN jobs

-----------------------------------------------------------------------------
(* Submitting: Query, Exec, QueryBlocking, WithConnection.  A submission    *)
(* while the layer does not accept returns at once and changes nothing.     *)

\* The thread runs client code: game code and callbacks on the game thread.
Free(t) == blocked[t] = 0 /\ (t = Game => game \in {"idle", "callback"})

Enqueue(t, kind, name) ==
  /\ accepting
  /\ Len(jobs) < MaxJobs
  /\ jobs' = Append(jobs, [kind |-> kind, name |-> name, verdict |-> "none"])
  /\ queue' = Append(queue, Len(jobs) + 1)
  /\ blocked' = IF Waits(kind) THEN [blocked EXCEPT ![t] = Len(jobs) + 1] ELSE blocked
  /\ UNCHANGED <<accepting, stopping, expired, workerVars, linkVars, replyVars>>

\* Bound: the last job number is left to a ping that Start is about to submit.
Submit(t, kind, name) ==
  /\ Free(t)
  /\ game = "ping" /\ blocked[Game] = 0 => Len(jobs) + 1 < MaxJobs
  /\ Enqueue(t, kind, name)
  /\ UNCHANGED gameVars

\* A blocked thread sees its Waiter Done.
Released(t) ==
  /\ blocked[t] # 0
  /\ jobs[blocked[t]].verdict # "none"
  /\ game = "ping" => t # Game
  /\ blocked' = [blocked EXCEPT ![t] = 0]
  /\ UNCHANGED <<jobs, queueVars, workerVars, linkVars, replyVars, gameVars>>

-----------------------------------------------------------------------------
(* WorkerMain.                                                             *)

\* FinishJob: release the waiter or queue the callback with its result.
FinishJob(j, verdict) ==
  /\ jobs' = [jobs EXCEPT ![j] = [kind |-> @.kind, name |-> @.name, verdict |-> verdict]]
  /\ completions' = IF jobs[j].kind = "query" THEN Append(completions, j) ELSE completions

Take ==
  /\ worker = "idle"
  /\ queue # <<>>
  /\ ~(stopping /\ expired)
  /\ job' = Head(queue)
  /\ queue' = Tail(queue)
  /\ worker' = "opening"
  /\ UNCHANGED <<jobs, accepting, stopping, expired, outcome, linkVars, replyVars, gameVars, blocked>>

\* Past the deadline the worker keeps _queueMutex and finishes what is left.
DropRest ==
  /\ worker = "idle"
  /\ queue # <<>>
  /\ stopping /\ expired
  /\ worker' = "dropping"
  /\ UNCHANGED <<jobs, queueVars, job, outcome, linkVars, replyVars, gameVars, blocked>>

DropOne ==
  /\ worker = "dropping"
  /\ queue # <<>>
  /\ FinishJob(Head(queue), "shutdown")
  /\ queue' = Tail(queue)
  /\ UNCHANGED <<accepting, stopping, expired, workerVars, linkVars, ready, heard, discarded,
                 gameVars, blocked>>

\* Mutant of Exit: the worker leaves as soon as it is told to stop.
ExitAtOnce ==
  /\ worker = "idle" /\ stopping
  /\ worker' = "exited"
  /\ conn' = "none" /\ prepared' = {} /\ known' = {}
  /\ UNCHANGED <<jobs, queueVars, job, outcome, committed, replyVars, gameVars, blocked>>

Exit ==
  /\ worker \in {"idle", "dropping"}
  /\ queue = <<>> /\ stopping
  /\ worker' = "exited"
  /\ conn' = "none" /\ prepared' = {} /\ known' = {}
  /\ UNCHANGED <<jobs, queueVars, job, outcome, committed, replyVars, gameVars, blocked>>

\* EnsureOpen trusts is_open(); a new session has nothing prepared.
Reuse ==
  /\ worker = "opening"
  /\ conn \in {"open", "lost"}
  /\ worker' = "running"
  /\ UNCHANGED <<jobs, queueVars, job, outcome, linkVars, replyVars, gameVars, blocked>>

Reopen ==
  /\ worker = "opening"
  /\ conn \in {"none", "closed"}
  /\ prepared' = {} /\ known' = {}
  /\ \/ conn' = "open" /\ worker' = "running" /\ UNCHANGED outcome
     \/ conn' = "none" /\ worker' = "finishing" /\ outcome' = "no connection"
  /\ UNCHANGED <<jobs, queueVars, job, committed, replyVars, gameVars, blocked>>

Running == worker = "running" /\ worker' = "finishing"

\* RunJob: prepare on first use, execute, commit.
RunOk ==
  /\ Running
  /\ jobs[job].kind # "raw"
  /\ conn = "open"
  /\ jobs[job].name \in prepared => jobs[job].name \in known
  /\ outcome' = "ok"
  /\ prepared' = prepared \cup {jobs[job].name}
  /\ known' = known \cup {jobs[job].name}
  /\ committed' = Append(committed, job)
  /\ UNCHANGED <<jobs, queueVars, job, conn, replyVars, gameVars, blocked>>

\* Any exception: the statement failed, or the socket did, before or after the
\* server committed.  The connection is dropped, the cache is left for the
\* next EnsureOpen to clear.  A raw body that throws ends the same way.
RunFails ==
  /\ Running
  /\ outcome' = "failed"
  /\ conn' = "none" /\ known' = {}
  /\ \/ prepared' = prepared
     \/ conn = "open" /\ jobs[job].kind # "raw" /\ prepared' = prepared \cup {jobs[job].name}
  /\ \/ committed' = committed
     \/ conn = "open" /\ committed' = Append(committed, job)
  /\ UNCHANGED <<jobs, queueVars, job, replyVars, gameVars, blocked>>

\* WithConnection's body returns true or false, having committed or not.
RawReturns(ok) ==
  /\ Running
  /\ jobs[job].kind = "raw"
  /\ conn = "open"
  /\ outcome' = IF ok THEN "ok" ELSE "no"
  /\ committed' \in {committed, Append(committed, job)}
  /\ UNCHANGED <<jobs, queueVars, job, conn, prepared, known, replyVars, gameVars, blocked>>

\* Mutant of Finish: a failed job is retried, although it may have committed.
FinishRetries ==
  /\ worker = "finishing"
  /\ IF outcome = "failed"
     THEN queue' = <<job>> \o queue /\ UNCHANGED <<jobs, completions>>
     ELSE FinishJob(job, outcome) /\ UNCHANGED queue
  /\ worker' = "idle" /\ job' = 0 /\ outcome' = "none"
  /\ UNCHANGED <<accepting, stopping, expired, linkVars, ready, heard, discarded, gameVars, blocked>>

Finish ==
  /\ worker = "finishing"
  /\ FinishJob(job, outcome)
  /\ worker' = "idle" /\ job' = 0 /\ outcome' = "none"
  /\ UNCHANGED <<queueVars, linkVars, ready, heard, discarded, gameVars, blocked>>

\* The server goes away, or the socket does; is_open() may not notice.
Disconnect ==
  /\ conn \in {"open", "lost"}
  /\ worker # "running"
  /\ conn' \in {"lost", "closed"} \ {conn}
  /\ known' = {}
  /\ UNCHANGED <<jobs, queueVars, workerVars, prepared, committed, replyVars, gameVars, blocked>>

-----------------------------------------------------------------------------
(* Start and Stop, on the game thread.                                     *)

\* A second Start while the worker is joinable returns and changes nothing.
Start ==
  /\ game = "idle" /\ blocked[Game] = 0
  /\ worker = "none"
  /\ starts < MaxStarts /\ Len(jobs) < MaxJobs
  /\ accepting' = TRUE /\ stopping' = FALSE
  /\ worker' = "idle"
  /\ game' = "ping"
  /\ starts' = starts + 1
  /\ since' = Len(jobs)
  /\ UNCHANGED <<jobs, queue, expired, job, outcome, linkVars, replyVars, resume, pump, blocked>>

\* QueryBlocking("db_ping", "SELECT 1").
PingSubmit ==
  /\ game = "ping" /\ blocked[Game] = 0
  /\ Enqueue(Game, "blocking", Ping)
  /\ UNCHANGED gameVars

PingAnswered == game = "ping" /\ blocked[Game] # 0 /\ jobs[blocked[Game]].verdict # "none"

PingOk ==
  /\ PingAnswered
  /\ jobs[blocked[Game]].verdict = "ok"
  /\ blocked' = [blocked EXCEPT ![Game] = 0]
  /\ pump' = TRUE
  /\ game' = "idle"
  /\ UNCHANGED <<jobs, queueVars, workerVars, linkVars, replyVars, resume, starts, since>>

\* Mutant of BeginStop: _stopping is not set.
BeginStopQuietly(next) ==
  /\ accepting' = FALSE /\ expired' = FALSE
  /\ game' = "joining" /\ resume' = next
  /\ UNCHANGED <<jobs, queue, stopping, workerVars, linkVars, replyVars, pump, starts, since>>

\* Stop's first half: refuse new jobs, set the deadline, wake the worker.
BeginStop(next) ==
  /\ accepting' = FALSE /\ stopping' = TRUE /\ expired' = FALSE
  /\ game' = "joining" /\ resume' = next
  /\ UNCHANGED <<jobs, queue, workerVars, linkVars, replyVars, pump, starts, since>>

PingFails ==
  /\ PingAnswered
  /\ jobs[blocked[Game]].verdict # "ok"
  /\ blocked' = [blocked EXCEPT ![Game] = 0]
  /\ BeginStop("idle")

Stop ==
  /\ game \in (IF StopInCallbacks THEN {"idle", "callback"} ELSE {"idle"})
  /\ blocked[Game] = 0
  /\ worker # "none" \/ accepting
  /\ BeginStop(game)
  /\ UNCHANGED blocked

Expire ==
  /\ game = "joining" /\ ~expired
  /\ expired' = TRUE
  /\ UNCHANGED <<jobs, queue, accepting, stopping, workerVars, linkVars, replyVars, gameVars, blocked>>

\* The join returns; the pump is cancelled and completions are destroyed.
Joined ==
  /\ game = "joining" /\ worker = "exited"
  /\ worker' = "none"
  /\ pump' = FALSE
  /\ completions' = <<>>
  /\ discarded' = discarded \cup {completions[n] : n \in 1 .. Len(completions)}
  /\ game' = resume /\ resume' = "idle"
  /\ UNCHANGED <<jobs, queueVars, job, outcome, linkVars, ready, heard, starts, since, blocked>>

-----------------------------------------------------------------------------
(* DispatchCompletions, from the pump.                                     *)

\* Mutant of Dispatch: the batch is copied, not swapped out.
DispatchCopies ==
  /\ game = "idle" /\ blocked[Game] = 0 /\ pump
  /\ completions # <<>>
  /\ ready' = completions
  /\ game' = "dispatch"
  /\ UNCHANGED <<jobs, queueVars, workerVars, linkVars, completions, heard, discarded, resume,
                 pump, starts, since, blocked>>

Dispatch ==
  /\ game = "idle" /\ blocked[Game] = 0 /\ pump
  /\ completions # <<>>
  /\ ready' = completions /\ completions' = <<>>
  /\ game' = "dispatch"
  /\ UNCHANGED <<jobs, queueVars, workerVars, linkVars, heard, discarded, resume, pump, starts,
                 since, blocked>>

Callback ==
  /\ game = "dispatch" /\ ready # <<>>
  /\ heard' = Append(heard, Head(ready))
  /\ ready' = Tail(ready)
  /\ game' = "callback"
  /\ UNCHANGED <<jobs, queueVars, workerVars, linkVars, completions, discarded, resume, pump,
                 starts, since, blocked>>

CallbackReturns ==
  /\ game = "callback" /\ blocked[Game] = 0
  /\ game' = "dispatch"
  /\ UNCHANGED <<jobs, queueVars, workerVars, linkVars, replyVars, resume, pump, starts, since,
                 blocked>>

EndDispatch ==
  /\ game = "dispatch" /\ ready = <<>>
  /\ game' = "idle"
  /\ UNCHANGED <<jobs, queueVars, workerVars, linkVars, replyVars, resume, pump, starts, since,
                 blocked>>

-----------------------------------------------------------------------------

Init ==
  /\ jobs = <<>> /\ queue = <<>>
  /\ accepting = FALSE /\ stopping = FALSE /\ expired = FALSE
  /\ worker = "none" /\ job = 0 /\ outcome = "none"
  /\ conn = "none" /\ prepared = {} /\ known = {} /\ committed = <<>>
  /\ completions = <<>> /\ ready = <<>> /\ heard = <<>> /\ discarded = {}
  /\ game = "idle" /\ resume = "idle" /\ pump = FALSE
  /\ blocked = [t \in Thread |-> 0]
  /\ starts = 0 /\ since = 0

\* The name of a raw body is only a log label.
Clients ==
  \E t \in Thread :
    \/ \E kind \in Kinds \ {"raw"}, name \in Name : Submit(t, kind, name)
    \/ "raw" \in Kinds /\ Submit(t, "raw", Ping)

WorkerStep ==
  \/ Take \/ DropRest \/ DropOne \/ Exit
  \/ Reuse \/ Reopen
  \/ RunOk \/ RunFails \/ \E ok \in BOOLEAN : RawReturns(ok)
  \/ Finish

\* Steps the game thread takes without a client asking for them.
GameStep ==
  \/ PingSubmit \/ PingOk \/ PingFails \/ Joined
  \/ Dispatch \/ Callback \/ CallbackReturns \/ EndDispatch
  \/ Released(Game)

Next ==
  \/ Clients \/ WorkerStep \/ GameStep
  \/ \E t \in Helpers : Released(t)
  \/ Start \/ Stop
  \/ Expire \/ Disconnect

\* Threads run; connect_timeout bounds a connection attempt and statements are
\* taken to return; the engine keeps calling OnGameFrame, which pumps.
Fairness ==
  /\ WF_vars(WorkerStep)
  /\ WF_vars(GameStep)
  /\ \A t \in Helpers : WF_vars(Released(t))

Spec == Init /\ [][Next]_vars /\ Fairness

-----------------------------------------------------------------------------

Elements(s) == {s[n] : n \in 1 .. Len(s)}
Increasing(s) == \A m, n \in 1 .. Len(s) : m < n => s[m] < s[n]
JobType == [kind : AllKinds, name : Name, verdict : Verdicts]

TypeJobs ==
  /\ jobs \in Seq(JobType)
  /\ Len(jobs) \in 0 .. MaxJobs /\ since \in 0 .. Len(jobs) /\ starts \in 0 .. MaxStarts
TypeQueue ==
  /\ queue \in Seq(Accepted)
  /\ accepting \in BOOLEAN /\ stopping \in BOOLEAN /\ expired \in BOOLEAN
TypeWorker ==
  /\ worker \in {"none", "idle", "opening", "running", "finishing", "dropping", "exited"}
  /\ job \in Accepted \cup {0} /\ (job # 0 <=> worker \in {"opening", "running", "finishing"})
  /\ outcome \in Verdicts
TypeLink ==
  /\ conn \in {"none", "open", "lost", "closed"}
  /\ prepared \subseteq Name /\ known \subseteq Name
  /\ committed \in Seq(Accepted)
TypeReplies ==
  /\ completions \in Seq(Accepted) /\ ready \in Seq(Accepted) /\ heard \in Seq(Accepted)
  /\ discarded \subseteq Accepted
TypeGame ==
  /\ game \in {"idle", "ping", "joining", "dispatch", "callback"}
  /\ ready # <<>> => game \in {"dispatch", "callback"} \/ (game = "joining" /\ resume = "callback")
  /\ resume \in {"idle", "callback"} /\ pump \in BOOLEAN
  /\ blocked \in [Thread -> Accepted \cup {0}]

\* Types; a job is in hand exactly while the worker runs one; a batch exists
\* only inside DispatchCompletions.
TypeOK == TypeJobs /\ TypeQueue /\ TypeWorker /\ TypeLink /\ TypeReplies /\ TypeGame

\* "Jobs run FIFO, so a write enqueued before a read is visible to it": effects
\* reach the server in the order of acceptance and no job takes effect twice,
\* reconnections, lost replies and restarts included.
CommitsInOrder == Increasing(committed)

\* A result never lies about a statement: success means the server committed
\* it, and a job that got no connection or was dropped had no effect.  (A
\* failure leaves it open: the reply to a commit may be lost.)
ResultsAreTrue ==
  \A j \in Accepted :
    /\ jobs[j].verdict = "ok" /\ jobs[j].kind # "raw" => j \in Elements(committed)
    /\ jobs[j].verdict \in {"no connection", "shutdown"} => j \notin Elements(committed)

\* The queries whose callback has been called or may still be, in that order.
Callbacks == (heard \o ready) \o completions

\* An accepted job is with the worker or has a result, and the callback of a
\* Query with a result is in exactly one place: waiting for the pump, in the
\* batch being dispatched, called, or destroyed by Stop.  Callbacks are called
\* in the order of acceptance, none of them twice.
NothingIsLost ==
  /\ \A j \in Accepted : jobs[j].verdict = "none" <=> j = job \/ j \in Elements(queue)
  /\ \A j \in Accepted : jobs[j].kind = "query" /\ jobs[j].verdict # "none" =>
        (j \in Elements(Callbacks) <=> j \notin discarded)
  /\ Increasing(Callbacks)

\* The statement cache never outlives the server's session: what _prepared
\* says is prepared is prepared, so a reconnection cannot fail every job.
PreparedAreKnown == worker = "running" /\ conn = "open" => prepared \subseteq known

\* What the server did, what the results say and what the callbacks hear agree,
\* and the worker knows which session it is in.
StatementsAreSafe == CommitsInOrder /\ ResultsAreTrue /\ NothingIsLost /\ PreparedAreKnown

\* When Stop returns the worker is gone, every job of this run has a result,
\* no callback is left to be pumped, and jobs were dropped only because the
\* deadline passed: "a ban written just before unload must land".
StopSettles ==
  [][Joined =>
       /\ queue = <<>> /\ ~accepting
       /\ completions' = <<>> /\ ~pump'
       /\ \A j \in Accepted : j > since =>
            /\ jobs[j].verdict # "none"
            /\ jobs[j].verdict = "shutdown" => expired]_vars

\* No callback runs outside a run of the layer: "undispatched completions are
\* destroyed unrun - the state they would touch is going away".
StoppedIsSilent == [][heard' # heard => worker # "none"]_vars

\* Stop is final: all is settled when it returns, and nothing is heard after it.
StopIsFinal == StopSettles /\ StoppedIsSilent

\* A thread that waits for a result is released, by an answer or by Stop, with
\* the database up or down.
BlockedAreReleased == \A t \in Thread : blocked[t] # 0 ~> blocked[t] = 0

\* Stop returns, also when the database cannot be reached.
StopReturns == game = "joining" ~> game # "joining"

\* The callback of every accepted Query is called, unless Stop comes first.
CallbacksArrive ==
  \A j \in JobId :
    (j \in Accepted /\ j > since /\ jobs[j].kind = "query")
      ~> (j \in Elements(heard) \/ worker = "none")

\* Nobody waits for ever, whatever fails: not a thread for a result, not Stop
\* for the worker, not a callback for its turn.
WaitsEnd == BlockedAreReleased /\ StopReturns /\ CallbacksArrive

\* The jobs nobody has a result of yet, and what callbacks are told.
Unanswered == (IF job = 0 THEN <<>> ELSE <<job>>) \o queue
Told(s, results) ==
  [n \in 1 .. Len(s) |-> [job |-> s[n], ok |-> results[s[n]].verdict = "ok"]]

\* The whole layer keeps the promise made to its clients.
Store ==
  INSTANCE AsyncStore
    WITH Statement <- JobId, pending <- Unanswered, effective <- committed,
         answers <- Told(ready \o completions, jobs), heard <- Told(heard, jobs)
ImplementsAsyncStore == Store!ASpec

=============================================================================
