----------------------------- MODULE HttpClient ------------------------------
(* Http::HttpClient: requests that run on worker threads and complete on the    *)
(* game thread.  items is the vector of pending requests; DispatchCompletions   *)
(* walks it with the iterator it, and batch holds the completions that it has   *)
(* collected and not yet invoked.  During the walk, until the batch is empty,   *)
(* and while Stop waits, the game thread is inside this class.  A settled       *)
(* identity stands for a new request when it is posted again.                   *)
EXTENDS Integers, Sequences, Functions

CONSTANTS
  Request,        \* identities of requests under way
  CallbackVerbs   \* what a completion may do: "post" another request, or "stop" the client

ASSUME CallbackVerbsAssumption == CallbackVerbs \subseteq {"post", "stop"}

VARIABLES
  items,      \* _impl->Items
  working,    \* requests whose worker has not finished: the future is not ready
  it,         \* the iterator of DispatchCompletions' first loop, 0 outside of it
  batch,      \* the local vector ready of DispatchCompletions
  stopping,   \* whether Stop is waiting for the futures
  fate        \* what came of each request: "new", "waiting", "called" or "dropped"

httpVars == <<items, working, it, batch, stopping, fate>>

Waiting == {r \in Request : fate[r] = "waiting"}
GameThreadFree == it = 0 /\ batch = << >> /\ ~stopping

Ready(r) == r \notin working

\* Post and Get: a worker starts at once.
Post(r) ==
  /\ r \notin Waiting
  /\ items' = Append(items, r)
  /\ working' = working \cup {r}
  /\ fate' = [fate EXCEPT ![r] = "waiting"]
  /\ UNCHANGED <<it, batch, stopping>>

\* The transfer ends: with an answer, an error or its timeout.
Answer(r) ==
  /\ r \in working
  /\ working' = working \ {r}
  /\ UNCHANGED <<items, it, batch, stopping, fate>>

\* A frame's dispatch begins.
DispatchCompletions ==
  /\ GameThreadFree
  /\ it' = 1
  /\ UNCHANGED <<items, working, batch, stopping, fate>>

\* Mutant of Collect: the collected request stays in the list.
CollectKeepsItem ==
  /\ it # 0
  /\ IF it > Len(items) THEN it' = 0 /\ batch' = batch
     ELSE /\ it' = it + 1
          /\ batch' = IF Ready(items[it]) THEN Append(batch, items[it]) ELSE batch
  /\ UNCHANGED <<items, working, stopping, fate>>

\* One turn of the first loop: a request whose future is ready at this moment is taken out,
\* before any completion runs.
Collect ==
  /\ it # 0
  /\ \/ it > Len(items) /\ it' = 0 /\ UNCHANGED <<items, batch>>
     \/ /\ it <= Len(items) /\ Ready(items[it])
        /\ batch' = Append(batch, items[it])
        /\ items' = SubSeq(items, 1, it - 1) \o SubSeq(items, it + 1, Len(items))
        /\ UNCHANGED it
     \/ /\ it <= Len(items) /\ ~Ready(items[it])
        /\ it' = it + 1
        /\ UNCHANGED <<items, batch>>
  /\ UNCHANGED <<working, stopping, fate>>

\* The next completion of the batch, and what it does to the client.
Complete ==
  /\ it = 0 /\ batch # << >> /\ ~stopping
  /\ batch' = Tail(batch)
  /\ UNCHANGED it
  /\ LET called == [fate EXCEPT ![Head(batch)] = "called"] IN
     \/ fate' = called /\ UNCHANGED <<items, working, stopping>>
     \/ /\ "post" \in CallbackVerbs
        /\ \E r \in Request \ Waiting :
             /\ items' = Append(items, r)
             /\ working' = working \cup {r}
             /\ fate' = [called EXCEPT ![r] = "waiting"]
        /\ UNCHANGED stopping
     \/ /\ "stop" \in CallbackVerbs
        /\ fate' = called
        /\ stopping' = TRUE
        /\ UNCHANGED <<items, working>>

Stop ==
  /\ GameThreadFree
  /\ stopping' = TRUE
  /\ UNCHANGED <<items, working, it, batch, fate>>

\* Every future was waited for; the completions are dropped with the list.
StopReturns ==
  /\ stopping /\ \A r \in Range(items) : Ready(r)
  /\ stopping' = FALSE
  /\ items' = << >>
  /\ fate' = [r \in Request |-> IF r \in Range(items) THEN "dropped" ELSE fate[r]]
  /\ UNCHANGED <<working, it, batch>>

HttpInit ==
  /\ items = << >> /\ working = {} /\ it = 0 /\ batch = << >> /\ stopping = FALSE
  /\ fate = [r \in Request |-> "new"]

-------------------------------------------------------------------------------
\* Each request under way is in one place once: among the pending ones or in the batch being
\* dispatched, whatever completions post while the batch is walked; a settled one is in neither,
\* so that no completion runs twice and none runs for a request that Stop dropped.
EachRequestOnce ==
  LET held == items \o batch IN
    /\ IsInjective(held)
    /\ Range(held) = Waiting

=============================================================================
