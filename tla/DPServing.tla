----------------------------- MODULE DPServing -----------------------------
(***************************************************************************)
(* Serving with data parallel schedulers in processes of their own.  The   *)
(* HTTP handler registers a request with the token router and hands it to  *)
(* the RequestRouter (chitu/dp_request_router.py), whose LoadBalancer      *)
(* picks a scheduler by the statistics the schedulers report.  The service *)
(* of that scheduler (chitu/chitu_main.py) makes a task of it, wraps it so *)
(* that each of its tokens is sent to the token router, and puts it into   *)
(* the TaskPool of its worker thread.                                      *)
(*                                                                         *)
(* The worker is the serving loop modelled in Engine: here it makes the    *)
(* next token of any task of its pool, and takes finished tasks out.       *)
(***************************************************************************)
EXTENDS TokenRouter

CONSTANTS
  MaxNew,           \* [Reqs -> Nat]: max_tokens
  PartOfCharacter,  \* the <<request, position>> of tokens that decode to "\ufffd"
  MaxInflight,      \* ROUTER_MAX_INFLIGHT_PER_SCHED
  Algorithms,       \* the values of load_balancer_algorithm to consider
  MaxFailures       \* bound: schedulers that fail

ASSUME DPAssumption ==
  /\ MaxNew \in [Reqs -> Nat \ {0}]
  /\ MaxInflight \in Nat \ {0}
  /\ Algorithms \subseteq {"round_robin", "least_loaded", "power_of_two_choices"}
  /\ MaxFailures \in Nat

VARIABLES
  algorithm,        \* load_balancer_algorithm
  pendingRequests,  \* RequestRouter.pending_requests
  schedulerStats,   \* the keys of LoadBalancer.scheduler_stats in their order
  rrCounter,        \* LoadBalancer.round_robin_counter
  requestChan,      \* requests on their way to, or waiting at, a scheduler's socket
  wrappedTasks,     \* DPTokenManager.wrapped_tasks: the request whose task an id has
  pool,             \* the ids in TaskPool.pool
  task,             \* the Task of each request at each scheduler
  alive             \* [Groups -> BOOLEAN \X BOOLEAN]: the service, the worker thread

dpVars == <<algorithm, pendingRequests, schedulerStats, rrCounter, requestChan,
            wrappedTasks, pool, task, alive>>
vars == <<routerVars, dpVars>>

Init ==
  /\ RouterInit
  /\ algorithm \in Algorithms
  /\ pendingRequests = <<>>
  /\ schedulerStats = <<>>
  /\ rrCounter = 0
  /\ requestChan = [g \in Groups |-> <<>>]
  /\ wrappedTasks = [g \in Groups |-> [id \in Ids |-> NoReq]]
  /\ pool = [g \in Groups |-> {}]
  /\ task = [g \in Groups |-> [r \in Reqs |-> [made |-> 0, status |-> "Normal"]]]
  /\ alive = [g \in Groups |-> [service |-> TRUE, worker |-> TRUE]]

-----------------------------------------------------------------------------
(* HTTP handler and RequestRouter *)

\* process_dp_chat_completion
Submit(r) ==
  /\ RegisterRequest(r)
  /\ pendingRequests' = Append(pendingRequests, r)
  /\ UNCHANGED <<algorithm, schedulerStats, rrCounter, requestChan, wrappedTasks, pool, task, alive>>

\* Every report says heartbeat, and nothing ever takes an entry back.
CollectStats(g) ==
  /\ alive[g].service
  /\ g \notin ToSet(schedulerStats)
  /\ schedulerStats' = Append(schedulerStats, g)
  /\ UNCHANGED <<routerVars, algorithm, pendingRequests, rrCounter, requestChan, wrappedTasks,
                 pool, task, alive>>

\* running_requests, which counts the batches in the pipeline, is of an earlier report:
\* when a request is routed it may be anything.
Running == [ToSet(schedulerStats) -> 0 .. MaxInflight]

\* eligible_schedulers: those under the cap, or all.
Eligible(running) ==
  LET under == SelectSeq(schedulerStats, LAMBDA g : running[g] < MaxInflight)
  IN  IF under # <<>> THEN under ELSE schedulerStats

\* select_scheduler: what the algorithm may choose.
Selected(running) ==
  LET E == Eligible(running)
      n == Len(E)
      LeastOf(S) == {i \in S : \A j \in S : running[E[i]] <= running[E[j]]}
  IN  CASE n = 0 -> {}
        [] n > 0 /\ algorithm = "round_robin" -> {E[(rrCounter % n) + 1]}
        [] n > 0 /\ algorithm = "least_loaded" ->
             LET least == LeastOf(1 .. n)
             IN  {E[i] : i \in {j \in least : \A k \in least : j <= k}}
        [] n = 1 /\ algorithm = "power_of_two_choices" -> {E[1]}
        [] n > 1 /\ algorithm = "power_of_two_choices" ->
             {E[i] : i \in UNION {LeastOf(S) : S \in kSubset(2, 1 .. n)}}

SelectScheduler == UNION {Selected(running) : running \in Running}

\* A slip: the request is put back also when it has been sent.
RouteAndPushBack ==
  /\ pendingRequests # <<>>
  /\ \E g \in SelectScheduler :
       requestChan' = [requestChan EXCEPT ![g] = Append(@, Head(pendingRequests))]
  /\ rrCounter < 2
  /\ rrCounter' = rrCounter + 1
  /\ UNCHANGED <<routerVars, algorithm, pendingRequests, schedulerStats, wrappedTasks, pool, task,
                 alive>>

\* A request no scheduler can take stays at the head of the queue.
RouteRequest ==
  /\ pendingRequests # <<>>
  /\ \E g \in SelectScheduler :
       requestChan' = [requestChan EXCEPT ![g] = Append(@, Head(pendingRequests))]
  /\ pendingRequests' = Tail(pendingRequests)
  /\ rrCounter' = IF algorithm = "round_robin" THEN rrCounter + 1 ELSE rrCounter
  /\ UNCHANGED <<routerVars, algorithm, schedulerStats, wrappedTasks, pool, task, alive>>

\* _send_request logs an exception of the packing or the socket; the request is gone.
SendFails ==
  /\ pendingRequests # <<>> /\ SelectScheduler # {}
  /\ pendingRequests' = Tail(pendingRequests)
  /\ rrCounter' = IF algorithm = "round_robin" THEN rrCounter + 1 ELSE rrCounter
  /\ UNCHANGED <<routerVars, algorithm, schedulerStats, requestChan, wrappedTasks, pool, task, alive>>

-----------------------------------------------------------------------------
(* The scheduler process *)

\* wrap_task gives an id that has been wrapped before the wrapper it had then.
WrapTask(g, r) == IF wrappedTasks[g][idOf[r]] = NoReq THEN r ELSE wrappedTasks[g][idOf[r]]

\* process_scheduler_request.  TaskPool.add does nothing for an id in the pool.
ReceiveRequest(g) ==
  /\ alive[g].service
  /\ requestChan[g] # <<>>
  /\ LET r == Head(requestChan[g])
     IN  /\ wrappedTasks' = [wrappedTasks EXCEPT ![g][idOf[r]] = WrapTask(g, r)]
         /\ pool' = [pool EXCEPT ![g] = @ \cup {idOf[r]}]
  /\ requestChan' = [requestChan EXCEPT ![g] = Tail(@)]
  /\ UNCHANGED <<routerVars, algorithm, pendingRequests, schedulerStats, rrCounter, task, alive>>

TaskOf(g, id) == wrappedTasks[g][id]

\* _send_token_to_router: the token, then a finish if the task has stopped by then.
\* The caller updates the status of the task after this, so no finish is sent.
SendToken(g, t, pos) ==
  LET piece == [of |-> t, pos |-> pos, whole |-> <<t, pos>> \notin PartOfCharacter]
      sent == SendData(sendQueue[g], TokenMessage(idOf[t], piece))
  IN  sendQueue' = [sendQueue EXCEPT ![g] = IF task[g][t].status = "Normal" THEN sent
                                            ELSE SendData(sent, FinishMessage(idOf[t], "stop"))]

\* A step of the worker for one task of its batch; the last token of an answer is
\* the one that ends it or the one that reaches max_tokens.
WorkerToken(g, id) ==
  /\ alive[g].worker /\ id \in pool[g]
  /\ LET t == TaskOf(g, id)
         made == task[g][t].made + 1
     IN  /\ task[g][t].status = "Normal"
         /\ SendToken(g, t, made)
         /\ \E last \in BOOLEAN :
              /\ made = MaxNew[t] => last
              /\ task' = [task EXCEPT ![g][t] = [made |-> made, status |-> IF last THEN "Stopped"
                                                                            ELSE "Normal"]]
  /\ UNCHANGED <<idOf, registered, activeRequests, streams, algorithm, pendingRequests, schedulerStats,
                 rrCounter, requestChan, wrappedTasks, pool, alive>>

\* A slip: the task is finished, its id stays in the pool.
WorkerUpdateKeeping(g, id) ==
  /\ alive[g].worker /\ id \in pool[g]
  /\ task[g][TaskOf(g, id)].status = "Stopped"
  /\ task' = [task EXCEPT ![g][TaskOf(g, id)].status = "Removed"]
  /\ UNCHANGED <<routerVars, algorithm, pendingRequests, schedulerStats, rrCounter, requestChan,
                 wrappedTasks, pool, alive>>

\* Scheduler.update looks at the tasks of the batch only: a task that comes back to
\* the pool after it was removed is never scheduled and never removed again.
WorkerUpdate(g, id) ==
  /\ alive[g].worker /\ id \in pool[g]
  /\ task[g][TaskOf(g, id)].status = "Stopped"
  /\ task' = [task EXCEPT ![g][TaskOf(g, id)].status = "Removed"]
  /\ pool' = [pool EXCEPT ![g] = @ \ {id}]
  /\ UNCHANGED <<routerVars, algorithm, pendingRequests, schedulerStats, rrCounter, requestChan,
                 wrappedTasks, alive>>

Failed == {g \in Groups : ~alive[g].worker}

\* An exception ends the worker thread; the service goes on receiving and reporting.
WorkerDies(g) ==
  /\ g \notin Failed /\ Cardinality(Failed) < MaxFailures
  /\ alive' = [alive EXCEPT ![g].worker = FALSE]
  /\ UNCHANGED <<routerVars, algorithm, pendingRequests, schedulerStats, rrCounter, requestChan,
                 wrappedTasks, pool, task>>

\* The process dies with the messages its sender had queued.
SchedulerDies(g) ==
  /\ g \notin Failed /\ Cardinality(Failed) < MaxFailures
  /\ alive' = [alive EXCEPT ![g] = [service |-> FALSE, worker |-> FALSE]]
  /\ sendQueue' = [sendQueue EXCEPT ![g] = <<>>]
  /\ UNCHANGED <<idOf, registered, activeRequests, streams, algorithm, pendingRequests, schedulerStats,
                 rrCounter, requestChan, wrappedTasks, pool, task>>

-----------------------------------------------------------------------------
TokenRouterStep == RouterNext /\ UNCHANGED dpVars

Next ==
  \/ \E r \in Reqs : Submit(r)
  \/ RouteRequest \/ SendFails
  \/ \E g \in Groups :
       \/ CollectStats(g) \/ ReceiveRequest(g)
       \/ WorkerDies(g) \/ SchedulerDies(g)
       \/ \E id \in Ids : WorkerToken(g, id) \/ WorkerUpdate(g, id)
  \/ TokenRouterStep

Spec == Init /\ [][Next]_vars

\* The cleanup task wakes up every minute for ever; nothing else is assumed.
FairSpec == Spec /\ \A id \in Ids : WF_vars(Cleanup(id) /\ UNCHANGED dpVars)
-----------------------------------------------------------------------------
TypeOK ==
  /\ RouterTypeOK
  /\ pendingRequests \in Seq(registered)
  /\ schedulerStats \in Seq(Groups) /\ IsInjective(schedulerStats)
  /\ \A g \in Groups :
       /\ requestChan[g] \in Seq(registered)
       /\ wrappedTasks[g] \in [Ids -> registered \cup {NoReq}]
       /\ \A id \in pool[g] : wrappedTasks[g][id] # NoReq
  /\ task \in [Groups -> [Reqs -> [made : Nat, status : {"Normal", "Stopped", "Removed"}]]]

\* A request that has arrived at a scheduler under an id of its own is in the pool of
\* its worker until it is finished, and then gone: TaskPool.add, which drops an id it
\* knows without a word, and wrap_task, which hands out old wrappers, never strand it.
PoolHoldsUnfinished ==
  \A g \in Groups : \A r \in Unshared :
    wrappedTasks[g][idOf[r]] = r => (idOf[r] \in pool[g] <=> task[g][r].status # "Removed")

\* Whatever fails, the client's connection ends: a request that was lost, sent to a
\* scheduler that died or had its tokens dropped is stopped by the cleanup.
EveryStreamStops == \A r \in Reqs : r \in registered \cap Unshared ~> streams[r].stop
=============================================================================
