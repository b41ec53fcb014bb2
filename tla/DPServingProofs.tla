-------------------------- MODULE DPServingProofs --------------------------
(***************************************************************************)
(* Facts about serving with data parallel schedulers for any number of     *)
(* requests, ids, schedulers and failures.  A request is on its way to one *)
(* scheduler at most, and on its way no more once a scheduler has it: what *)
(* TaskPool.add and wrap_task do with an id they know already can only     *)
(* concern a second request of that id.                                    *)
(***************************************************************************)
EXTENDS DPServing, TokenRouterProofs

TaskRecords == [made : Nat, status : {"Normal", "Stopped", "Removed"}]

DPTypes ==
  /\ pendingRequests \in Seq(registered)
  /\ schedulerStats \in Seq(Groups) /\ IsInjective(schedulerStats)
  /\ requestChan \in [Groups -> Seq(registered)]
  /\ wrappedTasks \in [Groups -> [Ids -> registered \cup {NoReq}]]
  /\ pool \in [Groups -> SUBSET Ids]
  /\ task \in [Groups -> [Reqs -> TaskRecords]]
  /\ alive \in [Groups -> [service : BOOLEAN, worker : BOOLEAN]]

\* The id of a task in the pool has been wrapped, for a request of that id.
PoolWrapped == \A g \in Groups : \A id \in pool[g] : wrappedTasks[g][id] # NoReq

WrappedOwn ==
  \A g \in Groups : \A id \in Ids :
    wrappedTasks[g][id] # NoReq => idOf[wrappedTasks[g][id]] = id

\* A request is in one place on its way, once.
SentOnce ==
  /\ IsInjective(pendingRequests)
  /\ \A g \in Groups :
       /\ IsInjective(requestChan[g])
       /\ ToSet(requestChan[g]) \cap ToSet(pendingRequests) = {}
       /\ \A k \in Groups \ {g} : ToSet(requestChan[g]) \cap ToSet(requestChan[k]) = {}

\* While it is on its way no scheduler has it.
NotYetWrapped ==
  \A k \in Groups, r \in Reqs :
    wrappedTasks[k][idOf[r]] = r =>
      /\ r \notin ToSet(pendingRequests)
      /\ \A g \in Groups : r \notin ToSet(requestChan[g])

\* The task of a request that has not arrived has not been touched.
FreshTask ==
  \A g \in Groups, r \in Reqs : wrappedTasks[g][idOf[r]] # r => task[g][r].status = "Normal"

IInv ==
  /\ RouterIInv
  /\ DPTypes /\ PoolWrapped /\ WrappedOwn
  /\ SentOnce /\ NotYetWrapped /\ FreshTask
  /\ PoolHoldsUnfinished

-----------------------------------------------------------------------------
\* A step of the router, or of the sender, leaves the rest of the system as it was.
LEMMA RouterStepIInv ==
  ASSUME IInv, RouterIInv', UNCHANGED <<idOf, registered, dpVars>>
  PROVE  IInv'
  BY DEF IInv, DPTypes, PoolWrapped, WrappedOwn, SentOnce, NotYetWrapped, FreshTask,
     PoolHoldsUnfinished, Unshared, dpVars

-----------------------------------------------------------------------------
\* Nothing is on its way at first.
LEMMA InitIInv == ASSUME Init PROVE IInv
<1>1. RouterIInv
  BY RouterInitIInv DEF Init
<1>2. <<>> \in Seq(registered) /\ <<>> \in Seq(Groups) /\ ToSet(<<>>) = {} /\ IsInjective(<<>>)
  <2>1. DOMAIN <<>> = {}
    OBVIOUS
  <2> QED
    BY <2>1, EmptySeq DEF ToSet, IsInjective
<1>3. DPTypes
  BY <1>2 DEF Init, DPTypes, TaskRecords
<1>4. NoReq \notin Reqs
  BY NoReqAssumption
<1>5. idOf \in [Reqs -> Ids]
  BY <1>1 DEF RouterIInv, RouterTypes
<1>6. \A g \in Groups, id \in Ids : wrappedTasks[g][id] = NoReq
  BY DEF Init
<1>7. PoolWrapped /\ WrappedOwn
  BY <1>6 DEF Init, PoolWrapped, WrappedOwn
<1>8. SentOnce
  BY <1>2 DEF Init, SentOnce
<1>9. NotYetWrapped /\ PoolHoldsUnfinished
  BY <1>4, <1>5, <1>6 DEF NotYetWrapped, PoolHoldsUnfinished, Unshared
<1>10. FreshTask
  BY DEF Init, FreshTask
<1> QED
  BY <1>1, <1>3, <1>7, <1>8, <1>9, <1>10 DEF IInv

\* A new request has been nowhere before: what is on its way, or at a scheduler, is
\* registered.
LEMMA SubmitIInv ==
  ASSUME IInv, NEW r \in Reqs, Submit(r)
  PROVE  IInv' /\ KeepsStopped
<1>1. RouterIInv' /\ KeepsStopped
  BY RegisterIInv DEF IInv, Submit
<1>2. /\ r \notin registered /\ registered' = registered \cup {r}
      /\ pendingRequests' = Append(pendingRequests, r)
      /\ UNCHANGED <<idOf, schedulerStats, requestChan, wrappedTasks, pool, task, alive>>
  BY DEF Submit, RegisterRequest
<1>3. /\ pendingRequests \in Seq(registered) /\ pendingRequests \in Seq(registered')
      /\ \A g \in Groups : requestChan[g] \in Seq(registered) /\ requestChan[g] \in Seq(registered')
  BY <1>2, SeqMonotonic DEF IInv, DPTypes
<1>4. /\ r \notin ToSet(pendingRequests)
      /\ \A g \in Groups : r \notin ToSet(requestChan[g])
  BY <1>2, <1>3, SetOfSeq
<1>5. /\ pendingRequests' \in Seq(registered') /\ IsInjective(pendingRequests')
      /\ ToSet(pendingRequests') = ToSet(pendingRequests) \cup {r}
  BY <1>2, <1>3, <1>4, AppendedSet DEF IInv, SentOnce
<1>6. DPTypes'
  BY <1>2, <1>3, <1>5 DEF IInv, DPTypes
<1>7. SentOnce'
  BY <1>2, <1>4, <1>5 DEF IInv, SentOnce
<1>8. \A k \in Groups : wrappedTasks[k][idOf[r]] # r
  BY <1>2, NoReqAssumption DEF IInv, DPTypes, RouterIInv, RouterTypes
<1>9. NotYetWrapped'
  BY <1>2, <1>5, <1>8 DEF IInv, NotYetWrapped
<1>10. PoolWrapped' /\ WrappedOwn' /\ FreshTask' /\ PoolHoldsUnfinished'
  BY <1>2 DEF IInv, PoolWrapped, WrappedOwn, FreshTask, PoolHoldsUnfinished, Unshared
<1> QED
  BY <1>1, <1>6, <1>7, <1>9, <1>10 DEF IInv

\* A scheduler that reports for the first time is added once.
LEMMA CollectIInv ==
  ASSUME IInv, NEW g \in Groups, CollectStats(g)
  PROVE  IInv' /\ KeepsStopped
<1>1. RouterIInv' /\ KeepsStopped
  BY RouterUnchanged DEF IInv, CollectStats
<1>2. /\ g \notin ToSet(schedulerStats) /\ schedulerStats' = Append(schedulerStats, g)
      /\ UNCHANGED <<idOf, registered, pendingRequests, requestChan, wrappedTasks, pool, task, alive>>
  BY DEF CollectStats, routerVars
<1>3. schedulerStats' \in Seq(Groups) /\ IsInjective(schedulerStats')
  BY <1>2, AppendedSet DEF IInv, DPTypes
<1>4. DPTypes'
  BY <1>2, <1>3 DEF IInv, DPTypes
<1>5. PoolWrapped' /\ WrappedOwn' /\ SentOnce' /\ NotYetWrapped' /\ FreshTask' /\ PoolHoldsUnfinished'
  BY <1>2 DEF IInv, PoolWrapped, WrappedOwn, SentOnce, NotYetWrapped, FreshTask,
     PoolHoldsUnfinished, Unshared
<1> QED
  BY <1>1, <1>4, <1>5 DEF IInv

\* The request at the head of the queue leaves it, for a scheduler or for good.
LEMMA HeadTaken ==
  ASSUME IInv, pendingRequests # <<>>
  PROVE  /\ Head(pendingRequests) \in registered /\ Head(pendingRequests) \in Reqs
         /\ Head(pendingRequests) \in ToSet(pendingRequests)
         /\ Tail(pendingRequests) \in Seq(registered) /\ IsInjective(Tail(pendingRequests))
         /\ ToSet(Tail(pendingRequests)) = ToSet(pendingRequests) \ {Head(pendingRequests)}
  BY TakenSet DEF IInv, DPTypes, SentOnce, RouterIInv, RouterTypes

\* Routing moves a request from the queue to the way to one scheduler.
LEMMA RouteIInv ==
  ASSUME IInv, RouteRequest
  PROVE  IInv' /\ KeepsStopped
<1> DEFINE r == Head(pendingRequests)
<1>1. RouterIInv' /\ KeepsStopped
  BY RouterUnchanged DEF IInv, RouteRequest
<1>2. /\ pendingRequests # <<>> /\ pendingRequests' = Tail(pendingRequests)
      /\ UNCHANGED <<idOf, registered, schedulerStats, wrappedTasks, pool, task, alive>>
  BY DEF RouteRequest, routerVars
<1>3. PICK g : requestChan' = [requestChan EXCEPT ![g] = Append(@, r)]
  BY DEF RouteRequest
<1>4. /\ r \in registered /\ r \in Reqs /\ r \in ToSet(pendingRequests)
      /\ pendingRequests' \in Seq(registered) /\ IsInjective(pendingRequests')
      /\ ToSet(pendingRequests') = ToSet(pendingRequests) \ {r}
  BY <1>2, HeadTaken
<1> HIDE DEF r
<1>5. \A k \in Groups : r \notin ToSet(requestChan[k]) /\ wrappedTasks[k][idOf[r]] # r
  BY <1>4 DEF IInv, SentOnce, NotYetWrapped
<1>6. ASSUME NEW k \in Groups
      PROVE  /\ requestChan'[k] \in Seq(registered) /\ IsInjective(requestChan'[k])
             /\ ToSet(requestChan'[k]) = IF k = g THEN ToSet(requestChan[k]) \cup {r}
                                                  ELSE ToSet(requestChan[k])
  <2>1. requestChan[k] \in Seq(registered) /\ IsInjective(requestChan[k])
    BY DEF IInv, DPTypes, SentOnce
  <2>2. requestChan'[k] = IF k = g THEN Append(requestChan[k], r) ELSE requestChan[k]
    BY <1>3 DEF IInv, DPTypes
  <2>3. /\ Append(requestChan[k], r) \in Seq(registered)
        /\ ToSet(Append(requestChan[k], r)) = ToSet(requestChan[k]) \cup {r}
        /\ IsInjective(Append(requestChan[k], r))
    BY <1>4, <1>5, <2>1, AppendedSet
  <2> QED
    BY <2>1, <2>2, <2>3
<1>7. DPTypes'
  BY <1>2, <1>3, <1>4, <1>6 DEF IInv, DPTypes
<1>8. SentOnce'
  <2>1. ASSUME NEW k \in Groups
        PROVE  ToSet(requestChan'[k]) \cap ToSet(pendingRequests') = {}
    BY <1>4, <1>6 DEF IInv, SentOnce
  <2>2. ASSUME NEW k \in Groups, NEW j \in Groups \ {k}
        PROVE  ToSet(requestChan'[k]) \cap ToSet(requestChan'[j]) = {}
    <3>1. ToSet(requestChan[k]) \cap ToSet(requestChan[j]) = {}
      BY DEF IInv, SentOnce
    <3> QED
      BY <1>5, <1>6, <3>1
  <2> QED
    BY <1>4, <1>6, <2>1, <2>2 DEF SentOnce
<1>9. NotYetWrapped'
  BY <1>2, <1>4, <1>5, <1>6 DEF IInv, NotYetWrapped
<1>10. PoolWrapped' /\ WrappedOwn' /\ FreshTask' /\ PoolHoldsUnfinished'
  BY <1>2 DEF IInv, PoolWrapped, WrappedOwn, FreshTask, PoolHoldsUnfinished, Unshared
<1> QED
  BY <1>1, <1>7, <1>8, <1>9, <1>10 DEF IInv

\* A request whose sending fails is nowhere any more.
LEMMA SendFailsIInv ==
  ASSUME IInv, SendFails
  PROVE  IInv' /\ KeepsStopped
<1>1. RouterIInv' /\ KeepsStopped
  BY RouterUnchanged DEF IInv, SendFails
<1>2. /\ pendingRequests # <<>> /\ pendingRequests' = Tail(pendingRequests)
      /\ UNCHANGED <<idOf, registered, schedulerStats, requestChan, wrappedTasks, pool, task, alive>>
  BY DEF SendFails, routerVars
<1>3. /\ pendingRequests' \in Seq(registered) /\ IsInjective(pendingRequests')
      /\ ToSet(pendingRequests') \subseteq ToSet(pendingRequests)
  BY <1>2, HeadTaken
<1>4. DPTypes'
  BY <1>2, <1>3 DEF IInv, DPTypes
<1>5. SentOnce' /\ NotYetWrapped'
  BY <1>2, <1>3 DEF IInv, SentOnce, NotYetWrapped
<1>6. PoolWrapped' /\ WrappedOwn' /\ FreshTask' /\ PoolHoldsUnfinished'
  BY <1>2 DEF IInv, PoolWrapped, WrappedOwn, FreshTask, PoolHoldsUnfinished, Unshared
<1> QED
  BY <1>1, <1>4, <1>5, <1>6 DEF IInv

\* The request that arrives at a scheduler, and the one whose task its id gets there.
Arrived(g) == Head(requestChan[g])
Wrapped(g) == WrapTask(g, Arrived(g))

\* A request that arrives is not at any scheduler yet: its id is unknown to this one
\* unless another request has had it.
LEMMA ArrivedFacts ==
  ASSUME IInv, NEW g \in Groups, ReceiveRequest(g)
  PROVE  /\ Arrived(g) \in registered /\ Arrived(g) \in Reqs /\ idOf[Arrived(g)] \in Ids
         /\ Arrived(g) \in ToSet(requestChan[g])
         /\ Tail(requestChan[g]) \in Seq(registered) /\ IsInjective(Tail(requestChan[g]))
         /\ ToSet(Tail(requestChan[g])) = ToSet(requestChan[g]) \ {Arrived(g)}
         /\ Arrived(g) \notin ToSet(pendingRequests)
         /\ \A k \in Groups \ {g} : Arrived(g) \notin ToSet(requestChan[k])
         /\ \A k \in Groups : wrappedTasks[k][idOf[Arrived(g)]] # Arrived(g)
         /\ Wrapped(g) \in registered /\ Wrapped(g) \in Reqs
         /\ idOf[Wrapped(g)] = idOf[Arrived(g)]
         /\ \/ Wrapped(g) = Arrived(g) /\ wrappedTasks[g][idOf[Arrived(g)]] = NoReq
            \/ Wrapped(g) # Arrived(g) /\ wrappedTasks[g][idOf[Arrived(g)]] = Wrapped(g)
         /\ \A k \in Groups, id \in Ids :
              wrappedTasks'[k][id] = IF k = g /\ id = idOf[Arrived(g)] THEN Wrapped(g)
                                     ELSE wrappedTasks[k][id]
<1> DEFINE r == Arrived(g)
           w == Wrapped(g)
<1>1. /\ requestChan[g] # <<>>
      /\ wrappedTasks' = [wrappedTasks EXCEPT ![g][idOf[r]] = w]
  BY DEF ReceiveRequest, Arrived, Wrapped
<1>2. requestChan[g] \in Seq(registered) /\ IsInjective(requestChan[g])
  BY DEF IInv, DPTypes, SentOnce
<1>3. /\ r \in registered /\ r \in ToSet(requestChan[g])
      /\ Tail(requestChan[g]) \in Seq(registered) /\ IsInjective(Tail(requestChan[g]))
      /\ ToSet(Tail(requestChan[g])) = ToSet(requestChan[g]) \ {r}
  BY <1>1, <1>2, TakenSet DEF Arrived
<1>4. r \in Reqs /\ idOf[r] \in Ids
  BY <1>3 DEF IInv, RouterIInv, RouterTypes
<1>5. /\ r \notin ToSet(pendingRequests)
      /\ \A k \in Groups \ {g} : r \notin ToSet(requestChan[k])
      /\ \A k \in Groups : wrappedTasks[k][idOf[r]] # r
  BY <1>3, <1>4 DEF IInv, SentOnce, NotYetWrapped
<1>6. /\ w \in registered /\ w \in Reqs /\ idOf[w] = idOf[r]
      /\ \/ w = r /\ wrappedTasks[g][idOf[r]] = NoReq
         \/ w # r /\ wrappedTasks[g][idOf[r]] = w
  <2>1. wrappedTasks[g][idOf[r]] \in registered \cup {NoReq} /\ registered \subseteq Reqs
    BY <1>4 DEF IInv, DPTypes, RouterIInv, RouterTypes
  <2>2. wrappedTasks[g][idOf[r]] # NoReq => idOf[wrappedTasks[g][idOf[r]]] = idOf[r]
    BY <1>4 DEF IInv, WrappedOwn
  <2> QED
    BY <1>3, <1>4, <1>5, <2>1, <2>2 DEF WrapTask, Wrapped
<1> HIDE DEF r, w
<1>7. \A k \in Groups, id \in Ids :
        wrappedTasks'[k][id] = IF k = g /\ id = idOf[r] THEN w ELSE wrappedTasks[k][id]
  BY <1>1, <1>4 DEF IInv, DPTypes
<1> QED
  BY <1>3, <1>4, <1>5, <1>6, <1>7 DEF r, w

\* The id of an arriving request is put into the pool with the task it gets.
LEMMA ReceiveIInv ==
  ASSUME IInv, NEW g \in Groups, ReceiveRequest(g)
  PROVE  IInv' /\ KeepsStopped
<1> DEFINE r == Arrived(g)
           w == Wrapped(g)
<1>1. RouterIInv' /\ KeepsStopped
  BY RouterUnchanged DEF IInv, ReceiveRequest
<1>2. /\ requestChan' = [requestChan EXCEPT ![g] = Tail(@)]
      /\ wrappedTasks' = [wrappedTasks EXCEPT ![g][idOf[r]] = w]
      /\ pool' = [pool EXCEPT ![g] = @ \cup {idOf[r]}]
      /\ UNCHANGED <<idOf, registered, pendingRequests, schedulerStats, task, alive>>
  BY DEF ReceiveRequest, routerVars, Arrived, Wrapped
<1>3. /\ r \in registered /\ r \in ToSet(requestChan[g])
      /\ Tail(requestChan[g]) \in Seq(registered) /\ IsInjective(Tail(requestChan[g]))
      /\ ToSet(Tail(requestChan[g])) = ToSet(requestChan[g]) \ {r}
  BY ArrivedFacts
<1>4. r \in Reqs /\ idOf[r] \in Ids
  BY ArrivedFacts
<1>5. /\ r \notin ToSet(pendingRequests)
      /\ \A k \in Groups \ {g} : r \notin ToSet(requestChan[k])
      /\ \A k \in Groups : wrappedTasks[k][idOf[r]] # r
  BY ArrivedFacts
<1>6. /\ w \in registered /\ w \in Reqs /\ idOf[w] = idOf[r]
      /\ \/ w = r /\ wrappedTasks[g][idOf[r]] = NoReq
         \/ w # r /\ wrappedTasks[g][idOf[r]] = w
  BY ArrivedFacts
<1>7. \A k \in Groups, id \in Ids :
        wrappedTasks'[k][id] = IF k = g /\ id = idOf[r] THEN w ELSE wrappedTasks[k][id]
  BY ArrivedFacts
<1> HIDE DEF r, w
<1>8. \A k \in Groups : requestChan'[k] = IF k = g THEN Tail(requestChan[k]) ELSE requestChan[k]
  BY <1>2 DEF IInv, DPTypes
<1>9. \A k \in Groups : pool'[k] = IF k = g THEN pool[k] \cup {idOf[r]} ELSE pool[k]
  BY <1>2 DEF IInv, DPTypes
<1>10. DPTypes'
  BY <1>2, <1>3, <1>4, <1>6 DEF IInv, DPTypes
<1>11. PoolWrapped' /\ WrappedOwn'
  BY <1>2, <1>4, <1>6, <1>7, <1>9, NoReqAssumption DEF IInv, PoolWrapped, WrappedOwn, DPTypes
<1>12. SentOnce'
  BY <1>2, <1>3, <1>8 DEF IInv, SentOnce
<1>13. NotYetWrapped'
  <2> SUFFICES ASSUME NEW k \in Groups, NEW q \in Reqs, wrappedTasks'[k][idOf[q]] = q
               PROVE  /\ q \notin ToSet(pendingRequests)
                      /\ \A j \in Groups : q \notin ToSet(requestChan'[j])
    BY <1>2 DEF NotYetWrapped
  <2>1. idOf[q] \in Ids
    BY DEF IInv, RouterIInv, RouterTypes
  <2>2. CASE q = r
    BY <1>3, <1>5, <1>8, <2>2
  <2>3. CASE q # r
    <3>1. wrappedTasks[k][idOf[q]] = q
      BY <1>6, <1>7, <2>1, <2>3
    <3> QED
      BY <1>3, <1>8, <3>1 DEF IInv, NotYetWrapped
  <2> QED
    BY <2>2, <2>3
<1>14. FreshTask'
  <2> SUFFICES ASSUME NEW k \in Groups, NEW q \in Reqs, wrappedTasks'[k][idOf[q]] # q
               PROVE  wrappedTasks[k][idOf[q]] # q
    BY <1>2 DEF IInv, FreshTask
  <2>1. idOf[q] \in Ids
    BY DEF IInv, RouterIInv, RouterTypes
  <2> QED
    BY <1>6, <1>7, <2>1, NoReqAssumption
<1>15. PoolHoldsUnfinished'
  <2> SUFFICES ASSUME NEW k \in Groups, NEW q \in Unshared, wrappedTasks'[k][idOf[q]] = q
               PROVE  idOf[q] \in pool'[k] <=> task[k][q].status # "Removed"
    BY <1>2 DEF PoolHoldsUnfinished, Unshared
  <2>1. q \in Reqs /\ idOf[q] \in Ids /\ (idOf[q] = idOf[r] => q = r)
    BY <1>4 DEF IInv, RouterIInv, RouterTypes, Unshared
  <2>2. CASE k = g /\ q = r
    BY <1>5, <1>9, <2>1, <2>2 DEF IInv, FreshTask
  <2>3. CASE ~(k = g /\ q = r)
    <3>1. ~(k = g /\ idOf[q] = idOf[r])
      BY <2>1, <2>3
    <3>2. wrappedTasks[k][idOf[q]] = q /\ (idOf[q] \in pool'[k] <=> idOf[q] \in pool[k])
      BY <1>7, <1>9, <2>1, <3>1
    <3> QED
      BY <3>2 DEF IInv, PoolHoldsUnfinished
  <2> QED
    BY <2>2, <2>3
<1> QED
  BY <1>1, <1>10, <1>11, <1>12, <1>13, <1>14, <1>15 DEF IInv

\* A scheduler that dies loses its queue of messages and keeps its tasks.
LEMMA DeathIInv ==
  ASSUME IInv, NEW g \in Groups, WorkerDies(g) \/ SchedulerDies(g)
  PROVE  IInv' /\ KeepsStopped
<1>1. /\ alive' \in [Groups -> [service : BOOLEAN, worker : BOOLEAN]]
      /\ UNCHANGED <<idOf, registered, activeRequests, streams, pendingRequests, schedulerStats,
                     requestChan, wrappedTasks, pool, task>>
  <2>1. alive[g] \in [service : BOOLEAN, worker : BOOLEAN]
    BY DEF IInv, DPTypes
  <2>2. [alive[g] EXCEPT !.worker = FALSE] \in [service : BOOLEAN, worker : BOOLEAN]
    BY <2>1
  <2>3. \E a \in [service : BOOLEAN, worker : BOOLEAN] : alive' = [alive EXCEPT ![g] = a]
    BY <2>1, <2>2 DEF WorkerDies, SchedulerDies
  <2> QED
    BY <2>3 DEF WorkerDies, SchedulerDies, routerVars, IInv, DPTypes
<1>2. RouterIInv' /\ KeepsStopped
  <2>1. CASE WorkerDies(g)
    BY <2>1, RouterUnchanged DEF WorkerDies, IInv
  <2>2. CASE SchedulerDies(g)
    <3>1. <<>> \in Seq(Messages) /\ Len(<<>>) <= QueueSize
      BY EmptySeq, QueueSizeAssumption
    <3> QED
      BY <1>1, <2>2, <3>1, SendingIInv DEF SchedulerDies, IInv
  <2> QED
    BY <2>1, <2>2
<1>3. DPTypes'
  BY <1>1 DEF IInv, DPTypes
<1>4. PoolWrapped' /\ WrappedOwn' /\ SentOnce' /\ NotYetWrapped' /\ FreshTask' /\ PoolHoldsUnfinished'
  BY <1>1 DEF IInv, PoolWrapped, WrappedOwn, SentOnce, NotYetWrapped, FreshTask,
     PoolHoldsUnfinished, Unshared
<1> QED
  BY <1>2, <1>3, <1>4 DEF IInv

\* The task of an id in the pool is that of a request of this id.
LEMMA PoolTask ==
  ASSUME IInv, NEW g \in Groups, NEW id \in pool[g]
  PROVE  /\ id \in Ids /\ TaskOf(g, id) \in Reqs /\ idOf[TaskOf(g, id)] = id
         /\ wrappedTasks[g][id] = TaskOf(g, id)
         /\ task[g][TaskOf(g, id)] \in TaskRecords
  BY DEF IInv, DPTypes, PoolWrapped, WrappedOwn, TaskOf, RouterIInv, RouterTypes

\* A token leaves its task in the pool, whether it was the last one or not.
LEMMA WorkerTokenIInv ==
  ASSUME IInv, NEW g \in Groups, NEW id \in Ids, WorkerToken(g, id)
  PROVE  IInv' /\ KeepsStopped
<1> DEFINE t == TaskOf(g, id)
           made == task[g][t].made + 1
           piece == [of |-> t, pos |-> made, whole |-> <<t, made>> \notin PartOfCharacter]
<1>1. /\ id \in pool[g] /\ task[g][t].status = "Normal"
      /\ SendToken(g, t, made)
      /\ UNCHANGED <<idOf, registered, activeRequests, streams, pendingRequests, schedulerStats,
                     requestChan, wrappedTasks, pool, alive>>
  BY DEF WorkerToken
<1>2. PICK status \in {"Normal", "Stopped"} :
        task' = [task EXCEPT ![g][t] = [made |-> made, status |-> status]]
  BY DEF WorkerToken
<1>3. /\ t \in Reqs /\ idOf[t] = id /\ wrappedTasks[g][id] = t
      /\ made \in Nat \ {0}
  BY <1>1, PoolTask DEF TaskRecords
<1>4. TokenMessage(id, piece) \in Messages
  BY <1>3 DEF TokenMessage, Messages, TokenMessages, Pieces
<1>5. sendQueue' = [sendQueue EXCEPT ![g] = SendData(@, TokenMessage(id, piece))]
  BY <1>1, <1>3 DEF SendToken
<1> HIDE DEF t, made, piece
<1>6. RouterIInv' /\ KeepsStopped
  <2>1. sendQueue[g] \in Seq(Messages) /\ Len(sendQueue[g]) <= QueueSize
    BY DEF IInv, RouterIInv, RouterTypes, QueuesBounded
  <2>2. /\ SendData(sendQueue[g], TokenMessage(id, piece)) \in Seq(Messages)
        /\ Len(SendData(sendQueue[g], TokenMessage(id, piece))) <= QueueSize
    BY <1>4, <2>1, SendDataType
  <2> QED
    BY <1>1, <1>5, <2>2, SendingIInv DEF IInv
<1>7. \A k \in Groups, q \in Reqs :
        task'[k][q].status = IF k = g /\ q = t THEN status ELSE task[k][q].status
  BY <1>2, <1>3 DEF IInv, DPTypes
<1>8. DPTypes'
  BY <1>1, <1>2, <1>3 DEF IInv, DPTypes, TaskRecords
<1>9. PoolWrapped' /\ WrappedOwn' /\ SentOnce' /\ NotYetWrapped'
  BY <1>1 DEF IInv, PoolWrapped, WrappedOwn, SentOnce, NotYetWrapped
<1>10. FreshTask'
  BY <1>1, <1>3, <1>7 DEF IInv, FreshTask
<1>11. PoolHoldsUnfinished'
  BY <1>1, <1>7 DEF IInv, PoolHoldsUnfinished, Unshared
<1> QED
  BY <1>6, <1>8, <1>9, <1>10, <1>11 DEF IInv

\* A finished task leaves the pool when it is marked removed.
LEMMA WorkerUpdateIInv ==
  ASSUME IInv, NEW g \in Groups, NEW id \in Ids, WorkerUpdate(g, id)
  PROVE  IInv' /\ KeepsStopped
<1> DEFINE t == TaskOf(g, id)
<1>1. /\ id \in pool[g]
      /\ task' = [task EXCEPT ![g][t].status = "Removed"]
      /\ pool' = [pool EXCEPT ![g] = @ \ {id}]
      /\ UNCHANGED <<idOf, registered, pendingRequests, schedulerStats, requestChan, wrappedTasks, alive>>
  BY DEF WorkerUpdate, routerVars
<1>2. RouterIInv' /\ KeepsStopped
  BY RouterUnchanged DEF IInv, WorkerUpdate
<1>3. t \in Reqs /\ idOf[t] = id /\ wrappedTasks[g][id] = t
  BY <1>1, PoolTask
<1> HIDE DEF t
<1>4. \A k \in Groups, q \in Reqs :
        task'[k][q].status = IF k = g /\ q = t THEN "Removed" ELSE task[k][q].status
  BY <1>1, <1>3 DEF IInv, DPTypes, TaskRecords
<1>5. \A k \in Groups : pool'[k] = IF k = g THEN pool[k] \ {id} ELSE pool[k]
  BY <1>1 DEF IInv, DPTypes
<1>6. task' \in [Groups -> [Reqs -> TaskRecords]]
  <2>1. task[g][t] \in TaskRecords
    BY <1>3 DEF IInv, DPTypes
  <2>2. [task[g][t] EXCEPT !.status = "Removed"] \in TaskRecords
    BY <2>1 DEF TaskRecords
  <2>3. task' = [task EXCEPT ![g] = [@ EXCEPT ![t] = [task[g][t] EXCEPT !.status = "Removed"]]]
    BY <1>1, <1>3
  <2> QED
    BY <1>3, <2>2, <2>3 DEF IInv, DPTypes
<1>7. DPTypes'
  BY <1>1, <1>6 DEF IInv, DPTypes
<1>8. PoolWrapped' /\ WrappedOwn' /\ SentOnce' /\ NotYetWrapped'
  BY <1>1, <1>5 DEF IInv, PoolWrapped, WrappedOwn, SentOnce, NotYetWrapped
<1>9. FreshTask'
  BY <1>1, <1>3, <1>4 DEF IInv, FreshTask
<1>10. PoolHoldsUnfinished'
  <2> SUFFICES ASSUME NEW k \in Groups, NEW q \in Unshared, wrappedTasks[k][idOf[q]] = q
               PROVE  idOf[q] \in pool'[k] <=> task'[k][q].status # "Removed"
    BY <1>1 DEF PoolHoldsUnfinished, Unshared
  <2>1. q \in Reqs /\ (idOf[q] \in pool[k] <=> task[k][q].status # "Removed")
    BY DEF IInv, PoolHoldsUnfinished, Unshared
  <2>2. k = g => (idOf[q] = id <=> q = t)
    BY <1>3
  <2> QED
    BY <1>4, <1>5, <2>1, <2>2
<1> QED
  BY <1>2, <1>7, <1>8, <1>9, <1>10 DEF IInv

\* Every step preserves the invariant and leaves the stopped streams alone.
LEMMA NextIInv == ASSUME IInv, Next PROVE IInv' /\ KeepsStopped
<1>1. CASE \E r \in Reqs : Submit(r)
  BY <1>1, SubmitIInv
<1>2. CASE RouteRequest \/ SendFails
  BY <1>2, RouteIInv, SendFailsIInv
<1>3. CASE \E g \in Groups : CollectStats(g) \/ ReceiveRequest(g)
  BY <1>3, CollectIInv, ReceiveIInv
<1>4. CASE \E g \in Groups : WorkerDies(g) \/ SchedulerDies(g)
  BY <1>4, DeathIInv
<1>5. CASE \E g \in Groups, id \in Ids : WorkerToken(g, id) \/ WorkerUpdate(g, id)
  BY <1>5, WorkerTokenIInv, WorkerUpdateIInv
<1>6. CASE TokenRouterStep
  <2>1. RouterIInv' /\ KeepsStopped
    BY <1>6, RouterNextIInv DEF TokenRouterStep, IInv
  <2>2. UNCHANGED <<idOf, registered, dpVars>>
    BY <1>6 DEF TokenRouterStep, RouterNext, DropUnknown, DropExpired, ProcessToken, ProcessFinish,
       Cleanup
  <2> QED
    BY <2>1, <2>2, RouterStepIInv
<1> QED
  BY <1>1, <1>2, <1>3, <1>4, <1>5, <1>6 DEF Next

\* So does a step that changes nothing.
LEMMA StutterIInv == ASSUME IInv, UNCHANGED vars PROVE IInv'
<1>1. RouterIInv'
  BY RouterUnchanged DEF IInv, vars
<1> QED
  BY <1>1, RouterStepIInv DEF vars, routerVars

-----------------------------------------------------------------------------
\* The strengthened invariant holds in every reachable state.
THEOREM Inductive == Spec => []IInv
<1>1. Init => IInv
  BY InitIInv
<1>2. IInv /\ [Next]_vars => IInv'
  BY NextIInv, StutterIInv
<1> QED
  BY <1>1, <1>2, PTL DEF Spec

\* The state of the router, the request router and the schedulers keeps its types,
\* and no sender's queue grows beyond its size.
THEOREM Typing == Spec => []TypeOK
<1>1. IInv => TypeOK
  <2> SUFFICES ASSUME IInv PROVE TypeOK
    OBVIOUS
  <2>1. RouterTypeOK
    BY RouterTyping DEF IInv
  <2> QED
    BY <2>1 DEF IInv, DPTypes, PoolWrapped, TaskRecords, TypeOK
<1> QED
  BY <1>1, Inductive, PTL

\* A request under an id of its own that has arrived at a scheduler is in the pool of
\* its worker until it is finished: neither the pool nor the table of wrapped tasks,
\* which both skip ids they know, can strand it.
THEOREM NeverStranded == Spec => []PoolHoldsUnfinished
<1>1. IInv => PoolHoldsUnfinished
  BY DEF IInv
<1> QED
  BY <1>1, Inductive, PTL

\* No late token, late finish or timeout ever reaches a stream that has been stopped.
THEOREM Stopped == Spec => StoppedForGood
<1>1. IInv /\ [Next]_vars => [\A r \in Reqs : streams[r].stop => streams'[r] = streams[r]]_routerVars
  <2>1. ASSUME IInv, Next PROVE \A r \in Reqs : streams[r].stop => streams'[r] = streams[r]
    BY <2>1, NextIInv DEF KeepsStopped
  <2>2. ASSUME UNCHANGED vars PROVE UNCHANGED routerVars
    BY <2>2 DEF vars
  <2> QED
    BY <2>1, <2>2
<1> QED
  BY <1>1, Inductive, PTL DEF Spec, StoppedForGood

-----------------------------------------------------------------------------
(* The answers of TokenRouterProofs: a scheduler has a request when its task *)
(* was wrapped for it, and has made of its answer what the task counts.      *)

Holders == {h \in Groups \X Reqs : wrappedTasks[h[1]][idOf[h[2]]] = h[2]}
MadeBy == [g \in Groups |-> [r \in Reqs |-> task[g][r].made]]

AnswerInv == Answers(idOf, sendQueue, streams, Holders, MadeBy)

\* Only schedulers and requests hold one another.
LEMMA HolderPairs ==
  /\ \A g \in Groups, r \in Reqs : <<g, r>> \in Holders <=> wrappedTasks[g][idOf[r]] = r
  /\ \A g \in Groups, r \in Reqs : <<g, r>> \in Holders' <=> wrappedTasks'[g][idOf'[r]] = r
  BY DEF Holders

\* What is of a type the lemmas about answers ask for.
LEMMA AnswerTypes ==
  ASSUME IInv
  PROVE  /\ idOf \in IdMaps /\ sendQueue \in QueueMaps /\ streams \in StreamMaps
         /\ MadeBy \in MadeMaps
  BY DEF IInv, RouterIInv, RouterTypes, DPTypes, TaskRecords, IdMaps, QueueMaps, StreamMaps,
     MadeMaps, MadeBy

\* At first no scheduler has a request.
LEMMA InitAnswer == ASSUME Init, IInv PROVE AnswerInv
<1>1. Holders = {}
  BY NoReqAssumption DEF Init, Holders, IInv, RouterIInv, RouterTypes
<1> QED
  BY <1>1, AnswersInit DEF Init, AnswerInv

\* A step that changes neither what the streams have, nor the queues, the tables or what
\* the tasks have made.
LEMMA SameAnswer ==
  ASSUME AnswerInv, UNCHANGED <<idOf, sendQueue, wrappedTasks>>,
         \A g \in Groups, r \in Reqs : task'[g][r].made = task[g][r].made,
         \A r \in Reqs : streams'[r].seqs = streams[r].seqs
  PROVE  AnswerInv'
<1>1. Holders' = Holders
  BY DEF Holders
<1>2. MadeBy' = MadeBy
  BY DEF MadeBy
<1>3. Answers(idOf, sendQueue, streams', Holders, MadeBy)
  BY AnswersReceived DEF AnswerInv, Answers
<1> QED
  BY <1>1, <1>2, <1>3 DEF AnswerInv

\* A request that arrives is on its way to no other scheduler, and none has it.
LEMMA ReceiveAnswer ==
  ASSUME IInv, AnswerInv, NEW g \in Groups, ReceiveRequest(g)
  PROVE  AnswerInv'
<1> DEFINE r == Arrived(g)
           w == Wrapped(g)
<1>1. UNCHANGED <<idOf, streams, sendQueue, task>>
  BY DEF ReceiveRequest, routerVars
<1>2. r \in Reqs /\ \A k \in Groups : <<k, r>> \notin Holders
  BY ArrivedFacts, HolderPairs
<1>3. ASSUME NEW k \in Groups, NEW q \in Reqs
      PROVE  /\ <<k, q>> \in Holders => <<k, q>> \in Holders'
             /\ <<k, q>> \in Holders' => <<k, q>> \in Holders \/ (k = g /\ q = r)
  <2>1. idOf[q] \in Ids
    BY DEF IInv, RouterIInv, RouterTypes
  <2>2. wrappedTasks'[k][idOf[q]] = IF k = g /\ idOf[q] = idOf[r] THEN w
                                    ELSE wrappedTasks[k][idOf[q]]
    BY <2>1, ArrivedFacts
  <2>3. \/ w = r /\ wrappedTasks[g][idOf[r]] = NoReq
        \/ w # r /\ wrappedTasks[g][idOf[r]] = w
    BY ArrivedFacts
  <2> HIDE DEF r, w
  <2> QED
    BY <1>1, <2>2, <2>3, NoReqAssumption, HolderPairs
<1> HIDE DEF r, w
<1>4. OneScheduler(Holders')
  BY <1>2, <1>3 DEF AnswerInv, Answers, OneScheduler
<1>5. Holders \subseteq Holders'
  BY <1>3 DEF Holders
<1>6. MadeBy' = MadeBy
  BY <1>1 DEF MadeBy
<1>7. Answers(idOf, sendQueue, streams, Holders', MadeBy)
  BY <1>4, <1>5, AnswersReceived DEF AnswerInv
<1> QED
  BY <1>1, <1>6, <1>7 DEF AnswerInv

\* The token a worker makes comes after all its task has made.
LEMMA WorkerTokenAnswer ==
  ASSUME IInv, AnswerInv, NEW g \in Groups, NEW id \in Ids, WorkerToken(g, id)
  PROVE  AnswerInv'
<1> DEFINE t == TaskOf(g, id)
           made == task[g][t].made + 1
           piece == [of |-> t, pos |-> made, whole |-> <<t, made>> \notin PartOfCharacter]
<1>1. /\ id \in pool[g] /\ task[g][t].status = "Normal"
      /\ SendToken(g, t, made)
      /\ UNCHANGED <<idOf, streams, wrappedTasks>>
  BY DEF WorkerToken
<1>2. PICK status : task' = [task EXCEPT ![g][t] = [made |-> made, status |-> status]]
  BY DEF WorkerToken
<1>3. /\ t \in Reqs /\ idOf[t] = id /\ <<g, t>> \in Holders
      /\ task[g][t].made \in Nat
  BY <1>1, PoolTask, HolderPairs DEF TaskRecords
<1>4. piece \in Pieces /\ piece.of = t /\ piece.pos = MadeBy[g][t] + 1
  BY <1>3 DEF Pieces, MadeBy
<1>5. sendQueue' = [sendQueue EXCEPT ![g] = SendData(@, TokenMessage(idOf[t], piece))]
  BY <1>1 DEF SendToken
<1>6. \A k \in Groups, q \in Reqs :
        task'[k][q].made = IF k = g /\ q = t THEN task[g][t].made + 1 ELSE task[k][q].made
  BY <1>2, <1>3 DEF IInv, DPTypes
<1> HIDE DEF t, piece
<1>7. \A k \in Groups, q \in Reqs :
        MadeBy'[k][q] = IF k = g /\ q = t THEN MadeBy[g][t] + 1 ELSE MadeBy[k][q]
  BY <1>3, <1>6 DEF MadeBy
<1>8. Holders' = Holders
  BY <1>1 DEF Holders
<1>9. Answers(idOf, sendQueue', streams, Holders, MadeBy')
  <2>1. /\ idOf \in IdMaps /\ sendQueue \in QueueMaps /\ streams \in StreamMaps
        /\ MadeBy \in MadeMaps
    BY AnswerTypes
  <2>2. Answers(idOf, sendQueue, streams, Holders, MadeBy)
    BY DEF AnswerInv
  <2>3. Answers(idOf, [sendQueue EXCEPT ![g] = SendData(@, TokenMessage(idOf[t], piece))],
                streams, Holders, MadeBy')
    BY <1>3, <1>4, <1>7, <2>1, <2>2, AnswersSent
  <2> QED
    BY <1>5, <2>3
<1> QED
  BY <1>1, <1>8, <1>9 DEF AnswerInv

\* Every step preserves the invariant.
LEMMA NextAnswer == ASSUME IInv, AnswerInv, Next PROVE AnswerInv'
<1>1. CASE (\E r \in Reqs : Submit(r)) \/ RouteRequest \/ SendFails
           \/ \E g \in Groups : CollectStats(g) \/ WorkerDies(g)
  BY <1>1, SameAnswer
     DEF Submit, RegisterRequest, RouteRequest, SendFails, CollectStats, WorkerDies, routerVars
<1>2. CASE \E g \in Groups : ReceiveRequest(g)
  BY <1>2, ReceiveAnswer
<1>3. CASE \E g \in Groups : SchedulerDies(g)
  <2>1. PICK g \in Groups : SchedulerDies(g)
    BY <1>3
  <2>2. /\ sendQueue' = [sendQueue EXCEPT ![g] = <<>>] /\ Holders' = Holders /\ MadeBy' = MadeBy
        /\ UNCHANGED <<idOf, streams>>
    BY <2>1 DEF SchedulerDies, Holders, MadeBy
  <2>3. Answers(idOf, sendQueue', streams, Holders, MadeBy)
    BY <2>2, AnswersLost, AnswerTypes DEF AnswerInv
  <2> QED
    BY <2>2, <2>3 DEF AnswerInv
<1>4. CASE \E g \in Groups, id \in Ids : WorkerToken(g, id)
  BY <1>4, WorkerTokenAnswer
<1>5. CASE \E g \in Groups, id \in Ids : WorkerUpdate(g, id)
  <2>1. PICK g \in Groups, id \in Ids : WorkerUpdate(g, id)
    BY <1>5
  <2>2. \A k \in Groups, q \in Reqs : task'[k][q].made = task[k][q].made
    <3> DEFINE t == TaskOf(g, id)
    <3>1. task' = [task EXCEPT ![g][t].status = "Removed"] /\ t \in Reqs
      BY <2>1, PoolTask DEF WorkerUpdate
    <3> HIDE DEF t
    <3> QED
      BY <3>1 DEF IInv, DPTypes, TaskRecords
  <2> QED
    BY <2>1, <2>2, SameAnswer DEF WorkerUpdate, routerVars
<1>6. CASE TokenRouterStep
  <2>1. RouterNext /\ idOf' = idOf /\ Holders' = Holders /\ MadeBy' = MadeBy
    BY <1>6 DEF TokenRouterStep, dpVars, Holders, MadeBy, RouterNext, DropUnknown, DropExpired,
       ProcessToken, ProcessFinish, Cleanup
  <2>2. Answers(idOf', sendQueue', streams', Holders, MadeBy)
    BY <2>1, RouterNextAnswers DEF AnswerInv, IInv
  <2> QED
    BY <2>1, <2>2 DEF AnswerInv
<1> QED
  BY <1>1, <1>2, <1>3, <1>4, <1>5, <1>6 DEF Next

\* A client whose request id is its own sees a subsequence of its own answer.  Only one
\* scheduler ever has the request, so all its tokens pass one queue, in the order in
\* which they were made.
THEOREM OwnAnswer == Spec => []OwnAnswerInOrder
<1>1. Init /\ IInv => AnswerInv
  BY InitAnswer
<1>2. IInv /\ AnswerInv /\ [Next]_vars => AnswerInv'
  BY NextAnswer, SameAnswer DEF vars, routerVars, dpVars
<1>3. AnswerInv => OwnAnswerInOrder
  BY AnswersOwn DEF AnswerInv, Answers
<1> QED
  BY <1>1, <1>2, <1>3, Inductive, PTL DEF Spec
=============================================================================
