------------------------------ MODULE Pipeline ------------------------------
(***************************************************************************)
(* Rank 0 of a pipeline with the paged KV cache (infer.pp_size > 1,        *)
(* infer.dp_size = 1).  Its scheduler has a scheduler group for each       *)
(* stage: a batch takes a group, and the next one can be scheduled while   *)
(* its results are awaited (Scheduler, chitu/scheduler.py).  Tasks of a    *)
(* batch on its way wait; PPTaskCollector (chitu/task.py) looks which      *)
(* results have come once per turn.                                        *)
(*                                                                         *)
(* Pages are counted, as in Engine.  The scheduler type is prefill_first,  *)
(* what request_preset adds being in Engine, and what a chunk leaves in    *)
(* tasks that are not picked is left out: it is set anew when they are     *)
(* candidates again.                                                       *)
(***************************************************************************)
EXTENDS PipelineStages

CONSTANTS
  BlockSize,        \* tokens in a page
  NumTasks,         \* prefill_num_tasks = decode_num_tasks, max_reqs / pp_size
  Configs           \* the requests and arguments to consider, see args

NoChunk == 0

\* The length of the encoded prompts, max_new_tokens, the pages of the cache and
\* infer.prefill_chunk_size (NoChunk for None).
ASSUME PipelineAssumption ==
  /\ BlockSize \in Nat \ {0}
  /\ NumTasks \in Nat \ {0}
  /\ \A c \in Configs : c \in [promptLen : [Reqs -> Nat \ {0}], maxNew : [Reqs -> Nat \ {0}],
                               blocks : Nat \ {0}, chunk : Nat]

VARIABLES
  args,        \* one of Configs
  submitted,   \* the requests that have arrived
  idList,      \* TaskPool.id_list
  task,        \* the Task of each request
  req,         \* the UserRequest of each request
  threshold,   \* kvcache_block_threshold
  freeGroups,  \* free_sgroups; the others are used_sgroups
  waitingOf,   \* sgroup_waiting_tasks
  batch,       \* the batch of this turn: [kind, ids, take]
  ongoing,     \* PPTaskCollector._ongoing_reqs, the batches whose results are awaited
  at,          \* where the loop of update_ongoing is in that list
  unwaited,    \* PPTaskCollector._unwait_tasks, with their results
  results,     \* Backend.last_batch_results: functions request -> token
  pc           \* where rank 0 is, "crashed" after an exception

mainVars == <<submitted, idList, task, req, threshold, freeGroups, waitingOf, batch, ongoing,
              at, unwaited, results, pc>>
vars == <<args, mainVars, stageVars>>

PromptLen == args.promptLen
NumBlocks == args.blocks
Groups == 0 .. LastStage
NoGroup == -1

NewTask(r) == [type |-> "Prefill", len |-> PromptLen[r], consumed |-> 0, next |-> NoToken,
               numNew |-> 0, status |-> "Normal", waiting |-> FALSE, group |-> NoGroup]
NewReq == [out |-> <<>>, remain |-> 0, finish |-> "none", closed |-> FALSE]
NoBatch == [kind |-> "none", ids |-> <<>>, take |-> [r \in Reqs |-> 0]]

Init ==
  /\ args \in Configs
  /\ submitted = {}
  /\ idList = <<>>
  /\ task = [r \in Reqs |-> NewTask(r)]
  /\ req = [r \in Reqs |-> NewReq]
  /\ threshold = NumBlocks
  /\ freeGroups = [g \in 1 .. LastStage + 1 |-> g - 1]
  /\ waitingOf = [g \in Groups |-> {}]
  /\ batch = NoBatch
  /\ ongoing = <<>>
  /\ at = 1
  /\ unwaited = <<>>
  /\ results = <<>>
  /\ pc = "schedule"
  /\ StagesInit

Larger(a, b) == IF a <= b THEN b ELSE a

Send(kind, items) == meta' = [meta EXCEPT ![Main + 1] = Append(@, [kind |-> kind, items |-> items])]

EndTasks(ids) == Mapped(ids, LAMBDA r : [r |-> r])

-----------------------------------------------------------------------------
(* Pages of rank 0, which are those of every stage *)

Held(n) == (n + BlockSize - 1) \div BlockSize
UsedBlocks == MapThenSumSet(LAMBDA r : Held(kv[Main][r]), Reqs)
Need(r, target) == Larger(0, Held(target) - Held(kv[Main][r]))

-----------------------------------------------------------------------------
(* Scheduler.schedule *)

\* A request arrives between two turns.
Submit(r) ==
  /\ pc = "schedule" /\ r \notin submitted
  /\ submitted' = submitted \cup {r}
  /\ idList' = Append(idList, r)
  /\ UNCHANGED <<args, task, req, threshold, freeGroups, waitingOf, batch, ongoing, at, unwaited,
                 results, pc, stageVars>>

Ready(type) ==
  Filtered(idList, {r \in Reqs : /\ task[r].type = type
                                /\ ~task[r].waiting /\ task[r].status # "Stopped"})

\* No group is taken when the pool is empty, no group is free or all tasks wait.
MaySchedule == pc = "schedule" /\ freeGroups # <<>> /\ Ready("Prefill") \o Ready("Decode") # <<>>

Remaining(r) == task[r].len - task[r].consumed

\* The prefill candidates and what each may take: they share prefill_chunk_size in order.
LeftOver(i) ==
  LET left[j \in 1 .. Len(Ready("Prefill"))] ==
        IF j = 1 THEN args.chunk ELSE left[j - 1] - Remaining(Ready("Prefill")[j - 1])
  IN  left[i]

Candidates ==
  IF args.chunk = NoChunk THEN Ready("Prefill")
  ELSE UpTo(Ready("Prefill"),
            Cardinality({i \in DOMAIN Ready("Prefill") : \A j \in 1 .. i : LeftOver(j) > 0}))

Take(i) ==
  IF args.chunk = NoChunk THEN Remaining(Candidates[i])
  ELSE Smaller(Remaining(Candidates[i]), LeftOver(i))

NeedUpTo(i) ==
  MapThenSumSet(LAMBDA j : Need(Candidates[j], task[Candidates[j]].consumed + Take(j)), 1 .. i)

Fitting == Cardinality({i \in DOMAIN Candidates : UsedBlocks + NeedUpTo(i) <= threshold})

NothingFits == Fitting = 0 /\ threshold = NumBlocks /\ UsedBlocks = 0

\* The batch takes the first free group.
Allocate(ids) ==
  LET g == Head(freeGroups)
  IN  /\ freeGroups' = Tail(freeGroups)
      /\ waitingOf' = [waitingOf EXCEPT ![g] = ToSet(ids)]
      /\ pc' = "step"

Grouped(t, ids) == [r \in Reqs |-> IF r \in ToSet(ids) THEN [t[r] EXCEPT !.group = Head(freeGroups)]
                                                      ELSE t[r]]

SchedulePrefill ==
  /\ MaySchedule
  /\ \E ids \in {UpTo(UpTo(Candidates, Fitting), NumTasks)} :
       LET takeOf(r) == IF r \in ToSet(ids) THEN Take(CHOOSE i \in DOMAIN ids : ids[i] = r) ELSE 0
       IN  /\ ids # <<>>
           /\ batch' = [kind |-> "Prefill", ids |-> ids, take |-> [r \in Reqs |-> takeOf(r)]]
           /\ task' = Grouped(task, ids)
           /\ Allocate(ids)
  /\ UNCHANGED <<args, submitted, idList, req, threshold, ongoing, at, unwaited, results, stageVars>>

\* "KV_cache capacity is insufficient to support prefilling"
PrefillTooLarge ==
  /\ MaySchedule
  /\ Ready("Prefill") # <<>> /\ NothingFits
  /\ pc' = "crashed"
  /\ UNCHANGED <<args, submitted, idList, task, req, threshold, freeGroups, waitingOf, batch, ongoing,
                 at, unwaited, results, stageVars>>

DecodeTurn ==
  /\ MaySchedule
  /\ Ready("Prefill") = <<>> \/ (Fitting = 0 /\ ~NothingFits)

Kept(e) == UpTo(Ready("Decode"), Len(Ready("Decode")) - e)
Gone(e) == Reverse(SubSeq(Ready("Decode"), Len(Ready("Decode")) - e + 1, Len(Ready("Decode"))))

\* has_enough_block once the last e ready decode tasks are evicted; the pages of the
\* batches on their way stay.
HasEnoughBlock(e) ==
  MapThenSumSet(LAMBDA r : Need(r, task[r].len), ToSet(Kept(e)))
  <= (NumBlocks - UsedBlocks) + MapThenSumSet(LAMBDA r : Held(kv[Main][r]), ToSet(Gone(e)))

\* A slip: the stages keep their caches.
EvictAtMain(e) ==
  /\ kv' = [kv EXCEPT ![Main] = [r \in Reqs |-> IF r \in ToSet(Gone(e)) THEN 0 ELSE @[r]]]
  /\ threshold' = Larger(1, threshold \div 2 ^ e)
  /\ UNCHANGED meta

\* evict_decode_task frees the pages of a task by an EndTask step of its own.
Evict(e) ==
  /\ kv' = [kv EXCEPT ![Main] = [r \in Reqs |-> IF r \in ToSet(Gone(e)) THEN 0 ELSE @[r]]]
  /\ threshold' = Larger(1, threshold \div 2 ^ e)
  /\ meta' = [meta EXCEPT ![Main + 1] =
                @ \o Mapped(EndTasks(Gone(e)), LAMBDA i : [kind |-> "EndTask", items |-> <<i>>])]

Evicted(e) ==
  [r \in Reqs |->
     IF r \in ToSet(Gone(e))
     THEN [task[r] EXCEPT !.next = NoToken, !.type = "Prefill", !.consumed = 0, !.group = NoGroup]
     ELSE task[r]]

\* A batch may turn out empty; it takes a group all the same.
ScheduleDecode ==
  /\ DecodeTurn
  /\ \E e \in 0 .. Larger(1, Len(Ready("Decode"))) - 1 :
       LET ids == UpTo(Kept(e), NumTasks)
       IN  /\ HasEnoughBlock(e)
           /\ \A f \in 0 .. e - 1 : ~HasEnoughBlock(f)
           /\ Evict(e)
           /\ task' = Grouped(Evicted(e), ids)
           /\ batch' = [NoBatch EXCEPT !.kind = "Decode", !.ids = ids]
           /\ Allocate(ids)
  /\ UNCHANGED <<args, submitted, idList, req, ongoing, at, unwaited, results, copy, hidden, toMain>>

\* "KV_cache capacity is insufficient to support decoding completion"
DecodeTooLarge ==
  /\ DecodeTurn
  /\ \A e \in 0 .. Larger(1, Len(Ready("Decode"))) - 1 : ~HasEnoughBlock(e)
  /\ Evict(Len(Ready("Decode")) - 1)
  /\ task' = Evicted(Len(Ready("Decode")) - 1)
  /\ pc' = "crashed"
  /\ UNCHANGED <<args, submitted, idList, req, freeGroups, waitingOf, batch, ongoing, at, unwaited,
                 results, copy, hidden, toMain>>

ScheduleNothing ==
  /\ pc = "schedule" /\ idList # <<>> /\ ~MaySchedule
  /\ pc' = "step"
  /\ UNCHANGED <<args, submitted, idList, task, req, threshold, freeGroups, waitingOf, batch, ongoing,
                 at, unwaited, results, stageVars>>

-----------------------------------------------------------------------------
(* Executor.step and empty_step *)

\* The stream gets a token and is closed with the last one.
AddData(u, tok) ==
  [u EXCEPT !.out = Append(@, tok), !.remain = @ - 1,
            !.closed = @ \/ (u.finish # "none" /\ u.remain = 1)]

\* postprocess_async_part of the oldest result.
Deliver ==
  /\ req' = IF results = <<>> THEN req
            ELSE [r \in Reqs |-> IF r \in DOMAIN Head(results) THEN AddData(req[r], Head(results)[r])
                                                               ELSE req[r]]
  /\ results' = IF results = <<>> THEN results ELSE Tail(results)

\* Rank 0 feeds the items to its part of the model and the rows to the next stage.
Feed(kind, items) ==
  /\ Send(kind, items)
  /\ kv' = [kv EXCEPT ![Main] = Grown(Main, items)]
  /\ hidden' = [hidden EXCEPT ![Main + 1] = Append(@, Embedded(Main, items))]
  /\ UNCHANGED <<copy, toMain>>

\* recv_results: the whole batch waits for its outputs, if there are any.
Await(t, outputs) ==
  /\ ongoing' = IF outputs = <<>> THEN ongoing
                ELSE Append(ongoing, [tasks |-> batch.ids, outputs |-> outputs])
  /\ task' = [r \in Reqs |-> IF r \in ToSet(batch.ids) /\ outputs # <<>>
                             THEN [t[r] EXCEPT !.waiting = TRUE] ELSE t[r]]

Outputs == Filtered(batch.ids, {r \in Reqs : HasOutput(task[r], batch.take[r])})

StepPrefill ==
  LET inBatch(r) == r \in ToSet(batch.ids)
      consumed == [r \in Reqs |-> IF inBatch(r) THEN ConsumeReqTokens(task[r], batch.take[r])
                                                ELSE task[r]]
  IN  /\ pc = "step" /\ batch.kind = "Prefill"
      /\ Feed("Prefill", Mapped(batch.ids, LAMBDA r : PrefillItem(r, task[r], batch.take[r])))
      /\ Await(consumed, Outputs)
      /\ Deliver
      /\ pc' = "poll"
      /\ UNCHANGED <<args, submitted, idList, threshold, freeGroups, waitingOf, batch, at, unwaited>>

StepDecode ==
  /\ pc = "step" /\ batch.kind = "Decode" /\ batch.ids # <<>>
  /\ Feed("Decode", Mapped(batch.ids, LAMBDA r : DecodeItem(r, task[r].next)))
  /\ Await(task, batch.ids)
  /\ Deliver
  /\ pc' = "poll"
  /\ UNCHANGED <<args, submitted, idList, threshold, freeGroups, waitingOf, batch, at, unwaited>>

StepEmpty ==
  /\ pc = "step" /\ batch.ids = <<>>
  /\ Deliver
  /\ pc' = "poll"
  /\ UNCHANGED <<args, submitted, idList, task, threshold, freeGroups, waitingOf, batch, ongoing, at,
                 unwaited, stageVars>>

\* process_queue with nothing in the pool.
Idle ==
  /\ pc = "schedule" /\ idList = <<>> /\ results # <<>>
  /\ Deliver
  /\ UNCHANGED <<args, submitted, idList, task, threshold, freeGroups, waitingOf, batch, ongoing, at,
                 unwaited, pc, stageVars>>

-----------------------------------------------------------------------------
(* PPTaskCollector.update_ongoing *)

\* Results come in the order of the batches; the i-th awaited one is there.
Completed(i) == i <= Len(toMain)

PollSkip ==
  /\ pc = "poll" /\ at <= Len(ongoing) /\ ~Completed(at)
  /\ at' = at + 1
  /\ UNCHANGED <<args, submitted, idList, task, req, threshold, freeGroups, waitingOf, batch, ongoing,
                 unwaited, results, pc, stageVars>>

\* The entry is taken out of the list the loop runs over: the next one is passed by.
PollTake ==
  /\ pc = "poll" /\ at <= Len(ongoing) /\ Completed(at)
  /\ unwaited' = Append(unwaited, [tasks |-> ongoing[at].tasks, outputs |-> ongoing[at].outputs,
                                   tokens |-> toMain[at]])
  /\ task' = [r \in Reqs |-> IF r \in ToSet(ongoing[at].tasks) THEN [task[r] EXCEPT !.waiting = FALSE]
                                                               ELSE task[r]]
  /\ ongoing' = RemoveAt(ongoing, at)
  /\ toMain' = RemoveAt(toMain, at)
  /\ at' = at + 1
  /\ UNCHANGED <<args, submitted, idList, req, threshold, freeGroups, waitingOf, batch, results, pc,
                 copy, kv, meta, hidden>>

-----------------------------------------------------------------------------
(* update_task_by_result *)

\* Why update_decode_status stops the task now, if it does.
StopReason(t) ==
  CASE t.status = "Stopped" -> "none"
    [] t.status # "Stopped" /\ t.numNew > 0 /\ t.next.eos -> "stop"
    [] t.status = "WillStopLength" /\ ~(t.numNew > 0 /\ t.next.eos) -> "length"
    [] OTHER -> "none"

\* A slip: the limit is announced when it is reached.
UpdateDecodeStatusLate(r, t) ==
  CASE StopReason(t) # "none" -> [t EXCEPT !.status = "Stopped"]
    [] StopReason(t) = "none" /\ t.status = "Normal" /\ t.numNew >= args.maxNew[r] ->
         [t EXCEPT !.status = "WillStopLength"]
    [] OTHER -> t

UpdateDecodeStatus(r, t) ==
  CASE StopReason(t) # "none" -> [t EXCEPT !.status = "Stopped"]
    [] StopReason(t) = "none" /\ t.status = "Normal" /\ t.numNew + 1 >= args.maxNew[r] ->
         [t EXCEPT !.status = "WillStopLength"]
    [] OTHER -> t

\* The i-th token is for the i-th output; update_prefix appends it to what the task has.
Given(e, r) ==
  IF r \notin ToSet(e.outputs) THEN task[r]
  ELSE [task[r] EXCEPT !.next = e.tokens[CHOOSE i \in DOMAIN e.outputs : e.outputs[i] = r],
                       !.numNew = @ + 1, !.len = @ + 1]

BatchResult(e) ==
  [r \in {s \in ToSet(e.tasks) : Given(e, s).next # NoToken} |-> Given(e, r).next]

Record ==
  LET entry(r) == CHOOSE e \in ToSet(unwaited) : r \in ToSet(e.tasks)
      done == UNION {ToSet(unwaited[i].tasks) : i \in DOMAIN unwaited}
      given(r) == Given(entry(r), r)
  IN  /\ pc = "poll" /\ at > Len(ongoing)
      /\ task' = [r \in Reqs |-> IF r \in done THEN UpdateDecodeStatus(r, given(r)) ELSE task[r]]
      /\ req' = [r \in Reqs |->
           IF r \notin done THEN req[r]
           ELSE [req[r] EXCEPT !.remain = IF r \in ToSet(entry(r).outputs) THEN @ + 1 ELSE @,
                               !.finish = IF StopReason(given(r)) = "none" THEN @
                                          ELSE StopReason(given(r))]]
      /\ results' = results \o Mapped(unwaited, BatchResult)
      /\ pc' = "update"
      /\ UNCHANGED <<args, submitted, idList, threshold, freeGroups, waitingOf, batch, ongoing, at,
                     unwaited, stageVars>>

-----------------------------------------------------------------------------
(* Scheduler.update and remove_kvcache_all_device *)

Updated == ToSet(batch.ids) \cup UNION {ToSet(unwaited[i].tasks) : i \in DOMAIN unwaited}

\* The tasks that leave their group: those that do not wait.
Leaving == {r \in Updated : ~task[r].waiting /\ task[r].group # NoGroup}

Removed == {r \in Updated : ~task[r].waiting /\ task[r].status = "Stopped"}
RemovedDecode == SetToSeq({r \in Removed : task[r].type = "Decode"})

UsedGroups == Filtered([g \in 1 .. LastStage + 1 |-> g - 1], Groups \ ToSet(freeGroups))

\* A request that ended in decode ends the congestion.
Restored == IF RemovedDecode # <<>> THEN NumBlocks ELSE threshold

\* A slip: a group is freed by the task that leaves it last.
FreedByLeaving(left) ==
  Filtered(UsedGroups, {g \in Groups : left[g] = {} /\ \E r \in Leaving : task[r].group = g})

\* A slip: a group is kept until one of its tasks has ended.
FreedByEnding(left) ==
  Filtered(UsedGroups, {g \in Groups : left[g] = {} /\ \E r \in Removed : task[r].group = g})

\* The groups nobody is left in, also when their batch was empty.
Freed(left) == Filtered(UsedGroups, {g \in Groups : left[g] = {}})

Update ==
  LET left == [g \in Groups |-> waitingOf[g] \ {r \in Leaving : task[r].group = g}]
  IN  /\ pc = "update"
      /\ waitingOf' = left
      /\ freeGroups' = freeGroups \o Freed(left)
      /\ idList' = Filtered(idList, Reqs \ Removed)
      /\ task' = [r \in Reqs |-> IF r \in Removed THEN NewTask(r) ELSE task[r]]
      /\ threshold' = Restored
      /\ kv' = [kv EXCEPT ![Main] = [r \in Reqs |-> IF r \in ToSet(RemovedDecode) THEN 0 ELSE @[r]]]
      /\ IF RemovedDecode = <<>> THEN UNCHANGED meta ELSE Send("EndTask", EndTasks(RemovedDecode))
      /\ batch' = NoBatch /\ unwaited' = <<>> /\ at' = 1
      /\ pc' = "schedule"
      /\ UNCHANGED <<args, submitted, req, ongoing, results, copy, hidden, toMain>>

-----------------------------------------------------------------------------
MainRank ==
  \/ SchedulePrefill \/ PrefillTooLarge \/ ScheduleDecode \/ DecodeTooLarge \/ ScheduleNothing
  \/ StepPrefill \/ StepDecode \/ StepEmpty \/ Idle
  \/ PollSkip \/ PollTake \/ Record
  \/ Update

StageStep(n) == Stage(n) /\ UNCHANGED <<args, mainVars>>

Next == MainRank \/ (\E n \in Others : StageStep(n)) \/ (\E r \in Reqs : Submit(r))

Spec == Init /\ [][Next]_vars

\* Rank 0 and every stage is a process whose loop goes on.
FairSpec == Spec /\ WF_vars(MainRank) /\ \A n \in Others : WF_vars(StageStep(n))
-----------------------------------------------------------------------------
\* A group counts the tasks of its batch that have yet to come back, and is free exactly
\* when there are none: update finds every task that leaves in its group (it raises
\* otherwise), a batch that turned out empty or fed no output gives its group back, and no
\* task is awaited by two batches.
GroupsAccounted ==
  /\ Cardinality(ToSet(freeGroups)) = Len(freeGroups)
  /\ pc = "schedule" => \A g \in Groups :
       /\ waitingOf[g] = {r \in Reqs : task[r].waiting /\ task[r].group = g}
       /\ waitingOf[g] = {} <=> g \in ToSet(freeGroups)
  /\ pc = "update" => \A r \in Leaving : r \in waitingOf[task[r].group]
  /\ \A i, j \in DOMAIN ongoing : i # j =>
       ToSet(ongoing[i].tasks) \cap ToSet(ongoing[j].tasks) = {}

Streams == INSTANCE TokenStreams WITH
             stream <- [r \in Reqs |->
               [out |-> [i \in DOMAIN req[r].out |->
                           LET tok == req[r].out[i]
                           IN  [pos |-> IF tok.of = r /\ tok.at > 0 THEN tok.at - PromptLen[r] + 1
                                        ELSE 0,
                                eos |-> tok.eos]],
                closed |-> req[r].closed,
                limit |-> args.maxNew[r]]]

\* The pipeline keeps the promise of the engine: the tokens of the last stage reach their
\* own streams in order, whatever batches overtake each other on the way.
ImplementsStreams == Streams!StreamsSpec

\* Every stream is closed in the end unless the scheduler raised; there are finitely many.
EveryStreamCloses == <>[](pc = "crashed" \/ \A r \in submitted : req[r].closed)
=============================================================================
