------------------------------- MODULE Engine -------------------------------
(***************************************************************************)
(* The serving loop of one chitu rank 0 without pipeline or data           *)
(* parallelism: process_queue (chitu/serve/common.py) drains the queue the *)
(* HTTP thread fills and calls chitu_run, which schedules a batch          *)
(* (chitu/scheduler.py), runs one prefill or decode step of it             *)
(* (chitu/executor.py), and removes what has finished.  A step samples     *)
(* tokens, synchronises them to the tasks (chitu/task.py) and hands them   *)
(* to the request streams, each in an order of its own that depends on     *)
(* schedule_overlap.                                                       *)
(*                                                                         *)
(* Pages are counted: a request with n tokens in the cache holds           *)
(* ceil(n / block_size) of them, which is what PagedKVCache establishes    *)
(* for mtp_size = 1, the value assumed here.  Tokens are their position in *)
(* the answer and whether they end it.                                     *)
(***************************************************************************)
EXTENDS Integers, Sequences, FiniteSets

CONSTANTS
  Reqs,
  Priority,         \* [Reqs -> Nat]: priority of the request's API key
  StopWithEos,      \* SUBSET Reqs: the requests with stop_with_eos
  BlockSize,        \* tokens in a page
  NumTasks,         \* prefill_num_tasks = decode_num_tasks = infer.max_reqs
  Configs           \* the requests and arguments to consider, see args

NoChunk == 0

ASSUME ReqsAssumption == IsFiniteSet(Reqs)
ASSUME PriorityAssumption == Priority \in [Reqs -> Nat]
ASSUME StopWithEosAssumption == StopWithEos \subseteq Reqs
ASSUME BlockSizeAssumption == BlockSize \in Nat \ {0}
ASSUME NumTasksAssumption == NumTasks \in Nat \ {0}

\* The length of the encoded prompts, max_new_tokens as UserRequest clamps it, the pages
\* in the cache, infer.prefill_chunk_size (NoChunk for None), infer.schedule_overlap.
ASSUME ConfigsAssumption ==
  \A c \in Configs :
    c \in [promptLen : [Reqs -> Nat \ {0}], maxNew : [Reqs -> Nat \ {0}],
           blocks : Nat \ {0}, chunk : Nat, overlap : BOOLEAN]

VARIABLES
  args,        \* one of Configs
  submitted,   \* the requests the HTTP thread has created
  pending,     \* TaskPool.pending_queue
  idList,      \* TaskPool.id_list, the keys of TaskPool.pool in order
  task,        \* the Task of each request
  req,         \* the UserRequest of each request
  kvLen,       \* req_id_to_seq_len: tokens of the request in the cache
  threshold,   \* kvcache_block_threshold
  results,     \* Backend.last_batch_results: functions request -> token
  order,       \* the prefill and the decode tasks of the pool, sorted by schedule()
  batch,       \* the task ids it returned; while it runs, its prefill candidates
  pc           \* where the worker thread is, "crashed" after an exception

vars == <<args, submitted, pending, idList, task, req, kvLen, threshold, results,
          order, batch, pc>>

PromptLen == args.promptLen
MaxNew == args.maxNew
NumBlocks == args.blocks

NoToken == [pos |-> 0, eos |-> FALSE]

NewTask(r) ==
  [type |-> "Prefill", prefix |-> PromptLen[r], consumed |-> 0, chunk |-> NoChunk,
   next |-> NoToken, numNew |-> 0, status |-> "Normal", sync |-> TRUE, gen |-> NoToken]

NoOrder == [prefill |-> <<>>, decode |-> <<>>]

NewReq == [out |-> <<>>, remain |-> 0, finish |-> "none", closed |-> FALSE]

Init ==
  /\ args \in Configs
  /\ submitted = {}
  /\ pending = <<>>
  /\ idList = <<>>
  /\ task = [r \in Reqs |-> NewTask(r)]
  /\ req = [r \in Reqs |-> NewReq]
  /\ kvLen = [r \in Reqs |-> 0]
  /\ threshold = NumBlocks
  /\ results = <<>>
  /\ order = NoOrder
  /\ batch = <<>>
  /\ pc = "loop"

InSeq(r, s) == \E i \in DOMAIN s : s[i] = r
Elems(s) == {s[i] : i \in DOMAIN s}
Smaller(a, b) == IF a <= b THEN a ELSE b
Larger(a, b) == IF a <= b THEN b ELSE a
Prefix(s, n) == SubSeq(s, 1, Smaller(n, Len(s)))

-----------------------------------------------------------------------------
(* Pages *)

Held(n) == (n + BlockSize - 1) \div BlockSize

\* The pages that hold len[r] tokens of each request r of S: the first, the second, ... of r.
PagesOf(S, len) == UNION {{r} \X (1 .. Held(len[r])) : r \in S}

UsedBlocks == Cardinality(PagesOf(Reqs, kvLen))

\* num_additional_blocks_req_need, of all requests of S together
Lacking(S, len) == Cardinality(PagesOf(S, len) \ PagesOf(S, kvLen))

-----------------------------------------------------------------------------
(* Task *)

\* A slip: the token still on the GPU is left out.
PrefixTokensLenSynced(t) == t.prefix

\* The token of a decode step that has not been synchronised counts.
PrefixTokensLen(t) == IF t.sync \/ t.type = "Prefill" THEN t.prefix ELSE t.prefix + 1

HasModelRun(t) == IF args.overlap THEN t.status = "Normal" ELSE t.status # "Stopped"

LastChunk(t) == t.chunk = NoChunk \/ t.consumed + t.chunk >= PrefixTokensLen(t)

NextReqTokensLen(t) == IF LastChunk(t) THEN PrefixTokensLen(t) - t.consumed ELSE t.chunk

\* A slip: a chunk in the middle of the prompt yields a token too.
HasOutputAlways(t) == t.status # "Stopped"

HasOutput(t) == t.status # "Stopped" /\ (t.type = "Decode" \/ LastChunk(t))

\* A slip: the budget of the whole batch counts as consumed by each task.
ConsumeWholeBudget(t) ==
  IF LastChunk(t)
  THEN [t EXCEPT !.consumed = PrefixTokensLen(t), !.type = "Decode", !.chunk = NoChunk]
  ELSE [t EXCEPT !.consumed = @ + args.chunk, !.chunk = NoChunk]

ConsumeReqTokens(t) ==
  IF LastChunk(t)
  THEN [t EXCEPT !.consumed = PrefixTokensLen(t), !.type = "Decode", !.chunk = NoChunk]
  ELSE [t EXCEPT !.consumed = @ + t.chunk, !.chunk = NoChunk]

UpdateResponseNoSync(t, tok) == [t EXCEPT !.next = tok, !.numNew = @ + 1, !.sync = FALSE]

UpdatePrefix(t) ==
  IF t.sync \/ t.next = NoToken THEN t
  ELSE [t EXCEPT !.prefix = IF t.type = "Decode" THEN @ + 1 ELSE @, !.sync = TRUE]

\* Why update_decode_status stops the task now, if it does.
StopReason(t) ==
  IF t.status = "Stopped" THEN "none"
  ELSE IF t.numNew > 0 /\ t.next.eos THEN "stop"
  ELSE IF t.status = "WillStopLength" THEN "length"
  ELSE "none"

UpdateDecodeStatus(r, t) ==
  IF t.status = "Stopped" THEN t
  ELSE IF StopReason(t) # "none" THEN [t EXCEPT !.status = "Stopped"]
  ELSE IF t.numNew + 1 >= MaxNew[r] THEN [t EXCEPT !.status = "WillStopLength"]
  ELSE t

-----------------------------------------------------------------------------
(* Synchronisation and delivery of sampled tokens *)

\* batch_update_status of the tasks in all, after the tokens tok of the output
\* tasks were stored in them: the tasks, the requests and the BatchResult.
Recorded(t, tok) == [r \in Reqs |-> IF r \in DOMAIN tok THEN UpdateResponseNoSync(t[r], tok[r])
                                                      ELSE t[r]]

SyncedTasks(t, all, tok) ==
  [r \in Reqs |->
     IF r \in all
     THEN [UpdateDecodeStatus(r, UpdatePrefix(Recorded(t, tok)[r])) EXCEPT
             !.gen = IF r \in DOMAIN tok THEN NoToken ELSE @]
     ELSE t[r]]

SyncedReqs(q, t, all, tok) ==
  [r \in Reqs |->
     IF r \in all
     THEN LET reason == StopReason(UpdatePrefix(Recorded(t, tok)[r]))
          IN  [q[r] EXCEPT !.remain = IF r \in DOMAIN tok THEN @ + 1 ELSE @,
                           !.finish = IF reason = "none" THEN @ ELSE reason]
     ELSE q[r]]

BatchResult(t, all, tok) ==
  LET new == Recorded(t, tok)
  IN  [r \in {s \in all : new[s].next # NoToken} |-> new[r].next]

\* A slip: the stream is compared before the token is taken off the count.
AddDataLate(u, tok) ==
  [u EXCEPT !.out = Append(@, tok), !.remain = @ - 1,
            !.closed = @ \/ (u.finish # "none" /\ u.remain = 0)]

\* The stream gets a token and is closed with the last one.
AddData(u, tok) ==
  [u EXCEPT !.out = Append(@, tok), !.remain = @ - 1,
            !.closed = @ \/ (u.finish # "none" /\ u.remain = 1)]

\* postprocess_async_part of the oldest batch result in res.
EmittedReqs(q, res) ==
  IF res = <<>> THEN q
  ELSE [r \in Reqs |-> IF r \in DOMAIN Head(res) THEN AddData(q[r], Head(res)[r]) ELSE q[r]]

Popped(res) == IF res = <<>> THEN res ELSE Tail(res)

-----------------------------------------------------------------------------
(* process_queue *)

\* The HTTP thread creates a request and its task.
Submit(r) ==
  /\ r \notin submitted
  /\ submitted' = submitted \cup {r}
  /\ pending' = Append(pending, r)
  /\ UNCHANGED <<args, idList, task, req, kvLen, threshold, results, order, batch, pc>>

\* A slip: results left when the pool runs empty are forgotten.
ProcessQueueForgetful ==
  /\ pc = "loop"
  /\ idList \o pending # <<>>
  /\ idList' = idList \o pending
  /\ pending' = <<>>
  /\ pc' = "schedule"
  /\ UNCHANGED <<args, submitted, task, req, kvLen, threshold, results, order, batch>>

\* One turn of the loop of the worker thread; with nothing in the pool it sends
\* a result that is still waiting, or sleeps.
ProcessQueue ==
  /\ pc = "loop"
  /\ idList' = idList \o pending
  /\ pending' = <<>>
  /\ \/ /\ idList' # <<>>
        /\ pc' = "schedule"
        /\ UNCHANGED <<req, results>>
     \/ /\ idList' = <<>> /\ results # <<>>
        /\ req' = EmittedReqs(req, results)
        /\ results' = Popped(results)
        /\ UNCHANGED pc
  /\ UNCHANGED <<args, submitted, task, kvLen, threshold, order, batch>>

-----------------------------------------------------------------------------
(* Scheduler.schedule *)

Pooled == Elems(idList)

IndexOf(r) == CHOOSE i \in DOMAIN idList : idList[i] = r

\* "request_preset,prefill_first", the stable sort being broken by id_list.
Before(r, s) ==
  LET prefill(x) == IF task[x].type = "Prefill" THEN 1 ELSE 0
  IN  \/ Priority[r] > Priority[s]
      \/ Priority[r] = Priority[s] /\ prefill(r) > prefill(s)
      \/ Priority[r] = Priority[s] /\ prefill(r) = prefill(s) /\ IndexOf(r) < IndexOf(s)

\* S in a row.
Listings(S) == {s \in [1 .. Cardinality(S) -> S] : Elems(s) = S}

\* The tasks of the given type that are not waiting, best first.
Sorted(type) ==
  {s \in Listings({r \in Pooled : task[r].status # "Stopped" /\ task[r].type = type}) :
     \A i, j \in DOMAIN s : i < j => Before(s[i], s[j])}

Sort ==
  /\ pc = "schedule"
  /\ \E p \in Sorted("Prefill"), d \in Sorted("Decode") : order' = [prefill |-> p, decode |-> d]
  /\ pc' = "chunk"
  /\ UNCHANGED <<args, submitted, pending, idList, task, req, kvLen, threshold, results, batch>>

\* The best task is one to prefill.
PrefillTurn ==
  /\ order.prefill # <<>>
  /\ order.decode # <<>> => Before(Head(order.prefill), Head(order.decode))

\* The tokens that the tasks before the i-th still have to prefill.
RemainingBefore(i) ==
  LET left(r) == task[r].consumed + 1 .. PrefixTokensLen(task[r])
  IN  Cardinality(UNION {{j} \X left(order.prefill[j]) : j \in 1 .. i - 1})

ChunkCandidates ==
  IF args.chunk = NoChunk THEN order.prefill
  ELSE SubSeq(order.prefill, 1,
              Cardinality({i \in DOMAIN order.prefill : RemainingBefore(i) < args.chunk}))

\* _chunk_prefill_tasks_count: the tasks share prefill_chunk_size tokens in order.
Chunk ==
  LET ids == ChunkCandidates
      chunkOf(i) == Smaller(PrefixTokensLen(task[ids[i]]) - task[ids[i]].consumed,
                            args.chunk - RemainingBefore(i))
  IN  /\ pc = "chunk"
      /\ IF PrefillTurn
         THEN /\ batch' = ids
              /\ task' = [r \in Reqs |->
                           IF args.chunk = NoChunk \/ ~InSeq(r, ids) THEN task[r]
                           ELSE [task[r] EXCEPT !.chunk = chunkOf(CHOOSE i \in DOMAIN ids : ids[i] = r)]]
         ELSE batch' = <<>> /\ UNCHANGED task
      /\ pc' = "select"
      /\ UNCHANGED <<args, submitted, pending, idList, req, kvLen, threshold, results, order>>

\* The candidates that fit under the congestion threshold, in order.
PrefillTasks ==
  LET target == [r \in Reqs |-> task[r].consumed + NextReqTokensLen(task[r])]
      fits(n) == UsedBlocks + Lacking(Elems(SubSeq(batch, 1, n)), target) <= threshold
  IN  SubSeq(batch, 1, Cardinality({n \in DOMAIN batch : fits(n)}))

\* Exceptions end the worker thread.
Crash == pc' = "crashed"

SchedulePrefill ==
  /\ pc = "select"
  /\ PrefillTurn
  /\ PrefillTasks # <<>>
  /\ batch' = Prefix(PrefillTasks, NumTasks)
  /\ order' = NoOrder
  /\ pc' = "step"
  /\ UNCHANGED <<args, submitted, pending, idList, task, req, kvLen, threshold, results>>

\* "KV_cache capacity is insufficient to support prefilling"
PrefillTooLarge ==
  /\ pc = "select"
  /\ PrefillTurn
  /\ PrefillTasks = <<>> /\ threshold = NumBlocks /\ UsedBlocks = 0
  /\ Crash
  /\ UNCHANGED <<args, submitted, pending, idList, task, req, kvLen, threshold, results, order, batch>>

\* Decode tasks run, or evicting happens, when prefill has no candidate that fits.
DecodeTurn ==
  /\ pc = "select"
  /\ PrefillTurn => PrefillTasks = <<>> /\ ~(threshold = NumBlocks /\ UsedBlocks = 0)

\* has_enough_block once the last e decode tasks are evicted.
HasEnoughBlock(e) ==
  LET kept == {order.decode[i] : i \in 1 .. Len(order.decode) - e}
      gone == Elems(order.decode) \ kept
  IN  Lacking({r \in kept : HasModelRun(task[r])}, [r \in Reqs |-> PrefixTokensLen(task[r])])
      <= (NumBlocks - UsedBlocks) + Cardinality(PagesOf(gone, kvLen))

\* A slip: the count of new tokens starts over with the prefill.
EvictedAfresh(t) ==
  [t EXCEPT !.next = NoToken, !.type = "Prefill", !.chunk = NoChunk, !.consumed = 0, !.numNew = 0]

\* evict_decode_task: back to before prefill, with the answer so far as prompt.
Evicted(t) ==
  [t EXCEPT !.next = NoToken, !.type = "Prefill", !.chunk = NoChunk, !.consumed = 0]

\* The pages of the last e decode tasks are freed, their tasks start over, and each
\* halves the threshold (to h, all together).
EvictLast(e) ==
  LET gone == {order.decode[i] : i \in Len(order.decode) - e + 1 .. Len(order.decode)}
  IN  /\ task' = [r \in Reqs |-> IF r \in gone THEN Evicted(task[r]) ELSE task[r]]
      /\ kvLen' = [r \in Reqs |-> IF r \in gone THEN 0 ELSE kvLen[r]]
      /\ \E h \in 0 .. threshold :
           h * 2^e <= threshold /\ threshold < (h + 1) * 2^e /\ threshold' = Larger(1, h)

ScheduleDecode ==
  /\ DecodeTurn
  /\ \E e \in 0 .. Larger(1, Len(order.decode)) - 1 :
       /\ HasEnoughBlock(e)
       /\ \A f \in 0 .. e - 1 : ~HasEnoughBlock(f)
       /\ EvictLast(e)
       /\ batch' = Prefix(SubSeq(order.decode, 1, Len(order.decode) - e), NumTasks)
  /\ order' = NoOrder
  /\ pc' = "step"
  /\ UNCHANGED <<args, submitted, pending, idList, req, results>>

\* "KV_cache capacity is insufficient to support decoding completion"
DecodeTooLarge ==
  /\ DecodeTurn
  /\ \A e \in 0 .. Larger(1, Len(order.decode)) - 1 : ~HasEnoughBlock(e)
  /\ EvictLast(Len(order.decode) - 1)
  /\ Crash
  /\ UNCHANGED <<args, submitted, pending, idList, req, results, order, batch>>

-----------------------------------------------------------------------------
(* Executor.step *)

\* The pages a step takes for the requests of S, to reach the lengths len.
Allocates(S, len) == Lacking(S, len) <= NumBlocks - UsedBlocks

Stepping(type) == pc = "step" /\ batch # <<>> /\ task[Head(batch)].type = type

\* The sampled tokens, some of which end an answer that may end so.
Sampled(S, at) == {[r \in S |-> [pos |-> at[r], eos |-> r \in E]] :
                     E \in SUBSET (S \cap StopWithEos)}

StepPrefill ==
  LET B == Elems(batch)
      len == [r \in Reqs |-> IF r \in B THEN kvLen[r] + NextReqTokensLen(task[r]) ELSE kvLen[r]]
      outputs == {r \in B : HasOutput(task[r])}
      consumed == [r \in Reqs |-> IF r \in B THEN ConsumeReqTokens(task[r]) ELSE task[r]]
      at == [r \in Reqs |-> task[r].prefix - PromptLen[r] + 1]
  IN  /\ Stepping("Prefill")
      /\ Allocates(B, len)
      /\ kvLen' = len
      /\ \E tok \in Sampled(outputs, at) :
           IF args.overlap
           THEN /\ task' = [r \in Reqs |-> IF r \in outputs
                                           THEN [consumed[r] EXCEPT !.gen = tok[r]]
                                           ELSE consumed[r]]
                /\ req' = EmittedReqs(req, results)
                /\ results' = Popped(results)
           ELSE IF outputs = {}
           THEN /\ task' = consumed
                /\ req' = EmittedReqs(req, results)
                /\ results' = Popped(results)
           ELSE /\ task' = SyncedTasks(consumed, B, tok)
                /\ req' = SyncedReqs(EmittedReqs(req, results), consumed, B, tok)
                /\ results' = Append(Popped(results), BatchResult(consumed, B, tok))
      /\ pc' = "update"
      /\ UNCHANGED <<args, submitted, pending, idList, threshold, order, batch>>

\* Without overlap every task of the batch runs, and its token is synchronised
\* at the end of the step.
StepDecode ==
  LET B == Elems(batch)
      len == [r \in Reqs |-> IF r \in B THEN kvLen[r] + 1 ELSE kvLen[r]]
      ran == [r \in Reqs |-> IF r \in B THEN [task[r] EXCEPT !.sync = FALSE] ELSE task[r]]
      at == [r \in Reqs |-> task[r].next.pos + 1]
  IN  /\ Stepping("Decode") /\ ~args.overlap
      /\ Allocates(B, len)
      /\ kvLen' = len
      /\ \E tok \in Sampled(B, at) :
           /\ task' = SyncedTasks(ran, B, tok)
           /\ req' = SyncedReqs(EmittedReqs(req, results), ran, B, tok)
           /\ results' = Append(Popped(results), BatchResult(ran, B, tok))
      /\ pc' = "update"
      /\ UNCHANGED <<args, submitted, pending, idList, threshold, order, batch>>

\* update_by_decode_status, by the status each task had when the batch was packed:
\* a task one token short of its limit still runs, one at the limit is dropped.
Running == {r \in Elems(batch) : HasModelRun(task[r])}

\* With overlap a step first synchronises the tokens the previous one sampled for
\* the tasks of the batch and sends them while the model runs.
StepDecodeOverlap ==
  LET B == Elems(batch)
      R == Running
      last == [r \in B |-> task[r].gen]
      synced == SyncedTasks(task, B, last)
      len == [r \in Reqs |-> IF r \in R THEN kvLen[r] + 1 ELSE kvLen[r]]
      at == [r \in Reqs |-> synced[r].next.pos + 1]
      pushed == Append(results, BatchResult(task, B, last))
  IN  /\ Stepping("Decode") /\ args.overlap
      /\ Allocates(R, len)
      /\ kvLen' = len
      /\ \E tok \in Sampled(R, at) :
           task' = [r \in Reqs |-> IF r \in R
                                   THEN [synced[r] EXCEPT !.sync = FALSE, !.gen = tok[r]]
                                   ELSE synced[r]]
      /\ req' = EmittedReqs(SyncedReqs(req, task, B, last), pushed)
      /\ results' = Popped(pushed)
      /\ pc' = "update"
      /\ UNCHANGED <<args, submitted, pending, idList, threshold, order, batch>>

\* get_free_block raises "No more free blocks" in a step the scheduler let pass.
\* The worker thread ends there, so what the step had changed by then (pages taken,
\* tokens synchronised but not sent) is left out.
Underrun ==
  LET R == IF Stepping("Decode") /\ args.overlap THEN Running ELSE Elems(batch)
      grown == [r \in Reqs |-> kvLen[r] + IF Stepping("Decode") THEN 1
                                          ELSE NextReqTokensLen(task[r])]
  IN  ~Allocates(R, grown)

StepUnderrun ==
  /\ pc = "step" /\ Underrun
  /\ Crash
  /\ UNCHANGED <<args, submitted, pending, idList, task, req, kvLen, threshold, results, order, batch>>

\* empty_step
StepEmpty ==
  /\ pc = "step" /\ batch = <<>>
  /\ req' = EmittedReqs(req, results)
  /\ results' = Popped(results)
  /\ pc' = "update"
  /\ UNCHANGED <<args, submitted, pending, idList, task, kvLen, threshold, order, batch>>

-----------------------------------------------------------------------------
(* Scheduler.update and remove_kvcache_all_device *)

Removed == {r \in Elems(batch) : task[r].status = "Stopped"}

\* The rest of the pool, in its order.
Remaining ==
  {s \in Listings(Pooled \ Removed) : \A i, j \in DOMAIN s : i < j => IndexOf(s[i]) < IndexOf(s[j])}

RemovedDecode == {r \in Removed : task[r].type = "Decode"}

\* A slip: the pages stay allocated.
UpdateWithoutEndTask ==
  /\ pc = "update"
  /\ idList' \in Remaining
  /\ task' = [r \in Reqs |-> IF r \in Removed THEN NewTask(r) ELSE task[r]]
  /\ threshold' = IF RemovedDecode # {} THEN NumBlocks ELSE threshold
  /\ pc' = "loop"
  /\ batch' = <<>>
  /\ UNCHANGED <<args, submitted, pending, req, kvLen, results, order>>

\* Finished tasks leave the pool; the pages of those that ended in decode are
\* freed and the congestion threshold is restored.
Update ==
  /\ pc = "update"
  /\ idList' \in Remaining
  /\ task' = [r \in Reqs |-> IF r \in Removed THEN NewTask(r) ELSE task[r]]
  /\ kvLen' = [r \in Reqs |-> IF r \in RemovedDecode THEN 0 ELSE kvLen[r]]
  /\ threshold' = IF RemovedDecode # {} THEN NumBlocks ELSE threshold
  /\ pc' = "loop"
  /\ batch' = <<>>
  /\ UNCHANGED <<args, submitted, pending, req, results, order>>

-----------------------------------------------------------------------------
Worker ==
  \/ ProcessQueue
  \/ Sort \/ Chunk \/ SchedulePrefill \/ PrefillTooLarge \/ ScheduleDecode \/ DecodeTooLarge
  \/ StepPrefill \/ StepDecode \/ StepDecodeOverlap
  \/ StepUnderrun \/ StepEmpty
  \/ Update

Next == Worker \/ \E r \in Reqs : Submit(r)

Spec == Init /\ [][Next]_vars

\* The worker thread never stops taking turns; HTTP threads may stop submitting.
FairSpec == Spec /\ WF_vars(Worker)
-----------------------------------------------------------------------------
\* The tokens on their way to r's stream.
InFlight(r) == Cardinality({i \in DOMAIN results : r \in DOMAIN results[i]})

\* Pages belong to requests of the pool: a finished request has left none behind
\* and a queued one has none yet, whatever evictions it went through.
PagesOfPool ==
  /\ UsedBlocks <= NumBlocks
  /\ \A r \in Reqs : kvLen[r] > 0 => r \in Pooled

\* Between two steps the cache of a request holds exactly the tokens the next
\* step does not feed: what prefill consumed, and in decode all but the newest
\* token, which with overlap is still to be synchronised.
CacheMatchesTask ==
  pc \notin {"update", "crashed"} => \A r \in Pooled :
    kvLen[r] = CASE task[r].type = "Prefill" -> task[r].consumed
                 [] task[r].type = "Decode" /\ args.overlap -> task[r].prefix
                 [] task[r].type = "Decode" /\ ~args.overlap -> task[r].prefix - 1

\* No token is lost or counted twice on its way from the sampler to the stream,
\* across evictions that prefill the answer so far again: a task has as many new
\* tokens behind its prompt as its stream has been given and is about to be.
TokensAccounted ==
  \A r \in Pooled :
    /\ task[r].prefix = PromptLen[r] + task[r].numNew
    /\ task[r].numNew = Len(req[r].out) + InFlight(r)
    /\ req[r].remain = InFlight(r)

\* A request never disappears and is never there twice: while its stream is open it is
\* queued or in the pool, once, or its last token is on the way.
NoAbandonedStream ==
  \A r \in submitted :
    \/ req[r].closed
    \/ LET held == idList \o pending IN Cardinality({i \in DOMAIN held : held[i] = r}) = 1
    \/ InFlight(r) = 1 /\ req[r].finish # "none"

Capacity(S) == Cardinality(PagesOf(S, [r \in Reqs |-> PromptLen[r] + MaxNew[r]]))

\* Loads the scheduler is to cope with: every request fits the cache alone or, where
\* prompts are split and keep pages that no eviction gives back, all fit together.
AllFit == Capacity(Reqs) <= NumBlocks
Servable == AllFit \/ (args.chunk = NoChunk /\ \A r \in Reqs : Capacity({r}) <= NumBlocks)

\* A request is about to decode for the first time after a prefill that filled its last
\* page. Its token is sampled but prefix_tokens_len does not count it yet.
Unbudgeted ==
  /\ args.overlap
  /\ \E r \in Running : task[r].type = "Decode" /\ task[r].sync /\ kvLen[r] % BlockSize = 0

\* The scheduler, which counts the tokens of tasks, and the allocator, which counts those
\* in the cache, agree: no exception ends the worker thread on a load it can serve. The
\* one exception is an unbudgeted page with overlap (scheduler.py:355).
NeverCrashes == Servable /\ pc = "crashed" => Unbudgeted /\ ~AllFit

Streams == INSTANCE TokenStreams WITH
             stream <- [r \in Reqs |-> [out |-> req[r].out, closed |-> req[r].closed,
                                            limit |-> MaxNew[r]]]

\* The engine implements the promise to the HTTP side: tokens in order, none lost
\* or repeated, and the stream closed by the token that ends the answer.
ImplementsStreams == Streams!StreamsSpec

\* Every stream is closed in the end, evictions and congestion notwithstanding, on a
\* load the scheduler is to cope with and unless the worker thread has ended.
EveryStreamCloses ==
  \A r \in Reqs : (r \in submitted /\ Servable) ~> (req[r].closed \/ pc = "crashed")
=============================================================================
