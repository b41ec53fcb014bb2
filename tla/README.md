# A TLA+ verification of chitu's serving core

chitu serves large language models: HTTP requests become tasks, a scheduler
batches them step by step, an executor runs prefill and decode steps over a
paged KV cache, and the sampled tokens travel back to the HTTP responses. In
larger deployments the engine runs as several ranks with one scheduler, as
several scheduler processes behind a router, or as separate prefill and decode
processes that hand the KV cache over. This directory holds TLA+ models of that
core, the TLC runs that check them on small instances and proofs, checked by
TLAPS, that hold for every instance.

`PROJECT.json` maps each definition to the lines it models and lists the runs,
the findings, the hazards and, for every property, a plausible slip in the code
(the operators commented "A slip") that the property catches.

## 1. Inventory

### Components, their state and how they interact

| Component (under `src/chitu/`) | State | Operations | Interacts with |
|---|---|---|---|
| Paged KV cache, `cache_manager.py` | `free_blocks`, `block_table`, `req_id_to_seq_len` | prepare prefill / decode, MTP roll-back, finalize, transfer reserve / insert, realloc | called by the executor each step; its counters are read by the scheduler |
| Dense and skew caches, `cache_manager.py`, `scheduler.py` (`SkewScheduler`), `global_vars.py` (`SlotHandle`) | `hot_reqs`, `req2slot`, rows, slot groups | slot assignment, group scheduling, swap on removal | the cache's rows and the scheduler's group lists must agree in order |
| Scheduler, `scheduler.py` | `kvcache_block_threshold`, scheduler groups | schedule (chunked prefill, decode, eviction), update | reads and writes tasks, evicts through the executor |
| Task and request state, `task.py` | `Task`, `UserRequest`, `TaskPool`, `PackedTasks`, `TaskLoad` | progress, status, synchronisation, delivery | shared by all of the above; the HTTP thread enqueues |
| DP / PP collectors, `task.py` | ongoing requests, collected tokens | add, update, unwait | executor with pipeline or data parallelism |
| Executor, `executor.py` | `last_batch_results` | step, empty_step | cache, model, tasks, token sink |
| Pipeline parallelism, `executor.py` (`PipeDispatcher`), `task.py` (`PPTaskCollector`) | copies of tasks and a cache at each stage, messages and hidden states on their way, results awaited | dispatch, receive and send hidden states, sample, collect results | every rank with the next one, the last with rank 0, over ZeroMQ and the GPU network |
| Static buffers and CUDA graphs, `cuda_graph.py`, `static_tensor.py`, `batched_seq_len.py` | captured graphs, cached tensors with an up-to-date flag | capture, replay, read, set | model code reads through them in every step |
| Main loop, `chitu_main.py`, `serve/common.py` | none of its own | process_queue, chitu_run, warm-up, heartbeat | drives scheduler and executor |
| Answer streams, `async_response.py`, `hooks.py` | `AsyncDataStream`, `data_event` | add_data, stop, iterate | worker thread against server event loop |
| DP scheduling, `scheduler.py` (`DPFifoScheduler`), `task.py` (`DPTaskCollector`), `executor.py` (`ExpertDataDispatcher`) | slot owners, lists per rank, copies of tasks at the ranks | schedule, dispatch, run, collect tokens, end tasks | rank 0 and the other ranks over ZeroMQ |
| DP routing, `dp_request_router.py`, `dp_token_router.py`, `dp_token_sender.py` | scheduler statistics, pending and active requests, sending queues, wrapped tasks | register, select, send, wrap, forward tokens, clean up | the HTTP process and scheduler processes over ZeroMQ, time-outs |
| Prefill/decode disaggregation and KV transfer, `distributed/pd_disaggregation/` | logits slots, transfer queue, transfer infos, registrations, status | dispatch, prefill, transfer, wait, decode | two engines, a bootstrap server and RDMA |
| MoE load balancer, `moe/load_balancer/` | expert maps of each rank, weights in slots, counters | count, plan, migrate, commit, warm-up | executor between steps, all ranks of a group |
| Diffusion serving, `diffusion/` | one running generation | generate | stands alone |
| Backend, models, operators, quantisation, process groups, metrics | tensors | numeric | not control state |

### Where it is hard

* **Two clocks.** With `schedule_overlap` a step's tokens are synchronised and
  counted in the *next* step and delivered one step after that. The scheduler
  budgets pages from a task's prefix length, the cache allocates from its own
  length; in between a token is on the GPU, counted by nobody.
* **Eviction.** A decode task can be thrown back to before its prefill at any
  time, with half an answer delivered, a token not synchronised, its length
  limit already announced.
* **Congestion control.** Each eviction halves the prefill threshold, only a
  finishing decode restores it.
* **Chunked prefill.** Prompts share a token budget per step; tasks in the
  middle of a prompt sit in batches beside tasks that produce tokens.
* **Rows by position.** The skew cache hands a batch the first rows of its
  group. Nothing names the request of a row but the order of two lists that the
  scheduler and the cache each repair by a swap of their own.
* **Batches under way.** With pipeline parallelism several groups are in flight
  and results are taken from a list that shrinks while it is iterated; with data
  parallelism besides, a batch's results come from several columns.
* **Stages.** A stage gets descriptions by one channel and hidden states by
  another, and applies ends and evictions of tasks while the others are batches
  ahead or behind.
* **Graphs.** Python runs once, at the capture; what it remembers of tensors that
  kernels recompute in every replay must be true then too.
* **Threads.** The HTTP thread creates requests and consumes streams while the
  worker schedules and produces; the consumer reads some fields without a lock.
* **Processes.** DP routing and disaggregation add full queues, lost and late
  messages, time-outs that race answers, processes that die, and identifiers
  that clients choose.
* **Copies.** The ranks of a DP group keep copies of rank 0's tasks; the wrapper
  of a task in a scheduler process shadows its attributes; every rank of an
  expert group plans with tables of its own.

### What makes each component correct

* Cache: a page belongs to one request; none is lost; tables fit the tokens.
* Scheduler and executor: what was scheduled can run; no exception on a load
  that fits; pages return; everybody gets a turn in the end.
* Skew cache: the row of a request holds the cache of that request; groups and
  slots are neither lost nor shared.
* Tasks and requests: every token reaches its own stream once, in order; the
  stream is closed with the last one.
* Answer streams: no lost wake-up, no lost piece, right field.
* DP scheduling: what rank 0 assumes of a rank holds when the rank gets the
  message; slots are not overbooked; collected tokens reach their own streams.
* Pipeline: every stage has the tasks and tokens its batches speak of; groups and
  results are neither lost nor mixed up.
* CUDA graphs: a cached tensor that is read is that of the present step, whichever
  graph computed it last.
* DP routing: a client sees only its own answer, in order, and every stream is
  stopped once and for all.
* Disaggregation: the first token comes from the request's own prefill; logits
  are not overwritten while they wait; the decode process never blocks.
* Load balancer: the expert maps name the weights in the slots, on all ranks
  alike; the moves of all ranks pair up; no expert is lost.

`PROJECT.json` lists every component with its status and every hazard with the
line where it bites.

## 2. Modules

| Module | Models | Implements |
|---|---|---|
| `PageOwnership` | abstract: who owns which page | |
| `PagedKVCache` | the page allocator, one step per loop turn | `PageOwnership` |
| `TokenStreams` | abstract: what the engine promises the HTTP side | |
| `Engine` | queue, scheduler, executor step, tasks, delivery of rank 0 | `TokenStreams` |
| `EngineProofs` | theorems about its tokens, caches, streams, budget and the refinement | |
| `AsyncStream` | one answer stream between worker and event loop | |
| `Lists` | what the schedulers do with Python lists | |
| `SlotGroups` | skew cache, its scheduler, batches in the pipeline | |
| `SlotGroupsProofs` | theorems about the groups of slots | |
| `PipelineStages` | the stages other than rank 0: dispatch, hidden states, copies, caches, sampling | |
| `Pipeline` | rank 0 of a pipeline with the paged cache, on top of `PipelineStages` | `TokenStreams` |
| `PipelineProofs` | theorems about both | |
| `DPFifo` | the lists DPFifoScheduler makes | |
| `DPSchedule` | DPFifoScheduler (`DPFifo`), the dispatcher and the ranks of a DP group | `TokenStreams` |
| `DPScheduleProofs` | theorems about both | |
| `TokenRouter` | token senders, token router and the client's streams | |
| `TokenRouterProofs` | lemmas about the router's steps and about answers on their way | |
| `DPServing` | request router and scheduler processes, on top of `TokenRouter` | |
| `DPServingProofs` | theorems about it | |
| `PDServing` | prefill and decode processes and the KV transfer, on top of `TokenRouter` | |
| `PDServingProofs` | theorems about it | |
| `ExpertBalance` | MoE planner and weight migration | |
| `GraphedProperty` | one cached property under captures and replays | |
| `ComponentProofs` | theorems about `PagedKVCache`, `GraphedProperty`, `AsyncStream` and `ExpertBalance`, each by itself | |
| `GraphedDecode` | the sequence-length and page tensors in prefill, decode and speculation | |
| `MCPagedKVCache`, `MCEngine`, `MCSlotGroups`, `MCPipeline`, `MCDPSchedule`, `MCDPServing`, `MCPDServing`, `MCExpertBalance`, `MCGraphedProperty`, `MCGraphedDecode` | instances for TLC | |

They compose by abstraction: `PagedKVCache` establishes that a request with
`n` cached tokens holds `ceil(n / block_size)` pages (`TightTables` with
`MtpSize = 1`), and `Engine` uses that count instead of page lists. `Engine`
establishes that streams get their tokens in order and are closed once
(`TokenStreams`), and `AsyncStream` follows one stream from there to the HTTP
response. `SlotGroups` is the other cache type, with a scheduler of its own; it
stands beside `Engine` and shares with it the abstraction of task progress.
`DPSchedule` is the third scheduler; it implements the same `TokenStreams` as
`Engine`. `Pipeline` is the scheduler of `Engine` with its groups in use, over the
stages of `PipelineStages`. `TokenRouter` is the part that data-parallel and disaggregated serving
share: both extend it, and conjoin its steps with their own variables unchanged.
In `DPServing` the worker of a scheduler process is the loop of `Engine`, reduced
to "the next token of some task of the pool".

### PagedKVCache

`freeBlocks`, `blockTable` and `seqLen` are the fields of the same names in
`PagedKVCacheManager`; a key that is absent from a dictionary is the empty
table or length 0. `prepare_cache_prefill` and `prepare_cache_decode` advance
all lengths first (`PrepareCachePrefill`, `PrepareCacheDecode`) and then extend
the tables one request at a time (`ExtendBlockTable`); `OutOfBlocks` is the
exception of `get_free_block` in the middle of a turn. `UpdateMtpCacheDecode`
takes back the draft tokens the model rejected, and `FinalizeCacheAllDecode` is
an end or an eviction. The caller's choices (batches, chunk lengths, accepted
tokens) are arbitrary, so the result does not depend on the scheduler.

### Engine

One turn of the worker is `ProcessQueue`, then one of the scheduling actions,
then one of the steps, then `Update`; `Submit` is the HTTP thread and may come
in between. `task` and `req` are the `Task` and `UserRequest` of each request,
`kvLen` the cached tokens, `results` the queue `Backend.last_batch_results`.
A token is its position in the answer and whether it ends it. `gen` is
`Task.generated_result`, the token that with overlap waits on the GPU; `next`,
`numNew`, `sync` are `next_token`, `num_new_tokens`, `sync_new_token`.

Pages are pairs of a request and an index (`PagesOf`), so what a batch lacks and what
an eviction frees are sizes of sets.

* `Sort`: `schedule` sorts the pool; `order` is the result, split by the type of task
  because only the two lists and their heads are used; `Chunk`: `_chunk_prefill_tasks_count`,
  which leaves chunk sizes also in tasks that are not picked in the end;
  `SchedulePrefill`, `PrefillTooLarge`: the rest of `_schedule_prefill_tasks`.
* `ScheduleDecode`, `DecodeTooLarge`: `_schedule_decode_tasks` with the
  evictions it takes to make the batch fit, and its exception.
* `StepPrefill`, `StepDecode`, `StepDecodeOverlap`, `StepEmpty`: a whole
  `Executor.step`, from allocation to delivery, in the order that
  `schedule_overlap` decides. `StepUnderrun` is the allocator's exception.
* `Update`: `Scheduler.update` and the EndTask step that frees the pages.

An exception ends the worker thread: `pc = "crashed"`. The scheduler type is
`request_preset,prefill_first`, so both the priority and the type of tasks
order the batches. Arguments (`schedule_overlap`, `prefill_chunk_size`, the
number of pages and the requests' lengths) are chosen in `Init` among `Configs`.
The length limit is `max_new_tokens` after the clamp of
`UserRequest`; `mtp_size` is 1.

### AsyncStream

The worker's `add_data` is `ReasoningHandle`, `LeaveReasoning` and `Decode`:
three steps, because the generator evaluates `is_reasoning_content` without the
lock (`ReadFlag`, `ReadLen`). `SendStopSignal` and `NotifyStop` close the
stream, `NotifyBatch` is the callback the token sink schedules for the whole
batch. The event loop runs callbacks (`RunCallback`) only while the generator
has given way, which is what makes `clear` followed by `wait` safe.
A character may take two tokens; tokens that decode to no valid text leave the
cache `garbled` and no later token yields a piece, as in the code.

### SlotGroups

`sgroupList`, `freeSgroups`, `usedSgroups`, `waitingTasks` are the fields of
`SkewScheduler`, `slotIdx` is the `SlotHandle`'s current group, `hotReqs` and
`req2slot` the tables of `DenseKVCacheManager`. `kvBuffer` says whose KV cache a
row holds: a request that runs on a row that was not its own leaves there, and
in its own row, a cache that is nobody's (`Mixed`).

One turn of `chitu_run_main_rank` is a scheduling action (`Schedule`,
`ScheduleAllAllocated`, `ScheduleNothing`), a step, with several stages a look
at the results (`UpdateOngoing`), and `Update`, which is `Scheduler.update` with
the reordering of the group lists and the EndTask step that moves the rows.
Removed tasks come out of a Python set, hence in any order. `Complete` is a
result arriving from the last stage, in the order of the batches. Arguments are
chosen in `Init` among `Configs`; `stops` says how answers may end.
`AssertionError` is what `PackedTasks` or the cache manager raises.

### PipelineStages and Pipeline

`PipelineStages` has the ranks after rank 0, which is left to `Pipeline`. `copy` is the `TaskPool` of a rank, `kv` the tokens in
its cache, `meta` the ZeroMQ messages on their way to it, `hidden` the hidden states
sent by the stage before. One action is one `Executor.step` of a rank
(`StagePrefill`, `StageDecode`, `StageEndTask`): it takes the oldest description,
hands it on, waits for the hidden states, computes and sends. A row of hidden
states carries whose it is, up to which token, and whether all that went into it
belonged there: the tokens fed, and the cache and batch of every stage; a token the
last stage samples from a row that is not good is at no position, which the streams
show.

`Pipeline` is a turn of `chitu_run_main_rank` at rank 0: `SchedulePrefill` or
`ScheduleDecode` (with its evictions, each an EndTask message) takes a group of
`freeGroups`; `StepPrefill`, `StepDecode`, `StepEmpty` feed the stages and append to
`ongoing` what is awaited; `PollSkip` and `PollTake` are the loop of
`PPTaskCollector.update_ongoing`, which runs over the list it removes from; `Record`
is `update_task_by_result`, `Update` the scheduler's update and the removal of caches.
A result is there when the last stage has sent it, in the order of the batches.

### DPSchedule

Rank 0 and the other ranks of a data-parallel group. `task` is rank 0's view,
`copy` what the other ranks rebuilt from messages, `kv` the tokens in each
rank's cache. A turn of rank 0 is `AssignOwners` and `SchedulePrefill` or
`ScheduleDecode` (`DPFifoScheduler.schedule` and the sending half of
`dispatch_metadata`), `RunPrefill` or `RunDecode`, `Collect` for each message of
tokens, `Record`, `Update`; the place of `Collect` in that order depends on
`schedule_overlap`. A rank takes one message at a time (`RankPrefill`,
`RankDecode`, `RankEndTask`) from a FIFO channel. A token carries the request it
was sampled for, and position 0 when the rank fed it from a cache or a token that
did not fit: a swap of tokens or stale progress becomes visible in the stream.

### TokenRouter and DPServing

`TokenRouter`: `activeRequests` by id, the `streams` of the clients and the
bounded `sendQueue` of every scheduler process. A message is taken in order of
its queue and dropped (`DropUnknown`, `DropExpired`), or handled (`ProcessToken`,
`ProcessFinish`). Time is not modelled: a message may be found older than thirty
seconds, and a request older than five minutes (`Cleanup`), at any moment. A
token that decodes to an incomplete character sends a piece that is not `whole`.
Client-chosen ids are `IdChoices`: two requests may share one.

`DPServing` adds `pendingRequests`, the `schedulerStats` in the order in which
schedulers first reported, the round-robin counter, and for each scheduler the
requests on their way, `wrappedTasks`, `pool` and `task`. What a heartbeat says of
the load is stale when it is used, so `Selected` gives every scheduler that some
load report lets the algorithm choose. `SendFails` is the logged exception of
`_send_request`; `WorkerDies` leaves the service reporting for ever.

### PDServing

`prefill[p]` and `decode[d]` hold the state of the two kinds of process:
`buffers` is `MetadataBuffers` (the slot of each room and the logits in each
slot, which stay when it is freed), `queue` the transfer queue, `infos` and
`registered` what the bootstrap thread received. `toPrefill` and `toDecode` are
sets of messages under way, so registration, TransferInfo and status may overtake
each other. `TransferSucceeds` is the RDMA write followed by the status.
`TakeLogits` is shared by `ReceivedKV` and `TransferTimeout`, because the code goes
on in the same way after both. Pages are counted only.

### ExpertBalance

For one MoE layer: `weights` is what each slot really holds, `planner[r]` the
tables of rank r (`_mapping`, `inv_mappings`, `expert_slots`, `redundant_slots`).
`DecodeStep` counts the tokens at the slots they are routed to, `AggregateExpertStats`
is the all-reduce every `moe_lb_trigger` steps. Then each rank plans for itself
and sends (`GenerateActions`, a copy of the weights as they are at that moment),
receives and updates its tables (`CommitReadyLayers`, which waits for its peers'
sends). A slot that sends without receiving in an exchange is left `Blank`, the
zeroed buffer.

### GraphedProperty and GraphedDecode

`GraphedProperty` is one `cuda_graph_safe_cached_property` read inside and outside of
one function of `make_dispatched_graphed_callables`. `static` is the `StaticTensor`,
`upToDate` its flag, `graphs` what each capture recorded: whether the graph computes
the property, and the shape its kernels read. `MayReplay` is what the code leaves to
its user: reuse is the same in every use of a graph. `CallCapture` runs the
Python of the function, `CallReplay` does not.

`GraphedDecode` has the properties of `BatchedSeqLen` and `BatchedSeqLenDelta` and the
page tensors of the cache, with the kernels that read them in prefill (not graphed),
decode, and the draft and verify passes of speculative decoding; the lengths and pages
of each request are data. `ReadsCurrent` speaks of every pass the model code makes, except what it
reads whose size is the number of all tokens (a known limit).

## 3. Runs

| Run | Instance | Shows |
|---|---|---|
| `kv` | 3 requests, 3 pages of 2 tokens, 2 draft tokens, lengths up to 4 | `PageConservation`, `TightTables`, `TablesOnlyGrow`, and that the allocator implements `PageOwnership` |
| `engine` | 3 requests, 2 keys, pages of 2 tokens; overlap or not; 3 or 4 pages without chunks, 8 pages with chunks of 2 or 3, 10 pages, which hold all requests, with chunks of 2, 4 pages with a prompt no cache holds | pages, progress and tokens stay accounted for; no request vanishes; the worker raises only for a page nobody counts; the streams are those of `TokenStreams`; with fairness every stream of a load to be served is closed |
| `async` | answers of 4 tokens, all interleavings of the two threads | `NoLostWakeup`, `LabelsRight`, `NothingLeftBehind`, `ResponseEnds` |
| `skew` | 3 requests, 3 slots; one stage under all combinations of overlap, chunks of 3 and endings; 2 and 3 stages | `GroupsAccounted`; `IntactUnlessExposed`: rows and requests stay together except under the arguments of the finding and of a known limit below; `GroupedRequestRuns`: a request in a group gets its turn again and again |
| `skew_overlap` | overlap, answers that end at their length | the finding below |
| `dp_schedule` | 3 requests on 2 ranks with 1 or 2 slots, overlap or not, chunks of 3 or none | `RanksInStep`, `SlotsRespected`, `ImplementsStreams`, `EveryAnswerEnds` |
| `pipeline` | 3 requests, 2 stages, batches of 2; 5 pages; 7 pages and chunks of 3; 4 pages and a prompt no cache holds | `StagesInStep`, `GroupsAccounted`, `ImplementsStreams`, `EveryStreamCloses` |
| `dp_serving` | 2 requests with their own or one shared id, 2 schedulers, queues of 2, 3 algorithms, one failure | `OwnAnswerInOrder`, `PoolHoldsUnfinished`, `StoppedForGood`, `EveryStreamStops` |
| `pd_serving` | 2 requests, a prefill and a decode process, 1 or 2 logits slots, one fault or rebroadcast | `OwnAnswersUnlessTimeout`, `ChunksHoldLogits`, `DecodeProceeds` |
| `moe` | 2 or 3 ranks, 2 to 4 experts, 2 to 6 slots | `ExchangeKeepsRoutes`, `ExpertsSurvive`, `RanksAgree`, `TransfersMatch` |
| `graphed_property` | 4 sources of 2 shapes, one property, one function | `FlagHonest`, `ReadsPresent` |
| `graphed_decode` | 2 requests, batches of 1 and 2, speculation or not, graphs enabled at any time | `ReadsCurrent` |

**Bounds.** Pages hold two tokens, so every other token crosses a page
boundary; each request of `engine` fits the cache alone and no two fit to the
end, so evictions, re-prefill and halved thresholds happen in most behaviours,
of tasks in every status. Three requests are the least that have one evicted,
one running and one waiting, and two priorities make a later request overtake.
Answers of four and five tokens leave room for Normal, WillStopLength and
Stopped on both sides of an eviction. In `kv`, three pages are contended by
three requests and a request grows over two page boundaries. In `async`, four
tokens hold the opening and the closing mark, a split character and what follows.
In `skew`, three slots are the least in which a removal moves a row past another,
two stages split them unevenly, and requests that come back take slots that have
been used before. Two results can be taken in one turn only when three batches
are under way, hence three stages.
In `pipeline`, two stages give two groups: one batch is under way while the next is
scheduled, evicted from or found empty, which is where the accounting differs from
`Engine`; the chunked configuration has batches without output beside others.
In `dp_schedule`, the third request waits for a slot of whichever rank frees one
first, and the budget of three tokens is split unevenly so that one prompt takes
several steps. In `dp_serving`, a queue of two overflows with one answer of two
tokens; the failure may hit either process or only its worker. In `pd_serving`
the single logits slot of one configuration is contended by both requests, the
fault budget allows one failed transfer, bootstrap failure or rebroadcast, and the
pages run out in the other. In `moe`, three ranks leave one outside a move, two
slots per rank leave a choice; `Every` = 2 makes every other step trigger, one
warm-up step is counted before tables change, and `MaxCounted` and `MaxPlaces` cap
the counters and the lists that otherwise grow for ever.

**What `NeverCrashes` excepts.** `Servable` is the load the scheduler is to cope with:
every request fits the cache alone or, with chunks, all fit together (a known limit
below). There the worker raises only when a request is about to decode for the first
time, with overlap, after a prefill that filled its last page (`Unbudgeted`, another
one), and not where all requests fit. `engine` has prompts that fill their pages, so it
reaches that exception; `EveryStreamCloses` excepts a worker that has ended. The
lengths of `engine` are such that no task has its limit announced in the middle of its
prompt (a third one). `pipeline` lets its worker raise, which its properties except.

**Fairness.** `FairSpec` of `Engine` is weak fairness of the worker's turn:
`process_queue` is an endless loop that awaits nothing but a timer when idle.
Nothing is assumed of `Submit`, nor that a model ever samples an end of
sequence. `FairSpec` of `AsyncStream` is weak fairness of the delivery of a
sampled token, of the event loop's callbacks and of the generator; no fairness
says another token is sampled. `FairSpec` of `SlotGroups` is weak fairness of the
main loop and of the completion of a batch that has been sent to the stages; it
does not say that an answer ever ends. `FairSpec` of `DPSchedule` is weak fairness
of every rank's loop. `FairSpec` of `Pipeline` is weak
fairness of rank 0 and of every stage, each an endless loop of its own process.
`FairSpec` of `DPServing` assumes only that the cleanup task,
an endless loop with a timer, goes on: streams stop although any message may be
lost. `FairSpec` of `PDServing` is weak fairness of the decode process's own steps,
which are turns of one event loop, and of its time-out; nothing is assumed of
the prefill process, the network or the transfer.

**Deadlock** is checked in `moe`, whose loop never ends; there it means that ranks
wait for each other's weights. Elsewhere checking is off: a system that has
answered all requests, or has raised, stops in the models.

## 4. Findings

*Rows of a neighbour* (`skew_overlap`). With overlap a request whose length
limit was announced is dropped from the next decode batch, but its row is
still the first, or a middle one, of its group. The batch gets the first
`len(req_ids)` rows, so the requests behind the dropped one run on the rows
before theirs. Skew, overlap and one stage are the defaults.
`IntactUnlessExposed` says that this and the mixed batches below are the only
ways in which rows and requests part.

### Known limits

Behaviour met while modelling that no run reports, because the models leave it
aside or nothing in the repository promises otherwise:

* With overlap `prefix_tokens_len` is the prompt alone right after a prefill, because
  `sync_new_token` is still True although a token has been sampled.
  `has_enough_block` (`scheduler.py:355`) does not count the page the first decode
  step needs when the prompt fills its last page, nobody is evicted, and
  `get_free_block` raises. `Unbudgeted` names the state; that there is no other way for
  the allocator to run dry, and none at all where all requests fit together, is proved
  (`Affordable`).
* With chunks a prompt in the middle keeps pages that no eviction gives back. A
  decoding request that finds none is then "insufficient to support decoding
  completion" (`scheduler.py:367`) although it fits the cache alone.
* An eviction of a `DPTaskWrapper` writes type, progress and status, which creates
  attributes of the wrapper that hide the original's (`dp_token_sender.py:287`). The
  methods of the original keep its progress: the next prefill feeds only what lies
  beyond it, on an empty cache.
* With pipeline stages, a ready decode task that finds no page raises "KV_cache
  capacity is insufficient to support decoding completion" (`scheduler.py:367`) also
  when a batch under way in another scheduler group is about to give pages back.
* With data parallelism and pipeline stages a result of a later batch may be there
  while the oldest is incomplete: its rank has no part in the oldest batch or is
  faster. `DPTaskCollector.update_ongoing` asserts that this does not happen
  (`task.py:1490`).
* With redundant experts, `redundant_slots` starts as zeros although redundant slot i
  holds expert (num_experts + i) % num_experts (`planner.py:495`): the first
  replacement takes the slot away from expert 0 in the tables, the expert that lost
  its copy is still routed there, and the place appended for the new expert is the
  source of the copy, not its destination. `ExchangeKeepsRoutes` is about exchanges.
* The ids of all tokens (`batched_seq_len.py:32`) have as many entries as there are
  tokens, a number Python computes, and a decode graph is keyed by the batch size: a
  replay has the number of the step it was captured in. The indexer of DeepSeek V3.2
  reads them inside the graph (`model_deepseek_v3.py:185`).
* With `max_tokens` 1 two tokens are delivered (`task.py:474`): the limit is
  announced by the token before the last, and there is none.
* Without overlap `batch_update_status` (`task.py:1321`) reaches tasks in the
  middle of their prompt; one with its limit announced there is stopped as type
  Prefill, its pages stay and its stream is never closed.
* Without overlap and with chunks, a request of the skew cache that ends with its
  first token is replaced in its group by a prompt, which may then stand before
  decoding requests (`scheduler.py:669`); a batch of both types fails an assertion.
* A prompt larger than the cache raises only when no page is used; two prompts in
  chunked prefill can otherwise hold all pages for ever.
* `DPTaskWrapper` asks `need_remove` before the status update that would make it
  true (`dp_token_sender.py:280`), so the finish message is not sent and a stream
  ends five minutes after its request was registered, by the router's cleanup,
  which also cuts off answers that take longer.
* Each token is decoded alone in `send_token`: characters of several tokens are
  lost. A conversation id that is used again gets the finished task of the first
  request. A scheduler that died stays alive in the router's table, and a dead
  worker's service goes on accepting requests. `running_requests` is 0 without
  pipeline parallelism.
* `get_page_indices` is asked for the room, which has no page table: no page is
  ever transferred, and the decode process runs the prompt again itself. Pages of
  both sides are never given back; a failed transfer keeps its logits slot. After
  a time-out, which the code announces as "falling back to local prefill"
  (`kv_manager.py:891`), the first token is nevertheless drawn from whatever logits
  the slot holds (`pd_scheduler.py:411`), and a late transfer may write into the
  slot when it belongs to the next request.
* `DPFifoScheduler` never asks for free pages.
* Exchange mode reads slot counters by expert id. After warm-up `lock_stats` stays
  set and the warm-up's counts are added again. Migration addresses ranks of the
  group by world rank, right only for the group that starts at rank 0.
* A byte sequence that never becomes text holds the rest of an answer back
  (`async_response.py:80`), and the non-streaming response splits off the
  reasoning part by another rule than the streaming one (`async_response.py:231`).

## 5. Proofs

TLAPS checks, for any number of requests, pages, page size, draft tokens and
batch size (the named assumptions say only that they are naturals, the page and
draft sizes positive, and that `NoOwner` is no request):

* `Typing`, `Conservation`: type correctness and `PageConservation`, each by
  induction. `PageConservation` needs only the types beside it: an extension
  moves a prefix of a duplicate-free deque to the end of one table, an ending
  moves a table to the end of the deque.
* `Tightness`: `TightTables` is not inductive, because a request in the middle
  of a decode step has the pages of `MtpSize` new tokens of which some are about
  to be taken back. The strengthening bounds a table by `Reach(r)`, the length
  the request has or, outside a step, may have had before the roll-back.
* `GrowOnly`: `TablesOnlyGrow`, from the types.
* `Implementation`: `Spec` implements `PageOwnership` under `ownerOf`; it rests
  on `PageConservation` before and after the step, which makes the owner of a
  page unique.

and for answers of any length:

* `Labelling`, `Completeness`, `Wakeup`: `LabelsRight`, `NothingLeftBehind`,
  `NoLostWakeup` of `AsyncStream`. The inductive invariant `StreamIInv` says what
  `is_reasoning` and `reasoning_len` mean in each position of the worker, in
  particular between its two assignments, and that the closing mark is the one
  token that is decoded as reasoning with the flag down.

and for data-parallel serving with any number of requests, ids, schedulers and
failures, any `max_tokens` and any size of the sending queues:

* `RouterIInv` (`TokenRouterProofs`): an entry of `active_requests` leads to a
  registered request of that id whose stream is open. Every step of the router, a
  registration and any step of a sender keep it.
  `Stopped` (`StoppedForGood`) follows: whoever stops a stream removes the one entry
  that leads to it, and an old entry is overwritten, never brought back.
* `NeverStranded` (`PoolHoldsUnfinished`): a request is on its way in one place, once
  (`SentOnce`), and while it is, no scheduler has it (`NotYetWrapped`). So an id that
  arrives and is known already belongs to another request, which `Unshared` excludes.
* `OwnAnswer` (`OwnAnswerInOrder`): one scheduler at most has a request
  (`OneScheduler`), so its tokens are in one queue. They are there in the order they
  were made (`QueuedInOrder`), after all that its stream has (`StreamedFirst`) and up to
  what the task has made, and the stream is in order (`StreamedInOrder`). No half is
  inductive alone: what a new piece follows is known only from its place in the queue.
  The four are `Answers(ids, queues, strs, H, M)` in `TokenRouterProofs`, with the
  schedulers that hold a request (`H`) and the tokens they have made (`M`) left open, so
  that the lemmas serve both ways of serving.
* `Typing` (its `TypeOK`). The theorems are about `Spec`; the run's `FairSpec` implies it.

and for disaggregated serving with any number of schedulers, requests and slots, any
pages and any faults of the network (`PDAssumption` says that processes are
listed once and sizes are naturals, `PDIdsAssumption` that ids are unique):

* `Inductive`: `IInv` is `RouterIInv`, the types, and where things can be. `Channels`: a
  request is at a prefill process once and at a decode process once (`PrefilledOnce`,
  `StartedOnce`). `SlotsHeld`: a request of the queue has a slot with its logits.
  `Speaking`: TransferInfos, statuses and slots of the decode side speak of a request
  that has started there, once (`Busy`, `InfoHome`, `Unheard`, `SlotsTaken`) and, as long
  as nothing has timed out, of the slot it has now (`Current`, `Arrived`).
* `HeldLogits` (`ChunksHoldLogits`): chunks in the queue are of different rooms, and a
  slot is freed by the transfer that takes its chunk out of the queue.
* `OwnAnswers` (`OwnAnswersUnlessTimeout`): a request has one chunk and one stay at the
  decode process, so a TransferInfo, however old, that meets its chunk names the slot the
  request has now, and the slot is given up only when the logits have come. The first
  token is then its own, and the rest is `Answers` with the decode side's tokens for `M`.
  After a time-out the slot goes to somebody else while the transfer is under way, which
  is why the property ends there (a known limit).
* `StoppedStreamsStay` (`StoppedForGood`), from `RouterIInv` as before.

and for the serving loop with any number of requests, any lengths, pages, page size,
batch size, chunk size and both values of `schedule_overlap`:

* `Inductive` (`EngineProofs`): one `Account` per request. It is new or queued
  (`Fresh`), in the pool (`Going`), stopped in this turn (`Ended`) or gone (`Left`), and
  each place (`Standing`) fixes what task, stream, cached tokens and waiting result say of each other:
  how many tokens the stream has, the result holds and the task counts; which of
  `next_token` and `generated_result` has the newest; whether `sync_new_token` is down.
  `TokensAccounted` says nothing of the flags, and `CacheMatchesTask` nothing of the
  middle of a turn; neither is inductive without the other.
* `NoTokenLost` (`TokensAccounted`) and `CacheInStep` (`CacheMatchesTask`) need nothing else.
* `PagesComeBack` (`PagesOfPool`) and `NoneAbandoned` (`NoAbandonedStream`) have the
  hypothesis `Whole`: with overlap, or without chunks. Otherwise a task may be stopped in
  the middle of its prompt (a known limit).
* `Implementation` (`ImplementsStreams`): each action is a step of `TokenStreams` or a
  stutter. Its hypothesis `Announced`, a limit of two or more, excludes the second token
  of `max_tokens` 1 (a known limit).
* `BudgetInductive`, `Affordable` (`NeverCrashes`), without hypotheses: `Bounded`, no task goes past its
  limit, no cache past prompt and limit. `Candidates`: a decode task of the pool is in the
  order that evictions go through, so that without chunks everything that holds pages can
  be evicted (`OnlyDecodeHolds`). `Budgeted`: between schedule and step, what
  `prefix_tokens_len` promises has been found free. Evicting all decode tasks but one
  makes room for it, because pages of different requests are disjoint and it fits the
  cache alone (`Room`, `DecodeFits`); where all fit, nobody need be evicted. The step takes
  what the cached length demands, which is the promise, except in `Unbudgeted`
  (`OnlyUnbudgeted`); a token that does not begin a page needs none (`HeldWithin`).

and for a pipeline of any number of stages, requests and slot groups, any lengths, page
size and arguments (`StagesAssumption` asks for finitely many requests):

* `Inductive` (`PipelineProofs`): rank 0 is ahead of stage 1, stage 1 of stage 2, by the
  batches and endings still queued. `StagesInStep` says this of lengths and of the head
  of a queue only, and is not inductive: when the head is taken, the next message must
  fit what the first one made. `Agree` therefore follows a whole queue. A message makes
  a new state of a stage's copies and caches (`After`) and is taken in a state it
  `Fits`; the messages queued for a stage lead from the state it is in (`Local`) to the
  state of the stage before (`Leads`), and those of stage 1 to what the tasks of rank 0
  mean (`InStep`), where an evicted task is a new prompt. So a send lengthens a queue at
  its end, a receive shortens it at its head and lengthens the next one by the same message
  (`LeadsAppend`, `LeadsTail`), and no stage needs to know of any but its neighbour.
* The rest of `IInv` is about rank 0: `Accounts`, the tasks a group awaits are those
  that wait and, between poll and update, those just completed, which `update` takes out;
  `UnderWay`, batches under way are of disjoint, waiting tasks; `BatchFits`, the batch of
  this turn is of tasks that do not wait, within their prompts.
* `GroupsKept` (`GroupsAccounted`) and `StagesAgree` (`StagesInStep`) follow. The length of
  a queue is no bound for TLAPS, so what a fold over it computes (`Filtered`,
  `KvAhead`) is shown to exist, and to be what it says, step by step (`StepsExist`, `EachStep`).

and for the skew cache's scheduler with any number of requests, slots and pipeline stages
and all arguments of `Configs`:

* `Inductive` (`SlotGroupsProofs`): `GroupsAccounted` speaks of the pool between two turns,
  and of what a group awaits only there. In the middle of a turn the tasks awaited are
  those of the batches under way, of this turn's batch and of the results just taken
  (`Accounts`); that all of them are in the list of their group, and none is awaited twice,
  needs that batches under way are disjoint and that a task waits exactly while one has it
  (`UnderWay`), because `update` takes out what does not wait. A request that has left the
  pool keeps its group and must not come back: it is stopped (`Lists`).
* `GroupsKept` (`GroupsAccounted`) follows. Whatever the order in which ended tasks are
  removed, each replaced by the last of its list, the list keeps the others, once
  (`SwappedOutFacts`, `SgroupsWithoutFacts`); whichever results the shrinking list of
  batches passes over, none is lost, since only those taken are removed. The proof asks
  no more of the binary search and of the chunks' budget than that a batch is a part of its
  group (`PrefillStartType`, `RetTaskIdsFacts`).

and for a cached property over any set of sources, with any shapes and any keys that
tell shapes apart:

* `Honest` (`FlagHonest`) and `Present` (`ReadsPresent`) of `GraphedProperty`, at the end
  of `ComponentProofs`: the page tables are read through such properties. The flag
  is right because whoever sets it has just computed the tensor, and a replay restores
  the flag of a capture that computed it as well. They rest on the two conditions the
  code leaves to its user, `KeysTellShapes` and `MayReplay`.

and for the load balancer with any ranks, experts and slots, any trigger, threshold and
loads:

* `RoundsAreShared` (`ComponentProofs`): since the ranks last computed together there
  is one set of tables `t`, one plan and one assignment `w` of weights (`Round`): who
  has not finished has the tables `t` and sends what `w` says, who has finished has what
  the plan makes of `t` and, in its slots, what the transfers of the plan bring from `w`
  (`Landed`). The agreement of the tables when all compute is not inductive by itself,
  because in between some have applied the plan and some have not even made it; nor is
  it without `StatsInStep`, the same counts but for those a rank has reset after planning.
* `RanksAgreeAlways`, `TransfersMatchAlways` (`RanksAgree`, `TransfersMatch`) follow. A
  rank with a part in a move has a peer with a part in it, because planned moves are
  between different ranks of the group (`Moves`), which takes that a rank with the first
  greatest load exists: sums of counts are integers, and a finite set has a greatest one.
* `ExchangeKeepsRoutesAlways` (`ExchangeKeepsRoutes`): a plan is one exchange at most. It
  transposes two entries of the mapping, the inverse, the lists and the weights alike
  (`ExchangedConsistent`, `LandedSwap`).
* `ExpertsSurviveAlways` (`ExpertsSurvive`): with redundant slots only these are the
  targets of moves, so that slot `e` keeps expert `e` however many of the three moves use
  it as a source (`LandedHome`).

and for a data-parallel group of any number of ranks, any requests
(`DPScheduleAssumption`), slots per rank and chunks, in both orders of `schedule_overlap`:

* `Inductive` (`DPScheduleProofs`): rank 0 schedules, and forgets ended requests, before the
  other ranks have read what it sent. `RanksInStep` and `SlotsRespected` speak of a rank's
  cache and of the message at the head of its queue, and neither is inductive: when the head
  is taken, the next message must fit what it made. A `Course` of rank `k` goes along its
  whole queue: from the prompt tokens in the rank's cache (`CachedPrompts`), each message
  takes the counts to those the next one starts from (`Advance`), and the last ones are what
  rank 0 has told the rank (`Owed`); at no point are there more requests with tokens than
  slots, or a request of another rank (`Within`). The message that ends requests comes before
  any message about those that got their slots. A send lengthens the course at its end, a
  rank shortens it at its head, and what is between stays.
* The tokens of answers are not in the course, because rank 0 can tell a rank nothing more
  about an answer until it has the token: `Rounds` says that while a round is on each rank that
  was sent work owes one reply, its last message or the tokens already sent, and that what
  has been collected and what is owed make up the awaited number. So when rank 0 goes
  on, no decode step is under way (`DecodeMessages`).
* `Copies`: a rank's copy fits its cache, a copy that decodes holds the newest token
  (`Newest`). With overlap the copy of a request that ended may be one token behind: it was
  left out of the last step and only its end is still to come (`LeftOut`).
* `RanksStayInStep` (`RanksInStep`) and `SlotsStayRespected` (`SlotsRespected`) follow. The
  shares a rank gets are sums over lists; that a share is a beginning of the rank's prompts,
  within its budget and within every prompt (`PrefillListsFacts`, `TakeFacts`) is shown of
  the recursive functions step by step, as for the pipeline.

Only model-checked: where the rows of the skew cache are (`IntactUnlessExposed` of
`SlotGroups`), everything about `GraphedDecode`,
that `Pipeline` and `DPSchedule` implement `TokenStreams`, and all liveness (`ResponseEnds`,
`EveryStreamCloses`, `EveryStreamStops`, `DecodeProceeds`, `GroupedRequestRuns`,
`EveryAnswerEnds`), because liveness under fairness and ENABLED are outside what the
prover handles. Induction over data is outside it in the form of the library's induction
theorems, which take an operator; what the proofs need of it, that a sum of integers is
one or that tables stay equal along a fold, is proved by a least counterexample
(`LeastNatural`) or stated with cardinalities.

## 6. Not modelled

Numeric kernels, models, operators, quantisation, checkpoint loading, process groups
and metrics have no control state of interest; they are by far the largest part of
the source. Diffusion serving runs one request at a time. Within
the modelled components:

* `Engine`: speculative decoding, the strict scheduler gates, warm-up, the load
  counter, tasks in a `DPTaskWrapper`.
* `Pipeline`: tensor-parallel followers of a stage, overlap, speculative decoding,
  log-probabilities, the heartbeats that keep idle stages awake, and pipelines under
  data parallelism.
* Caches: `realloc`, the transfer entry points except as page counts in
  `PDServing`, the dense cache without slot groups.
* `SlotGroups`: the stages as separate processes (`Pipeline` has them for the paged
  cache).
* `DPSchedule`: answers of one token, budgets below one token per rank, warm-up, pages.
* `DPServing`: the selection functions nothing calls, error messages (no caller),
  shutdown. The scheduler processes' own ranks are `DPSchedule` or `Engine`.
* `PDServing`: the unified mode and the coordination records nothing acts on.
* `ExpertBalance`: the static assignments of `large_scale_balancer` other than the
  naive one, launches that raise, several layers at once (they share no slot).

`PROJECT.json` says so per component.

## 7. Plan

1. `PagedKVCache` and `AsyncStream` with their proofs, `Engine`, `SlotGroups`,
   `DPSchedule`, `TokenRouter`, `DPServing`, `PDServing`, `ExpertBalance`: done.
2. Proofs about `TokenRouter` and `DPServing`: types, `StoppedForGood`,
   `PoolHoldsUnfinished` and `OwnAnswerInOrder`: done.
3. Proofs about `SlotGroups`: `GroupsAccounted` for any number of slots and stages, done;
   that `hot_reqs` and `req2slot` are inverse and rows stay together, left. About
   `PDServing` (`ChunksHoldLogits`, `OwnAnswersUnlessTimeout`): done.
4. Proofs about `Engine`: token accounting, pages, the scheduler's budget, and the
   refinement of `TokenStreams` for any number of requests: done.
5. Pipeline parallelism with the paged cache: `PipelineStages`, `Pipeline`, and the proofs
   of `StagesInStep` and `GroupsAccounted` for any number of stages: done. Left: the
   refinement of `TokenStreams` for any number of stages, and data parallelism besides.
6. CUDA graphs: `GraphedProperty` with its proofs and `GraphedDecode`: done.
7. Proofs about `ExpertBalance`, its four properties for any group: done.
8. Proofs about `DPSchedule`: `RanksInStep` and `SlotsRespected` for any number of ranks,
   done; the refinement of `TokenStreams`, left.
9. Tensor-parallel followers and the process groups, the static balancers, the HTTP
   server's other paths.
