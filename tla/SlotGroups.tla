----------------------------- MODULE SlotGroups -----------------------------
(***************************************************************************)
(* The "skew" KV cache, with and without pipeline parallelism: every       *)
(* request owns a row (slot) of one dense tensor, and a batch is the rows  *)
(* from a first one on, one for each of its requests in order.             *)
(* SkewScheduler (chitu/scheduler.py) keeps a list of requests for each    *)
(* group of slots, DenseKVCacheManager (chitu/cache_manager.py) moves rows *)
(* so that the occupied ones stay together, and nothing but the order in   *)
(* which both do it makes the i-th request of a batch meet the i-th row.   *)
(*                                                                         *)
(* With pipeline parallelism a batch is under way for several turns: its   *)
(* tasks wait, its group is not scheduled, and PPTaskCollector             *)
(* (chitu/task.py) looks for results that have arrived.                    *)
(*                                                                         *)
(* The tokens of an answer are abstracted to what update_decode_status     *)
(* makes of them, and max_new_tokens is at least 2.  The scheduler type is *)
(* "fcfs", which the default comes to when all requests have one priority: *)
(* only prompts are ever sorted.  One rank stands for the ranks, which all *)
(* do the same with their caches in the same order.                        *)
(***************************************************************************)
EXTENDS FiniteSets, Lists

CONSTANTS
  Reqs,
  NoReq,       \* None among the requests
  Mixed,       \* the content of a row that is not the KV cache of one request
  PromptLen,   \* [Reqs -> Nat]: length of the encoded prompt
  MaxReqs,     \* infer.max_reqs
  Configs      \* the arguments to consider: pp_size, schedule_overlap,
               \* prefill_chunk_size and how answers end

NoChunk == 0
NoGroup == 0
NoSlot == 0

ASSUME MaxReqsAssumption == MaxReqs \in Nat \ {0}
ASSUME PromptsAssumption == PromptLen \in [Reqs -> Nat \ {0}]
ASSUME NoneAssumption == NoReq \notin Reqs /\ Mixed \notin Reqs /\ Mixed # NoReq

\* With pipeline parallelism chitu_main.py turns chunks off, and overlap if it is "auto".
ASSUME ConfigsAssumption ==
  /\ Configs \subseteq [pp : Nat \ {0}, overlap : BOOLEAN, chunk : Nat,
                        stops : SUBSET {"stop", "length"}]
  /\ \A c \in Configs : c.pp > 1 => ~c.overlap /\ c.chunk = NoChunk

VARIABLES
  args,          \* the member of Configs the program runs with
  idList,        \* TaskPool.id_list
  task,          \* the Task of each request
  sgroupList,    \* sgroup_list: the requests of each slot group, in order
  freeSgroups,   \* free_sgroups
  usedSgroups,   \* used_sgroups
  waitingTasks,  \* sgroup_waiting_tasks
  slotIdx,       \* SlotHandle.slot_idx
  hotReqs,       \* hot_reqs; slot_availability is hotReqs[s] = NoReq
  req2slot,      \* req2slot
  kvBuffer,      \* kv_buffer: whose KV cache each row holds
  batch,         \* the task ids schedule() returned
  ongoing,       \* _ongoing_reqs: batches whose tokens have not been taken yet
  unwaited,      \* the tasks of _unwait_tasks
  pc             \* where the main loop is, "crashed" after an exception

sched == <<sgroupList, freeSgroups, usedSgroups, waitingTasks, slotIdx>>
cache == <<hotReqs, req2slot, kvBuffer>>
vars == <<args, idList, task, sched, cache, batch, ongoing, unwaited, pc>>

-----------------------------------------------------------------------------
(* SlotHandle *)

NumSlots == IF args.pp < MaxReqs THEN args.pp ELSE MaxReqs
Groups == 1 .. NumSlots
Slots == 1 .. MaxReqs

\* split_slots: max_reqs in as equal parts as possible, the larger ones first.
SlotsSize(g) == (MaxReqs \div args.pp) + IF g <= MaxReqs % args.pp THEN 1 ELSE 0

\* slot_start_idx, counted from 0; the slots of group g are the next SlotsSize(g).
SlotStart(g) ==
  (g - 1) * (MaxReqs \div args.pp) + IF g - 1 <= MaxReqs % args.pp THEN g - 1
                                                                   ELSE MaxReqs % args.pp
SlotEnd(g) == SlotStart(g) + SlotsSize(g)
SlotsOf(g) == SlotStart(g) + 1 .. SlotEnd(g)

-----------------------------------------------------------------------------
NewTask(r) ==
  [type |-> "Prefill", left |-> PromptLen[r], chunk |-> NoChunk, status |-> "Normal",
   group |-> NoGroup, waiting |-> FALSE]

Init ==
  /\ args \in Configs
  /\ idList = <<>>
  /\ task = [r \in Reqs |-> NewTask(r)]
  /\ sgroupList = [g \in Groups |-> <<>>]
  /\ freeSgroups = [g \in Groups |-> g]
  /\ usedSgroups = {}
  /\ waitingTasks = [g \in Groups |-> {}]
  /\ slotIdx = 1
  /\ hotReqs = [s \in Slots |-> NoReq]
  /\ req2slot = [r \in Reqs |-> NoSlot]
  /\ kvBuffer = [s \in Slots |-> NoReq]
  /\ batch = <<>> /\ ongoing = <<>> /\ unwaited = {}
  /\ pc = "schedule"

Type(r) == task[r].type

OfType(seq, type) == Filtered(seq, {r \in Reqs : Type(r) = type})

\* A request arrives.
AddAllQueued(r) ==
  /\ pc = "schedule"
  /\ r \notin ToSet(idList) /\ task[r].status # "Stopped"
  /\ idList' = Append(idList, r)
  /\ UNCHANGED <<args, task, sched, cache, batch, ongoing, unwaited, pc>>

-----------------------------------------------------------------------------
(* SkewScheduler.schedule *)

Ready == Filtered(idList, {r \in Reqs : ~task[r].waiting /\ task[r].status # "Stopped"})
Outside == Filtered(Ready, {r \in Reqs : task[r].group = NoGroup})

\* The group with the requests it has room for, of the type of its last one.
Filled(g) ==
  LET sgroup == sgroupList[g]
      type == Type(IF sgroup = <<>> THEN Head(Outside) ELSE Last(sgroup))
  IN  IF Len(sgroup) < SlotsSize(g) /\ Outside # <<>>
      THEN sgroup \o UpTo(OfType(Outside, type), SlotsSize(g) - Len(sgroup))
      ELSE sgroup

\* find_prefill_task_start_pos_sgroup: a binary search, which presumes that no
\* prefill task comes before a decode task.
PrefillStart(sgroup) ==
  LET Middle(range) == (range.left + range.right) \div 2
      range[turn \in 0 .. Len(sgroup)] ==
        IF turn = 0 THEN [left |-> 0, right |-> Len(sgroup)]
        ELSE LET last == range[turn - 1]
             IN  IF last.left >= last.right THEN last
                 ELSE IF Type(sgroup[Middle(last) + 1]) = "Prefill"
                      THEN [last EXCEPT !.right = Middle(last)]
                 ELSE [last EXCEPT !.left = Middle(last) + 1]
  IN  range[Len(sgroup)].right

LeftBefore(ids, i) == MapThenSumSet(LAMBDA j : task[ids[j]].left, 1 .. i - 1)

\* _chunk_prefill_tasks_count: the tasks that share prefill_chunk_size tokens.
Chunked(ids) ==
  SubSeq(ids, 1, Cardinality({i \in DOMAIN ids : LeftBefore(ids, i) < args.chunk}))

ChunkOf(ids, i) ==
  LET budget == args.chunk - LeftBefore(ids, i)
  IN  IF task[ids[i]].left < budget THEN task[ids[i]].left ELSE budget

ByChunks(sgroup) == args.chunk # NoChunk /\ Type(Last(sgroup)) = "Prefill"

RetTaskIds(sgroup) ==
  IF ByChunks(sgroup) THEN Chunked(SubSeq(sgroup, PrefillStart(sgroup) + 1, Len(sgroup)))
                      ELSE sgroup

\* The tasks of the group join it; those of the batch may get a chunk of prompt.
JoinedTasks(g, sgroup, ids) ==
  [r \in Reqs |->
     IF ~Contains(sgroup, r) THEN task[r]
     ELSE [task[r] EXCEPT
             !.group = g,
             !.chunk = IF ByChunks(sgroup) /\ Contains(ids, r)
                       THEN ChunkOf(ids, CHOOSE i \in DOMAIN ids : ids[i] = r) ELSE @]]

\* A slip: the tasks the chunk has no tokens for count as under way.
WaitingTasksOfGroup(g, sgroup, ids) == [waitingTasks EXCEPT ![g] = ToSet(sgroup)]

WaitingTasksOf(g, sgroup, ids) == [waitingTasks EXCEPT ![g] = ToSet(ids)]

\* The group released longest ago gets its turn.
Schedule ==
  /\ pc = "schedule" /\ freeSgroups # <<>> /\ Ready # <<>>
  /\ LET g == Head(freeSgroups)
     IN  \E sgroup \in {Filled(g)} : \E ids \in {RetTaskIds(sgroup)} :
           /\ sgroup # <<>>
           /\ sgroupList' = [sgroupList EXCEPT ![g] = sgroup]
           /\ freeSgroups' = Tail(freeSgroups)
           /\ usedSgroups' = usedSgroups \cup {g}
           /\ slotIdx' = g
           /\ task' = JoinedTasks(g, sgroup, ids)
           /\ waitingTasks' = WaitingTasksOf(g, sgroup, ids)
           /\ batch' = ids
  /\ pc' = "step"
  /\ UNCHANGED <<args, idList, cache, ongoing, unwaited>>

\* "All tasks are allocated into other slot groups": the group is used up for this turn.
ScheduleAllAllocated ==
  /\ pc = "schedule" /\ freeSgroups # <<>> /\ Ready # <<>>
  /\ LET g == Head(freeSgroups)
     IN  /\ Filled(g) = <<>>
         /\ freeSgroups' = Tail(freeSgroups)
         /\ usedSgroups' = usedSgroups \cup {g}
         /\ slotIdx' = g
  /\ batch' = <<>>
  /\ pc' = "step"
  /\ UNCHANGED <<args, idList, task, sgroupList, waitingTasks, cache, ongoing, unwaited>>

\* No free group, or every task waits.
ScheduleNothing ==
  /\ pc = "schedule" /\ idList # <<>>
  /\ freeSgroups = <<>> \/ Ready = <<>>
  /\ batch' = <<>>
  /\ pc' = "step"
  /\ UNCHANGED <<args, idList, task, sched, cache, ongoing, unwaited>>

-----------------------------------------------------------------------------
(* DenseKVCacheManager.prepare_cache_prefill and prepare_cache_decode *)

Newcomers == Filtered(batch, {r \in Reqs : req2slot[r] = NoSlot})
FreeSlots == SetToSortSeq({s \in SlotsOf(slotIdx) : hotReqs[s] = NoReq}, <)

\* The i-th request without a slot gets the i-th free slot of the current group.
SlotAfter(r) ==
  IF Contains(Newcomers, r)
  THEN FreeSlots[CHOOSE i \in DOMAIN Newcomers : Newcomers[i] = r]
  ELSE req2slot[r]

\* Where the rows of the batch start, counted from 0.
PrefillRows == SlotAfter(Head(batch)) - 1
DecodeRows == SlotStart(slotIdx)

\* What the rows hold once ids have run on the rows from start on: a row written
\* by somebody else is nobody's, and so is the cache that misses its new token.
BufferAfter(ids, start) ==
  [s \in Slots |->
     IF s - start \in DOMAIN ids
     THEN LET r == ids[s - start]
          IN  IF req2slot[r] = NoSlot \/ kvBuffer[s] = r THEN r ELSE Mixed
     ELSE IF kvBuffer[s] \in ToSet(ids) THEN Mixed
     ELSE kvBuffer[s]]

\* What makes PackedTasks or the cache manager raise an AssertionError.
MixedTypes == \E r, q \in ToSet(batch) : Type(r) # Type(q)
PrefillBatch == batch # <<>> /\ ~MixedTypes /\ Type(Head(batch)) = "Prefill"
DecodeBatch == batch # <<>> /\ ~MixedTypes /\ Type(Head(batch)) = "Decode"

AssertionFails ==
  \/ MixedTypes
  \/ /\ PrefillBatch
     /\ \/ Len(Newcomers) > Len(FreeSlots)
        \/ PrefillRows + Len(batch) > MaxReqs
  \/ DecodeBatch /\ DecodeRows + Len(batch) > MaxReqs

AssertionError ==
  /\ pc = "step" /\ AssertionFails
  /\ pc' = "crashed"
  /\ UNCHANGED <<args, idList, task, sched, cache, batch, ongoing, unwaited>>

-----------------------------------------------------------------------------
(* Executor.step *)

LastChunk(t) == t.chunk = NoChunk \/ t.chunk >= t.left

ConsumeReqTokens(t) ==
  IF LastChunk(t) THEN [t EXCEPT !.type = "Decode", !.left = 0, !.chunk = NoChunk]
                  ELSE [t EXCEPT !.left = @ - t.chunk, !.chunk = NoChunk]

HasOutput(t) == t.status # "Stopped" /\ (t.type = "Decode" \/ LastChunk(t))

\* update_decode_status after a token more: the answer may reach its length, and
\* its token may be an end-of-sequence one.
StatusAfter(status) ==
  CASE status = "Stopped" -> {"Stopped"}
    [] status = "WillStopLength" -> {"Stopped"}
    [] OTHER -> {"Normal"} \cup (IF "length" \in args.stops THEN {"WillStopLength"} ELSE {})
                           \cup (IF "stop" \in args.stops THEN {"Stopped"} ELSE {})

\* The tasks t with the tokens of the tasks in ids synchronised to them.
Synchronised(t, ids) ==
  {[r \in Reqs |-> [t[r] EXCEPT !.status = IF r \in ids THEN new[r] ELSE @]] :
     new \in {f \in [ids -> {"Normal", "WillStopLength", "Stopped"}] :
                \A r \in ids : f[r] \in StatusAfter(t[r].status)}}

\* With pipeline parallelism the tasks, which all have an output, wait for it.
Wait(t, ids) == [r \in Reqs |-> [t[r] EXCEPT !.waiting = @ \/ r \in ids]]

Outputs == {r \in ToSet(batch) : HasOutput(task[r])}
AddNewOngoing == Append(ongoing, [tasks |-> ToSet(batch), done |-> FALSE])

\* The tasks after a forward pass that left them as t: the tokens are synchronised
\* at its end, by the next decode step (overlap), or when they arrive (pp).
AfterStep(t) ==
  /\ task' \in IF args.pp > 1 THEN {Wait(t, ToSet(batch))}
               ELSE IF args.overlap THEN {t}
               ELSE Synchronised(t, Outputs)
  /\ ongoing' = IF args.pp > 1 THEN AddNewOngoing ELSE ongoing
  /\ pc' = IF args.pp > 1 THEN "poll" ELSE "update"

PrefillStep ==
  /\ pc = "step" /\ PrefillBatch /\ ~AssertionFails
  /\ req2slot' = [r \in Reqs |-> SlotAfter(r)]
  /\ hotReqs' = [s \in Slots |-> IF \E r \in ToSet(Newcomers) : SlotAfter(r) = s
                                 THEN CHOOSE r \in ToSet(Newcomers) : SlotAfter(r) = s
                                 ELSE hotReqs[s]]
  /\ kvBuffer' = BufferAfter(batch, PrefillRows)
  /\ AfterStep([r \in Reqs |-> IF Contains(batch, r) THEN ConsumeReqTokens(task[r])
                                                     ELSE task[r]])
  /\ UNCHANGED <<args, idList, sched, batch, unwaited>>

DecodeStep ==
  /\ pc = "step" /\ DecodeBatch /\ ~AssertionFails /\ ~args.overlap
  /\ kvBuffer' = BufferAfter(batch, DecodeRows)
  /\ AfterStep(task)
  /\ UNCHANGED <<args, idList, sched, hotReqs, req2slot, batch, unwaited>>

\* The tokens of the last step are synchronised first; the tasks that were
\* packed as having no token left to compute do not run.
DecodeStepOverlap ==
  /\ pc = "step" /\ DecodeBatch /\ ~AssertionFails /\ args.overlap
  /\ task' \in Synchronised(task, Outputs)
  /\ kvBuffer' = BufferAfter(Filtered(batch, {r \in Reqs : task[r].status = "Normal"}), DecodeRows)
  /\ pc' = "update"
  /\ UNCHANGED <<args, idList, sched, hotReqs, req2slot, batch, ongoing, unwaited>>

EmptyStep ==
  /\ pc = "step" /\ batch = <<>>
  /\ pc' = IF args.pp > 1 THEN "poll" ELSE "update"
  /\ UNCHANGED <<args, idList, task, sched, cache, batch, ongoing, unwaited>>

-----------------------------------------------------------------------------
(* PPTaskCollector *)

\* The tokens of the oldest batch under way arrive.
Complete ==
  /\ \E p \in DOMAIN ongoing :
       /\ ~ongoing[p].done /\ \A q \in 1 .. p - 1 : ongoing[q].done
       /\ ongoing' = [ongoing EXCEPT ![p].done = TRUE]
  /\ UNCHANGED <<args, idList, task, sched, cache, batch, unwaited, pc>>

\* The list is iterated while elements are removed from it: the one that follows
\* a removed one is passed over.
Taken ==
  LET taken[p \in 0 .. Len(ongoing)] == p > 0 /\ ongoing[p].done /\ ~taken[p - 1]
  IN  {p \in DOMAIN ongoing : taken[p]}

TakenTasks == UNION {ongoing[p].tasks : p \in Taken}

\* update_ongoing, and the synchronisation of the tokens it has taken.
UpdateOngoing ==
  /\ pc = "poll"
  /\ ongoing' = LET left == Filtered([p \in DOMAIN ongoing |-> p], DOMAIN ongoing \ Taken)
                IN  [i \in DOMAIN left |-> ongoing[left[i]]]
  /\ task' \in Synchronised([r \in Reqs |-> [task[r] EXCEPT !.waiting = @ /\ r \notin TakenTasks]],
                            TakenTasks)
  /\ unwaited' = TakenTasks
  /\ pc' = "update"
  /\ UNCHANGED <<args, idList, sched, cache, batch>>

-----------------------------------------------------------------------------
(* Scheduler.update and the EndTask step that follows *)

\* reorder_tasks_for_batching: the last one of the group takes the place of r.
\* A slip: those behind r move up.
RemovedInOrder(sgroup, r) == Filtered(sgroup, Reqs \ {r})

SwappedOut(sgroup, r) ==
  Front([i \in DOMAIN sgroup |-> IF sgroup[i] = r THEN Last(sgroup) ELSE sgroup[i]])

SgroupsWithout(order) ==
  LET lists[i \in 0 .. Len(order)] ==
        IF i = 0 THEN sgroupList
        ELSE [lists[i - 1] EXCEPT ![task[order[i]].group] = SwappedOut(@, order[i])]
  IN  lists[Len(order)]

LastOccupied(hot, s) ==
  LET g == CHOOSE h \in Groups : s \in SlotsOf(h)
  IN  Max({i \in SlotsOf(g) : i >= s /\ hot[i] # NoReq})

\* finalize_cache_all_decode: the last occupied slot of the group moves to the
\* slot of r, and is cleared.
Finalized(c, r) ==
  LET s == c.slot[r]
      last == LastOccupied(c.hot, s)
      moved == c.hot[last]
  IN  [hot |-> [c.hot EXCEPT ![s] = moved, ![last] = NoReq],
       slot |-> [c.slot EXCEPT ![moved] = s, ![r] = NoSlot],
       kv |-> [c.kv EXCEPT ![s] = c.kv[last], ![last] = NoReq]]

\* The one cache that is left, as a set so that each step of the fold has a value.
CacheWithout(order) ==
  FoldLeft(LAMBDA caches, r : {Finalized(c, r) : c \in caches},
           {[hot |-> hotReqs, slot |-> req2slot, kv |-> kvBuffer]}, order)

\* The tasks of this turn, less those whose tokens are still to come.
Returned == {r \in ToSet(batch) \cup unwaited : ~task[r].waiting}
Finished == {r \in Returned : task[r].status = "Stopped"}

WaitingAfter == [g \in Groups |-> {r \in waitingTasks[g] : r \notin Returned}]
Freed == {g \in usedSgroups : WaitingAfter[g] = {}}

\* A slip: the groups freed last are scheduled first.
FreeSgroupsLifo(freed) == Filtered([g \in Groups |-> g], freed) \o freeSgroups

FreeSgroupsAfter(freed) == freeSgroups \o Filtered([g \in Groups |-> g], freed)

\* list(set(task_ids)) has the tasks that are removed in any order.
Update ==
  /\ pc = "update"
  /\ \E order \in SetToSeqs(Finished) :
       /\ sgroupList' = SgroupsWithout(order)
       /\ \E c \in CacheWithout(order) :
            hotReqs' = c.hot /\ req2slot' = c.slot /\ kvBuffer' = c.kv
  /\ idList' = Filtered(idList, Reqs \ Finished)
  /\ waitingTasks' = WaitingAfter
  /\ usedSgroups' = usedSgroups \ Freed
  /\ freeSgroups' = FreeSgroupsAfter(Freed)
  /\ batch' = <<>> /\ unwaited' = {}
  /\ pc' = "schedule"
  /\ UNCHANGED <<args, task, slotIdx, ongoing>>

-----------------------------------------------------------------------------
MainLoop ==
  \/ Schedule \/ ScheduleAllAllocated \/ ScheduleNothing
  \/ AssertionError \/ PrefillStep \/ DecodeStep \/ DecodeStepOverlap \/ EmptyStep
  \/ UpdateOngoing \/ Update

Next == (\E r \in Reqs : AddAllQueued(r)) \/ MainLoop \/ Complete

Spec == Init /\ [][Next]_vars

\* The worker thread goes on, and a batch that is under way comes to its end.
FairSpec == Spec /\ WF_vars(MainLoop) /\ WF_vars(Complete)

-----------------------------------------------------------------------------
(* Properties *)

\* A group is free or used and never both or twice, its list holds the requests
\* that joined it, each once and no more than it has slots, and between two turns
\* it is used exactly while it has tasks under way in the pipeline.
GroupsAccounted ==
  /\ ToSet(freeSgroups) \cap usedSgroups = {}
  /\ ToSet(freeSgroups) \cup usedSgroups = Groups
  /\ IsInjective(freeSgroups)
  /\ \A g \in Groups :
       /\ IsInjective(sgroupList[g]) /\ Len(sgroupList[g]) <= SlotsSize(g)
       /\ ToSet(sgroupList[g]) = {r \in ToSet(idList) : task[r].group = g}
  /\ pc = "schedule" =>
       /\ usedSgroups = {g \in Groups : waitingTasks[g] # {}}
       /\ UNION {waitingTasks[g] : g \in Groups} = UNION {ongoing[p].tasks : p \in DOMAIN ongoing}

\* The row a request has been given holds the KV cache of that request.
RowsIntact == \A r \in Reqs : req2slot[r] # NoSlot => kvBuffer[req2slot[r]] = r

\* The arguments under which the code does not keep rows and requests together:
\* a task at its length limit is left out of the middle of an overlapped decode
\* step, and without overlap one that ends with its first token leaves a group
\* that is still being prefilled in chunks.
Exposed ==
  \/ args.overlap /\ "length" \in args.stops
  \/ args.chunk # NoChunk /\ ~args.overlap /\ "stop" \in args.stops

\* Under all other arguments every row keeps the cache of its request, and no
\* assertion of PackedTasks or of the cache manager fails, whatever is removed in
\* whatever order, from whichever group, while other groups are under way.
IntactUnlessExposed == Exposed \/ (RowsIntact /\ (pc = "step" => ~AssertionFails))

\* A request that has joined a group is in a batch again and again until it ends:
\* no group is passed over for ever, no result under way is forgotten by a list
\* that is iterated while it shrinks, no wait is left without its unwait.
GroupedRequestRuns ==
  \A r \in Reqs :
    task[r].group # NoGroup ~> Contains(batch, r) \/ task[r].status = "Stopped" \/ pc = "crashed"
=============================================================================
