----------------------------- MODULE DPSchedule -----------------------------
(***************************************************************************)
(* One engine of infer.dp_size data parallel ranks.  Rank 0 schedules for  *)
(* all of them (DPFifoScheduler, chitu/scheduler.py), sends each rank its  *)
(* part of the batch over a socket and collects the tokens                 *)
(* (ExpertDataDispatcher, chitu/executor.py).  Only rank 0 has the         *)
(* requests; the other ranks keep copies of the tasks they own, advanced   *)
(* by what rank 0 sends and by their own results.                          *)
(*                                                                         *)
(* Ranks run their steps independently here; the collectives inside a      *)
(* model step only make them closer.  pp_size = mtp_size = 1.  A token is  *)
(* the request it was sampled for and its position in the answer, 0 when   *)
(* the step was fed something else than what the cache ends with.          *)
(***************************************************************************)
EXTENDS DPFifo

CONSTANTS
  NoReq,            \* no request
  MaxPerDps,        \* the values of max_num_tasks_per_dp to consider
  MaxNew,           \* [Reqs -> Nat]: max_new_tokens
  StopWithEos,      \* SUBSET Reqs: the requests with stop_with_eos
  Overlaps,         \* the values of infer.schedule_overlap to consider
  ChunkSizes        \* the values of infer.prefill_chunk_size, 0 for None

\* The warmup divides by prefill_chunk_size // dp_size.
ASSUME DPScheduleAssumption ==
  /\ NoReq \notin Reqs
  /\ DpSize \in Nat \ {0}
  /\ MaxPerDps \subseteq Nat \ {0}
  /\ PromptLen \in [Reqs -> Nat \ {0}]
  /\ MaxNew \in [Reqs -> Nat \ {0, 1}]
  /\ StopWithEos \subseteq Reqs
  /\ Overlaps \subseteq BOOLEAN
  /\ \A chunk \in ChunkSizes : chunk \in Nat /\ (chunk = 0 \/ chunk >= DpSize)

VARIABLES
  submitted,   \* the requests that have arrived
  batch,       \* DPTaskCollector: the parts of the batch, and the packed whole
  collected,   \* all_tokens of collect_token
  received,    \* how many messages collect_token has received
  pc,          \* where rank 0 is
  answer,      \* the tokens rank 0 has recorded for each request
  toRank,      \* messages from rank 0 to each other rank
  toMain,      \* token lists from each other rank to rank 0
  copy,        \* the Task of each request in the TaskPool of each other rank
  kv           \* [Ranks -> [Reqs -> Nat]]: tokens in the caches

Others == Ranks \ {0}

mainVars == <<submitted, pool, task, cursor, batch, collected, received, pc, answer>>
vars == <<args, mainVars, toRank, toMain, copy, kv>>

NoToken == [of |-> NoReq, pos |-> 0, eos |-> FALSE]
NoCopy == [type |-> "none", consumed |-> 0, next |-> NoToken, gen |-> NoToken]
NewCopy == [NoCopy EXCEPT !.type = "Prefill"]

NewTask == [type |-> "Prefill", consumed |-> 0, next |-> NoToken, gen |-> NoToken,
            numNew |-> 0, status |-> "Normal", waiting |-> FALSE, owner |-> NoRank]

NoBatch == [kind |-> "none", lists |-> [k \in Ranks |-> <<>>], take |-> [r \in Reqs |-> 0],
            outputs |-> <<>>, normal |-> {}]

Init ==
  /\ args \in [overlap : Overlaps, chunk : ChunkSizes, maxPerDp : MaxPerDps]
  /\ submitted = {}
  /\ pool = <<>>
  /\ task = [r \in Reqs |-> NewTask]
  /\ cursor = 0
  /\ batch = NoBatch
  /\ collected = [k \in Ranks |-> <<>>]
  /\ received = 0
  /\ pc = "schedule"
  /\ answer = [r \in Reqs |-> <<>>]
  /\ toRank = [k \in Others |-> <<>>]
  /\ toMain = [k \in Others |-> <<>>]
  /\ copy = [k \in Others |-> [r \in Reqs |-> NoCopy]]
  /\ kv = [k \in Ranks |-> [r \in Reqs |-> 0]]

\* What the ranks have, one after the other.
Concat(seqs) ==
  LET joined[i \in 0 .. DpSize] == IF i = 0 THEN <<>> ELSE joined[i - 1] \o seqs[i - 1]
  IN  joined[DpSize]


\* The tokens the tasks of the list still hold from the step before.
Generated(tasks, list) ==
  Mapped(Filtered(list, {r \in Reqs : tasks[r].gen # NoToken}), LAMBDA r : tasks[r].gen)

-----------------------------------------------------------------------------
(* DPFifoScheduler.schedule *)

AssignOwners ==
  /\ pc = "schedule" /\ pool # <<>>
  /\ \E new \in {NewOwners(PrefillIds, FreeSlots)} : OwnersAssigned(new)
  /\ pc' = "select"
  /\ UNCHANGED <<args, submitted, pool, batch, collected, received, answer, toRank, toMain, copy, kv>>

\* A slip: the progress of the prompt is left out of the message.
PrefillItemAfresh(r, take) == [r |-> r, consumed |-> 0, take |-> take[r]]

\* get_msgpackable_task
PrefillItem(r, take) == [r |-> r, consumed |-> task[r].consumed, take |-> take[r]]

DecodeItem(r) == [r |-> r, status |-> task[r].status]

Sent(kind, lists, item(_)) ==
  [k \in Others |-> Append(toRank[k], [kind |-> kind, items |-> Mapped(lists[k], item)])]

\* prepare_dp_tasks and the sending half of dispatch_metadata
SchedulePrefill ==
  /\ pc = "select"
  /\ \E lists \in {PrefillLists(PrefillIds)} :
     \E take \in {[r \in Reqs |-> Take(r, lists)]} :
       /\ ~AllEmpty(lists)
       /\ batch' = [kind |-> "Prefill", lists |-> lists, take |-> take, normal |-> {},
                    outputs |-> Filtered(Concat(lists), {r \in Reqs : take[r] = Remaining(r)})]
       /\ toRank' = Sent("Prefill", lists, LAMBDA r : PrefillItem(r, take))
  /\ pc' = "run"
  /\ UNCHANGED <<args, submitted, pool, task, cursor, collected, received, answer, toMain, copy, kv>>

DispatchDecode ==
  /\ pc = "select"
  /\ ~AllEmpty(DecodeLists)
  /\ batch' = [NoBatch EXCEPT !.kind = "Decode", !.lists = DecodeLists,
                              !.outputs = Concat(DecodeLists),
                              !.normal = {r \in Reqs : task[r].status = "Normal"}]
  /\ toRank' = Sent("Decode", DecodeLists, DecodeItem)
  /\ IF args.overlap
     THEN /\ collected' = [collected EXCEPT ![0] = Generated(task, DecodeLists[0])]
          /\ pc' = "collect"
     ELSE pc' = "run" /\ UNCHANGED collected
  /\ UNCHANGED <<args, submitted, pool, task, cursor, received, answer, toMain, copy, kv>>

\* A slip: decode tasks run only when nothing is in prefill.
ScheduleDecodeLast == PrefillIds = <<>> /\ DispatchDecode

\* Decode tasks run when there is no prefill candidate or none has a slot.
ScheduleDecode == AllEmpty(PrefillLists(PrefillIds)) /\ DispatchDecode

-----------------------------------------------------------------------------
(* Executor.step at any rank: t is a task, or the copy of one, and n the    *)
(* tokens of its request in the cache of the rank.                          *)

ConsumeReqTokens(r, t, n) ==
  [t EXCEPT !.consumed = @ + n, !.type = IF t.consumed + n = PromptLen[r] THEN "Decode" ELSE @]

\* What the step samples for the last token of a prompt, and for one of an answer.
AfterPrompt(r, t, n) == [of |-> r, pos |-> IF t.consumed = n THEN 1 ELSE 0, eos |-> FALSE]

AfterToken(r, t, n) ==
  LET fits == t.next.of = r /\ t.next.pos = n - PromptLen[r] + 1
  IN  [of |-> r, pos |-> IF fits THEN t.next.pos + 1 ELSE 0, eos |-> FALSE]

\* Some of the answers that may end so end.
Endings(list) == SUBSET (ToSet(list) \cap StopWithEos)

Ended(list, E, token(_)) ==
  Mapped(list, LAMBDA r : [token(r) EXCEPT !.eos = r \in E])

\* The i-th token belongs to the i-th task of the list.
Stored(tasks, list, tokens, f(_, _)) ==
  [r \in Reqs |-> IF r \notin ToSet(list) THEN tasks[r]
                  ELSE f(tasks[r], tokens[CHOOSE i \in DOMAIN list : list[i] = r])]

SetGen(t, tok) == [t EXCEPT !.gen = tok]
SetNext(t, tok) == [t EXCEPT !.next = tok, !.gen = NoToken]

-----------------------------------------------------------------------------
(* Rank 0 *)

\* The model runs the part of rank 0; the progress of every task of the batch is
\* noted there.  With overlap the tokens stay with the tasks.
RunPrefill ==
  LET mine == Filtered(batch.lists[0], ToSet(batch.outputs))
      all == ToSet(Concat(batch.lists))
      consumed == [r \in Reqs |-> IF r \in all THEN ConsumeReqTokens(r, task[r], batch.take[r])
                                               ELSE task[r]]
  IN  /\ pc = "run" /\ batch.kind = "Prefill"
      /\ kv' = [kv EXCEPT ![0] = [r \in Reqs |-> IF r \in ToSet(batch.lists[0])
                                                 THEN @[r] + batch.take[r] ELSE @[r]]]
      /\ \E E \in Endings(mine) :
           LET tokens == Ended(mine, E, LAMBDA r : AfterPrompt(r, task[r], kv[0][r]))
           IN  IF args.overlap
               THEN /\ task' = Stored(consumed, mine, tokens, SetGen)
                    /\ pc' = "update"
                    /\ UNCHANGED collected
               ELSE /\ task' = consumed
                    /\ collected' = [collected EXCEPT ![0] = tokens]
                    /\ pc' = "collect"
      /\ UNCHANGED <<args, submitted, pool, cursor, batch, received, answer, toRank, toMain, copy>>

\* With overlap the tokens of the previous step are recorded by now, and a task runs
\* again when its status was Normal before.
RunDecode ==
  LET mine == IF args.overlap THEN Filtered(batch.lists[0], batch.normal)
              ELSE batch.lists[0]
  IN  /\ pc = "run" /\ batch.kind = "Decode"
      /\ kv' = [kv EXCEPT ![0] = [r \in Reqs |-> IF r \in ToSet(mine) THEN @[r] + 1 ELSE @[r]]]
      /\ \E E \in Endings(mine) :
           LET tokens == Ended(mine, E, LAMBDA r : AfterToken(r, task[r], kv[0][r]))
           IN  IF args.overlap
               THEN /\ task' = Stored(task, mine, tokens, SetGen)
                    /\ pc' = "update"
                    /\ UNCHANGED collected
               ELSE /\ collected' = [collected EXCEPT ![0] = tokens]
                    /\ pc' = "collect"
                    /\ UNCHANGED task
      /\ UNCHANGED <<args, submitted, pool, cursor, batch, received, answer, toRank, toMain, copy>>

Awaited == DpSize - 1

\* collect_token takes as many messages as there are other ranks, of whichever come.
Collect(k) ==
  /\ pc = "collect" /\ received < Awaited
  /\ toMain[k] # <<>>
  /\ collected' = [collected EXCEPT ![k] = Head(toMain[k])]
  /\ toMain' = [toMain EXCEPT ![k] = Tail(@)]
  /\ received' = received + 1
  /\ UNCHANGED <<args, submitted, pool, task, cursor, batch, pc, answer, toRank, copy, kv>>

\* A slip: rank 0's own tokens come last.
CollectedOwnLast ==
  FlattenSeq([i \in 1 .. DpSize |-> IF i = DpSize THEN collected[0] ELSE collected[i]])

\* sum(all_tokens, token_list)
Collected == Concat(collected)

\* update_decode_status
UpdateDecodeStatus(r, t) ==
  CASE t.status = "Stopped" -> t
    [] t.status # "Stopped" /\ t.numNew > 0 /\ t.next.eos -> [t EXCEPT !.status = "Stopped"]
    [] t.status = "WillStopLength" /\ ~(t.numNew > 0 /\ t.next.eos) -> [t EXCEPT !.status = "Stopped"]
    [] t.status = "Normal" /\ ~(t.numNew > 0 /\ t.next.eos) ->
         [t EXCEPT !.status = IF t.numNew + 1 >= MaxNew[r] THEN "WillStopLength" ELSE "Normal"]

\* update_task_by_result of the whole batch
Record ==
  LET given(t, tok) == [SetNext(t, tok) EXCEPT !.numNew = @ + 1]
      stored == Stored(task, batch.outputs, Collected, given)
      all == IF batch.outputs = <<>> THEN {} ELSE ToSet(Concat(batch.lists))
  IN  /\ pc = "collect" /\ received = Awaited
      /\ Len(Collected) >= Len(batch.outputs)
      /\ task' = [r \in Reqs |-> IF r \in all THEN UpdateDecodeStatus(r, stored[r]) ELSE task[r]]
      /\ answer' = [r \in Reqs |-> IF r \in ToSet(batch.outputs)
                                   THEN Append(answer[r], stored[r].next) ELSE answer[r]]
      /\ received' = 0
      /\ collected' = [k \in Ranks |-> <<>>]
      /\ pc' = IF args.overlap THEN "run" ELSE "update"
      /\ UNCHANGED <<args, submitted, pool, cursor, batch, toRank, toMain, copy, kv>>

RemovedIds == Filtered(Concat(batch.lists), {r \in Reqs : task[r].status = "Stopped"})
Removed == ToSet(RemovedIds)

\* Scheduler.update and remove_kvcache_all_device
Update ==
  /\ pc = "update"
  /\ pool' = Filtered(pool, Reqs \ Removed)
  /\ kv' = [kv EXCEPT ![0] = [r \in Reqs |-> IF r \in Removed THEN 0 ELSE @[r]]]
  /\ toRank' = IF Removed = {} THEN toRank
               ELSE Sent("EndTask", [k \in Ranks |-> RemovedIds], LAMBDA r : [r |-> r])
  /\ batch' = NoBatch
  /\ pc' = "schedule"
  /\ UNCHANGED <<args, submitted, task, cursor, collected, received, answer, toMain, copy>>

\* A request arrives between two steps.
Submit(r) ==
  /\ pc = "schedule"
  /\ r \notin submitted
  /\ submitted' = submitted \cup {r}
  /\ pool' = Append(pool, r)
  /\ UNCHANGED <<args, task, cursor, batch, collected, received, pc, answer, toRank, toMain,
                 copy, kv>>

-----------------------------------------------------------------------------
(* The other ranks *)

Received(k, kind) == toRank[k] # <<>> /\ Head(toRank[k]).kind = kind

Items(k) == Head(toRank[k]).items
Listed(k) == Mapped(Items(k), LAMBDA i : i.r)
ItemOf(k, r) == CHOOSE i \in ToSet(Items(k)) : i.r = r

\* deserialize_prefill_tasks: a task the rank knows takes over the progress.
PrefillCopy(k, r) ==
  [(IF copy[k][r] = NoCopy THEN NewCopy ELSE copy[k][r]) EXCEPT !.consumed = ItemOf(k, r).consumed]

RankPrefill(k) ==
  LET list == Listed(k)
      in(r) == r \in ToSet(list)
      known == [r \in Reqs |-> IF in(r) THEN PrefillCopy(k, r) ELSE copy[k][r]]
      outputs == Filtered(list, {r \in ToSet(list) :
                                  known[r].consumed + ItemOf(k, r).take = PromptLen[r]})
      consumed == [r \in Reqs |-> IF in(r) THEN ConsumeReqTokens(r, known[r], ItemOf(k, r).take)
                                           ELSE known[r]]
  IN  /\ Received(k, "Prefill")
      /\ kv' = [kv EXCEPT ![k] = [r \in Reqs |-> IF in(r) THEN @[r] + ItemOf(k, r).take ELSE @[r]]]
      /\ \E E \in Endings(outputs) :
           LET tokens == Ended(outputs, E, LAMBDA r : AfterPrompt(r, known[r], kv[k][r]))
           IN  IF args.overlap
               THEN /\ copy' = [copy EXCEPT ![k] = Stored(consumed, outputs, tokens, SetGen)]
                    /\ UNCHANGED toMain
               ELSE /\ copy' = [copy EXCEPT ![k] = Stored(consumed, outputs, tokens, SetNext)]
                    /\ toMain' = [toMain EXCEPT ![k] = Append(@, tokens)]
      /\ toRank' = [toRank EXCEPT ![k] = Tail(@)]
      /\ UNCHANGED <<args, mainVars>>

\* With overlap the rank first sends the tokens of its previous step; a task runs again
\* when the status in the message is Normal.
RankDecode(k) ==
  LET list == Listed(k)
      last == Generated(copy[k], list)
      known == IF args.overlap THEN Stored(copy[k], list, last, SetNext) ELSE copy[k]
      run == IF args.overlap THEN Filtered(list, {r \in ToSet(list) : ItemOf(k, r).status = "Normal"})
             ELSE list
  IN  /\ Received(k, "Decode")
      /\ kv' = [kv EXCEPT ![k] = [r \in Reqs |-> IF r \in ToSet(run) THEN @[r] + 1 ELSE @[r]]]
      /\ \E E \in Endings(run) :
           LET tokens == Ended(run, E, LAMBDA r : AfterToken(r, known[r], kv[k][r]))
           IN  /\ copy' = [copy EXCEPT ![k] = IF args.overlap
                                              THEN Stored(known, run, tokens, SetGen)
                                              ELSE Stored(known, run, tokens, SetNext)]
               /\ toMain' = [toMain EXCEPT ![k] = Append(@, IF args.overlap THEN last ELSE tokens)]
      /\ toRank' = [toRank EXCEPT ![k] = Tail(@)]
      /\ UNCHANGED <<args, mainVars>>

RankEndTask(k) ==
  LET gone(r) == r \in ToSet(Listed(k))
  IN  /\ Received(k, "EndTask")
      /\ copy' = [copy EXCEPT ![k] = [r \in Reqs |-> IF gone(r) THEN NoCopy ELSE @[r]]]
      /\ kv' = [kv EXCEPT ![k] = [r \in Reqs |-> IF gone(r) THEN 0 ELSE @[r]]]
      /\ toRank' = [toRank EXCEPT ![k] = Tail(@)]
      /\ UNCHANGED <<args, mainVars, toMain>>

-----------------------------------------------------------------------------
MainRank ==
  \/ AssignOwners \/ SchedulePrefill \/ ScheduleDecode
  \/ RunPrefill \/ RunDecode
  \/ \E k \in Others : Collect(k)
  \/ Record
  \/ Update

OtherRank(k) == RankPrefill(k) \/ RankDecode(k) \/ RankEndTask(k)

Next == MainRank \/ (\E k \in Others : OtherRank(k)) \/ (\E r \in Reqs : Submit(r))

Spec == Init /\ [][Next]_vars

\* Every rank is a process whose loop goes on.
FairSpec == Spec /\ WF_vars(MainRank) /\ \A k \in Others : WF_vars(OtherRank(k))
-----------------------------------------------------------------------------
\* A rank that takes a message finds its copies and its cache as rank 0 assumed when it
\* sent it: the prompt goes on where the cache ends, and in decode the newest token,
\* which with overlap the copy does not know yet, is the first the cache misses.
RanksInStep ==
  \A k \in Others : toRank[k] # <<>> =>
    \A i \in DOMAIN Items(k) : LET r == Items(k)[i].r IN
      CASE Received(k, "Prefill") ->
             /\ kv[k][r] = Items(k)[i].consumed
             /\ copy[k][r].type = IF kv[k][r] = 0 THEN "none" ELSE "Prefill"
        [] Received(k, "Decode") ->
             LET newest == IF args.overlap THEN copy[k][r].gen ELSE copy[k][r].next
             IN  copy[k][r].type = "Decode" /\ kv[k][r] + 1 = PromptLen[r] + newest.pos
        [] Received(k, "EndTask") -> TRUE

\* A rank caches no more requests than it has slots (num_hot_req), and those it owns,
\* although rank 0 gives a slot away before the rank has heard of it.
SlotsRespected ==
  \A k \in Ranks : LET cached == {r \in Reqs : kv[k][r] > 0}
                   IN  Cardinality(cached) <= args.maxPerDp /\ \A r \in cached : task[r].owner = k

Streams == INSTANCE TokenStreams WITH
             stream <- [r \in Reqs |->
               [out |-> [i \in DOMAIN answer[r] |->
                           [pos |-> IF answer[r][i].of = r THEN answer[r][i].pos ELSE 0,
                            eos |-> answer[r][i].eos]],
                closed |-> task[r].status = "Stopped",
                limit |-> MaxNew[r]]]

\* What rank 0 records keeps the promise of the engine: each request's own tokens in
\* order, whatever rank they come from, up to the one that ends the answer.
ImplementsStreams == Streams!StreamsSpec

\* Every request is answered in the end, also those no rank has a slot for at first, and
\* leaves nothing in the caches.
EveryAnswerEnds ==
  \A r \in Reqs : r \in submitted ~> (task[r].status = "Stopped" /\ \A k \in Ranks : kv[k][r] = 0)
=============================================================================
