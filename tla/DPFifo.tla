------------------------------- MODULE DPFifo -------------------------------
(***************************************************************************)
(* DPFifoScheduler.schedule (chitu/scheduler.py): how rank 0 of a data     *)
(* parallel engine chooses the next batch for all ranks.  The scheduler    *)
(* keeps a cursor only; everything else it reads off the tasks of the      *)
(* pool.  DPSchedule extends this module.                                  *)
(***************************************************************************)
EXTENDS Lists

CONSTANTS
  Reqs,
  DpSize,           \* dp_group.group_size
  PromptLen         \* [Reqs -> Nat]: length of the encoded prompt

VARIABLES
  args,        \* chunk (NoChunk for None) and maxPerDp
  pool,        \* the keys of rank 0's TaskPool.pool, which are in order of start_time
  task,        \* the Task of each request at rank 0
  cursor       \* _rr_owner_cursor

NoChunk == 0
Ranks == 0 .. DpSize - 1
NoRank == DpSize

AllEmpty(lists) == \A k \in Ranks : lists[k] = <<>>

-----------------------------------------------------------------------------
\* A slip: requests still in prefill do not count.
OccupiedByDecode(k) ==
  Cardinality({r \in ToSet(pool) : task[r].owner = k /\ task[r].type = "Decode"})

Occupied(k) ==
  Cardinality({r \in ToSet(pool) : task[r].owner = k /\ task[r].status # "Stopped"})

PrefillIds ==
  UpTo(Filtered(pool, {r \in Reqs : task[r].type = "Prefill" /\ ~task[r].waiting}),
       args.maxPerDp * DpSize)

Free(k) == IF Occupied(k) >= args.maxPerDp THEN 0 ELSE args.maxPerDp - Occupied(k)

\* The free slots in the order next_rank_with_free_slot finds them from the cursor: in
\* each turn the ranks that have one more.
FreeSlots ==
  Filtered([i \in 1 .. args.maxPerDp * DpSize |-> i - 1],
           {x \in 0 .. args.maxPerDp * DpSize : x \div DpSize < Free((cursor + x) % DpSize)})

NewOwners(ids, slots) ==
  LET fresh == Filtered(ids, {r \in Reqs : task[r].owner = NoRank})
  IN  [i \in 1 .. Smaller(Len(fresh), Len(slots)) |-> [r |-> fresh[i], at |-> cursor + slots[i]]]

\* Requests that have no owner get one while there is a slot; they keep it also when
\* nothing of their prompt fits the step.
OwnersAssigned(new) ==
  LET ownerOf(r) == (CHOOSE x \in ToSet(new) : x.r = r).at % DpSize
  IN  /\ task' = [r \in Reqs |-> IF \E i \in DOMAIN new : new[i].r = r
                                 THEN [task[r] EXCEPT !.owner = ownerOf(r)] ELSE task[r]]
      /\ cursor' = IF new = <<>> THEN cursor ELSE (new[Len(new)].at + 1) % DpSize

Budget(k) == args.chunk \div DpSize + IF k = 0 THEN args.chunk % DpSize ELSE 0

Remaining(r) == PromptLen[r] - task[r].consumed
RemainingBefore(list, i) ==
  LET sum[j \in 0 .. Len(list)] == IF j = 0 THEN 0 ELSE sum[j - 1] + Remaining(list[j])
  IN  sum[i - 1]

\* The tasks of a rank share its part of prefill_chunk_size in order.
Chunked(list, k) ==
  IF args.chunk = NoChunk THEN list
  ELSE UpTo(list, Cardinality({i \in DOMAIN list : RemainingBefore(list, i) < Budget(k)}))

PrefillLists(ids) ==
  [k \in Ranks |->
     UpTo(Chunked(Filtered(ids, {r \in Reqs : task[r].owner = k}), k), args.maxPerDp)]

\* How many tokens of a prompt the step takes.
Take(r, lists) ==
  LET list == IF task[r].owner = NoRank THEN <<>> ELSE lists[task[r].owner]
      i == CHOOSE j \in DOMAIN list : list[j] = r
  IN  IF r \notin ToSet(list) THEN 0
      ELSE IF args.chunk = NoChunk THEN Remaining(r)
      ELSE Smaller(Remaining(r), Budget(task[r].owner) - RemainingBefore(list, i))

\* Decode tasks run when there is no prefill candidate or none has a slot.
DecodeLists ==
  [k \in Ranks |->
     UpTo(Filtered(pool, {r \in Reqs : /\ task[r].type = "Decode" /\ ~task[r].waiting
                                       /\ task[r].status # "Stopped" /\ task[r].owner = k}),
          args.maxPerDp)]
=============================================================================
