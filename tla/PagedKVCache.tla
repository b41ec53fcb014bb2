---------------------------- MODULE PagedKVCache ----------------------------
(***************************************************************************)
(* The block allocator of PagedKVCacheManager (chitu/cache_manager.py).    *)
(* Every rank keeps one: a FIFO of free GPU pages and, for each request    *)
(* that has tokens in the cache, the list of its pages and the number of   *)
(* tokens in them.  The executor calls it once per step, through           *)
(* prepare_cache_prefill or prepare_cache_decode, and once more when the   *)
(* scheduler ends or evicts a request.                                     *)
(*                                                                         *)
(* The two prepare handlers first advance req_id_to_seq_len of the whole   *)
(* batch and then loop over it; each turn of the loop is a step here,      *)
(* because get_free_block can raise in the middle of it.  The copy of the  *)
(* tables to the GPU that ends a handler is not modelled.                  *)
(***************************************************************************)
EXTENDS Integers, Sequences

CONSTANTS Reqs,        \* request identifiers
          NumBlocks,   \* num_blocks: pages in the cache
          BlockSize,   \* block_size: tokens in a page
          MtpSize,     \* mtp_size: tokens a decode step adds
          MaxSeqLen,   \* bound: infer.max_seq_len, checked by UserRequest
          MaxBatch,    \* bound: prefill_num_tasks and decode_num_tasks
          NoOwner

ASSUME NumBlocksAssumption == NumBlocks \in Nat
ASSUME BlockSizeAssumption == BlockSize \in Nat \ {0}
ASSUME MtpSizeAssumption == MtpSize \in Nat \ {0}
ASSUME MaxSeqLenAssumption == MaxSeqLen \in Nat
ASSUME MaxBatchAssumption == MaxBatch \in Nat
ASSUME FreshNoOwner == NoOwner \notin Reqs

VARIABLES
  freeBlocks,   \* free_blocks: the deque of free page ids
  blockTable,   \* block_table: request -> its pages in order (absent = <<>>)
  seqLen,       \* req_id_to_seq_len: request -> tokens cached (absent = 0)
  todo,         \* requests the running prepare loop has still to serve
  decoding,     \* curr_req_ids while a decode step runs, <<>> otherwise
  raised        \* get_free_block raised "No more free blocks"

vars == <<freeBlocks, blockTable, seqLen, todo, decoding, raised>>

Blocks == 0 .. NumBlocks - 1

CeilDiv(a, b) == (a + b - 1) \div b

\* A slip: the last page is missed when target fills it exactly, and one page
\* too many is taken otherwise.
NumAdditionalBlocksRoundedUp(r, target) ==
  LET lack == target \div BlockSize + 1 - Len(blockTable[r])
  IN  IF lack > 0 THEN lack ELSE 0

\* The pages r lacks to hold target tokens.
NumAdditionalBlocks(r, target) ==
  LET lack == CeilDiv(target, BlockSize) - Len(blockTable[r])
  IN  IF lack > 0 THEN lack ELSE 0

\* The requests of one step: distinct, in the order of the batch.
Batches == {b \in UNION {[1 .. n -> Reqs] : n \in 1 .. MaxBatch} :
              \A i, j \in DOMAIN b : b[i] = b[j] => i = j}

InBatch(b, r) == \E i \in DOMAIN b : b[i] = r

-----------------------------------------------------------------------------
Init ==
  /\ freeBlocks = [i \in 1 .. NumBlocks |-> i - 1]
  /\ blockTable = [r \in Reqs |-> <<>>]
  /\ seqLen = [r \in Reqs |-> 0]
  /\ todo = <<>>
  /\ decoding = <<>>
  /\ raised = FALSE

\* No handler is running; rank 0 is between two calls.
Idle == todo = <<>> /\ decoding = <<>> /\ ~raised

\* Entry of a prefill step: chunk tokens of every request in the batch are
\* about to be written behind those it already has.
PrepareCachePrefill(batch, delta) ==
  /\ Idle
  /\ \A r \in Reqs : InBatch(batch, r) => seqLen[r] + delta[r] <= MaxSeqLen
  /\ seqLen' = [r \in Reqs |-> IF InBatch(batch, r) THEN seqLen[r] + delta[r]
                                                    ELSE seqLen[r]]
  /\ todo' = batch
  /\ UNCHANGED <<freeBlocks, blockTable, decoding, raised>>

\* Entry of a decode step, for requests that went through prefill.
PrepareCacheDecode(batch) ==
  /\ Idle
  /\ \A r \in Reqs : InBatch(batch, r) =>
                       seqLen[r] # 0 /\ seqLen[r] + MtpSize <= MaxSeqLen
  /\ seqLen' = [r \in Reqs |-> IF InBatch(batch, r) THEN seqLen[r] + MtpSize
                                                    ELSE seqLen[r]]
  /\ todo' = batch
  /\ decoding' = batch
  /\ UNCHANGED <<freeBlocks, blockTable, raised>>

\* Two slips: the pages stay in the deque while others of the batch wait for
\* theirs; the new pages go in front of the table.
ExtendKeepingPages ==
  /\ todo # <<>>
  /\ ~raised
  /\ LET r == Head(todo)
         n == NumAdditionalBlocks(r, seqLen[r])
     IN  /\ n <= Len(freeBlocks)
         /\ blockTable' = [blockTable EXCEPT ![r] = @ \o SubSeq(freeBlocks, 1, n)]
         /\ freeBlocks' = IF Len(todo) > 1
                          THEN freeBlocks
                          ELSE SubSeq(freeBlocks, n + 1, Len(freeBlocks))
  /\ todo' = Tail(todo)
  /\ UNCHANGED <<seqLen, decoding, raised>>

ExtendInFront ==
  /\ todo # <<>>
  /\ ~raised
  /\ LET r == Head(todo)
         n == NumAdditionalBlocks(r, seqLen[r])
     IN  /\ n <= Len(freeBlocks)
         /\ blockTable' = [blockTable EXCEPT ![r] = SubSeq(freeBlocks, 1, n) \o @]
         /\ freeBlocks' = SubSeq(freeBlocks, n + 1, Len(freeBlocks))
  /\ todo' = Tail(todo)
  /\ UNCHANGED <<seqLen, decoding, raised>>

\* One turn of the loop: the next request's table grows by the pages it lacks,
\* taken from the head of the deque.
ExtendBlockTable ==
  /\ todo # <<>>
  /\ ~raised
  /\ LET r == Head(todo)
         n == NumAdditionalBlocks(r, seqLen[r])
     IN  /\ n <= Len(freeBlocks)
         /\ blockTable' = [blockTable EXCEPT ![r] = @ \o SubSeq(freeBlocks, 1, n)]
         /\ freeBlocks' = SubSeq(freeBlocks, n + 1, Len(freeBlocks))
  /\ todo' = Tail(todo)
  /\ UNCHANGED <<seqLen, decoding, raised>>

\* The deque runs dry in the middle of a turn: the pages popped for it are
\* dropped with the unfinished list and the exception ends the engine.
OutOfBlocks ==
  /\ todo # <<>>
  /\ ~raised
  /\ NumAdditionalBlocks(Head(todo), seqLen[Head(todo)]) > Len(freeBlocks)
  /\ freeBlocks' = <<>>
  /\ raised' = TRUE
  /\ UNCHANGED <<blockTable, seqLen, todo, decoding>>

\* The end of a decode step: of the MtpSize positions written, the model keeps
\* those of the draft tokens it accepted; the pages stay with the request.
UpdateMtpCacheDecode(accepted) ==
  /\ todo = <<>> /\ decoding # <<>> /\ ~raised
  /\ seqLen' = [r \in Reqs |-> IF InBatch(decoding, r)
                               THEN seqLen[r] + accepted[r] - MtpSize
                               ELSE seqLen[r]]
  /\ decoding' = <<>>
  /\ UNCHANGED <<freeBlocks, blockTable, todo, raised>>

\* A slip: the pages are freed and the entry of block_table is kept.
FinalizeKeepingTable(r) ==
  /\ Idle
  /\ seqLen[r] # 0
  /\ freeBlocks' = freeBlocks \o blockTable[r]
  /\ seqLen' = [seqLen EXCEPT ![r] = 0]
  /\ UNCHANGED <<blockTable, todo, decoding, raised>>

\* An EndTask step: the request finished or was evicted.  A request with no
\* entry in req_id_to_seq_len is skipped.
FinalizeCacheAllDecode(r) ==
  /\ Idle
  /\ seqLen[r] # 0
  /\ freeBlocks' = freeBlocks \o blockTable[r]
  /\ blockTable' = [blockTable EXCEPT ![r] = <<>>]
  /\ seqLen' = [seqLen EXCEPT ![r] = 0]
  /\ UNCHANGED <<todo, decoding, raised>>

Next ==
  \/ \E b \in Batches : \E delta \in [Reqs -> 1 .. MaxSeqLen] :
       PrepareCachePrefill(b, delta)
  \/ \E b \in Batches : PrepareCacheDecode(b)
  \/ ExtendBlockTable
  \/ OutOfBlocks
  \/ \E accepted \in [Reqs -> 1 .. MtpSize] : UpdateMtpCacheDecode(accepted)
  \/ \E r \in Reqs : FinalizeCacheAllDecode(r)

Spec == Init /\ [][Next]_vars

-----------------------------------------------------------------------------
\* Page ids stay within the tensors and lengths within the naturals; a request
\* in a decode step had tokens before it.
TypeOK ==
  /\ freeBlocks \in Seq(Blocks)
  /\ blockTable \in [Reqs -> Seq(Blocks)]
  /\ seqLen \in [Reqs -> Nat]
  /\ todo \in Seq(Reqs)
  /\ decoding \in Seq(Reqs)
  /\ \A r \in Reqs : InBatch(decoding, r) => seqLen[r] > MtpSize
  /\ raised \in BOOLEAN

FreeDistinct ==
  \A i, j \in 1 .. Len(freeBlocks) : freeBlocks[i] = freeBlocks[j] => i = j

TablesDistinct ==
  \A r, s \in Reqs : \A i \in 1 .. Len(blockTable[r]), j \in 1 .. Len(blockTable[s]) :
    blockTable[r][i] = blockTable[s][j] => r = s /\ i = j

FreeNotHeld ==
  \A r \in Reqs : \A i \in 1 .. Len(blockTable[r]), j \in 1 .. Len(freeBlocks) :
    blockTable[r][i] # freeBlocks[j]

Holds(r, b) == \E i \in 1 .. Len(blockTable[r]) : blockTable[r][i] = b

NoneLost ==
  ~raised => \A b \in Blocks : \/ \E i \in 1 .. Len(freeBlocks) : freeBlocks[i] = b
                               \/ \E r \in Reqs : Holds(r, b)

\* Pages are conserved: over any sequence of prefills, decodes, endings and
\* evictions, every page of the cache is in exactly one place, the free deque or
\* one position of one request's table, until an allocation raises.
PageConservation == FreeDistinct /\ TablesDistinct /\ FreeNotHeld /\ NoneLost

\* A request that no running loop has still to serve has a page under every one
\* of its tokens, and at most the pages of the MtpSize - 1 draft tokens the last
\* decode step wrote and rejected beyond them: pages are never taken early and
\* never kept by a request without tokens.
TightTables ==
  ~raised => \A r \in Reqs : ~InBatch(todo, r) =>
    /\ CeilDiv(seqLen[r], BlockSize) <= Len(blockTable[r])
    /\ Len(blockTable[r]) <= CeilDiv(seqLen[r] + MtpSize - 1, BlockSize)
    /\ seqLen[r] = 0 => Len(blockTable[r]) = 0

\* While a request lives its pages stay where they are: a table only grows at
\* its end, so tokens written by earlier steps keep their page and offset.
TablesOnlyGrow ==
  [][\A r \in Reqs : seqLen'[r] # 0 =>
       /\ Len(blockTable[r]) <= Len(blockTable'[r])
       /\ \A i \in 1 .. Len(blockTable[r]) : blockTable'[r][i] = blockTable[r][i]]_vars

\* The owner of a page, as the abstract specification sees it.
ownerOf == [b \in Blocks |-> IF \E r \in Reqs : Holds(r, b)
                             THEN CHOOSE r \in Reqs : Holds(r, b)
                             ELSE NoOwner]

Ownership == INSTANCE PageOwnership WITH Pages <- Blocks, owner <- ownerOf

\* The allocator implements exclusive page ownership: every turn of a prepare
\* loop takes only free pages, every ending frees all pages of one request.
ImplementsOwnership == Ownership!OwnerSpec
=============================================================================
