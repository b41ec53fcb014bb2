-------------------------- MODULE ComponentProofs ---------------------------
(***************************************************************************)
(* Theorems about the components that are proved by themselves.            *)
(*                                                                         *)
(* The block allocator, for every number of pages, page size, set of       *)
(* requests and batch size: typing, the conservation of pages and the      *)
(* implementation of exclusive page ownership.  What the kernels read of   *)
(* the tables: they reach page_ids through a cached property of CUDA       *)
(* graphs (cache_manager.py:494-506), and the theorems about               *)
(* GraphedProperty say that it is never stale.  The answer stream, for     *)
(* answers of any length: the generator never sleeps through the news,     *)
(* sends every piece in the right field and leaves none behind.            *)
(*                                                                         *)
(* The load balancer, for any groups, triggers, thresholds and loads: the  *)
(* ranks, each planning and updating its tables for itself, keep the       *)
(* tables they share equal and meet in every transfer; exchanges never     *)
(* break the routing; and no expert's weights are lost.  Its sums,         *)
(* greatest elements and folds are functions defined by recursion: their   *)
(* properties are proved by the least counterexample.                      *)
(***************************************************************************)
EXTENDS PagedKVCache, GraphedProperty, AsyncStream, ExpertBalance,
        FiniteSetTheorems, SequenceTheorems, WellFoundedInduction, TLAPS

(***************************************************************************)
(* What the operations compute                                             *)
(***************************************************************************)

\* Page counts are natural numbers: CeilDiv rounds up and loses nothing.
LEMMA CeilDivNat == \A n \in Nat : CeilDiv(n, BlockSize) \in Nat
<1> SUFFICES ASSUME NEW n \in Nat PROVE CeilDiv(n, BlockSize) \in Nat
  OBVIOUS
<1> QED
  BY BlockSizeAssumption, SMT DEF CeilDiv

\* The pages a request lacks are a natural number of pages, and with them its
\* table is the length its tokens need unless it was longer already.
LEMMA NumAdditionalNat ==
  ASSUME TypeOK, NEW r \in Reqs
  PROVE  NumAdditionalBlocks(r, seqLen[r]) \in Nat
<1>1. CeilDiv(seqLen[r], BlockSize) \in Nat
  BY CeilDivNat DEF TypeOK
<1>2. Len(blockTable[r]) \in Nat
  BY LenProperties DEF TypeOK
<1> QED
  BY <1>1, <1>2, SMT DEF NumAdditionalBlocks

\* A turn of the prepare loop moves the first n pages of the deque to the end
\* of one table, in order, and touches nothing else.
LEMMA ExtendFacts ==
  ASSUME TypeOK, ExtendBlockTable
  PROVE  \E r \in Reqs, n \in 0 .. Len(freeBlocks) :
           /\ r = Head(todo)
           /\ n = NumAdditionalBlocks(r, seqLen[r])
           /\ blockTable' \in [Reqs -> Seq(Blocks)]
           /\ freeBlocks' \in Seq(Blocks)
           /\ Len(blockTable'[r]) = Len(blockTable[r]) + n
           /\ \A i \in 1 .. Len(blockTable[r]) : blockTable'[r][i] = blockTable[r][i]
           /\ \A i \in 1 .. n : blockTable'[r][Len(blockTable[r]) + i] = freeBlocks[i]
           /\ \A s \in Reqs : s # r => blockTable'[s] = blockTable[s]
           /\ Len(freeBlocks') = Len(freeBlocks) - n
           /\ \A i \in 1 .. Len(freeBlocks') : freeBlocks'[i] = freeBlocks[n + i]
<1> DEFINE r == Head(todo)
           n == NumAdditionalBlocks(r, seqLen[r])
           taken == SubSeq(freeBlocks, 1, n)
           left == SubSeq(freeBlocks, n + 1, Len(freeBlocks))
<1>1. r \in Reqs
  BY HeadTailProperties DEF TypeOK, ExtendBlockTable
<1>2. n \in Nat
  BY <1>1, NumAdditionalNat
<1>3. Len(freeBlocks) \in Nat /\ n <= Len(freeBlocks)
  BY LenProperties DEF TypeOK, ExtendBlockTable
<1>4. n \in 0 .. Len(freeBlocks)
  BY <1>2, <1>3
<1>5. blockTable' = [blockTable EXCEPT ![r] = @ \o taken] /\ freeBlocks' = left
  BY DEF ExtendBlockTable
<1>6. \A i \in 1 .. Len(freeBlocks) : freeBlocks[i] \in Blocks
  BY ElementOfSeq DEF TypeOK
<1> HIDE DEF n
<1>7. /\ taken \in Seq(Blocks)
      /\ Len(taken) = n
      /\ \A i \in 1 .. n : taken[i] = freeBlocks[i]
  <2>1. 1 \in Int /\ n \in Int /\ \A i \in 1 .. n : freeBlocks[i] \in Blocks
    BY <1>4, <1>6, <1>3
  <2>2. /\ taken \in Seq(Blocks)
        /\ Len(taken) = IF 1 <= n THEN n - 1 + 1 ELSE 0
        /\ \A i \in 1 .. n - 1 + 1 : taken[i] = freeBlocks[1 + i - 1]
    BY <2>1, SubSeqProperties
  <2> QED
    BY <2>2, <1>2
<1>8. /\ left \in Seq(Blocks)
      /\ Len(left) = Len(freeBlocks) - n
      /\ \A i \in 1 .. Len(freeBlocks) - n : left[i] = freeBlocks[n + i]
  <2>1. /\ n + 1 \in Int /\ Len(freeBlocks) \in Int
        /\ \A i \in n + 1 .. Len(freeBlocks) : freeBlocks[i] \in Blocks
    BY <1>4, <1>6, <1>3
  <2>2. /\ left \in Seq(Blocks)
        /\ Len(left) = IF n + 1 <= Len(freeBlocks) THEN Len(freeBlocks) - (n + 1) + 1 ELSE 0
        /\ \A i \in 1 .. Len(freeBlocks) - (n + 1) + 1 :
             left[i] = freeBlocks[(n + 1) + i - 1]
    BY <2>1, SubSeqProperties
  <2>3. \A i \in 1 .. Len(freeBlocks) - n :
          i \in 1 .. Len(freeBlocks) - (n + 1) + 1 /\ (n + 1) + i - 1 = n + i
    BY <1>4, <1>3
  <2> HIDE DEF left
  <2>4. Len(left) = Len(freeBlocks) - n
    BY <2>2, <1>4, <1>3
  <2> QED
    BY <2>2, <2>3, <2>4
<1> HIDE DEF r, taken, left
<1>9. blockTable[r] \in Seq(Blocks) /\ Len(blockTable[r]) \in Nat
  BY <1>1, LenProperties DEF TypeOK
<1>10. blockTable'[r] = blockTable[r] \o taken
  BY <1>1, <1>5 DEF TypeOK
<1>11. /\ blockTable'[r] \in Seq(Blocks)
       /\ Len(blockTable'[r]) = Len(blockTable[r]) + n
       /\ \A i \in 1 .. Len(blockTable[r]) + n :
            blockTable'[r][i] = IF i <= Len(blockTable[r]) THEN blockTable[r][i]
                                                           ELSE taken[i - Len(blockTable[r])]
  <2> DEFINE grown == blockTable[r] \o taken
  <2>1. /\ grown \in Seq(Blocks)
        /\ Len(grown) = Len(blockTable[r]) + Len(taken)
        /\ \A i \in 1 .. Len(blockTable[r]) + Len(taken) :
             grown[i] = IF i <= Len(blockTable[r]) THEN blockTable[r][i]
                                                   ELSE taken[i - Len(blockTable[r])]
    BY <1>7, <1>9, ConcatProperties
  <2>2. blockTable'[r] = grown
    BY <1>10
  <2> HIDE DEF grown
  <2> QED
    BY <1>7, <2>1, <2>2
<1>12. \A i \in 1 .. Len(blockTable[r]) : blockTable'[r][i] = blockTable[r][i]
  BY <1>2, <1>9, <1>11
<1>13. \A i \in 1 .. n : blockTable'[r][Len(blockTable[r]) + i] = freeBlocks[i]
  <2> TAKE i \in 1 .. n
  <2>1. /\ Len(blockTable[r]) + i \in 1 .. Len(blockTable[r]) + n
        /\ ~(Len(blockTable[r]) + i <= Len(blockTable[r]))
        /\ (Len(blockTable[r]) + i) - Len(blockTable[r]) = i
    BY <1>2, <1>9
  <2> QED
    BY <2>1, <1>11, <1>7
<1>14. \A s \in Reqs : s # r => blockTable'[s] = blockTable[s]
  BY <1>5 DEF TypeOK
<1>15. blockTable' \in [Reqs -> Seq(Blocks)]
  BY <1>1, <1>5, <1>10, <1>11 DEF TypeOK
<1> QED
  BY <1>1, <1>4, <1>5, <1>8, <1>11, <1>12, <1>13, <1>14, <1>15 DEF r, n

\* Ending a request appends its whole table to the deque and empties the table.
LEMMA FinalizeFacts ==
  ASSUME TypeOK, NEW r \in Reqs, FinalizeCacheAllDecode(r)
  PROVE  /\ blockTable' \in [Reqs -> Seq(Blocks)]
         /\ freeBlocks' \in Seq(Blocks)
         /\ Len(blockTable'[r]) = 0
         /\ \A s \in Reqs : s # r => blockTable'[s] = blockTable[s]
         /\ Len(freeBlocks') = Len(freeBlocks) + Len(blockTable[r])
         /\ \A i \in 1 .. Len(freeBlocks) : freeBlocks'[i] = freeBlocks[i]
         /\ \A i \in 1 .. Len(blockTable[r]) :
              freeBlocks'[Len(freeBlocks) + i] = blockTable[r][i]
         /\ \A i \in Len(freeBlocks) + 1 .. Len(freeBlocks') :
              freeBlocks'[i] = blockTable[r][i - Len(freeBlocks)]
<1> DEFINE longer == freeBlocks \o blockTable[r]
<1>1. freeBlocks \in Seq(Blocks) /\ blockTable[r] \in Seq(Blocks)
  BY DEF TypeOK
<1>2. Len(freeBlocks) \in Nat /\ Len(blockTable[r]) \in Nat
  BY <1>1, LenProperties
<1>3. /\ longer \in Seq(Blocks)
      /\ Len(longer) = Len(freeBlocks) + Len(blockTable[r])
      /\ \A i \in 1 .. Len(freeBlocks) + Len(blockTable[r]) :
           longer[i] = IF i <= Len(freeBlocks) THEN freeBlocks[i]
                                               ELSE blockTable[r][i - Len(freeBlocks)]
  BY <1>1, ConcatProperties
<1>4. freeBlocks' = longer /\ blockTable' = [blockTable EXCEPT ![r] = <<>>]
  BY DEF FinalizeCacheAllDecode
<1> HIDE DEF longer
<1>5. /\ blockTable' \in [Reqs -> Seq(Blocks)]
      /\ blockTable'[r] = <<>>
      /\ \A s \in Reqs : s # r => blockTable'[s] = blockTable[s]
  BY <1>4, EmptySeq DEF TypeOK
<1>6. Len(blockTable'[r]) = 0
  BY <1>5, EmptySeq
<1>7. \A i \in 1 .. Len(freeBlocks) : longer[i] = freeBlocks[i]
  BY <1>2, <1>3
<1>8. \A i \in Len(freeBlocks) + 1 .. Len(freeBlocks) + Len(blockTable[r]) :
        longer[i] = blockTable[r][i - Len(freeBlocks)]
  BY <1>2, <1>3
<1>9. \A i \in 1 .. Len(blockTable[r]) : longer[Len(freeBlocks) + i] = blockTable[r][i]
  <2> TAKE i \in 1 .. Len(blockTable[r])
  <2>1. /\ Len(freeBlocks) + i \in Len(freeBlocks) + 1 .. Len(freeBlocks) + Len(blockTable[r])
        /\ (Len(freeBlocks) + i) - Len(freeBlocks) = i
    BY <1>2
  <2> QED
    BY <2>1, <1>8
<1> QED
  BY <1>3, <1>4, <1>5, <1>6, <1>7, <1>8, <1>9

(***************************************************************************)
(* Typing                                                                  *)
(***************************************************************************)

LEMMA InitType == ASSUME Init PROVE TypeOK
<1>1. freeBlocks \in [1 .. NumBlocks -> Blocks]
  BY NumBlocksAssumption DEF Init, Blocks
<1>2. freeBlocks \in Seq(Blocks)
  BY <1>1, NumBlocksAssumption, SeqDef
<1>3. \A r \in Reqs : ~InBatch(decoding, r)
  <2>1. decoding = <<>>
    BY DEF Init
  <2> QED
    BY <2>1 DEF InBatch
<1> QED
  BY <1>2, <1>3, EmptySeq DEF Init, TypeOK

LEMMA NextType == ASSUME TypeOK, [Next]_vars PROVE TypeOK'
<1>1. ASSUME NEW b \in Batches, NEW delta \in [Reqs -> 1 .. MaxSeqLen],
             PrepareCachePrefill(b, delta)
      PROVE  TypeOK'
  <2>1. b \in Seq(Reqs)
    BY MaxBatchAssumption, SeqDef DEF Batches
  <2>2. seqLen' \in [Reqs -> Nat]
    BY <1>1, MaxSeqLenAssumption DEF PrepareCachePrefill, TypeOK
  <2>3. \A r \in Reqs : ~InBatch(decoding, r)
    BY <1>1 DEF PrepareCachePrefill, Idle, InBatch
  <2> QED
    BY <1>1, <2>1, <2>2, <2>3 DEF PrepareCachePrefill, TypeOK, InBatch
<1>2. ASSUME NEW b \in Batches, PrepareCacheDecode(b)
      PROVE  TypeOK'
  <2>1. b \in Seq(Reqs)
    BY MaxBatchAssumption, SeqDef DEF Batches
  <2>2. seqLen' \in [Reqs -> Nat]
    BY <1>2, MtpSizeAssumption DEF PrepareCacheDecode, TypeOK
  <2>3. \A r \in Reqs : InBatch(b, r) => seqLen'[r] > MtpSize
    BY <1>2, MtpSizeAssumption DEF PrepareCacheDecode, TypeOK
  <2> QED
    BY <1>2, <2>1, <2>2, <2>3 DEF PrepareCacheDecode, TypeOK, InBatch
<1>3. CASE ExtendBlockTable
  <2>1. blockTable' \in [Reqs -> Seq(Blocks)] /\ freeBlocks' \in Seq(Blocks)
    BY <1>3, ExtendFacts
  <2>2. todo' \in Seq(Reqs)
    BY <1>3, HeadTailProperties DEF ExtendBlockTable, TypeOK
  <2> QED
    BY <1>3, <2>1, <2>2 DEF ExtendBlockTable, TypeOK, InBatch
<1>4. CASE OutOfBlocks
  BY <1>4, EmptySeq DEF OutOfBlocks, TypeOK, InBatch
<1>5. ASSUME NEW accepted \in [Reqs -> 1 .. MtpSize], UpdateMtpCacheDecode(accepted)
      PROVE  TypeOK'
  <2>1. seqLen' \in [Reqs -> Nat]
    <3>1. \A r \in Reqs : /\ seqLen[r] \in Nat /\ accepted[r] \in 1 .. MtpSize
                          /\ InBatch(decoding, r) => seqLen[r] > MtpSize
      BY DEF TypeOK
    <3> QED
      BY <1>5, <3>1, MtpSizeAssumption DEF UpdateMtpCacheDecode
  <2>2. decoding' \in Seq(Reqs) /\ \A r \in Reqs : ~InBatch(decoding', r)
    BY <1>5, EmptySeq DEF UpdateMtpCacheDecode, InBatch
  <2> QED
    BY <1>5, <2>1, <2>2 DEF UpdateMtpCacheDecode, TypeOK, InBatch
<1>6. ASSUME NEW r \in Reqs, FinalizeCacheAllDecode(r)
      PROVE  TypeOK'
  <2>1. seqLen' \in [Reqs -> Nat]
    BY <1>6 DEF FinalizeCacheAllDecode, TypeOK
  <2>2. \A s \in Reqs : ~InBatch(decoding', s)
    BY <1>6 DEF FinalizeCacheAllDecode, Idle, InBatch
  <2> QED
    BY <1>6, <2>1, <2>2, FinalizeFacts DEF FinalizeCacheAllDecode, TypeOK, InBatch
<1>7. CASE UNCHANGED vars
  BY <1>7 DEF vars, TypeOK, InBatch
<1> QED
  BY <1>1, <1>2, <1>3, <1>4, <1>5, <1>6, <1>7 DEF Next

\* Every page id in the deque and in the tables is an id of the paged_kv_cache
\* tensors, for every number of pages and every sequence of calls.
THEOREM Typing == Spec => []TypeOK
<1>1. Init => TypeOK
  BY InitType
<1>2. TypeOK /\ [Next]_vars => TypeOK'
  BY NextType
<1> QED
  BY <1>1, <1>2, PTL DEF Spec

(***************************************************************************)
(* Conservation of pages                                                   *)
(***************************************************************************)

LEMMA InitConservation == ASSUME Init PROVE PageConservation
<1>1. Len(freeBlocks) = NumBlocks /\ \A i \in 1 .. NumBlocks : freeBlocks[i] = i - 1
  <2>1. freeBlocks \in Seq(Blocks) /\ DOMAIN freeBlocks = 1 .. NumBlocks
    BY InitType DEF Init, TypeOK
  <2>2. 1 .. Len(freeBlocks) = 1 .. NumBlocks /\ Len(freeBlocks) \in Nat
    BY <2>1, LenProperties
  <2> QED
    BY <2>2, NumBlocksAssumption DEF Init
<1>2. \A r \in Reqs : Len(blockTable[r]) = 0
  BY EmptySeq DEF Init
<1>3. FreeDistinct
  BY <1>1, NumBlocksAssumption DEF FreeDistinct
<1>4. TablesDistinct /\ FreeNotHeld
  BY <1>2 DEF TablesDistinct, FreeNotHeld
<1>5. NoneLost
  <2> SUFFICES ASSUME NEW b \in Blocks
               PROVE  \E i \in 1 .. Len(freeBlocks) : freeBlocks[i] = b
    BY DEF NoneLost
  <2>1. b + 1 \in 1 .. NumBlocks /\ (b + 1) - 1 = b
    BY NumBlocksAssumption DEF Blocks
  <2> QED
    BY <1>1, <2>1
<1> QED
  BY <1>3, <1>4, <1>5 DEF PageConservation

\* The deque and the tables stand still while a handler starts.
LEMMA UnchangedConservation ==
  ASSUME PageConservation, UNCHANGED <<freeBlocks, blockTable, raised>>
  PROVE  PageConservation'
BY DEF PageConservation, FreeDistinct, TablesDistinct, FreeNotHeld, NoneLost, Holds

LEMMA ExtendConservation ==
  ASSUME TypeOK, PageConservation, ExtendBlockTable
  PROVE  PageConservation'
<1>1. PICK r \in Reqs, n \in 0 .. Len(freeBlocks) :
        /\ blockTable' \in [Reqs -> Seq(Blocks)]
        /\ freeBlocks' \in Seq(Blocks)
        /\ Len(blockTable'[r]) = Len(blockTable[r]) + n
        /\ \A i \in 1 .. Len(blockTable[r]) : blockTable'[r][i] = blockTable[r][i]
        /\ \A i \in 1 .. n : blockTable'[r][Len(blockTable[r]) + i] = freeBlocks[i]
        /\ \A s \in Reqs : s # r => blockTable'[s] = blockTable[s]
        /\ Len(freeBlocks') = Len(freeBlocks) - n
        /\ \A i \in 1 .. Len(freeBlocks') : freeBlocks'[i] = freeBlocks[n + i]
  BY ExtendFacts
<1>2. /\ Len(freeBlocks) \in Nat
      /\ \A s \in Reqs : Len(blockTable[s]) \in Nat /\ Len(blockTable'[s]) \in Nat
  BY <1>1, LenProperties DEF TypeOK
<1>3. ASSUME NEW i \in 1 .. Len(freeBlocks')
      PROVE  n + i \in 1 .. Len(freeBlocks) /\ freeBlocks'[i] = freeBlocks[n + i]
  BY <1>1, <1>2
\* An entry of a new table is an entry of the old one or one of the first n of
\* the deque.
<1>4. ASSUME NEW s \in Reqs, NEW i \in 1 .. Len(blockTable'[s])
      PROVE  \/ i \in 1 .. Len(blockTable[s]) /\ blockTable'[s][i] = blockTable[s][i]
             \/ /\ s = r
                /\ i - Len(blockTable[r]) \in 1 .. n
                /\ blockTable'[s][i] = freeBlocks[i - Len(blockTable[r])]
  <2>1. CASE s # r
    BY <1>1, <2>1
  <2>2. CASE s = r /\ i <= Len(blockTable[r])
    BY <1>1, <1>2, <2>2
  <2>3. CASE s = r /\ ~(i <= Len(blockTable[r]))
    <3>1. i - Len(blockTable[r]) \in 1 .. n /\ Len(blockTable[r]) + (i - Len(blockTable[r])) = i
      BY <1>1, <1>2, <2>3
    <3> QED
      BY <1>1, <2>3, <3>1
  <2> QED
    BY <2>1, <2>2, <2>3
<1>5. FreeDistinct'
  <2> SUFFICES ASSUME NEW i \in 1 .. Len(freeBlocks'), NEW j \in 1 .. Len(freeBlocks'),
                      freeBlocks'[i] = freeBlocks'[j]
               PROVE  i = j
    BY DEF FreeDistinct
  <2>1. n + i = n + j
    BY <1>3 DEF PageConservation, FreeDistinct
  <2> QED
    BY <2>1, <1>2
<1>6. TablesDistinct'
  <2> SUFFICES ASSUME NEW s \in Reqs, NEW t \in Reqs,
                      NEW i \in 1 .. Len(blockTable'[s]), NEW j \in 1 .. Len(blockTable'[t]),
                      blockTable'[s][i] = blockTable'[t][j]
               PROVE  s = t /\ i = j
    BY DEF TablesDistinct
  <2>1. CASE /\ i \in 1 .. Len(blockTable[s]) /\ blockTable'[s][i] = blockTable[s][i]
             /\ j \in 1 .. Len(blockTable[t]) /\ blockTable'[t][j] = blockTable[t][j]
    <3>1. blockTable[s][i] = blockTable[t][j]
      BY <2>1
    <3>2. \A k \in 1 .. Len(blockTable[s]), l \in 1 .. Len(blockTable[t]) :
            blockTable[s][k] = blockTable[t][l] => s = t /\ k = l
      BY DEF PageConservation, TablesDistinct
    <3> QED
      BY <2>1, <3>1, <3>2
  <2>2. CASE /\ i \in 1 .. Len(blockTable[s]) /\ blockTable'[s][i] = blockTable[s][i]
             /\ j - Len(blockTable[r]) \in 1 .. n
             /\ blockTable'[t][j] = freeBlocks[j - Len(blockTable[r])]
    <3>1. j - Len(blockTable[r]) \in 1 .. Len(freeBlocks)
      BY <2>2, <1>2
    <3> QED
      BY <2>2, <3>1 DEF PageConservation, FreeNotHeld
  <2>3. CASE /\ j \in 1 .. Len(blockTable[t]) /\ blockTable'[t][j] = blockTable[t][j]
             /\ i - Len(blockTable[r]) \in 1 .. n
             /\ blockTable'[s][i] = freeBlocks[i - Len(blockTable[r])]
    <3>1. i - Len(blockTable[r]) \in 1 .. Len(freeBlocks)
      BY <2>3, <1>2
    <3> QED
      BY <2>3, <3>1 DEF PageConservation, FreeNotHeld
  <2>4. CASE /\ s = r /\ i - Len(blockTable[r]) \in 1 .. n
             /\ blockTable'[s][i] = freeBlocks[i - Len(blockTable[r])]
             /\ t = r /\ j - Len(blockTable[r]) \in 1 .. n
             /\ blockTable'[t][j] = freeBlocks[j - Len(blockTable[r])]
    <3>1. /\ i - Len(blockTable[r]) \in 1 .. Len(freeBlocks)
          /\ j - Len(blockTable[r]) \in 1 .. Len(freeBlocks)
      BY <2>4, <1>2
    <3>2. i - Len(blockTable[r]) = j - Len(blockTable[r])
      BY <2>4, <3>1 DEF PageConservation, FreeDistinct
    <3> QED
      BY <2>4, <3>2, <1>2
  <2> QED
    BY <1>4, <2>1, <2>2, <2>3, <2>4
<1>7. FreeNotHeld'
  <2> SUFFICES ASSUME NEW s \in Reqs, NEW i \in 1 .. Len(blockTable'[s]),
                      NEW j \in 1 .. Len(freeBlocks'),
                      blockTable'[s][i] = freeBlocks'[j]
               PROVE  FALSE
    BY DEF FreeNotHeld
  <2>1. n + j \in 1 .. Len(freeBlocks) /\ freeBlocks'[j] = freeBlocks[n + j]
    BY <1>3
  <2>2. CASE i \in 1 .. Len(blockTable[s]) /\ blockTable'[s][i] = blockTable[s][i]
    BY <2>1, <2>2 DEF PageConservation, FreeNotHeld
  <2>3. CASE /\ i - Len(blockTable[r]) \in 1 .. n
             /\ blockTable'[s][i] = freeBlocks[i - Len(blockTable[r])]
    <3>1. i - Len(blockTable[r]) \in 1 .. Len(freeBlocks)
      BY <2>3, <1>2
    <3>2. i - Len(blockTable[r]) = n + j
      BY <2>1, <2>3, <3>1 DEF PageConservation, FreeDistinct
    <3> QED
      BY <2>3, <3>2
  <2> QED
    BY <1>4, <2>2, <2>3
<1>8. NoneLost'
  <2> SUFFICES ASSUME NEW b \in Blocks
               PROVE  \/ \E i \in 1 .. Len(freeBlocks') : freeBlocks'[i] = b
                      \/ \E s \in Reqs : \E i \in 1 .. Len(blockTable'[s]) : blockTable'[s][i] = b
    BY DEF NoneLost, Holds
  <2>1. CASE \E i \in 1 .. Len(freeBlocks) : freeBlocks[i] = b
    <3>1. PICK i \in 1 .. Len(freeBlocks) : freeBlocks[i] = b
      BY <2>1
    <3>2. CASE i <= n
      <4>1. i \in 1 .. n /\ Len(blockTable[r]) + i \in 1 .. Len(blockTable'[r])
        BY <3>2, <1>1, <1>2
      <4> QED
        BY <3>1, <4>1, <1>1
    <3>3. CASE ~(i <= n)
      <4>1. i - n \in 1 .. Len(freeBlocks') /\ n + (i - n) = i
        BY <3>3, <1>1, <1>2
      <4> QED
        BY <3>1, <4>1, <1>1
    <3> QED
      BY <3>2, <3>3
  <2>2. CASE \E s \in Reqs : Holds(s, b)
    <3>1. PICK s \in Reqs : \E i \in 1 .. Len(blockTable[s]) : blockTable[s][i] = b
      BY <2>2 DEF Holds
    <3>2. PICK i \in 1 .. Len(blockTable[s]) : blockTable[s][i] = b
      BY <3>1
    <3>3. i \in 1 .. Len(blockTable'[s]) /\ blockTable'[s][i] = b
      BY <3>2, <1>1, <1>2
    <3> QED
      BY <3>3
  <2>3. ~raised
    BY DEF ExtendBlockTable
  <2> QED
    BY <2>1, <2>2, <2>3 DEF PageConservation, NoneLost
<1> QED
  BY <1>5, <1>6, <1>7, <1>8 DEF PageConservation

LEMMA FinalizeConservation ==
  ASSUME TypeOK, PageConservation, NEW r \in Reqs, FinalizeCacheAllDecode(r)
  PROVE  PageConservation'
<1> DEFINE m == Len(freeBlocks)
<1>1. /\ Len(blockTable'[r]) = 0
      /\ \A s \in Reqs : s # r => blockTable'[s] = blockTable[s]
      /\ Len(freeBlocks') = m + Len(blockTable[r])
      /\ \A i \in 1 .. m : freeBlocks'[i] = freeBlocks[i]
      /\ \A i \in 1 .. Len(blockTable[r]) : freeBlocks'[m + i] = blockTable[r][i]
      /\ \A i \in m + 1 .. Len(freeBlocks') : freeBlocks'[i] = blockTable[r][i - m]
  BY FinalizeFacts
<1>2. m \in Nat /\ \A s \in Reqs : Len(blockTable[s]) \in Nat
  BY LenProperties DEF TypeOK
<1> HIDE DEF m
<1>3. ASSUME NEW i \in 1 .. Len(freeBlocks')
      PROVE  \/ i \in 1 .. m /\ freeBlocks'[i] = freeBlocks[i]
             \/ /\ i - m \in 1 .. Len(blockTable[r])
                /\ freeBlocks'[i] = blockTable[r][i - m]
  <2>1. CASE i <= m
    BY <1>1, <1>2, <2>1
  <2>2. CASE ~(i <= m)
    <3>1. i \in m + 1 .. Len(freeBlocks') /\ i - m \in 1 .. Len(blockTable[r])
      BY <1>1, <1>2, <2>2
    <3> QED
      BY <1>1, <3>1
  <2> QED
    BY <2>1, <2>2
\* A page still in a table is in the table of another request.
<1>4. ASSUME NEW s \in Reqs, NEW i \in 1 .. Len(blockTable'[s])
      PROVE  s # r /\ blockTable'[s] = blockTable[s] /\ i \in 1 .. Len(blockTable[s])
  BY <1>1
<1>5. FreeDistinct'
  <2> SUFFICES ASSUME NEW i \in 1 .. Len(freeBlocks'), NEW j \in 1 .. Len(freeBlocks'),
                      freeBlocks'[i] = freeBlocks'[j]
               PROVE  i = j
    BY DEF FreeDistinct
  <2>1. CASE i \in 1 .. m /\ freeBlocks'[i] = freeBlocks[i]
    <3>1. CASE j \in 1 .. m /\ freeBlocks'[j] = freeBlocks[j]
      BY <2>1, <3>1 DEF PageConservation, FreeDistinct, m
    <3>2. CASE j - m \in 1 .. Len(blockTable[r]) /\ freeBlocks'[j] = blockTable[r][j - m]
      BY <2>1, <3>2 DEF PageConservation, FreeNotHeld, m
    <3> QED
      BY <1>3, <3>1, <3>2
  <2>2. CASE i - m \in 1 .. Len(blockTable[r]) /\ freeBlocks'[i] = blockTable[r][i - m]
    <3>1. CASE j \in 1 .. m /\ freeBlocks'[j] = freeBlocks[j]
      BY <2>2, <3>1 DEF PageConservation, FreeNotHeld, m
    <3>2. CASE j - m \in 1 .. Len(blockTable[r]) /\ freeBlocks'[j] = blockTable[r][j - m]
      <4>1. i - m = j - m
        <5>1. blockTable[r][i - m] = blockTable[r][j - m]
          BY <2>2, <3>2
        <5> QED
          BY <2>2, <3>2, <5>1, Zenon DEF PageConservation, TablesDistinct
      <4> QED
        BY <4>1, <1>2
    <3> QED
      BY <1>3, <3>1, <3>2
  <2> QED
    BY <1>3, <2>1, <2>2
<1>6. TablesDistinct'
  BY <1>4 DEF PageConservation, TablesDistinct
<1>7. FreeNotHeld'
  <2> SUFFICES ASSUME NEW s \in Reqs, NEW i \in 1 .. Len(blockTable'[s]),
                      NEW j \in 1 .. Len(freeBlocks'),
                      blockTable'[s][i] = freeBlocks'[j]
               PROVE  FALSE
    BY DEF FreeNotHeld
  <2>1. s # r /\ blockTable'[s] = blockTable[s] /\ i \in 1 .. Len(blockTable[s])
    BY <1>4
  <2>2. CASE j \in 1 .. m /\ freeBlocks'[j] = freeBlocks[j]
    BY <2>1, <2>2 DEF PageConservation, FreeNotHeld, m
  <2>3. CASE j - m \in 1 .. Len(blockTable[r]) /\ freeBlocks'[j] = blockTable[r][j - m]
    BY <2>1, <2>3 DEF PageConservation, TablesDistinct
  <2> QED
    BY <1>3, <2>2, <2>3
<1>8. NoneLost'
  <2> SUFFICES ASSUME NEW b \in Blocks
               PROVE  \/ \E i \in 1 .. Len(freeBlocks') : freeBlocks'[i] = b
                      \/ \E s \in Reqs : \E i \in 1 .. Len(blockTable'[s]) : blockTable'[s][i] = b
    BY DEF NoneLost, Holds
  <2>1. CASE \E i \in 1 .. m : freeBlocks[i] = b
    <3>1. PICK i \in 1 .. m : freeBlocks[i] = b
      BY <2>1
    <3>2. i \in 1 .. Len(freeBlocks') /\ freeBlocks'[i] = b
      BY <1>1, <1>2, <3>1
    <3> QED
      BY <3>2
  <2>2. CASE \E s \in Reqs : Holds(s, b)
    <3>1. PICK s \in Reqs : \E i \in 1 .. Len(blockTable[s]) : blockTable[s][i] = b
      BY <2>2 DEF Holds
    <3>2. PICK i \in 1 .. Len(blockTable[s]) : blockTable[s][i] = b
      BY <3>1
    <3>3. CASE s = r
      <4>1. m + i \in 1 .. Len(freeBlocks') /\ freeBlocks'[m + i] = b
        BY <1>1, <1>2, <3>2, <3>3
      <4> QED
        BY <4>1
    <3>4. CASE s # r
      BY <1>1, <3>2, <3>4
    <3> QED
      BY <3>3, <3>4
  <2>3. ~raised
    BY DEF FinalizeCacheAllDecode, Idle
  <2> QED
    BY <2>1, <2>2, <2>3 DEF PageConservation, NoneLost, m
<1> QED
  BY <1>5, <1>6, <1>7, <1>8 DEF PageConservation

LEMMA OutOfBlocksConservation ==
  ASSUME PageConservation, OutOfBlocks
  PROVE  PageConservation'
<1>1. Len(freeBlocks') = 0 /\ raised' /\ blockTable' = blockTable
  BY EmptySeq DEF OutOfBlocks
<1> QED
  BY <1>1 DEF PageConservation, FreeDistinct, TablesDistinct, FreeNotHeld, NoneLost

LEMMA NextConservation ==
  ASSUME TypeOK, PageConservation, [Next]_vars
  PROVE  PageConservation'
<1>1. ASSUME NEW b \in Batches, NEW delta \in [Reqs -> 1 .. MaxSeqLen],
             PrepareCachePrefill(b, delta)
      PROVE  PageConservation'
  BY <1>1, UnchangedConservation DEF PrepareCachePrefill
<1>2. ASSUME NEW b \in Batches, PrepareCacheDecode(b)
      PROVE  PageConservation'
  BY <1>2, UnchangedConservation DEF PrepareCacheDecode
<1>3. CASE ExtendBlockTable
  BY <1>3, ExtendConservation
<1>4. CASE OutOfBlocks
  BY <1>4, OutOfBlocksConservation
<1>5. ASSUME NEW accepted \in [Reqs -> 1 .. MtpSize], UpdateMtpCacheDecode(accepted)
      PROVE  PageConservation'
  BY <1>5, UnchangedConservation DEF UpdateMtpCacheDecode
<1>6. ASSUME NEW r \in Reqs, FinalizeCacheAllDecode(r)
      PROVE  PageConservation'
  BY <1>6, FinalizeConservation
<1>7. CASE UNCHANGED vars
  BY <1>7, UnchangedConservation DEF vars
<1> QED
  BY <1>1, <1>2, <1>3, <1>4, <1>5, <1>6, <1>7 DEF Next

\* No page is lost, handed out twice or freed twice, whatever the number of
\* pages, requests and steps, until an allocation raises.
THEOREM Conservation == Spec => []PageConservation
<1>1. Init => TypeOK /\ PageConservation
  BY InitType, InitConservation
<1>2. TypeOK /\ PageConservation /\ [Next]_vars => TypeOK' /\ PageConservation'
  BY NextType, NextConservation
<1> QED
  BY <1>1, <1>2, PTL DEF Spec

(***************************************************************************)
(* A request holds the pages of its tokens                                 *)
(***************************************************************************)

\* More tokens never need fewer pages.
LEMMA CeilDivMonotone ==
  \A m, n \in Nat : m <= n => CeilDiv(m, BlockSize) <= CeilDiv(n, BlockSize)
<1> SUFFICES ASSUME NEW m \in Nat, NEW n \in Nat, m <= n
             PROVE  (m + BlockSize - 1) \div BlockSize <= (n + BlockSize - 1) \div BlockSize
  BY DEF CeilDiv
<1>1. \A u, v \in Nat : u <= v => u \div BlockSize <= v \div BlockSize
  BY BlockSizeAssumption, SMTT(30)
<1> QED
  BY <1>1, BlockSizeAssumption

\* A request with no token needs no page.
LEMMA CeilDivZero == CeilDiv(0, BlockSize) = 0
<1>1. \A u \in Nat : u < BlockSize => u \div BlockSize = 0
  BY BlockSizeAssumption, SMTT(30)
<1>2. BlockSize - 1 \in Nat /\ BlockSize - 1 < BlockSize /\ 0 + BlockSize - 1 = BlockSize - 1
  BY BlockSizeAssumption
<1> QED
  BY <1>1, <1>2 DEF CeilDiv

\* The strengthening.  A loop that is still running never leaves a table too
\* long: at most the pages of the tokens and the drafts rejected last time, and
\* while a decode step runs its drafts are among the tokens.
Reach(r) == IF InBatch(decoding, r) THEN seqLen[r] ELSE seqLen[r] + MtpSize - 1

NotTooMany ==
  \A r \in Reqs : /\ Len(blockTable[r]) <= CeilDiv(Reach(r), BlockSize)
                  /\ seqLen[r] = 0 => Len(blockTable[r]) = 0

Enough ==
  ~raised => \A r \in Reqs : ~InBatch(todo, r) =>
               CeilDiv(seqLen[r], BlockSize) <= Len(blockTable[r])

TightInv == Enough /\ NotTooMany

LEMMA ReachNat == ASSUME TypeOK, NEW r \in Reqs
                  PROVE  Reach(r) \in Nat /\ seqLen[r] <= Reach(r)
BY MtpSizeAssumption DEF TypeOK, Reach

\* Every page count compared below is a natural number.
LEMMA CountsNat ==
  ASSUME TypeOK, NEW r \in Reqs
  PROVE  /\ CeilDiv(seqLen[r], BlockSize) \in Nat
         /\ CeilDiv(Reach(r), BlockSize) \in Nat
         /\ Len(blockTable[r]) \in Nat
BY ReachNat, CeilDivNat, LenProperties DEF TypeOK

LEMMA InitTight == ASSUME Init PROVE TightInv
<1>1. TypeOK
  BY InitType
<1>2. \A r \in Reqs : Len(blockTable[r]) = 0 /\ seqLen[r] = 0
  BY EmptySeq DEF Init
<1>3. \A r \in Reqs : CeilDiv(Reach(r), BlockSize) \in Nat
  BY <1>1, CountsNat
<1> QED
  BY <1>2, <1>3, CeilDivZero DEF TightInv, Enough, NotTooMany

\* The upper bound survives a step that keeps the tables and lowers no Reach.
LEMMA UpperBoundKept ==
  ASSUME TypeOK, TypeOK', NotTooMany, UNCHANGED blockTable,
         \A r \in Reqs : Reach(r) <= Reach(r)',
         \A r \in Reqs : seqLen'[r] = 0 => seqLen[r] = 0
  PROVE  NotTooMany'
<1> SUFFICES ASSUME NEW r \in Reqs
             PROVE  Len(blockTable[r]) <= CeilDiv(Reach(r)', BlockSize)
  BY DEF NotTooMany
<1>1. Reach(r) \in Nat
  BY ReachNat
<1>2. Reach(r)' \in Nat
  BY MtpSizeAssumption DEF TypeOK, Reach
<1>3. CeilDiv(Reach(r), BlockSize) <= CeilDiv(Reach(r)', BlockSize)
  BY <1>1, <1>2, CeilDivMonotone
<1>4. /\ CeilDiv(Reach(r), BlockSize) \in Nat /\ CeilDiv(Reach(r)', BlockSize) \in Nat
      /\ Len(blockTable[r]) \in Nat
  BY <1>1, <1>2, CeilDivNat, CountsNat
<1> QED
  BY <1>3, <1>4 DEF NotTooMany

\* Nobody is waiting for pages before a prepare handler, and everybody whose
\* length it raises afterwards.
LEMMA PrepareEnough ==
  ASSUME Enough, Idle, UNCHANGED <<blockTable, raised>>,
         \A r \in Reqs : ~InBatch(todo', r) => seqLen'[r] = seqLen[r]
  PROVE  Enough'
<1>1. \A r \in Reqs : ~InBatch(todo, r)
  BY DEF Idle, InBatch
<1> QED
  BY <1>1 DEF Enough, Idle

LEMMA PrefillTight ==
  ASSUME TypeOK, TypeOK', TightInv, NEW b \in Batches, NEW delta \in [Reqs -> 1 .. MaxSeqLen],
         PrepareCachePrefill(b, delta)
  PROVE  TightInv'
<1>1. \A r \in Reqs : seqLen[r] \in Nat /\ delta[r] \in Nat /\ delta[r] >= 1
  BY MaxSeqLenAssumption DEF TypeOK
<1>2. \A r \in Reqs : seqLen[r] <= seqLen'[r] /\ (seqLen'[r] = 0 => seqLen[r] = 0)
  BY <1>1 DEF PrepareCachePrefill
<1>3. decoding' = decoding /\ \A r \in Reqs : ~InBatch(decoding, r)
  BY DEF PrepareCachePrefill, Idle, InBatch
<1>4. \A r \in Reqs : seqLen'[r] \in Nat
  BY DEF TypeOK
<1>5. \A r \in Reqs : Reach(r) <= Reach(r)'
  BY <1>1, <1>2, <1>3, <1>4, MtpSizeAssumption DEF Reach
<1>6. NotTooMany'
  BY <1>2, <1>5, UpperBoundKept DEF PrepareCachePrefill, TightInv
<1>7. \A r \in Reqs : ~InBatch(todo', r) => seqLen'[r] = seqLen[r]
  BY DEF PrepareCachePrefill
<1>8. Enough'
  BY <1>7, PrepareEnough DEF PrepareCachePrefill, TightInv
<1> QED
  BY <1>6, <1>8 DEF TightInv

LEMMA DecodeTight ==
  ASSUME TypeOK, TypeOK', TightInv, NEW b \in Batches, PrepareCacheDecode(b)
  PROVE  TightInv'
<1>1. \A r \in Reqs : seqLen[r] \in Nat /\ seqLen'[r] \in Nat
  BY DEF TypeOK
<1>2. \A r \in Reqs : ~InBatch(decoding, r)
  BY DEF PrepareCacheDecode, Idle, InBatch
<1>3. \A r \in Reqs : Reach(r) <= Reach(r)' /\ (seqLen'[r] = 0 => seqLen[r] = 0)
  <2> TAKE r \in Reqs
  <2>1. CASE InBatch(b, r)
    BY <1>1, <1>2, <2>1, MtpSizeAssumption DEF PrepareCacheDecode, Reach
  <2>2. CASE ~InBatch(b, r)
    BY <1>1, <1>2, <2>2, MtpSizeAssumption DEF PrepareCacheDecode, Reach
  <2> QED
    BY <2>1, <2>2
<1>4. NotTooMany'
  BY <1>3, UpperBoundKept DEF PrepareCacheDecode, TightInv
<1>5. \A r \in Reqs : ~InBatch(todo', r) => seqLen'[r] = seqLen[r]
  BY DEF PrepareCacheDecode
<1>6. Enough'
  BY <1>5, PrepareEnough DEF PrepareCacheDecode, TightInv
<1> QED
  BY <1>4, <1>6 DEF TightInv

\* Accepting drafts lowers the count by less than MtpSize and takes no page.
LEMMA UpdateMtpTight ==
  ASSUME TypeOK, TypeOK', TightInv, NEW accepted \in [Reqs -> 1 .. MtpSize],
         UpdateMtpCacheDecode(accepted)
  PROVE  TightInv'
<1>1. \A r \in Reqs : /\ seqLen[r] \in Nat /\ seqLen'[r] \in Nat
                      /\ accepted[r] \in 1 .. MtpSize
                      /\ InBatch(decoding, r) => seqLen[r] > MtpSize
  BY DEF TypeOK
<1>2. \A r \in Reqs : ~InBatch(decoding', r)
  BY DEF UpdateMtpCacheDecode, InBatch
<1>3. \A r \in Reqs : /\ Reach(r) <= Reach(r)' /\ seqLen'[r] <= seqLen[r]
                      /\ seqLen'[r] = 0 => seqLen[r] = 0
  <2> TAKE r \in Reqs
  <2>1. CASE InBatch(decoding, r)
    BY <1>1, <1>2, <2>1, MtpSizeAssumption DEF UpdateMtpCacheDecode, Reach
  <2>2. CASE ~InBatch(decoding, r)
    BY <1>1, <1>2, <2>2, MtpSizeAssumption DEF UpdateMtpCacheDecode, Reach
  <2> QED
    BY <2>1, <2>2
<1>4. NotTooMany'
  BY <1>3, UpperBoundKept DEF UpdateMtpCacheDecode, TightInv
<1>5. Enough'
  <2> SUFFICES ASSUME NEW r \in Reqs, ~raised, ~InBatch(todo, r)
               PROVE  CeilDiv(seqLen'[r], BlockSize) <= Len(blockTable[r])
    BY DEF Enough, UpdateMtpCacheDecode
  <2>1. CeilDiv(seqLen'[r], BlockSize) <= CeilDiv(seqLen[r], BlockSize)
    BY <1>1, <1>3, CeilDivMonotone
  <2>2. CeilDiv(seqLen'[r], BlockSize) \in Nat
    BY <1>1, CeilDivNat
  <2> QED
    BY <2>1, <2>2, CountsNat DEF TightInv, Enough
<1> QED
  BY <1>4, <1>5 DEF TightInv

LEMMA ExtendTight ==
  ASSUME TypeOK, TightInv, ExtendBlockTable
  PROVE  TightInv'
<1>1. PICK r \in Reqs, n \in 0 .. Len(freeBlocks) :
        /\ r = Head(todo)
        /\ n = NumAdditionalBlocks(r, seqLen[r])
        /\ Len(blockTable'[r]) = Len(blockTable[r]) + n
        /\ \A s \in Reqs : s # r => blockTable'[s] = blockTable[s]
  BY ExtendFacts
<1>2. /\ CeilDiv(seqLen[r], BlockSize) \in Nat /\ CeilDiv(Reach(r), BlockSize) \in Nat
      /\ Len(blockTable[r]) \in Nat
  BY CountsNat
<1>3. CeilDiv(seqLen[r], BlockSize) <= CeilDiv(Reach(r), BlockSize)
  BY ReachNat, CeilDivMonotone DEF TypeOK
<1>4. seqLen' = seqLen /\ decoding' = decoding /\ ~raised
  BY DEF ExtendBlockTable
<1>5. /\ CeilDiv(seqLen[r], BlockSize) <= Len(blockTable'[r])
      /\ Len(blockTable'[r]) <= CeilDiv(Reach(r), BlockSize)
      /\ seqLen[r] = 0 => Len(blockTable'[r]) = 0
  BY <1>1, <1>2, <1>3, CeilDivZero DEF NumAdditionalBlocks, TightInv, NotTooMany
<1>6. NotTooMany'
  <2> SUFFICES ASSUME NEW s \in Reqs
               PROVE  /\ Len(blockTable'[s]) <= CeilDiv(Reach(s), BlockSize)
                      /\ seqLen[s] = 0 => Len(blockTable'[s]) = 0
    BY <1>4 DEF NotTooMany, Reach
  <2>1. CASE s = r
    BY <1>5, <2>1
  <2>2. CASE s # r
    BY <1>1, <2>2 DEF TightInv, NotTooMany
  <2> QED
    BY <2>1, <2>2
\* The requests still to serve are those of the tail.
<1>7. ASSUME NEW s \in Reqs, s # r, ~InBatch(Tail(todo), s)
      PROVE  ~InBatch(todo, s)
  <2> SUFFICES ASSUME NEW i \in 1 .. Len(todo), todo[i] = s
               PROVE  FALSE
    BY LenProperties DEF InBatch, TypeOK
  <2>1. todo \in Seq(Reqs) /\ todo # <<>> /\ Len(todo) \in Nat
    BY LenProperties DEF TypeOK, ExtendBlockTable
  <2>2. todo[1] = r
    BY <1>1, <2>1
  <2>3. i - 1 \in 1 .. Len(Tail(todo)) /\ (i - 1) + 1 = i
    BY <1>7, <2>1, <2>2, HeadTailProperties
  <2>4. Tail(todo)[i - 1] = s
    BY <2>1, <2>3, HeadTailProperties
  <2>5. i - 1 \in DOMAIN Tail(todo)
    BY <2>1, <2>3, HeadTailProperties, LenProperties
  <2> QED
    BY <1>7, <2>4, <2>5 DEF InBatch
<1>8. Enough'
  <2> SUFFICES ASSUME NEW s \in Reqs, ~InBatch(Tail(todo), s)
               PROVE  CeilDiv(seqLen[s], BlockSize) <= Len(blockTable'[s])
    BY <1>4 DEF Enough, ExtendBlockTable
  <2>1. CASE s = r
    BY <1>5, <2>1
  <2>2. CASE s # r
    BY <1>1, <1>4, <1>7, <2>2 DEF TightInv, Enough
  <2> QED
    BY <2>1, <2>2
<1> QED
  BY <1>6, <1>8 DEF TightInv

LEMMA FinalizeTight ==
  ASSUME TypeOK, TightInv, NEW r \in Reqs, FinalizeCacheAllDecode(r)
  PROVE  TightInv'
<1>1. /\ Len(blockTable'[r]) = 0
      /\ \A s \in Reqs : s # r => blockTable'[s] = blockTable[s]
  BY FinalizeFacts
<1>2. seqLen'[r] = 0 /\ \A s \in Reqs : s # r => seqLen'[s] = seqLen[s]
  BY DEF FinalizeCacheAllDecode, TypeOK
<1>3. ~raised /\ ~raised' /\ todo' = todo /\ decoding' = decoding
  BY DEF FinalizeCacheAllDecode, Idle
<1>4. CeilDiv(seqLen'[r], BlockSize) = 0
  BY <1>2, CeilDivZero
<1>5. CeilDiv(Reach(r)', BlockSize) \in Nat
  <2>1. Reach(r)' \in Nat
    BY <1>2, MtpSizeAssumption DEF Reach
  <2> QED
    BY <2>1, CeilDivNat
<1>6. \A s \in Reqs : s # r => Reach(s)' = Reach(s)
  BY <1>2, <1>3 DEF Reach
<1>7. NotTooMany'
  BY <1>1, <1>2, <1>5, <1>6 DEF TightInv, NotTooMany
<1>8. Enough'
  BY <1>1, <1>2, <1>3, <1>4 DEF TightInv, Enough
<1> QED
  BY <1>7, <1>8 DEF TightInv

LEMMA NextTight ==
  ASSUME TypeOK, TightInv, [Next]_vars
  PROVE  TightInv'
<1>1. TypeOK'
  BY NextType
<1>2. ASSUME NEW b \in Batches, NEW delta \in [Reqs -> 1 .. MaxSeqLen],
             PrepareCachePrefill(b, delta)
      PROVE  TightInv'
  BY <1>1, <1>2, PrefillTight
<1>3. ASSUME NEW b \in Batches, PrepareCacheDecode(b)
      PROVE  TightInv'
  BY <1>1, <1>3, DecodeTight
<1>4. CASE ExtendBlockTable
  BY <1>4, ExtendTight
<1>5. CASE OutOfBlocks
  BY <1>5 DEF OutOfBlocks, TightInv, Enough, NotTooMany, Reach
<1>6. ASSUME NEW accepted \in [Reqs -> 1 .. MtpSize], UpdateMtpCacheDecode(accepted)
      PROVE  TightInv'
  BY <1>1, <1>6, UpdateMtpTight
<1>7. ASSUME NEW r \in Reqs, FinalizeCacheAllDecode(r)
      PROVE  TightInv'
  BY <1>7, FinalizeTight
<1>8. CASE UNCHANGED vars
  BY <1>8 DEF vars, TightInv, Enough, NotTooMany, Reach
<1> QED
  BY <1>2, <1>3, <1>4, <1>5, <1>6, <1>7, <1>8 DEF Next

\* Whatever the page size, the draft length and the order of prefills, decodes
\* and endings, a request that no loop has still to serve holds the pages of its
\* tokens and of less than MtpSize more: the scheduler may count pages from
\* token counts alone.
THEOREM Tightness == Spec => []TightTables
<1>1. Init => TypeOK /\ TightInv
  BY InitType, InitTight
<1>2. TypeOK /\ TightInv /\ [Next]_vars => TypeOK' /\ TightInv'
  BY NextType, NextTight
<1>3. TypeOK /\ TightInv => TightTables
  <2> SUFFICES ASSUME TypeOK, TightInv, ~raised, NEW r \in Reqs, ~InBatch(todo, r)
               PROVE  Len(blockTable[r]) <= CeilDiv(seqLen[r] + MtpSize - 1, BlockSize)
    BY DEF TightInv, Enough, NotTooMany, TightTables
  <2>1. /\ Reach(r) \in Nat /\ seqLen[r] + MtpSize - 1 \in Nat
        /\ Reach(r) <= seqLen[r] + MtpSize - 1
    BY MtpSizeAssumption DEF TypeOK, Reach
  <2>2. CeilDiv(Reach(r), BlockSize) <= CeilDiv(seqLen[r] + MtpSize - 1, BlockSize)
    BY <2>1, CeilDivMonotone
  <2>3. CeilDiv(seqLen[r] + MtpSize - 1, BlockSize) \in Nat
    BY <2>1, CeilDivNat
  <2> QED
    BY <2>2, <2>3, CountsNat DEF TightInv, NotTooMany
<1> QED
  BY <1>1, <1>2, <1>3, PTL DEF Spec

(***************************************************************************)
(* Tables grow at their end                                                *)
(***************************************************************************)

\* No step moves a page of a live request or takes one from it.
THEOREM GrowOnly == Spec => TablesOnlyGrow
<1> DEFINE Kept == \A r \in Reqs : seqLen'[r] # 0 =>
              /\ Len(blockTable[r]) <= Len(blockTable'[r])
              /\ \A i \in 1 .. Len(blockTable[r]) : blockTable'[r][i] = blockTable[r][i]
<1>1. ASSUME TypeOK, [Next]_vars PROVE Kept
  <2>1. \A r \in Reqs : Len(blockTable[r]) \in Nat
    BY <1>1, LenProperties DEF TypeOK
  <2>2. CASE blockTable' = blockTable
    BY <2>1, <2>2
  <2>3. CASE ExtendBlockTable
    <3>1. PICK r \in Reqs, n \in 0 .. Len(freeBlocks) :
            /\ Len(blockTable'[r]) = Len(blockTable[r]) + n
            /\ \A i \in 1 .. Len(blockTable[r]) : blockTable'[r][i] = blockTable[r][i]
            /\ \A s \in Reqs : s # r => blockTable'[s] = blockTable[s]
      BY <1>1, <2>3, ExtendFacts
    <3>2. Len(freeBlocks) \in Nat
      BY <1>1, LenProperties DEF TypeOK
    <3> QED
      BY <2>1, <3>1, <3>2
  <2>4. ASSUME NEW r \in Reqs, FinalizeCacheAllDecode(r)
        PROVE  Kept
    <3>1. seqLen'[r] = 0 /\ \A s \in Reqs : s # r => blockTable'[s] = blockTable[s]
      BY <1>1, <2>4 DEF FinalizeCacheAllDecode, TypeOK
    <3> QED
      BY <2>1, <3>1
  <2> QED
    BY <1>1, <2>2, <2>3, <2>4
    DEF Next, vars, PrepareCachePrefill, PrepareCacheDecode, OutOfBlocks,
        UpdateMtpCacheDecode
<1>2. TypeOK /\ [Next]_vars => [Kept]_vars
  BY <1>1
<1> QED
  BY <1>2, Typing, PTL DEF Spec, TablesOnlyGrow

(***************************************************************************)
(* Implementation of exclusive ownership                                   *)
(***************************************************************************)

\* The refinement mapping reads the tables: the owner of a page is the request
\* whose table lists it.
LEMMA OwnerOfHeld ==
  ASSUME TablesDistinct, NEW b \in Blocks, NEW r \in Reqs, Holds(r, b)
  PROVE  ownerOf[b] = r
<1>1. ASSUME NEW s \in Reqs, Holds(s, b) PROVE s = r
  <2>1. PICK i \in 1 .. Len(blockTable[r]) : blockTable[r][i] = b
    BY DEF Holds
  <2>2. PICK j \in 1 .. Len(blockTable[s]) : blockTable[s][j] = b
    BY <1>1 DEF Holds
  <2>3. blockTable[r][i] = blockTable[s][j]
    BY <2>1, <2>2
  <2> QED
    BY <2>3 DEF TablesDistinct
<1>2. (CHOOSE s \in Reqs : Holds(s, b)) = r
  BY <1>1
<1> QED
  BY <1>2 DEF ownerOf

LEMMA OwnerOfFree ==
  ASSUME NEW b \in Blocks, \A r \in Reqs : ~Holds(r, b)
  PROVE  ownerOf[b] = NoOwner
BY DEF ownerOf

\* A turn of a prepare loop is an Acquire of the first n free pages.
LEMMA ExtendAcquires ==
  ASSUME TypeOK, PageConservation, PageConservation', ExtendBlockTable
  PROVE  \E r \in Reqs : \E S \in SUBSET Blocks : Ownership!Acquire(r, S)
<1>1. PICK r \in Reqs, n \in 0 .. Len(freeBlocks) :
        /\ Len(blockTable'[r]) = Len(blockTable[r]) + n
        /\ \A i \in 1 .. Len(blockTable[r]) : blockTable'[r][i] = blockTable[r][i]
        /\ \A i \in 1 .. n : blockTable'[r][Len(blockTable[r]) + i] = freeBlocks[i]
        /\ \A s \in Reqs : s # r => blockTable'[s] = blockTable[s]
  BY ExtendFacts
<1>2. Len(freeBlocks) \in Nat /\ \A s \in Reqs : Len(blockTable[s]) \in Nat
  BY LenProperties DEF TypeOK
<1> DEFINE S == {freeBlocks[i] : i \in 1 .. n}
<1>3. S \in SUBSET Blocks
  BY <1>2, ElementOfSeq DEF TypeOK
<1>4. ASSUME NEW b \in S PROVE ownerOf[b] = NoOwner
  <2>1. \A s \in Reqs : ~Holds(s, b)
    BY <1>2 DEF PageConservation, FreeNotHeld, Holds
  <2> QED
    BY <1>3, <2>1, OwnerOfFree
<1>5. \A b \in Blocks, s \in Reqs : Holds(s, b)' <=> Holds(s, b) \/ (s = r /\ b \in S)
  <2> TAKE b \in Blocks, s \in Reqs
  <2>1. CASE s # r
    BY <1>1, <2>1 DEF Holds
  <2>2. CASE s = r
    <3>1. ASSUME Holds(r, b) PROVE Holds(r, b)'
      <4>1. PICK i \in 1 .. Len(blockTable[r]) : blockTable[r][i] = b
        BY <3>1 DEF Holds
      <4>2. i \in 1 .. Len(blockTable'[r]) /\ blockTable'[r][i] = b
        BY <4>1, <1>1, <1>2
      <4> QED
        BY <4>2 DEF Holds
    <3>2. ASSUME b \in S PROVE Holds(r, b)'
      <4>1. PICK i \in 1 .. n : freeBlocks[i] = b
        BY <3>2
      <4>2. /\ Len(blockTable[r]) + i \in 1 .. Len(blockTable'[r])
            /\ blockTable'[r][Len(blockTable[r]) + i] = b
        BY <4>1, <1>1, <1>2
      <4> QED
        BY <4>2 DEF Holds
    <3>3. ASSUME Holds(r, b)' PROVE Holds(r, b) \/ b \in S
      <4>1. PICK i \in 1 .. Len(blockTable'[r]) : blockTable'[r][i] = b
        BY <3>3 DEF Holds
      <4>2. CASE i <= Len(blockTable[r])
        <5>1. i \in 1 .. Len(blockTable[r]) /\ blockTable[r][i] = b
          BY <4>1, <4>2, <1>1, <1>2
        <5> QED
          BY <5>1 DEF Holds
      <4>3. CASE ~(i <= Len(blockTable[r]))
        <5>1. /\ i - Len(blockTable[r]) \in 1 .. n
              /\ Len(blockTable[r]) + (i - Len(blockTable[r])) = i
          BY <4>1, <4>3, <1>1, <1>2
        <5> QED
          BY <4>1, <5>1, <1>1
      <4> QED
        BY <4>2, <4>3
    <3> QED
      BY <2>2, <3>1, <3>2, <3>3
  <2> QED
    BY <2>1, <2>2
<1> HIDE DEF S
<1>6. ASSUME NEW b \in Blocks PROVE ownerOf'[b] = IF b \in S THEN r ELSE ownerOf[b]
  <2>1. \A s \in Reqs : Holds(s, b)' => ownerOf'[b] = s
    <3>1. ASSUME NEW s \in Reqs, Holds(s, b)', NEW t \in Reqs, Holds(t, b)' PROVE t = s
      BY <3>1 DEF Holds, PageConservation, TablesDistinct
    <3> QED
      BY <3>1 DEF ownerOf
  <2>2. (\A s \in Reqs : ~Holds(s, b)') => ownerOf'[b] = NoOwner
    BY DEF ownerOf
  <2>3. CASE b \in S
    BY <1>5, <2>1, <2>3
  <2>4. CASE b \notin S /\ \E s \in Reqs : Holds(s, b)
    <3>1. PICK s \in Reqs : Holds(s, b)
      BY <2>4
    <3>2. ownerOf[b] = s /\ ownerOf'[b] = s
      BY <3>1, <1>5, <2>1, OwnerOfHeld DEF PageConservation
    <3> QED
      BY <2>4, <3>2
  <2>5. CASE b \notin S /\ \A s \in Reqs : ~Holds(s, b)
    BY <1>5, <2>2, <2>5, OwnerOfFree
  <2> QED
    BY <2>3, <2>4, <2>5
<1>7. ownerOf' = [b \in Blocks |-> IF b \in S THEN r ELSE ownerOf[b]]
  BY <1>6 DEF ownerOf
<1> QED
  BY <1>3, <1>4, <1>7 DEF Ownership!Acquire

\* Ending a request is a Release of its pages.
LEMMA FinalizeReleases ==
  ASSUME TypeOK, PageConservation, NEW r \in Reqs, FinalizeCacheAllDecode(r)
  PROVE  Ownership!Release(r)
<1>1. /\ Len(blockTable'[r]) = 0
      /\ \A s \in Reqs : s # r => blockTable'[s] = blockTable[s]
  BY FinalizeFacts
<1>2. PageConservation'
  BY FinalizeConservation
<1>3. \A b \in Blocks, s \in Reqs : Holds(s, b)' <=> s # r /\ Holds(s, b)
  BY <1>1 DEF Holds
<1>4. ASSUME NEW b \in Blocks PROVE ownerOf'[b] = IF ownerOf[b] = r THEN NoOwner ELSE ownerOf[b]
  <2>1. \A s \in Reqs : Holds(s, b)' => ownerOf'[b] = s
    <3>1. ASSUME NEW s \in Reqs, Holds(s, b)', NEW t \in Reqs, Holds(t, b)' PROVE t = s
      BY <1>2, <3>1 DEF Holds, PageConservation, TablesDistinct
    <3> QED
      BY <3>1 DEF ownerOf
  <2>2. (\A s \in Reqs : ~Holds(s, b)') => ownerOf'[b] = NoOwner
    BY DEF ownerOf
  <2>3. CASE \E s \in Reqs : Holds(s, b)
    <3>1. PICK s \in Reqs : Holds(s, b)
      BY <2>3
    <3>2. ownerOf[b] = s /\ \A t \in Reqs : Holds(t, b) => t = s
      BY <3>1, OwnerOfHeld DEF PageConservation
    <3> QED
      BY <3>1, <3>2, <1>3, <2>1, <2>2
  <2>4. CASE \A s \in Reqs : ~Holds(s, b)
    BY <1>3, <2>2, <2>4, OwnerOfFree, FreshNoOwner
  <2> QED
    BY <2>3, <2>4
<1>5. ownerOf' = [b \in Blocks |-> IF ownerOf[b] = r THEN NoOwner ELSE ownerOf[b]]
  BY <1>4 DEF ownerOf
<1> QED
  BY <1>5 DEF Ownership!Release

LEMMA InitOwner == ASSUME Init PROVE Ownership!OwnerInit
<1>1. \A r \in Reqs : Len(blockTable[r]) = 0
  BY EmptySeq DEF Init
<1>2. \A b \in Blocks : ownerOf[b] = NoOwner
  BY <1>1, OwnerOfFree DEF Holds
<1> QED
  BY <1>2 DEF Ownership!OwnerInit, ownerOf

LEMMA NextOwner ==
  ASSUME TypeOK, PageConservation, PageConservation', [Next]_vars
  PROVE  [Ownership!OwnerNext]_ownerOf
<1>1. CASE blockTable' = blockTable
  BY <1>1 DEF ownerOf, Holds
<1>2. CASE ExtendBlockTable
  BY <1>2, ExtendAcquires DEF Ownership!OwnerNext
<1>3. ASSUME NEW r \in Reqs, FinalizeCacheAllDecode(r)
      PROVE  [Ownership!OwnerNext]_ownerOf
  BY <1>3, FinalizeReleases DEF Ownership!OwnerNext
<1> QED
  BY <1>1, <1>2, <1>3
  DEF Next, vars, PrepareCachePrefill, PrepareCacheDecode, OutOfBlocks,
      UpdateMtpCacheDecode

\* The block allocator implements exclusive page ownership, for every size of
\* the cache and every set of requests.
THEOREM Implementation == Spec => ImplementsOwnership
<1>1. Init => Ownership!OwnerInit
  BY InitOwner
<1>2. /\ TypeOK /\ PageConservation /\ PageConservation' /\ [Next]_vars
      => [Ownership!OwnerNext]_ownerOf
  BY NextOwner
<1> QED
  BY <1>1, <1>2, Typing, Conservation, PTL
  DEF Spec, ImplementsOwnership, Ownership!OwnerSpec

(***************************************************************************)
(* GraphedProperty: a tensor cached inside or outside of CUDA graphs is    *)
(* what a fresh evaluation would return, for any sources, shapes and keys, *)
(* under the two conditions the code leaves to its user: the key tells     *)
(* shapes apart (KeysTellShapes) and reuse is consistent for a graph       *)
(* (MayReplay).                                                            *)
(***************************************************************************)

\* A flag alone is not inductive: a replay takes the shape from its graph, so
\* what the graphs hold must be right too.
GraphedIInv == GraphedTypeOK /\ FlagHonest /\ ReadsPresent /\ ViewsFit

\* An evaluation of the property has the type of a tensor.
LEMMA FreshIsTensor ==
  ASSUME x \in X
  PROVE  Fresh \in Tensor /\ Fresh.val = F[x] /\ Fresh.shape = ShapeOf[x]
  BY KeysTellShapesAssumption DEF KeysTellShapes, Fresh, Tensor

\* A graph under the key of a source has the shape of that source.
LEMMA ViewOfSource ==
  ASSUME GraphedTypeOK, ViewsFit, graphs[KeyOf[x]] # Nothing
  PROVE  /\ graphs[KeyOf[x]] \in Graph
         /\ graphs[KeyOf[x]].view = ShapeOf[x]
  BY KeysTellShapesAssumption DEF KeysTellShapes, GraphedTypeOK, ViewsFit

LEMMA GraphedInitIInv == GraphedInit => GraphedIInv
  BY DEF GraphedInit, GraphedIInv, GraphedTypeOK, FlagHonest, ReadsPresent, ViewsFit

LEMMA UpdateKeeps ==
  ASSUME GraphedIInv, NEW y \in X, Update(y)
  PROVE  GraphedIInv'
  BY DEF GraphedIInv, GraphedTypeOK, FlagHonest, ReadsPresent, ViewsFit, Update

LEMMA ReadKeeps ==
  ASSUME GraphedIInv, Read
  PROVE  GraphedIInv'
<1>1. x' = x /\ graphs' = graphs /\ upToDate' = TRUE /\ got' = static'
  BY DEF Read
<1>2. static' = Fresh
  BY DEF Read, GraphedIInv, FlagHonest
<1>3. Fresh' = Fresh
  BY <1>1 DEF Fresh
<1>4. Fresh \in Tensor
  BY FreshIsTensor DEF GraphedIInv, GraphedTypeOK
<1>5. QED
  BY <1>1, <1>2, <1>3, <1>4 DEF GraphedIInv, GraphedTypeOK, FlagHonest, ReadsPresent, ViewsFit

LEMMA CaptureKeeps ==
  ASSUME GraphedIInv, CallCapture(KeyOf[x])
  PROVE  GraphedIInv'
<1> DEFINE k == KeyOf[x]
<1>1. x' = x /\ upToDate' = TRUE /\ got' = static'
  BY DEF CallCapture
<1>2. static' = Fresh
  BY DEF CallCapture, GraphedIInv, FlagHonest
<1>3. Fresh' = Fresh
  BY <1>1 DEF Fresh
<1>4. Fresh \in Tensor /\ Fresh.shape = ShapeOf[x]
  BY FreshIsTensor DEF GraphedIInv, GraphedTypeOK
<1>5. k \in Key
  BY KeysTellShapesAssumption DEF KeysTellShapes, GraphedIInv, GraphedTypeOK
<1>6. graphs' = [graphs EXCEPT ![k] = [computes |-> ~upToDate, view |-> ShapeOf[x]]]
  BY <1>2, <1>4 DEF CallCapture
<1>7. [computes |-> ~upToDate, view |-> ShapeOf[x]] \in Graph
  BY KeysTellShapesAssumption DEF KeysTellShapes, Graph, GraphedIInv, GraphedTypeOK
<1>8. GraphedTypeOK'
  BY <1>1, <1>2, <1>4, <1>5, <1>6, <1>7 DEF GraphedIInv, GraphedTypeOK
<1>9. ViewsFit'
  BY <1>5, <1>6, KeysTellShapesAssumption DEF KeysTellShapes, GraphedIInv, GraphedTypeOK, ViewsFit
<1>10. FlagHonest' /\ ReadsPresent'
  BY <1>1, <1>2, <1>3 DEF FlagHonest, ReadsPresent
<1>11. QED
  BY <1>8, <1>9, <1>10 DEF GraphedIInv

LEMMA ReplayKeeps ==
  ASSUME GraphedIInv, CallReplay(KeyOf[x])
  PROVE  GraphedIInv'
<1> DEFINE g == graphs[KeyOf[x]]
<1>1. x' = x /\ graphs' = graphs /\ upToDate' = (upToDate \/ g.computes)
  BY DEF CallReplay
<1>2. g \in Graph /\ g.view = ShapeOf[x] /\ (g.computes \/ upToDate)
  BY ViewOfSource DEF CallReplay, MayReplay, GraphedIInv
<1>3. Fresh \in Tensor /\ Fresh = [val |-> F[x], shape |-> ShapeOf[x]]
  BY FreshIsTensor DEF GraphedIInv, GraphedTypeOK, Fresh
<1>4. static' = Fresh
  <2>1. CASE g.computes
    BY <2>1, <1>2, <1>3 DEF CallReplay
  <2>2. CASE ~g.computes
    BY <2>2, <1>2 DEF CallReplay, GraphedIInv, FlagHonest
  <2>3. QED
    BY <2>1, <2>2
<1>5. got' = Fresh
  BY <1>2, <1>3, <1>4 DEF CallReplay
<1>6. Fresh' = Fresh
  BY <1>1 DEF Fresh
<1>7. GraphedTypeOK'
  BY <1>1, <1>2, <1>3, <1>4, <1>5 DEF GraphedIInv, GraphedTypeOK, Graph
<1>8. FlagHonest' /\ ReadsPresent'
  BY <1>4, <1>5, <1>6 DEF FlagHonest, ReadsPresent
<1>9. ViewsFit'
  BY <1>1 DEF GraphedIInv, ViewsFit
<1>10. QED
  BY <1>7, <1>8, <1>9 DEF GraphedIInv

LEMMA GraphedNextIInv == GraphedIInv /\ [GraphedNext]_graphedVars => GraphedIInv'
<1> SUFFICES ASSUME GraphedIInv, [GraphedNext]_graphedVars PROVE GraphedIInv'
  OBVIOUS
<1>1. CASE \E y \in X : Update(y)
  BY <1>1, UpdateKeeps
<1>2. CASE Read
  BY <1>2, ReadKeeps
<1>3. CASE Call
  BY <1>3, CaptureKeeps, ReplayKeeps DEF Call
<1>4. CASE UNCHANGED graphedVars
  BY <1>4 DEF graphedVars, GraphedIInv, GraphedTypeOK, FlagHonest, Fresh, ReadsPresent, ViewsFit
<1>5. QED
  BY <1>1, <1>2, <1>3, <1>4 DEF GraphedNext

\* The invariant holds in every run, for any sources and keys.
THEOREM GraphedInductive == GraphedSpec => []GraphedIInv
<1>1. QED
  BY GraphedInitIInv, GraphedNextIInv, PTL DEF GraphedSpec

\* A flag never vouches for a stale tensor: contents and shape are those of
\* the present source (cuda_graph.py:249-267).
THEOREM Honest == GraphedSpec => []FlagHonest
<1>1. GraphedIInv => FlagHonest
  BY DEF GraphedIInv
<1>2. QED
  BY GraphedInductive, <1>1, PTL

\* Every read inside or outside of a graph returns the property of the
\* present source, whichever of the four documented uses it is
\* (cuda_graph.py:217-220).
THEOREM Present == GraphedSpec => []ReadsPresent
<1>1. GraphedIInv => ReadsPresent
  BY DEF GraphedIInv
<1>2. QED
  BY GraphedInductive, <1>1, PTL

(***************************************************************************)
(* AsyncStream: the worker thread and the generator of the response.       *)
(***************************************************************************)

Done == {"stopped", "emitted", "finished"}

\* The stop signal is up exactly when the worker is past the last token.
StopInv == stopSignal <=> worker \in Done

\* The generator is never ahead of the worker, and labels what it takes at once.
ProgressInv ==
  /\ Len(seqs) <= tokensLen
  /\ index <= Len(seqs)
  /\ consumer \in {"readFlag", "readLen"} => index = Len(labels) + 1
  /\ consumer \notin {"readFlag", "readLen"} => index = Len(labels)
  /\ consumer = "done" => stopSignal /\ index = Len(seqs)

\* The token the worker is decoding: the closing mark is the only one that is
\* reasoning while the flag is down already.
IncomingInv ==
  /\ worker = "leaving" => /\ isReasoning /\ incoming.kind = "endthink"
                           /\ incoming.field = "reasoning_content"
                           /\ reasoningLen = Len(seqs) + 1
  /\ worker = "decoding" /\ isReasoning => incoming.field = "reasoning_content"
  /\ worker = "decoding" /\ ~isReasoning /\ incoming.field = "reasoning_content"
       => incoming.kind = "endthink"

\* What the two unprotected variables say of the pieces.
FieldInv ==
  /\ isReasoning => \A i \in 1 .. Len(seqs) : seqs[i] = "reasoning_content"
  /\ ~isReasoning => \A i \in 1 .. Len(seqs) : seqs[i] = Field(i <= reasoningLen)
  /\ ~isReasoning /\ cache # "garbled" =>
       IF worker = "decoding" THEN incoming.field = Field(Len(seqs) + 1 <= reasoningLen)
                              ELSE reasoningLen <= Len(seqs)
  /\ reasoningLen <= Len(seqs) + 1
  /\ consumer = "readLen" => ~isReasoning

LabelInv == \A i \in 1 .. Len(labels) : i <= Len(seqs) /\ labels[i] = seqs[i]

StreamIInv == StreamTypeOK /\ StopInv /\ ProgressInv /\ IncomingInv /\ FieldInv /\ LabelInv

-----------------------------------------------------------------------------
LEMMA StreamInitIInv == ASSUME StreamInit PROVE StreamIInv
<1>1. StreamTypeOK
  <2>1. seqs \in Seq(Fields) /\ labels \in Seq(Fields)
    BY EmptySeq DEF StreamInit
  <2>2. incoming \in [kind : Kinds, field : Fields]
    BY DEF StreamInit, Kinds, Fields
  <2> QED
    BY <2>1, <2>2 DEF StreamInit, StreamTypeOK
<1>2. Len(seqs) = 0 /\ Len(labels) = 0
  BY DEF StreamInit
<1> QED
  BY <1>1, <1>2 DEF StreamInit, StreamIInv, StopInv, Done, ProgressInv, IncomingInv, FieldInv, LabelInv

\* The worker takes up a token.
LEMMA HandleIInv ==
  ASSUME StreamIInv, NEW kind \in Kinds, ReasoningHandle(kind)
  PROVE  StreamIInv'
<1> DEFINE inside == isReasoning \/ (tokensLen = 0 /\ kind = "think")
           leaves == inside /\ kind = "endthink"
<1>1. /\ worker = "idle" /\ incoming' = [kind |-> kind, field |-> Field(inside)]
      /\ isReasoning' = inside
      /\ reasoningLen' = IF leaves THEN Len(seqs) + 1 ELSE reasoningLen
      /\ worker' = IF leaves THEN "leaving" ELSE "decoding"
      /\ UNCHANGED <<seqs, tokensLen, cache, stopSignal, callbacks, dataEvent, consumer,
                     index, labels>>
  BY DEF ReasoningHandle
<1>2. inside \in BOOLEAN /\ Field(inside) \in Fields
  BY DEF StreamIInv, StreamTypeOK, Field, Fields
<1> HIDE DEF inside
<1>3. StreamTypeOK'
  BY <1>1, <1>2 DEF StreamIInv, StreamTypeOK
<1>4. StopInv' /\ ProgressInv' /\ LabelInv'
  BY <1>1 DEF StreamIInv, StopInv, ProgressInv, LabelInv, Done
<1>5. IncomingInv'
  BY <1>1, <1>2 DEF IncomingInv, Field
<1>6. ASSUME inside, ~isReasoning PROVE Len(seqs) = 0
  BY <1>6 DEF inside, StreamIInv, StreamTypeOK, ProgressInv
<1>7. FieldInv'
  <2>1. isReasoning' => \A i \in 1 .. Len(seqs') : seqs'[i] = "reasoning_content"
    BY <1>1, <1>6 DEF StreamIInv, StreamTypeOK, FieldInv
  <2>2. ~isReasoning' => ~inside /\ ~isReasoning /\ reasoningLen' = reasoningLen
                         /\ worker' = "decoding" /\ incoming'.field = "content"
    BY <1>1, <1>2 DEF inside, Field
  <2>3. ~isReasoning' => \A i \in 1 .. Len(seqs') : seqs'[i] = Field(i <= reasoningLen')
    BY <1>1, <2>2 DEF StreamIInv, FieldInv
  <2>4. ~isReasoning' /\ cache' # "garbled" => ~(Len(seqs) + 1 <= reasoningLen)
    BY <1>1, <2>2 DEF StreamIInv, StreamTypeOK, FieldInv
  <2>5. ~isReasoning' /\ cache' # "garbled" =>
          incoming'.field = Field(Len(seqs') + 1 <= reasoningLen')
    BY <1>1, <2>2, <2>4 DEF Field
  <2>6. reasoningLen' <= Len(seqs') + 1
    BY <1>1 DEF StreamIInv, StreamTypeOK, FieldInv
  <2>7. consumer' = "readLen" => ~isReasoning'
    <3>1. consumer = "readLen" => ~isReasoning /\ Len(seqs) # 0
      BY DEF StreamIInv, StreamTypeOK, FieldInv, ProgressInv
    <3> QED
      BY <1>1, <1>6, <3>1
  <2> QED
    BY <1>1, <2>1, <2>2, <2>3, <2>5, <2>6, <2>7 DEF FieldInv
<1> QED
  BY <1>3, <1>4, <1>5, <1>7 DEF StreamIInv

LEMMA LeaveIInv == ASSUME StreamIInv, LeaveReasoning PROVE StreamIInv'
<1>1. StreamTypeOK' /\ StopInv' /\ ProgressInv' /\ LabelInv' /\ IncomingInv'
  BY DEF StreamIInv, LeaveReasoning, StreamTypeOK, StopInv, ProgressInv, LabelInv, IncomingInv, Done
<1>2. /\ reasoningLen' = Len(seqs') + 1 /\ ~isReasoning' /\ worker' = "decoding"
      /\ incoming'.field = "reasoning_content"
      /\ \A i \in 1 .. Len(seqs') : seqs'[i] = "reasoning_content"
  BY DEF StreamIInv, LeaveReasoning, IncomingInv, FieldInv
<1>3. \A i \in 1 .. Len(seqs') : i <= reasoningLen'
  BY <1>1, <1>2 DEF StreamTypeOK
<1>4. Field(Len(seqs') + 1 <= reasoningLen') = "reasoning_content"
      /\ reasoningLen' <= Len(seqs') + 1
  BY <1>1, <1>2 DEF StreamTypeOK, Field
<1>5. FieldInv'
  BY <1>2, <1>3, <1>4 DEF FieldInv, Field
<1> QED
  BY <1>1, <1>5 DEF StreamIInv

\* The one step that adds a piece.
LEMMA DecodeIInv == ASSUME StreamIInv, Decode PROVE StreamIInv'
<1>1. /\ worker = "decoding" /\ worker' = "added" /\ tokensLen' = tokensLen + 1
      /\ cache' = Decoded(incoming.kind)
      /\ seqs' = IF cache' = "empty" THEN Append(seqs, incoming.field) ELSE seqs
      /\ UNCHANGED <<isReasoning, reasoningLen, stopSignal, incoming, callbacks, dataEvent,
                     consumer, index, labels>>
  BY DEF Decode
<1>2. cache' \in {"empty", "open", "garbled"}
      /\ (cache' # "garbled" => cache # "garbled")
      /\ (cache' = "open" => incoming.kind = "open")
  BY <1>1 DEF Decoded, StreamIInv, StreamTypeOK
<1>3. StreamTypeOK'
  BY <1>1, <1>2 DEF StreamIInv, StreamTypeOK
<1>4. \/ cache' = "empty" /\ Len(seqs') = Len(seqs) + 1
      \/ cache' # "empty" /\ seqs' = seqs
  BY <1>1 DEF StreamIInv, StreamTypeOK
<1>5. \A i \in 1 .. Len(seqs) : seqs'[i] = seqs[i]
  BY <1>1 DEF StreamIInv, StreamTypeOK
<1>6. cache' = "empty" => seqs'[Len(seqs) + 1] = incoming.field
  BY <1>1 DEF StreamIInv, StreamTypeOK
<1>7. StopInv' /\ IncomingInv'
  BY <1>1 DEF StreamIInv, StopInv, IncomingInv, Done
<1>8. ProgressInv'
  BY <1>1, <1>4 DEF StreamIInv, StreamTypeOK, ProgressInv, StopInv, Done
<1>9. LabelInv'
  BY <1>1, <1>4, <1>5 DEF StreamIInv, StreamTypeOK, LabelInv
<1>10. FieldInv'
  <2>1. isReasoning' => \A i \in 1 .. Len(seqs') : seqs'[i] = "reasoning_content"
    BY <1>1, <1>4, <1>5, <1>6 DEF StreamIInv, StreamTypeOK, FieldInv, IncomingInv
  <2>2. ~isReasoning' /\ cache' = "empty" => seqs'[Len(seqs) + 1] = Field(Len(seqs) + 1 <= reasoningLen)
    BY <1>1, <1>2, <1>6 DEF StreamIInv, FieldInv
  <2>3. ~isReasoning' => \A i \in 1 .. Len(seqs') : seqs'[i] = Field(i <= reasoningLen')
    <3> SUFFICES ASSUME ~isReasoning', NEW i \in 1 .. Len(seqs')
                 PROVE  seqs'[i] = Field(i <= reasoningLen)
      BY <1>1
    <3>1. CASE i \in 1 .. Len(seqs)
      BY <1>1, <1>5, <3>1 DEF StreamIInv, FieldInv
    <3>2. CASE i \notin 1 .. Len(seqs)
      <4>1. cache' = "empty" /\ i = Len(seqs) + 1
        BY <1>4, <3>2 DEF StreamIInv, StreamTypeOK
      <4> QED
        BY <4>1, <2>2
    <3> QED
      BY <3>1, <3>2
  <2>4. ~isReasoning' /\ cache' # "garbled" => reasoningLen' <= Len(seqs')
    <3> SUFFICES ASSUME ~isReasoning, cache' # "garbled" PROVE reasoningLen <= Len(seqs')
      BY <1>1
    <3>1. CASE cache' = "empty"
      BY <1>4, <3>1 DEF StreamIInv, StreamTypeOK, FieldInv
    <3>2. CASE cache' = "open"
      <4>1. incoming.field # "reasoning_content"
        BY <1>1, <1>2, <3>2 DEF StreamIInv, IncomingInv
      <4>2. incoming.field = Field(Len(seqs) + 1 <= reasoningLen)
        BY <1>1, <1>2 DEF StreamIInv, FieldInv
      <4>3. ~(Len(seqs) + 1 <= reasoningLen)
        BY <4>1, <4>2 DEF Field
      <4> QED
        BY <1>4, <3>2, <4>3 DEF StreamIInv, StreamTypeOK
    <3> QED
      BY <1>2, <3>1, <3>2
  <2>5. reasoningLen' <= Len(seqs') + 1
    BY <1>1, <1>4 DEF StreamIInv, StreamTypeOK, FieldInv
  <2>6. consumer' = "readLen" => ~isReasoning'
    BY <1>1 DEF StreamIInv, FieldInv
  <2> QED
    BY <1>1, <2>1, <2>3, <2>4, <2>5, <2>6 DEF FieldInv
<1> QED
  BY <1>3, <1>7, <1>8, <1>9, <1>10 DEF StreamIInv

\* Ending and notifying leave the pieces alone.
LEMMA NotifyIInv ==
  ASSUME StreamIInv, SendStopSignal \/ NotifyStop \/ NotifyBatch
  PROVE  StreamIInv'
<1>1. /\ UNCHANGED <<seqs, tokensLen, cache, isReasoning, reasoningLen, incoming, dataEvent,
                     consumer, index, labels>>
      /\ isReasoning' = isReasoning
      /\ worker \notin {"leaving", "decoding"} /\ worker' \notin {"leaving", "decoding"}
      /\ stopSignal => stopSignal'
  BY DEF SendStopSignal, NotifyStop, NotifyBatch, stream
<1>2. StreamTypeOK'
  <2>1. callbacks' \in Nat
    BY DEF StreamIInv, StreamTypeOK, SendStopSignal, NotifyStop, NotifyBatch
  <2>2. worker' \in {"idle", "stopped", "emitted", "finished"}
    BY DEF SendStopSignal, NotifyStop, NotifyBatch
  <2>3. stopSignal' \in BOOLEAN
    BY DEF StreamIInv, StreamTypeOK, SendStopSignal, NotifyStop, NotifyBatch, stream
  <2> QED
    BY <1>1, <2>1, <2>2, <2>3 DEF StreamIInv, StreamTypeOK
<1>3. StopInv'
  BY DEF StreamIInv, StopInv, Done, SendStopSignal, NotifyStop, NotifyBatch, stream
<1>4. ProgressInv' /\ IncomingInv' /\ LabelInv'
  BY <1>1 DEF StreamIInv, ProgressInv, IncomingInv, LabelInv
<1>5. FieldInv'
  BY <1>1 DEF StreamIInv, FieldInv
<1> QED
  BY <1>2, <1>3, <1>4, <1>5 DEF StreamIInv

\* The loop and the generator leave the stream alone.
LEMMA CallbackIInv == ASSUME StreamIInv, RunCallback \/ Clear \/ Wait PROVE StreamIInv'
<1>1. /\ UNCHANGED <<seqs, tokensLen, cache, isReasoning, reasoningLen, stopSignal, worker,
                     incoming, index, labels>>
      /\ consumer' = "done" => consumer = "done"
      /\ consumer \notin {"readFlag", "readLen"} /\ consumer' \notin {"readFlag", "readLen"}
  BY DEF RunCallback, Clear, Wait, stream
<1>2. StreamTypeOK'
  <2>1. callbacks' \in Nat
    BY DEF StreamIInv, StreamTypeOK, RunCallback, Clear, Wait
  <2>2. consumer' \in {"check", "wait", "asleep", "done"}
    BY DEF RunCallback, Clear, Wait
  <2>3. dataEvent' \in BOOLEAN
    BY DEF StreamIInv, StreamTypeOK, RunCallback, Clear, Wait
  <2> QED
    BY <1>1, <2>1, <2>2, <2>3 DEF StreamIInv, StreamTypeOK
<1>3. StopInv' /\ ProgressInv' /\ IncomingInv' /\ LabelInv'
  BY <1>1 DEF StreamIInv, StopInv, ProgressInv, IncomingInv, LabelInv
<1>4. FieldInv'
  BY <1>1 DEF StreamIInv, FieldInv
<1> QED
  BY <1>2, <1>3, <1>4 DEF StreamIInv

LEMMA CheckIInv == ASSUME StreamIInv, Check PROVE StreamIInv'
<1>1. /\ UNCHANGED <<seqs, tokensLen, cache, isReasoning, reasoningLen, stopSignal, worker,
                     incoming, labels>>
      /\ consumer = "check"
      /\ \/ stopSignal /\ index >= Len(seqs) /\ consumer' = "done" /\ index' = index
         \/ index < Len(seqs) /\ consumer' = "readFlag" /\ index' = index + 1
         \/ consumer' = "clear" /\ index' = index
  BY DEF Check, stream
<1>2. StreamTypeOK'
  BY DEF StreamIInv, StreamTypeOK, Check, stream
<1>3. StopInv' /\ IncomingInv' /\ LabelInv'
  BY <1>1 DEF StreamIInv, StopInv, IncomingInv, LabelInv
<1>4. ProgressInv'
  BY <1>1 DEF StreamIInv, StreamTypeOK, ProgressInv
<1>5. FieldInv'
  BY <1>1 DEF StreamIInv, FieldInv
<1> QED
  BY <1>2, <1>3, <1>4, <1>5 DEF StreamIInv

\* The piece just taken gets its own field, whatever the worker did meanwhile.
LEMMA ReadIInv == ASSUME StreamIInv, ReadFlag \/ ReadLen PROVE StreamIInv'
<1>1. /\ UNCHANGED <<seqs, tokensLen, cache, isReasoning, reasoningLen, stopSignal, worker,
                     incoming, index>>
      /\ consumer \in {"readFlag", "readLen"}
  BY DEF ReadFlag, ReadLen, stream
<1>2. index = Len(labels) + 1 /\ index \in 1 .. Len(seqs)
  BY <1>1 DEF StreamIInv, StreamTypeOK, ProgressInv
<1>3. StopInv' /\ IncomingInv'
  BY <1>1 DEF StreamIInv, StopInv, IncomingInv
<1>4. callbacks' = callbacks /\ dataEvent' = dataEvent
  BY DEF ReadFlag, ReadLen
<1>5. CASE consumer' = "readLen"
  <2>1. labels' = labels /\ ~isReasoning /\ consumer = "readFlag"
    BY <1>5 DEF ReadFlag, ReadLen
  <2>2. StreamTypeOK'
    BY <1>1, <1>5, <1>4, <2>1 DEF StreamIInv, StreamTypeOK
  <2>3. ProgressInv' /\ LabelInv'
    BY <1>1, <1>2, <1>5, <2>1 DEF StreamIInv, ProgressInv, LabelInv
  <2>4. FieldInv'
    BY <1>1, <1>5, <2>1 DEF StreamIInv, FieldInv
  <2> QED
    BY <1>3, <2>2, <2>3, <2>4 DEF StreamIInv
<1>6. CASE consumer' # "readLen"
  <2>1. consumer' = "check" /\ labels' = Append(labels, seqs[index])
    <3>1. CASE ReadFlag
      BY <1>2, <1>6, <3>1 DEF ReadFlag, StreamIInv, FieldInv, Field
    <3>2. CASE ReadLen
      BY <1>2, <3>2 DEF ReadLen, StreamIInv, FieldInv
    <3> QED
      BY <3>1, <3>2
  <2>2. seqs[index] \in Fields
    BY <1>2 DEF StreamIInv, StreamTypeOK
  <2>3. StreamTypeOK'
    <3>1. labels' \in Seq(Fields)
      BY <2>1, <2>2 DEF StreamIInv, StreamTypeOK
    <3> QED
      BY <1>1, <1>4, <2>1, <3>1 DEF StreamIInv, StreamTypeOK
  <2>4. Len(labels') = Len(labels) + 1 /\ labels'[index] = seqs[index]
        /\ \A i \in 1 .. Len(labels) : labels'[i] = labels[i]
    BY <1>2, <2>1, <2>2 DEF StreamIInv, StreamTypeOK
  <2>5. ProgressInv'
    BY <1>1, <1>2, <2>1, <2>4 DEF StreamIInv, StreamTypeOK, ProgressInv
  <2>6. LabelInv'
    <3> SUFFICES ASSUME NEW i \in 1 .. Len(labels')
                 PROVE  i <= Len(seqs) /\ labels'[i] = seqs[i]
      BY <1>1 DEF LabelInv
    <3>1. Len(labels) \in Nat
      BY DEF StreamIInv, StreamTypeOK
    <3>2. CASE i = index
      BY <1>2, <2>4, <3>2
    <3>3. CASE i # index
      <4>1. i \in 1 .. Len(labels)
        BY <1>2, <2>4, <3>1, <3>3
      <4> QED
        BY <2>4, <4>1 DEF StreamIInv, LabelInv
    <3> QED
      BY <3>2, <3>3
  <2>7. FieldInv'
    BY <1>1, <2>1 DEF StreamIInv, FieldInv
  <2> QED
    BY <1>3, <2>3, <2>5, <2>6, <2>7 DEF StreamIInv
<1> QED
  BY <1>5, <1>6

LEMMA StreamNextIInv == ASSUME StreamIInv, [StreamNext]_streamVars PROVE StreamIInv'
<1>1. CASE UNCHANGED streamVars
  BY <1>1 DEF streamVars, StreamIInv, StreamTypeOK, StopInv, ProgressInv, IncomingInv, FieldInv, LabelInv
<1>2. ASSUME NEW kind \in Kinds, ReasoningHandle(kind) PROVE StreamIInv'
  BY <1>2, HandleIInv
<1>3. CASE LeaveReasoning
  BY <1>3, LeaveIInv
<1>4. CASE Decode
  BY <1>4, DecodeIInv
<1>5. CASE SendStopSignal \/ NotifyStop \/ NotifyBatch
  BY <1>5, NotifyIInv
<1>6. CASE RunCallback \/ Clear \/ Wait
  BY <1>6, CallbackIInv
<1>7. CASE Check
  BY <1>7, CheckIInv
<1>8. CASE ReadFlag \/ ReadLen
  BY <1>8, ReadIInv
<1> QED
  BY <1>1, <1>2, <1>3, <1>4, <1>5, <1>6, <1>7, <1>8 DEF StreamNext, Deliver, Consume

\* The strengthened invariant holds in every reachable state.
THEOREM StreamInductive == StreamSpec => []StreamIInv
<1>1. StreamInit => StreamIInv
  BY StreamInitIInv
<1>2. StreamIInv /\ [StreamNext]_streamVars => StreamIInv'
  BY StreamNextIInv
<1> QED
  BY <1>1, <1>2, PTL DEF StreamSpec

\* Every piece is sent in the field it belongs in, for answers of any length and
\* any interleaving of the two threads.
THEOREM Labelling == StreamSpec => []LabelsRight
<1>1. StreamIInv => LabelsRight
  BY DEF StreamIInv, StreamTypeOK, LabelInv, LabelsRight
<1> QED
  BY <1>1, StreamInductive, PTL

\* The response ends with the last piece.
THEOREM Completeness == StreamSpec => []NothingLeftBehind
<1>1. StreamIInv => NothingLeftBehind
  BY DEF StreamIInv, ProgressInv, StopInv, Done, NothingLeftBehind
<1> QED
  BY <1>1, StreamInductive, PTL

\* No wake-up is lost: the callback that follows the news is still queued, or is
\* about to be, while the generator lies down.
LEMMA NextWakeup == ASSUME StreamIInv, NoLostWakeup, [StreamNext]_streamVars PROVE NoLostWakeup'
<1> USE DEF NoLostWakeup
<1>1. CASE UNCHANGED streamVars
  BY <1>1 DEF streamVars
<1>2. ASSUME NEW kind \in Kinds, ReasoningHandle(kind) PROVE NoLostWakeup'
  BY <1>2 DEF ReasoningHandle
<1>3. CASE LeaveReasoning
  BY <1>3 DEF LeaveReasoning
<1>4. CASE Decode \/ SendStopSignal
  BY <1>4 DEF Decode, SendStopSignal
<1>5. CASE NotifyStop \/ NotifyBatch
  <2>1. callbacks' > 0
    BY <1>5 DEF NotifyStop, NotifyBatch, StreamIInv, StreamTypeOK
  <2> QED
    BY <2>1
<1>6. CASE RunCallback
  BY <1>6 DEF RunCallback
<1>7. CASE Check
  BY <1>7 DEF Check, stream, StreamIInv, StreamTypeOK
<1>8. CASE ReadFlag \/ ReadLen
  BY <1>8 DEF ReadFlag, ReadLen
<1>9. CASE Clear \/ Wait
  BY <1>9 DEF Clear, Wait, stream
<1> QED
  BY <1>1, <1>2, <1>3, <1>4, <1>5, <1>6, <1>7, <1>8, <1>9 DEF StreamNext, Deliver, Consume

THEOREM Wakeup == StreamSpec => []NoLostWakeup
<1>1. StreamInit => NoLostWakeup
  BY DEF StreamInit, NoLostWakeup
<1>2. StreamIInv /\ NoLostWakeup /\ [StreamNext]_streamVars => NoLostWakeup'
  BY NextWakeup
<1> QED
  BY <1>1, <1>2, StreamInductive, PTL DEF StreamSpec

(***************************************************************************)
(* The load balancer: sums, greatest elements and plans                    *)
(***************************************************************************)

\* Every set of naturals has a least element.
LEMMA LeastNatural ==
  ASSUME NEW S \in SUBSET Nat, S # {}
  PROVE  \E n \in S : \A m \in S : n <= m
<1> DEFINE R == OpToRel(<, Nat)
<1>1. IsWellFoundedOn(R, Nat)
  BY NatLessThanWellFounded, Zenon
<1>2. \A m, n \in Nat : <<m, n>> \in R <=> m < n
  BY DEF OpToRel
<1> HIDE DEF R
<1>3. PICK n \in S : \A m \in S : ~(<<m, n>> \in R)
  BY <1>1, WFMin
<1>4. \A m \in S : ~(m < n)
  BY <1>2, <1>3
<1> QED
  BY <1>4

\* Folds(g, S, n): g is what the fold of G by the choice c makes of the subsets of S of at
\* most n elements.
Small(S, n) == {s \in SUBSET S : Cardinality(s) <= n}
Folds(g, D, V, G, c, base) ==
  /\ g \in [D -> V]
  /\ \A s \in D : g[s] = IF s = {} THEN base ELSE G[<<c[s], g[s \ {c[s]}]>>]

\* One more element: a fold of the smaller subsets extends to those one larger.
LEMMA FoldStep ==
  ASSUME NEW V, NEW S, IsFiniteSet(S), NEW base \in V, NEW G \in [S \X V -> V],
         NEW c, \A s \in SUBSET S : s # {} => c[s] \in s,
         NEW n \in Nat, NEW g, Folds(g, Small(S, n), V, G, c, base)
  PROVE  \E h : Folds(h, Small(S, n + 1), V, G, c, base)
<1> DEFINE D == Small(S, n)
           E == Small(S, n + 1)
           h == [s \in E |-> IF s = {} THEN base ELSE G[<<c[s], g[s \ {c[s]}]>>]]
<1>1. \A s \in E : IsFiniteSet(s) /\ Cardinality(s) \in Nat /\ s \in SUBSET S
  BY FS_Subset, FS_CardinalityType DEF Small
<1>2. ASSUME NEW s \in E, s # {}
      PROVE  c[s] \in S /\ s \ {c[s]} \in D /\ s \ {c[s]} \in E
  <2>1. Cardinality(s \ {c[s]}) = Cardinality(s) - 1
    BY <1>1, <1>2, FS_RemoveElement
  <2>2. Cardinality(s) <= n + 1 /\ Cardinality(s) \in Nat
    BY <1>1 DEF Small
  <2> QED
    BY <1>1, <1>2, <2>1, <2>2 DEF Small
<1>3. D \subseteq E
  BY <1>1, FS_Subset, FS_CardinalityType DEF Small
<1>4. \A s \in D : g[s] \in V
  BY DEF Folds
<1>5. \A s \in D : h[s] = g[s]
  BY <1>3 DEF Folds
<1>6. h \in [E -> V]
  <2>1. ASSUME NEW s \in E
        PROVE  (IF s = {} THEN base ELSE G[<<c[s], g[s \ {c[s]}]>>]) \in V
    BY <1>2, <1>4
  <2> QED
    BY <2>1
<1>7. ASSUME NEW s \in E
      PROVE  h[s] = IF s = {} THEN base ELSE G[<<c[s], h[s \ {c[s]}]>>]
  BY <1>2, <1>5
<1> QED
  BY <1>6, <1>7 DEF Folds

\* A fold is defined on all subsets of a finite set.
LEMMA FoldExists ==
  ASSUME NEW V, NEW S, IsFiniteSet(S), NEW base \in V, NEW G \in [S \X V -> V],
         NEW c, \A s \in SUBSET S : s # {} => c[s] \in s
  PROVE  \E g : Folds(g, SUBSET S, V, G, c, base)
<1> DEFINE Bad == {n \in Nat : ~ \E g : Folds(g, Small(S, n), V, G, c, base)}
<1>1. Bad = {}
  <2> SUFFICES ASSUME Bad # {}
               PROVE  FALSE
    OBVIOUS
  <2>1. PICK n \in Bad : \A m \in Bad : n <= m
    BY LeastNatural
  <2>2. n # 0
    <3>1. Small(S, 0) = {{}}
      BY FS_Subset, FS_EmptySet, FS_CardinalityType DEF Small
    <3> DEFINE g == [s \in {{}} |-> base]
    <3>2. Folds(g, {{}}, V, G, c, base)
      BY DEF Folds
    <3> QED
      BY <3>1, <3>2
  <2>3. n - 1 \in Nat /\ n - 1 \notin Bad /\ n - 1 + 1 = n
    BY <2>1, <2>2
  <2>4. PICK g : Folds(g, Small(S, n - 1), V, G, c, base)
    BY <2>3
  <2>5. \E h : Folds(h, Small(S, n - 1 + 1), V, G, c, base)
    BY <2>3, <2>4, FoldStep
  <2> QED
    BY <2>3, <2>5
<1>2. Small(S, Cardinality(S)) = SUBSET S
  BY FS_Subset DEF Small
<1>3. Cardinality(S) \in Nat
  BY FS_CardinalityType
<1>4. \E g : Folds(g, Small(S, Cardinality(S)), V, G, c, base)
  BY <1>1, <1>3
<1> QED
  BY <1>2, <1>4

\* A sum of integers is an integer.
LEMMA SumType ==
  ASSUME NEW S, IsFiniteSet(S), NEW f, \A z \in S : f[z] \in Int
  PROVE  SumFunctionOnSet(f, S) \in Int
<1> DEFINE c == [s \in SUBSET S |-> CHOOSE z \in s : TRUE]
           G == [p \in S \X Int |-> f[p[1]] + p[2]]
           iter == CHOOSE g : g = [s \in SUBSET S |->
                      IF s = {} THEN 0 ELSE f[CHOOSE z \in s : TRUE] + g[s \ {CHOOSE z \in s : TRUE}]]
<1>1. G \in [S \X Int -> Int]
  OBVIOUS
<1>2. \A s \in SUBSET S : s # {} => c[s] \in s
  OBVIOUS
<1>3. \E g : Folds(g, SUBSET S, Int, G, c, 0)
  <2> HIDE DEF c, G
  <2>1. 0 \in Int
    OBVIOUS
  <2> QED
    BY <1>1, <1>2, <2>1, FoldExists, Zenon
<1>4. PICK g : Folds(g, SUBSET S, Int, G, c, 0)
  BY <1>3
<1>5. \A s \in SUBSET S : s # {} => G[<<c[s], g[s \ {c[s]}]>>] = f[CHOOSE z \in s : TRUE] + g[s \ {CHOOSE z \in s : TRUE}]
  <2> TAKE s \in SUBSET S
  <2> HAVE s # {}
  <2>1. c[s] \in S /\ s \ {c[s]} \in SUBSET S /\ c[s] = CHOOSE z \in s : TRUE
    BY <1>2
  <2>2. g[s \ {c[s]}] \in Int
    BY <1>4, <2>1 DEF Folds
  <2>3. G[<<c[s], g[s \ {c[s]}]>>] = f[c[s]] + g[s \ {c[s]}]
    BY <2>1, <2>2
  <2> QED
    BY <2>1, <2>3
<1>6. g = [s \in SUBSET S |->
                      IF s = {} THEN 0 ELSE f[CHOOSE z \in s : TRUE] + g[s \ {CHOOSE z \in s : TRUE}]]
  BY <1>4, <1>5 DEF Folds
<1>7. iter = [s \in SUBSET S |->
                      IF s = {} THEN 0 ELSE f[CHOOSE z \in s : TRUE] + iter[s \ {CHOOSE z \in s : TRUE}]]
  BY <1>6
<1>8. SumFunctionOnSet(f, S) = iter[S]
  BY DEF SumFunctionOnSet, FoldFunctionOnSet, MapThenFoldSet
<1>9. \A s \in SUBSET S : iter[s] \in Int
  <2> HIDE DEF iter
  <2> DEFINE Bad == {n \in Nat : \E s \in SUBSET S : Cardinality(s) = n /\ iter[s] \notin Int}
  <2>1. Bad = {}
    <3> SUFFICES ASSUME Bad # {}
                 PROVE  FALSE
      OBVIOUS
    <3>1. PICK n \in Bad : \A m \in Bad : n <= m
      BY LeastNatural
    <3>2. PICK s \in SUBSET S : Cardinality(s) = n /\ iter[s] \notin Int
      OBVIOUS
    <3>3. s # {}
      BY <1>7, <3>2
    <3> DEFINE z == CHOOSE y \in s : TRUE
    <3>4. z \in s
      BY <3>3
    <3> HIDE DEF z
    <3>5. IsFiniteSet(s) /\ Cardinality(s \ {z}) = n - 1 /\ n \in Nat
      BY <3>2, <3>4, FS_Subset, FS_RemoveElement
    <3>6. n - 1 \in Nat
      BY <3>5, FS_RemoveElement, FS_CardinalityType
    <3>7. iter[s \ {z}] \in Int
      BY <3>1, <3>2, <3>5, <3>6
    <3>8. iter[s] = f[z] + iter[s \ {z}]
      BY <1>7, <3>3 DEF z
    <3> QED
      BY <3>2, <3>4, <3>7, <3>8
  <2> QED
    BY <2>1, FS_Subset, FS_CardinalityType
<1> QED
  BY <1>8, <1>9

-----------------------------------------------------------------------------
(* The busiest, the idlest, and their slots *)

\* A finite set of numbers with loads has a first one of the greatest load.
LEMMA Greatest ==
  ASSUME NEW S \in SUBSET Int, IsFiniteSet(S), S # {}, NEW f, \A z \in S : f[z] \in Int
  PROVE  \E z \in S : \A y \in S : f[z] > f[y] \/ (f[z] = f[y] /\ z <= y)
<1> DEFINE Best(U, z) == \A y \in U : f[z] > f[y] \/ (f[z] = f[y] /\ z <= y)
           Bad == {n \in Nat : \E U \in SUBSET S : U # {} /\ Cardinality(U) = n /\ ~ \E z \in U : Best(U, z)}
<1>1. Bad = {}
  <2> SUFFICES ASSUME Bad # {}
               PROVE  FALSE
    OBVIOUS
  <2>1. PICK n \in Bad : \A m \in Bad : n <= m
    BY LeastNatural
  <2>2. PICK U \in SUBSET S : U # {} /\ Cardinality(U) = n /\ ~ \E z \in U : Best(U, z)
    OBVIOUS
  <2>3. PICK u \in U : TRUE
    BY <2>2
  <2>4. /\ IsFiniteSet(U) /\ IsFiniteSet(U \ {u}) /\ Cardinality(U \ {u}) = n - 1
        /\ Cardinality(U \ {u}) \in Nat /\ n \in Nat
    BY <2>2, <2>3, FS_Subset, FS_RemoveElement, FS_CardinalityType
  <2>5. \A z \in U : z \in Int /\ f[z] \in Int
    OBVIOUS
  <2>6. U \ {u} # {}
    <3> SUFFICES ASSUME U = {u}
                 PROVE  FALSE
      BY <2>3
    <3> QED
      BY <2>2, <2>3, <2>5
  <2>7. \E z \in U \ {u} : Best(U \ {u}, z)
    <3>1. n - 1 \in Nat /\ n - 1 \notin Bad
      BY <2>1, <2>4
    <3>2. U \ {u} \in SUBSET S
      OBVIOUS
    <3> QED
      BY <2>4, <2>6, <3>1, <3>2
  <2>8. PICK z \in U \ {u} : Best(U \ {u}, z)
    BY <2>7
  <2>9. Best(U, z) \/ Best(U, u)
    BY <2>3, <2>5, <2>8
  <2> QED
    BY <2>2, <2>3, <2>8, <2>9
<1>2. Cardinality(S) \in Nat
  BY FS_CardinalityType
<1> QED
  BY <1>1, <1>2

\* The first greatest element of a finite set under integers is an element of it.
LEMMA FirstMaxType ==
  ASSUME NEW S \in SUBSET Int, IsFiniteSet(S), S # {}, NEW f, \A z \in S : f[z] \in Int
  PROVE  FirstMax(S, f) \in S
<1>1. \E z \in S : \A y \in S : f[z] > f[y] \/ (f[z] = f[y] /\ z <= y)
  BY Greatest
<1> QED
  BY <1>1 DEF FirstMax

\* The first least element of a finite set under integers is an element of it.
LEMMA FirstMinType ==
  ASSUME NEW S \in SUBSET Int, IsFiniteSet(S), S # {}, NEW f, \A z \in S : f[z] \in Int
  PROVE  FirstMin(S, f) \in S
<1> DEFINE h == [z \in S |-> -f[z]]
<1>1. \E z \in S : \A y \in S : h[z] > h[y] \/ (h[z] = h[y] /\ z <= y)
  <2>1. \A z \in S : h[z] \in Int
    OBVIOUS
  <2> HIDE DEF h
  <2> QED
    BY <2>1, Greatest
<1>2. \E z \in S : \A y \in S : f[z] < f[y] \/ (f[z] = f[y] /\ z <= y)
  BY <1>1
<1> QED
  BY <1>2 DEF FirstMin

\* A group divides its slots evenly: every slot has its rank, and every rank a slot.
LEMMA Group ==
  ASSUME args \in Configs
  PROVE  /\ args.ep \in Nat \ {0} /\ args.experts \in Nat \ {0} /\ args.slots \in Nat \ {0}
         /\ args.experts <= args.slots
         /\ Capacity \in Nat \ {0} /\ args.slots = args.ep * Capacity
<1>1. /\ args.ep \in Nat \ {0} /\ args.experts \in Nat \ {0} /\ args.slots \in Nat \ {0}
      /\ args.experts <= args.slots /\ args.slots % args.ep = 0
  BY ConfigsAssumption
<1>2. \A n \in Nat \ {0}, k \in Nat \ {0} : n % k = 0 => n \div k \in Nat \ {0} /\ n = k * (n \div k)
  OBVIOUS
<1> QED
  BY <1>1, <1>2 DEF Capacity

\* The sets of ranks, slots and experts, none of which is empty.
LEMMA SlotFacts ==
  ASSUME args \in Configs
  PROVE  /\ Ranks \in SUBSET Int /\ IsFiniteSet(Ranks) /\ Ranks # {}
         /\ Slots \in SUBSET Int /\ IsFiniteSet(Slots) /\ Slots # {}
         /\ Experts \in SUBSET Slots
         /\ \A g \in Slots : RankOf(g) \in Ranks
         /\ \A r \in Ranks : SlotsOf(r) # {}
         /\ ~Exchange => Redundant # {}
<1>1. /\ args.ep \in Nat \ {0} /\ args.experts \in Nat \ {0} /\ args.slots \in Nat \ {0}
      /\ args.experts <= args.slots
      /\ Capacity \in Nat \ {0} /\ args.slots = args.ep * Capacity
  BY Group
<1>2. /\ Ranks \in SUBSET Int /\ IsFiniteSet(Ranks) /\ Ranks # {}
      /\ Slots \in SUBSET Int /\ IsFiniteSet(Slots) /\ Slots # {}
      /\ Experts \in SUBSET Slots
  <2>1. \A n \in Nat \ {0} : 0 .. n - 1 \in SUBSET Int /\ IsFiniteSet(0 .. n - 1) /\ 0 \in 0 .. n - 1
    BY FS_Interval
  <2>2. Ranks \in SUBSET Int /\ IsFiniteSet(Ranks) /\ Ranks # {}
    BY <1>1, <2>1 DEF Ranks
  <2>3. Slots \in SUBSET Int /\ IsFiniteSet(Slots) /\ Slots # {}
    BY <1>1, <2>1 DEF Slots
  <2>4. Experts \in SUBSET Slots
    BY <1>1 DEF Slots, Experts
  <2> QED
    BY <2>2, <2>3, <2>4
<1>3. \A n, k, c \in Nat : c # 0 /\ n < k * c => n \div c \in 0 .. k - 1
  OBVIOUS
<1>4. \A k, c \in Nat : c # 0 => (k * c) \div c = k
  OBVIOUS
<1>5. \A k, m, c \in Nat : c # 0 /\ k < m => k * c < m * c
  OBVIOUS
<1>6. \A g \in Slots : RankOf(g) \in Ranks
  BY <1>1, <1>3 DEF RankOf, Slots, Ranks
<1>7. ASSUME NEW r \in Ranks
      PROVE  r * Capacity \in SlotsOf(r)
  <2>1. r \in Nat /\ r * Capacity \in Nat /\ r * Capacity < args.ep * Capacity
    BY <1>1, <1>5 DEF Ranks
  <2> QED
    BY <1>1, <1>4, <2>1 DEF SlotsOf, Slots, RankOf
<1>8. ~Exchange => args.experts \in Redundant
  BY <1>1 DEF Exchange, Redundant, Slots
<1> QED
  BY <1>2, <1>6, <1>7, <1>8

-----------------------------------------------------------------------------
(* Plans *)

\* What the ranks have in common: all their tables but the inverse mapping.
Shared(p) == [mapping |-> p.mapping, places |-> p.places, redundant |-> p.redundant]

PlanFrom(t, n) ==
  IF SumFunction(n) = 0 THEN <<>>
  ELSE IF Exchange THEN PlanLayer(t, n)
  ELSE PlanLayerReplace(t, n)

\* The moves that tables t allow: between two ranks, into a redundant slot if there are any.
Apart(m) == RankOf(m[1]) # RankOf(m[2]) /\ (~Exchange => m[2] \in Redundant)
Moves(t) == {Move(t, m[1], m[2]) : m \in {q \in Slots \X Slots : Apart(q)}}

GoodPlan(t, plan) ==
  /\ plan \in Seq(Moves(t))
  /\ Len(plan) <= IF Exchange THEN 1 ELSE 3

\* A rank plans from what it has in common with the others.
LEMMA PlanShared ==
  ASSUME NEW r
  PROVE  Plan(r) = PlanFrom(Shared(planner[r]), stats[r])
<1> DEFINE p == planner[r]
           t == Shared(p)
<1>1. p.mapping = t.mapping /\ p.redundant = t.redundant
  BY DEF Shared
<1> HIDE DEF p, t
<1>2. \A from, to : Move(p, from, to) = Move(t, from, to)
  BY <1>1 DEF Move
<1>3. \A n : PlanLayer(p, n) = PlanLayer(t, n)
  BY <1>1, <1>2 DEF PlanLayer
<1>4. \A total, plan : PlanRound(p, total, plan) = PlanRound(t, total, plan)
  BY <1>2 DEF PlanRound
<1>5. \A n : PlanLayerReplace(p, n) = PlanLayerReplace(t, n)
  BY <1>4 DEF PlanLayerReplace
<1> QED
  BY <1>3, <1>5 DEF Plan, PlanFrom, p, t

\* A planned move between slots of different ranks, to a redundant one when there are any.
LEMMA MoveAllowed ==
  ASSUME NEW t, NEW from \in Slots, NEW to \in Slots, RankOf(from) # RankOf(to),
         ~Exchange => to \in Redundant
  PROVE  Move(t, from, to) \in Moves(t)
<1> DEFINE m == <<from, to>>
<1>1. m \in {q \in Slots \X Slots : Apart(q)}
  BY DEF Apart
<1>2. Move(t, from, to) = Move(t, m[1], m[2])
  OBVIOUS
<1> HIDE DEF m
<1> QED
  BY <1>1, <1>2 DEF Moves

\* A move, field by field.
LEMMA MoveFacts ==
  ASSUME args \in Configs, NEW t, NEW a \in Moves(t)
  PROVE  /\ a.from \in Slots /\ a.to \in Slots /\ RankOf(a.from) # RankOf(a.to)
         /\ RankOf(a.from) \in Ranks /\ RankOf(a.to) \in Ranks
         /\ a.fromExpert = t.mapping[a.from]
         /\ Exchange => a.toExpert = t.mapping[a.to]
         /\ ~Exchange => a.to \in Redundant
<1>1. PICK m \in {q \in Slots \X Slots : Apart(q)} : a = Move(t, m[1], m[2])
  BY DEF Moves
<1>2. m[1] \in Slots /\ m[2] \in Slots /\ RankOf(m[1]) # RankOf(m[2]) /\ (~Exchange => m[2] \in Redundant)
  BY <1>1 DEF Apart
<1>3. /\ a.from = m[1] /\ a.to = m[2] /\ a.fromExpert = t.mapping[m[1]]
      /\ Exchange => a.toExpert = t.mapping[m[2]]
  BY <1>1 DEF Move
<1> QED
  BY <1>2, <1>3, SlotFacts

\* One exchange is planned at most, of a busy rank's slot with an idle one's.
LEMMA PlanLayerGood ==
  ASSUME args \in Configs, Exchange, NEW t, t.mapping \in [Slots -> Experts], NEW n \in [Slots -> Int]
  PROVE  GoodPlan(t, PlanLayer(t, n))
<1> DEFINE count == [g \in Slots |-> n[t.mapping[g]]]
           load == [r \in Ranks |-> SumFunctionOnSet(count, SlotsOf(r))]
           donor == FirstMax(Ranks, load)
           receiver == FirstMin(Ranks, load)
           from == FirstMax(SlotsOf(donor), count)
           to == FirstMin(SlotsOf(receiver), count)
<1>1. \A g \in Slots : count[g] \in Int
  BY SlotFacts
<1>2. \A r \in Ranks : SlotsOf(r) \in SUBSET Slots /\ SlotsOf(r) \in SUBSET Int /\ IsFiniteSet(SlotsOf(r))
  BY SlotFacts, FS_Subset DEF SlotsOf
<1>3. \A r \in Ranks : load[r] \in Int
  <2> HIDE DEF count
  <2> QED
    BY <1>1, <1>2, SumType
<1>4. donor \in Ranks
  <2> HIDE DEF load
  <2> QED
    BY <1>3, SlotFacts, FirstMaxType
<1>5. receiver \in Ranks
  <2> HIDE DEF load
  <2> QED
    BY <1>3, SlotFacts, FirstMinType
<1>6. from \in SlotsOf(donor) /\ to \in SlotsOf(receiver)
  <2> HIDE DEF count, donor, receiver
  <2>1. SlotsOf(donor) # {} /\ SlotsOf(receiver) # {}
    BY <1>4, <1>5, SlotFacts
  <2> QED
    BY <1>1, <1>2, <1>4, <1>5, <2>1, FirstMaxType, FirstMinType
<1>7. PlanLayer(t, n) = IF Exceeds(load[donor], SumFunction(n)) /\ donor # receiver
                        THEN <<Move(t, from, to)>> ELSE <<>>
  BY DEF PlanLayer
<1> HIDE DEF count, load, donor, receiver, from, to
<1>8. donor # receiver => Move(t, from, to) \in Moves(t)
  <2>1. from \in Slots /\ to \in Slots /\ RankOf(from) = donor /\ RankOf(to) = receiver
    BY <1>6 DEF SlotsOf
  <2> QED
    BY <2>1, MoveAllowed
<1> QED
  BY <1>7, <1>8 DEF GoodPlan

GoodRound(t, plan, k) ==
  /\ plan.acts \in Seq(Moves(t)) /\ Len(plan.acts) <= k
  /\ plan.count \in [Slots -> Int]
  /\ plan.loads \in [Ranks -> Int]

\* One more round plans one move more at most, into a redundant slot of another rank.
LEMMA PlanRoundGood ==
  ASSUME args \in Configs, ~Exchange, NEW t, NEW total, NEW k \in Nat, NEW plan, GoodRound(t, plan, k)
  PROVE  GoodRound(t, PlanRound(t, total, plan), k + 1)
<1> DEFINE donor == FirstMax(Ranks, plan.loads)
           to == FirstMin(Redundant, plan.count)
           from == FirstMax(SlotsOf(donor), plan.count)
           half == plan.count[from] \div 2
<1>1. \A g \in Slots : plan.count[g] \in Int
  BY DEF GoodRound
<1>2. \A r \in Ranks : plan.loads[r] \in Int
  BY DEF GoodRound
<1>3. donor \in Ranks
  BY <1>2, SlotFacts, FirstMaxType
<1>4. to \in Redundant
  <2>1. Redundant \in SUBSET Slots /\ Redundant \in SUBSET Int /\ IsFiniteSet(Redundant) /\ Redundant # {}
    BY SlotFacts, FS_Subset DEF Redundant
  <2> QED
    BY <1>1, <2>1, FirstMinType
<1>5. from \in SlotsOf(donor)
  <2> HIDE DEF donor
  <2>1. SlotsOf(donor) \in SUBSET Slots /\ SlotsOf(donor) \in SUBSET Int /\ IsFiniteSet(SlotsOf(donor))
    BY SlotFacts, FS_Subset DEF SlotsOf
  <2>2. SlotsOf(donor) # {}
    BY <1>3, SlotFacts
  <2> QED
    BY <1>1, <2>1, <2>2, FirstMaxType
<1>6. PlanRound(t, total, plan) =
        IF ~Reaches(plan.loads[donor], total) \/ donor = RankOf(to) THEN plan
        ELSE [acts |-> Append(plan.acts, Move(t, from, to)),
              loads |-> [plan.loads EXCEPT ![donor] = @ - half,
                                           ![RankOf(to)] = @ + half - plan.count[to]],
              count |-> [plan.count EXCEPT ![from] = @ - half, ![to] = half]]
  BY DEF PlanRound
<1>7. from \in Slots /\ to \in Slots /\ RankOf(from) = donor /\ RankOf(to) \in Ranks
  BY <1>4, <1>5, SlotFacts DEF SlotsOf, Redundant
<1> HIDE DEF donor, to, from
<1>8. half \in Int
  BY <1>1, <1>7
<1> HIDE DEF half
<1>9. donor # RankOf(to) => Move(t, from, to) \in Moves(t)
  BY <1>4, <1>7, MoveAllowed
<1>10. [plan.loads EXCEPT ![donor] = @ - half, ![RankOf(to)] = @ + half - plan.count[to]] \in [Ranks -> Int]
  BY <1>1, <1>2, <1>3, <1>7, <1>8 DEF GoodRound
<1>11. [plan.count EXCEPT ![from] = @ - half, ![to] = half] \in [Slots -> Int]
  BY <1>1, <1>7, <1>8 DEF GoodRound
<1>12. CASE ~Reaches(plan.loads[donor], total) \/ donor = RankOf(to)
  BY <1>6, <1>12 DEF GoodRound
<1>13. CASE ~(~Reaches(plan.loads[donor], total) \/ donor = RankOf(to))
  <2>1. /\ Append(plan.acts, Move(t, from, to)) \in Seq(Moves(t))
        /\ Len(Append(plan.acts, Move(t, from, to))) <= k + 1
    BY <1>9, <1>13 DEF GoodRound
  <2>2. /\ PlanRound(t, total, plan).acts = Append(plan.acts, Move(t, from, to))
        /\ PlanRound(t, total, plan).loads = [plan.loads EXCEPT ![donor] = @ - half,
                                             ![RankOf(to)] = @ + half - plan.count[to]]
        /\ PlanRound(t, total, plan).count = [plan.count EXCEPT ![from] = @ - half, ![to] = half]
    BY <1>6, <1>13
  <2> QED
    BY <1>10, <1>11, <2>1, <2>2 DEF GoodRound
<1> QED
  BY <1>12, <1>13

\* Whatever the counts, the plan consists of moves that the tables allow.
LEMMA PlanGood ==
  ASSUME args \in Configs, NEW t, Exchange => t.mapping \in [Slots -> Experts], NEW n \in [Slots -> Int]
  PROVE  GoodPlan(t, PlanFrom(t, n))
<1>1. GoodPlan(t, <<>>)
  BY DEF GoodPlan
<1>2. ASSUME ~Exchange
      PROVE  GoodPlan(t, PlanLayerReplace(t, n))
  <2> DEFINE total == SumFunction(n)
             start == [acts |-> <<>>, count |-> n, loads |-> [r \in Ranks |-> SumFunctionOnSet(n, SlotsOf(r))]]
             first == PlanRound(t, total, start)
             second == PlanRound(t, total, first)
  <2>1. GoodRound(t, start, 0)
    <3>1. ASSUME NEW r \in Ranks
          PROVE  SumFunctionOnSet(n, SlotsOf(r)) \in Int
      <4>1. SlotsOf(r) \in SUBSET Slots /\ IsFiniteSet(SlotsOf(r))
        BY SlotFacts, FS_Subset DEF SlotsOf
      <4>2. \A g \in SlotsOf(r) : n[g] \in Int
        BY <4>1
      <4> QED
        BY <4>1, <4>2, SumType
    <3> QED
      BY <3>1 DEF GoodRound
  <2> HIDE DEF start, total
  <2>2. GoodRound(t, first, 1)
    BY <1>2, <2>1, PlanRoundGood
  <2> HIDE DEF first
  <2>3. GoodRound(t, second, 2)
    BY <1>2, <2>2, PlanRoundGood
  <2> HIDE DEF second
  <2>4. GoodRound(t, PlanRound(t, total, second), 3)
    BY <1>2, <2>3, PlanRoundGood
  <2>5. PlanLayerReplace(t, n) = PlanRound(t, total, second).acts
    BY DEF PlanLayerReplace, total, start, first, second
  <2> QED
    BY <1>2, <2>4, <2>5 DEF GoodRound, GoodPlan
<1> QED
  BY <1>1, <1>2, PlanLayerGood DEF PlanFrom

-----------------------------------------------------------------------------
(* Applying a plan to the tables *)

IsTables(p) ==
  p = [mapping |-> p.mapping, inv |-> p.inv, places |-> p.places, redundant |-> p.redundant]

Applying(r, p, a) == IF Exchange THEN Exchanged(p, a) ELSE Replaced(p, r, a)

\* What a move makes of the tables that ranks have in common.
SharedStep(t, a) ==
  Shared(Applying(0, [mapping |-> t.mapping, inv |-> <<>>, places |-> t.places, redundant |-> t.redundant], a))

SharedAfter(t, plan) ==
  LET one == SharedStep(t, plan[1])
      two == SharedStep(one, plan[2])
  IN  IF Len(plan) = 0 THEN t ELSE IF Len(plan) = 1 THEN one ELSE IF Len(plan) = 2 THEN two
      ELSE SharedStep(two, plan[3])

\* A move changes the common tables of every rank alike.
LEMMA ApplyingShared ==
  ASSUME NEW r, NEW p, IsTables(p), NEW a
  PROVE  IsTables(Applying(r, p, a)) /\ Shared(Applying(r, p, a)) = SharedStep(Shared(p), a)
<1> DEFINE t == Shared(p)
           q == [mapping |-> t.mapping, inv |-> <<>>, places |-> t.places, redundant |-> t.redundant]
<1>1. IsTables(q)
  BY DEF IsTables
<1>2. q.mapping = p.mapping /\ q.places = p.places /\ q.redundant = p.redundant
  BY DEF Shared
<1>3. SharedStep(t, a) = Shared(Applying(0, q, a))
  BY DEF SharedStep
<1> HIDE DEF q, t
<1>4. CASE Exchange
  <2>1. /\ Applying(r, p, a) = Exchanged(p, a)
        /\ Applying(0, q, a) = Exchanged(q, a)
    BY <1>4 DEF Applying
  <2>2. IsTables(Exchanged(p, a))
    BY DEF IsTables, Exchanged
  <2>3. Shared(Exchanged(p, a)) = Shared(Exchanged(q, a))
    BY <1>2 DEF Shared, Exchanged
  <2> QED
    BY <1>3, <2>1, <2>2, <2>3 DEF t
<1>5. CASE ~Exchange
  <2>1. /\ Applying(r, p, a) = Replaced(p, r, a)
        /\ Applying(0, q, a) = Replaced(q, 0, a)
    BY <1>5 DEF Applying
  <2>2. IsTables(Replaced(p, r, a))
    BY DEF IsTables, Replaced
  <2>3. Shared(Replaced(p, r, a)) = Shared(Replaced(q, 0, a))
    BY <1>2 DEF Shared, Replaced
  <2> QED
    BY <1>3, <2>1, <2>2, <2>3 DEF t
<1> QED
  BY <1>4, <1>5

\* The domain of a sequence of at most three elements.
LEMMA ShortSeq ==
  ASSUME NEW T, NEW s \in Seq(T), Len(s) <= 3
  PROVE  DOMAIN s = 1 .. Len(s) /\ Len(s) \in 0 .. 3
<1>1. Len(s) \in Nat /\ DOMAIN s = 1 .. Len(s)
  BY LenProperties
<1>2. \A n \in Nat : n <= 3 => n \in 0 .. 3
  OBVIOUS
<1> QED
  BY <1>1, <1>2

\* The greatest of some of the indices of a plan is one of them.
LEMMA MaxOfThree ==
  ASSUME NEW s \in SUBSET (1 .. 3), s # {}
  PROVE  Max(s) \in s /\ \A y \in s : y <= Max(s)
<1>1. \E z \in s : \A y \in s : z >= y
  <2>1. CASE 3 \in s
    BY <2>1
  <2>2. CASE 3 \notin s /\ 2 \in s
    BY <2>2
  <2>3. CASE 3 \notin s /\ 2 \notin s /\ 1 \in s
    BY <2>3
  <2>4. \A y \in 1 .. 3 : y = 1 \/ y = 2 \/ y = 3
    OBVIOUS
  <2>5. 3 \in s \/ 2 \in s \/ 1 \in s
    BY <2>4
  <2> QED
    BY <2>1, <2>2, <2>3, <2>5
<1> QED
  BY <1>1 DEF Max

\* The greatest of the first indices is the last of them.
LEMMA MaxOfFirst ==
  Max({1}) = 1 /\ Max({1, 2}) = 2 /\ Max({1, 2, 3}) = 3
<1>1. {1} \in SUBSET (1 .. 3) /\ {1, 2} \in SUBSET (1 .. 3) /\ {1, 2, 3} \in SUBSET (1 .. 3)
  OBVIOUS
<1>2. Max({1}) \in {1}
  BY <1>1, MaxOfThree
<1>3. Max({1, 2}) \in {1, 2} /\ 2 <= Max({1, 2})
  BY <1>1, MaxOfThree
<1>4. Max({1, 2, 3}) \in {1, 2, 3} /\ 3 <= Max({1, 2, 3})
  BY <1>1, MaxOfThree
<1> QED
  BY <1>2, <1>3, <1>4

\* The fold over a plan of at most three moves, written out.
LEMMA AppliedIs ==
  ASSUME NEW r, NEW T, pending[r] \in Seq(T), Len(pending[r]) <= 3
  PROVE  LET plan == pending[r]
             one == Applying(r, planner[r], plan[1])
             two == Applying(r, one, plan[2])
             three == Applying(r, two, plan[3])
         IN  /\ Len(plan) = 0 => Applied(r) = planner[r]
             /\ Len(plan) = 1 => Applied(r) = one
             /\ Len(plan) = 2 => Applied(r) = two
             /\ Len(plan) = 3 => Applied(r) = three
<1> DEFINE plan == pending[r]
           p == planner[r]
           D == DOMAIN plan
           base(s) == IF s = {} THEN p ELSE p
           lev1(s) == IF s = {} THEN p ELSE Applying(r, base(s \ {Max(s)}), plan[Max(s)])
           lev2(s) == IF s = {} THEN p ELSE Applying(r, lev1(s \ {Max(s)}), plan[Max(s)])
           lev3(s) == IF s = {} THEN p ELSE Applying(r, lev2(s \ {Max(s)}), plan[Max(s)])
           Eqn(g) == g = [s \in SUBSET D |-> IF s = {} THEN p
                                             ELSE Applying(r, g[s \ {Max(s)}], plan[Max(s)])]
           iter == CHOOSE g : Eqn(g)
           g3 == [s \in SUBSET D |-> lev3(s)]
<1>1. D = 1 .. Len(plan) /\ Len(plan) \in 0 .. 3
  BY ShortSeq
<1>2. ASSUME NEW s \in SUBSET (1 .. 3), s # {}
      PROVE  Max(s) \in s /\ \A y \in s : y <= Max(s)
  BY <1>2, MaxOfThree
<1>3. \A s \in SUBSET D : LET u == s \ {Max(s)}
                              w == u \ {Max(u)}
                              z == w \ {Max(w)}
                          IN  s # {} => u \in SUBSET D /\ (u = {} \/ w = {} \/ z = {})
  <2> TAKE s \in SUBSET D
  <2> DEFINE u == s \ {Max(s)}
             w == u \ {Max(u)}
             z == w \ {Max(w)}
  <2>1. s \in SUBSET (1 .. 3) /\ u \in SUBSET (1 .. 3) /\ w \in SUBSET (1 .. 3)
    BY <1>1
  <2>2. /\ s # {} => Max(s) \in s
        /\ u # {} => Max(u) \in u
        /\ w # {} => Max(w) \in w
    BY <1>2, <2>1
  <2> HIDE DEF u, w, z
  <2>3. \A i, j, k : s \in SUBSET (1 .. 3) /\ i \in s /\ j \in s \ {i} /\ k \in (s \ {i}) \ {j}
                    => ((s \ {i}) \ {j}) \ {k} = {}
    BY <1>1
  <2>4. s # {} => u \in SUBSET D
    BY DEF u
  <2>5. s # {} /\ u # {} /\ w # {} => z = {}
    BY <2>1, <2>2, <2>3 DEF u, w, z
  <2> QED
    BY <2>4, <2>5 DEF u, w, z
<1>4. \A s \in SUBSET D : s # {} => lev3(s) = Applying(r, lev3(s \ {Max(s)}), plan[Max(s)])
  BY <1>3
<1>5. Eqn(g3)
  BY <1>3, <1>4
<1>6. Eqn(iter)
  BY <1>5
<1>7. Applied(r) = iter[D]
  BY DEF Applied, FoldLeft, MapThenFoldSet, Applying
<1> HIDE DEF iter
<1>8. /\ iter[{}] = p
      /\ \A s \in SUBSET D : s # {} => iter[s] = Applying(r, iter[s \ {Max(s)}], plan[Max(s)])
  BY <1>6
<1>9. /\ {1} \ {1} = {} /\ {1, 2} \ {2} = {1} /\ {1, 2, 3} \ {3} = {1, 2}
      /\ {1} # {} /\ {1, 2} # {} /\ {1, 2, 3} # {}
  OBVIOUS
<1>10. 1 <= Len(plan) => iter[{1}] = Applying(r, p, plan[1])
  <2>1. 1 <= Len(plan) => {1} \in SUBSET D
    BY <1>1
  <2> QED
    BY <1>8, <1>9, <2>1, MaxOfFirst
<1>11. 2 <= Len(plan) => iter[{1, 2}] = Applying(r, iter[{1}], plan[2])
  <2>1. 2 <= Len(plan) => {1, 2} \in SUBSET D
    BY <1>1
  <2> QED
    BY <1>8, <1>9, <2>1, MaxOfFirst
<1>12. 3 <= Len(plan) => iter[{1, 2, 3}] = Applying(r, iter[{1, 2}], plan[3])
  <2>1. 3 <= Len(plan) => {1, 2, 3} \in SUBSET D
    BY <1>1
  <2> QED
    BY <1>8, <1>9, <2>1, MaxOfFirst
<1>13. /\ Len(plan) = 0 => D = {}
       /\ Len(plan) = 1 => D = {1}
       /\ Len(plan) = 2 => D = {1, 2}
       /\ Len(plan) = 3 => D = {1, 2, 3}
  <2>1. 1 .. 0 = {} /\ 1 .. 1 = {1} /\ 1 .. 2 = {1, 2} /\ 1 .. 3 = {1, 2, 3}
    OBVIOUS
  <2> QED
    BY <1>1, <2>1
<1> HIDE DEF D
<1>14. Len(plan) = 0 \/ Len(plan) = 1 \/ Len(plan) = 2 \/ Len(plan) = 3
  BY <1>1
<1>19. 1 <= 1 /\ 1 <= 2 /\ 2 <= 2 /\ 1 <= 3 /\ 2 <= 3 /\ 3 <= 3
  OBVIOUS
<1>15. Len(plan) = 0 => Applied(r) = p
  BY <1>7, <1>8, <1>13
<1>16. Len(plan) = 1 => Applied(r) = Applying(r, p, plan[1])
  BY <1>7, <1>10, <1>13, <1>19, Zenon
<1>17. Len(plan) = 2 => Applied(r) = Applying(r, Applying(r, p, plan[1]), plan[2])
  BY <1>7, <1>10, <1>11, <1>13, <1>19, Zenon
<1>20. Len(plan) = 3 => Applied(r) = Applying(r, Applying(r, Applying(r, p, plan[1]), plan[2]), plan[3])
  BY <1>7, <1>10, <1>11, <1>12, <1>13, <1>19, Zenon
<1> QED
  BY <1>15, <1>16, <1>17, <1>20 DEF plan, p

\* Whatever rank applies a plan, the tables in common become the same.
LEMMA AppliedShared ==
  ASSUME NEW r, IsTables(planner[r]), NEW T, pending[r] \in Seq(T), Len(pending[r]) <= 3
  PROVE  /\ IsTables(Applied(r))
         /\ Shared(Applied(r)) = SharedAfter(Shared(planner[r]), pending[r])
<1> DEFINE plan == pending[r]
           p == planner[r]
           one == Applying(r, p, plan[1])
           two == Applying(r, one, plan[2])
           three == Applying(r, two, plan[3])
<1>1. /\ Len(plan) = 0 => Applied(r) = p
      /\ Len(plan) = 1 => Applied(r) = one
      /\ Len(plan) = 2 => Applied(r) = two
      /\ Len(plan) = 3 => Applied(r) = three
  BY AppliedIs
<1>2. Len(plan) = 0 \/ Len(plan) = 1 \/ Len(plan) = 2 \/ Len(plan) = 3
  BY ShortSeq
<1> HIDE DEF three
<1>3. IsTables(one) /\ Shared(one) = SharedStep(Shared(p), plan[1])
  BY ApplyingShared
<1> HIDE DEF one
<1>4. IsTables(two) /\ Shared(two) = SharedStep(Shared(one), plan[2])
  BY <1>3, ApplyingShared
<1> HIDE DEF two
<1>5. IsTables(three) /\ Shared(three) = SharedStep(Shared(two), plan[3])
  BY <1>4, ApplyingShared DEF three
<1> HIDE DEF plan, p
<1>6. IsTables(p)
  BY DEF p
<1>7. IsTables(Applied(r)) /\ Shared(Applied(r)) = SharedAfter(Shared(p), plan)
  BY <1>1, <1>2, <1>3, <1>4, <1>5, <1>6 DEF SharedAfter
<1> QED
  BY <1>7 DEF p, plan

-----------------------------------------------------------------------------
(* Exchanges *)

\* In a group with as many slots as experts the tables of a rank tell the same.
Consistent(p) ==
  /\ p.mapping \in [Slots -> Experts] /\ p.inv \in [Experts -> Slots]
  /\ \A e \in Experts : p.mapping[p.inv[e]] = e
  /\ \A g \in Slots : p.inv[p.mapping[g]] = g
  /\ p.places = [e \in Experts |-> <<p.inv[e]>>]

Swapped(m, g, h) == [m EXCEPT ![g] = m[h], ![h] = m[g]]

\* The only slot of an expert taken from its list leaves none.
LEMMA WithoutOnly ==
  ASSUME NEW g
  PROVE  Without(<<g>>, g) = <<>>
<1> DEFINE k == [i \in 0 .. 1 |-> <<>>]
           Eqn(f) == f = [i \in 0 .. Len(<<g>>) |-> IF i = 0 THEN <<>>
                                                    ELSE IF <<g>>[i] = g THEN f[i - 1]
                                                    ELSE Append(f[i - 1], <<g>>[i])]
<1>1. Len(<<g>>) = 1 /\ <<g>>[1] = g
  OBVIOUS
<1>2. Eqn(k)
  <2>1. \A i \in 0 .. 1 : k[i] = IF i = 0 THEN <<>>
                                 ELSE IF <<g>>[i] = g THEN k[i - 1]
                                 ELSE Append(k[i - 1], <<g>>[i])
    BY <1>1
  <2> QED
    BY <1>1, <2>1
<1>3. \E f : Eqn(f)
  BY <1>2
<1> DEFINE kept == CHOOSE f : Eqn(f)
<1>4. Eqn(kept)
  <2> HIDE DEF Eqn
  <2> QED
    BY <1>3
<1>5. Without(<<g>>, g) = kept[1]
  BY <1>1 DEF Without
<1> HIDE DEF kept
<1>6. kept[0] = <<>>
  BY <1>1, <1>4
<1>7. kept[1] = kept[0]
  BY <1>1, <1>4
<1> QED
  BY <1>5, <1>6, <1>7

\* An exchange of two slots keeps the tables of a rank consistent.
LEMMA ExchangedConsistent ==
  ASSUME args \in Configs, Exchange, NEW p, Consistent(p), NEW a \in Moves(Shared(p))
  PROVE  /\ Consistent(Exchanged(p, a))
         /\ Exchanged(p, a).mapping = Swapped(p.mapping, a.from, a.to)
<1> DEFINE q == Exchanged(p, a)
<1>1. /\ a.from \in Slots /\ a.to \in Slots /\ a.from # a.to
      /\ a.fromExpert = p.mapping[a.from] /\ a.toExpert = p.mapping[a.to]
  BY MoveFacts DEF Shared
<1> DEFINE g == a.from
           h == a.to
           e == a.fromExpert
           d == a.toExpert
<1>2. e \in Experts /\ d \in Experts /\ e # d /\ p.inv[e] = g /\ p.inv[d] = h
  BY <1>1 DEF Consistent
<1>3. q.mapping = [p.mapping EXCEPT ![h] = e, ![g] = d]
  BY DEF Exchanged
<1>4. q.inv = [p.inv EXCEPT ![e] = IF @ = g THEN h ELSE @, ![d] = IF @ = h THEN g ELSE @]
  BY DEF Exchanged
<1>5. q.places = [p.places EXCEPT ![e] = Append(Without(@, g), h), ![d] = Append(Without(@, h), g)]
  BY DEF Exchanged
<1> HIDE DEF q, g, h, e, d
<1>6. g \in Slots /\ h \in Slots /\ g # h /\ e = p.mapping[g] /\ d = p.mapping[h]
  BY <1>1 DEF g, h, e, d
<1>7. q.mapping = Swapped(p.mapping, g, h)
  BY <1>3, <1>6 DEF Swapped, Consistent
<1>8. q.mapping \in [Slots -> Experts]
  BY <1>2, <1>3, <1>6 DEF Consistent
<1>9. q.inv = [p.inv EXCEPT ![e] = h, ![d] = g]
  BY <1>2, <1>4 DEF Consistent
<1>10. q.inv \in [Experts -> Slots]
  BY <1>2, <1>6, <1>9 DEF Consistent
<1>11. \A z \in Slots : q.mapping[z] = IF z = h THEN e ELSE IF z = g THEN d ELSE p.mapping[z]
  BY <1>3, <1>6 DEF Consistent
<1>12. \A z \in Experts : q.inv[z] = IF z = e THEN h ELSE IF z = d THEN g ELSE p.inv[z]
  BY <1>2, <1>9 DEF Consistent
<1>13. \A z \in Experts : q.mapping[q.inv[z]] = z
  BY <1>2, <1>6, <1>10, <1>11, <1>12 DEF Consistent
<1>14. \A z \in Slots : q.inv[q.mapping[z]] = z
  BY <1>2, <1>6, <1>8, <1>11, <1>12 DEF Consistent
<1>15. p.places[e] = <<g>> /\ p.places[d] = <<h>>
  BY <1>2 DEF Consistent
<1>16. Append(Without(p.places[e], g), h) = <<h>> /\ Append(Without(p.places[d], h), g) = <<g>>
  <2>1. Without(p.places[e], g) = <<>> /\ Without(p.places[d], h) = <<>>
    BY <1>15, WithoutOnly, Zenon
  <2>2. \A z : Append(<<>>, z) = <<z>>
    OBVIOUS
  <2> QED
    BY <2>1, <2>2, Zenon
<1>17. q.places = [p.places EXCEPT ![e] = <<h>>, ![d] = <<g>>]
  BY <1>2, <1>5, <1>16 DEF Consistent
<1>18. q.places = [z \in Experts |-> <<q.inv[z]>>]
  BY <1>2, <1>12, <1>17 DEF Consistent
<1> QED
  BY <1>7, <1>8, <1>10, <1>13, <1>14, <1>18 DEF Consistent, q, g, h

-----------------------------------------------------------------------------
(* The inductive invariant *)

Phases == {"forward", "aggregate", "plan", "commit"}

TypesInv ==
  /\ args \in Configs
  /\ pc \in [Ranks -> Phases]
  /\ weights = [g \in Slots |-> weights[g]]
  /\ planner = [r \in Ranks |-> planner[r]] /\ \A r \in Ranks : IsTables(planner[r])
  /\ stats \in [Ranks -> [Slots -> Int]]
  /\ counted \in [Slots -> Int]
  /\ locked \in [Ranks -> BOOLEAN]
  /\ pending = [r \in Ranks |-> pending[r]]
  /\ sent = [r \in Ranks |-> sent[r]]

\* The ranks enter the balancer together.
Together == \A r, k \in Ranks : pc[r] = "aggregate" => pc[k] = "aggregate"

\* The ranks have the same statistics, but for the reset and the unlocking by those that
\* have planned.
StatsInStep ==
  \A r, k \in Ranks :
    /\ (pc[r] = "plan" <=> pc[k] = "plan") => stats[r] = stats[k] /\ locked[r] = locked[k]
    /\ pc[r] = "plan" /\ pc[k] # "plan" =>
         IF warmup = Over THEN stats[k] = NoCounts /\ locked[k] = FALSE
         ELSE stats[k] = stats[r] /\ locked[k] = locked[r]

Parts(r, plan) == {i \in DOMAIN plan : HasRole(r, plan[i])}

\* What a plan leaves in a slot, from the weights w at the start of the round.
Landed(w, plan, g) ==
  LET r == RankOf(g)
      users == {i \in Parts(r, plan) : RoleSlot(r, plan[i]) = g}
      last == plan[Max(users)]
  IN  IF \A i \in users : ~Receives(r, plan[i]) THEN w[g]
      ELSE IF Receives(r, last) THEN w[RoleSlot(Peer(r, last), last)]
      ELSE Blank

\* Since the ranks last computed together they have applied, or are going to apply, one plan
\* to one set of tables t and one assignment w of weights.
Round(t, plan, w) ==
  /\ \A r \in Ranks :
       /\ Shared(planner[r]) = IF pc[r] = "forward" THEN SharedAfter(t, plan) ELSE t
       /\ pending[r] = IF pc[r] = "commit" THEN plan ELSE <<>>
       /\ pc[r] = "plan" => plan = IF warmup = Over THEN PlanFrom(t, stats[r]) ELSE <<>>
       /\ IF AtForward \/ pc[r] \in {"aggregate", "plan"} THEN sent[r] = <<>>
          ELSE /\ DOMAIN sent[r] = Parts(r, plan)
               /\ \A i \in Parts(r, plan) : sent[r][i] = w[RoleSlot(r, plan[i])]
  /\ \A g \in Slots : weights[g] = IF pc[RankOf(g)] = "forward" THEN Landed(w, plan, g) ELSE w[g]
  /\ GoodPlan(t, plan)
  /\ IF Exchange THEN w = t.mapping /\ w \in [Slots -> Experts] ELSE \A e \in Experts : w[e] = e

OneRound == \E t, plan, w : Round(t, plan, w)

TablesConsistent == Exchange => \A r \in Ranks : Consistent(planner[r])

IInv == TypesInv /\ Together /\ StatsInStep /\ OneRound /\ TablesConsistent

-----------------------------------------------------------------------------
(* Where the weights go *)

\* The moves of a plan.
LEMMA PlanMoves ==
  ASSUME NEW t, NEW plan, GoodPlan(t, plan)
  PROVE  /\ DOMAIN plan = 1 .. Len(plan) /\ Len(plan) \in 0 .. 3
         /\ Exchange => Len(plan) \in {0, 1}
         /\ \A i \in DOMAIN plan : plan[i] \in Moves(t)
<1>1. plan \in Seq(Moves(t)) /\ Len(plan) <= 3 /\ Len(plan) \in Nat
  BY LenProperties DEF GoodPlan
<1>2. DOMAIN plan = 1 .. Len(plan) /\ Len(plan) \in 0 .. 3
  BY <1>1, ShortSeq
<1>3. Exchange => Len(plan) <= 1
  BY DEF GoodPlan
<1>4. \A i \in DOMAIN plan : plan[i] \in Moves(t)
  BY <1>1, <1>2
<1> QED
  BY <1>1, <1>2, <1>3, <1>4

\* A rank with a part in a move has a peer in the group with a part in it too.
LEMMA PeerFacts ==
  ASSUME args \in Configs, NEW t, NEW plan, GoodPlan(t, plan), NEW r, NEW i \in Parts(r, plan)
  PROVE  Peer(r, plan[i]) \in Ranks /\ i \in Parts(Peer(r, plan[i]), plan)
<1>1. i \in DOMAIN plan /\ plan[i] \in Moves(t)
  BY PlanMoves DEF Parts
<1> QED
  BY <1>1, MoveFacts DEF Parts, HasRole, Peer

\* Without a plan the weights stay.
LEMMA LandedNone ==
  ASSUME NEW w, NEW g
  PROVE  Landed(w, <<>>, g) = w[g]
<1>1. \A r : Parts(r, <<>>) = {}
  BY DEF Parts
<1> QED
  BY <1>1 DEF Landed

\* A slot that is not redundant keeps its expert.
LEMMA LandedHome ==
  ASSUME args \in Configs, ~Exchange, NEW t, NEW plan, GoodPlan(t, plan), NEW w, NEW e \in Experts
  PROVE  Landed(w, plan, e) = w[e]
<1> DEFINE r == RankOf(e)
           users == {i \in Parts(r, plan) : RoleSlot(r, plan[i]) = e}
<1>1. ASSUME NEW i \in users
      PROVE  ~Receives(r, plan[i])
  <2>1. plan[i] \in Moves(t) /\ HasRole(r, plan[i]) /\ RoleSlot(r, plan[i]) = e
    BY PlanMoves DEF Parts
  <2>2. plan[i].to \in Redundant /\ RankOf(plan[i].from) # RankOf(plan[i].to)
    BY <2>1, MoveFacts
  <2>3. plan[i].to # e
    BY <2>2, Group DEF Redundant, Experts, Slots
  <2> QED
    BY <2>1, <2>2, <2>3 DEF Receives, HasRole, RoleSlot
<1> QED
  BY <1>1 DEF Landed

\* An exchange swaps the weights of its slots.
LEMMA LandedSwap ==
  ASSUME args \in Configs, Exchange, NEW t, NEW plan, GoodPlan(t, plan), Len(plan) = 1,
         NEW w, NEW g \in Slots
  PROVE  Landed(w, plan, g) = IF g = plan[1].from THEN w[plan[1].to]
                              ELSE IF g = plan[1].to THEN w[plan[1].from] ELSE w[g]
<1> DEFINE a == plan[1]
           r == RankOf(g)
           users == {i \in Parts(r, plan) : RoleSlot(r, plan[i]) = g}
<1>1. DOMAIN plan = {1}
  BY PlanMoves
<1>2. /\ a.from \in Slots /\ a.to \in Slots /\ RankOf(a.from) # RankOf(a.to)
  BY <1>1, PlanMoves, MoveFacts
<1>3. users = IF g \in {a.from, a.to} THEN {1} ELSE {}
  BY <1>1, <1>2 DEF Parts, HasRole, RoleSlot
<1>4. \A i \in users : Receives(r, plan[i])
  BY DEF Receives
<1>5. CASE g \notin {a.from, a.to}
  BY <1>3, <1>5 DEF Landed
<1>6. CASE g \in {a.from, a.to}
  <2>1. users = {1} /\ Max(users) = 1
    BY <1>3, <1>6, MaxOfFirst
  <2>2. Landed(w, plan, g) = w[RoleSlot(Peer(r, a), a)]
    BY <1>4, <2>1 DEF Landed
  <2>3. RoleSlot(Peer(r, a), a) = IF g = a.from THEN a.to ELSE a.from
    BY <1>2, <1>6 DEF RoleSlot, Peer
  <2> QED
    BY <1>2, <1>6, <2>2, <2>3
<1> QED
  BY <1>5, <1>6

-----------------------------------------------------------------------------
(* A step leaves the group as it is *)

\* The sets and relations that depend on the group alone.
LEMMA SameGroup ==
  ASSUME args' = args
  PROVE  /\ Ranks' = Ranks /\ Slots' = Slots /\ Experts' = Experts /\ (Exchange' <=> Exchange)
         /\ NoCounts' = NoCounts
         /\ \A g : RankOf(g)' = RankOf(g)
<1>1. /\ Ranks' = Ranks /\ Slots' = Slots /\ Experts' = Experts /\ (Exchange' <=> Exchange)
      /\ \A g : RankOf(g)' = RankOf(g)
  BY DEF Ranks, Slots, Experts, Exchange, RankOf, Capacity
<1>2. NoCounts' = NoCounts
  BY <1>1 DEF NoCounts
<1> QED
  BY <1>1, <1>2

\* Which slots a rank has, and which are redundant.
LEMMA SameSlotsOf ==
  ASSUME args' = args
  PROVE  Redundant' = Redundant /\ \A r : SlotsOf(r)' = SlotsOf(r)
BY SameGroup DEF SlotsOf, Redundant

\* What is planned from given tables and counts.
LEMMA SamePlan ==
  ASSUME args' = args, NEW t, NEW n
  PROVE  PlanFrom(t, n)' = PlanFrom(t, n)
<1>1. \A r, f : SumFunctionOnSet(f, SlotsOf(r))' = SumFunctionOnSet(f, SlotsOf(r))
  BY SameSlotsOf
<1>2. \A a, b : Move(t, a, b)' = Move(t, a, b)
  BY SameGroup DEF Move
<1>3. \A a, b : (Exceeds(a, b)' <=> Exceeds(a, b)) /\ (Reaches(a, b)' <=> Reaches(a, b))
  BY DEF Exceeds, Reaches
<1>4. PlanLayer(t, n)' = PlanLayer(t, n)
  BY <1>1, <1>2, <1>3, SameGroup, SameSlotsOf DEF PlanLayer
<1>5. \A total, plan : PlanRound(t, total, plan)' = PlanRound(t, total, plan)
  BY <1>2, <1>3, SameGroup, SameSlotsOf DEF PlanRound
<1>6. PlanLayerReplace(t, n)' = PlanLayerReplace(t, n)
  BY <1>1, <1>5, SameGroup, SameSlotsOf DEF PlanLayerReplace
<1> QED
  BY <1>4, <1>6, SameGroup DEF PlanFrom

\* What a plan makes of given tables.
LEMMA SameAfter ==
  ASSUME args' = args, NEW t, NEW plan
  PROVE  SharedAfter(t, plan)' = SharedAfter(t, plan)
<1>1. \A u, a : SharedStep(u, a)' = SharedStep(u, a)
  BY SameGroup DEF SharedStep, Applying
<1> QED
  BY <1>1 DEF SharedAfter

\* Which plans are made of allowed moves.
LEMMA SameGoodPlan ==
  ASSUME args' = args, NEW t, NEW plan
  PROVE  GoodPlan(t, plan)' <=> GoodPlan(t, plan)
<1>1. \A a, b : Move(t, a, b)' = Move(t, a, b)
  BY SameGroup DEF Move
<1>2. \A m : Apart(m)' <=> Apart(m)
  BY SameGroup, SameSlotsOf DEF Apart
<1>3. Moves(t)' = Moves(t)
  BY <1>1, <1>2, SameGroup DEF Moves
<1> QED
  BY <1>3, SameGroup DEF GoodPlan

\* Which part a rank has in a plan.
LEMMA SameParts ==
  ASSUME args' = args, NEW plan
  PROVE  /\ \A r : Parts(r, plan)' = Parts(r, plan)
         /\ \A r, a : RoleSlot(r, a)' = RoleSlot(r, a) /\ Peer(r, a)' = Peer(r, a)
BY SameGroup DEF Parts, HasRole, RoleSlot, Peer

\* What a plan leaves in a slot.
LEMMA SameLanded ==
  ASSUME args' = args, NEW plan, NEW w, NEW g
  PROVE  Landed(w, plan, g)' = Landed(w, plan, g)
<1>1. \A r, a : Receives(r, a)' <=> Receives(r, a)
  BY SameGroup DEF Receives
<1> QED
  BY <1>1, SameGroup, SameParts DEF Landed

\* Which tables are consistent.
LEMMA SameConsistent ==
  ASSUME args' = args, NEW p
  PROVE  Consistent(p)' <=> Consistent(p)
BY SameGroup DEF Consistent

\* What a round has to be after a step, all being whether all compute then.
AfterStep(t, plan, w, all) ==
  /\ all <=> \A r \in Ranks : pc'[r] = "forward"
  /\ \A r \in Ranks :
       /\ Shared(planner'[r]) = IF pc'[r] = "forward" THEN SharedAfter(t, plan) ELSE t
       /\ pending'[r] = IF pc'[r] = "commit" THEN plan ELSE <<>>
       /\ pc'[r] = "plan" => plan = IF warmup' = Over THEN PlanFrom(t, stats'[r]) ELSE <<>>
       /\ all \/ pc'[r] \in {"aggregate", "plan"} => sent'[r] = <<>>
       /\ ~(all \/ pc'[r] \in {"aggregate", "plan"}) =>
            /\ DOMAIN sent'[r] = Parts(r, plan)
            /\ \A i \in Parts(r, plan) : sent'[r][i] = w[RoleSlot(r, plan[i])]
  /\ \A g \in Slots : weights'[g] = IF pc'[RankOf(g)] = "forward" THEN Landed(w, plan, g) ELSE w[g]
  /\ GoodPlan(t, plan)
  /\ IF Exchange THEN w = t.mapping /\ w \in [Slots -> Experts] ELSE \A e \in Experts : w[e] = e

\* A round stays one by what AfterStep says, with no formula primed but variables.
LEMMA RoundAfter ==
  ASSUME args' = args, NEW t, NEW plan, NEW w, NEW all \in BOOLEAN, AfterStep(t, plan, w, all)
  PROVE  Round(t, plan, w)'
<1>1. AtForward' <=> all
  BY SameGroup DEF AtForward, AfterStep
<1>2. \A r : Shared(planner[r])' = Shared(planner'[r])
  BY DEF Shared
<1>3. \A r : PlanFrom(t, stats[r])' = PlanFrom(t, stats'[r])
  <2> TAKE r
  <2>1. PICK n : n = stats'[r]
    OBVIOUS
  <2>2. PlanFrom(t, n)' = PlanFrom(t, n)
    BY SamePlan
  <2> QED
    BY <2>1, <2>2
<1>4. ASSUME NEW r \in Ranks
      PROVE  (/\ Shared(planner[r]) = IF pc[r] = "forward" THEN SharedAfter(t, plan) ELSE t
              /\ pending[r] = IF pc[r] = "commit" THEN plan ELSE <<>>
              /\ pc[r] = "plan" => plan = IF warmup = Over THEN PlanFrom(t, stats[r]) ELSE <<>>
              /\ IF AtForward \/ pc[r] \in {"aggregate", "plan"} THEN sent[r] = <<>>
                 ELSE /\ DOMAIN sent[r] = Parts(r, plan)
                      /\ \A i \in Parts(r, plan) : sent[r][i] = w[RoleSlot(r, plan[i])])'
  BY <1>1, <1>2, <1>3, SameAfter, SameParts DEF AfterStep
<1>5. \A g \in Slots : weights'[g] = (IF pc[RankOf(g)] = "forward" THEN Landed(w, plan, g) ELSE w[g])'
  BY SameGroup, SameLanded DEF AfterStep
<1>6. (IF Exchange THEN w = t.mapping /\ w \in [Slots -> Experts] ELSE \A e \in Experts : w[e] = e)'
  BY SameGroup DEF AfterStep
<1> QED
  BY <1>4, <1>5, <1>6, SameGroup, SameGoodPlan DEF Round, AfterStep

-----------------------------------------------------------------------------
(* Every step keeps the invariant *)

\* What an exchange makes of the mapping.
LEMMA SharedStepMapping ==
  ASSUME Exchange, NEW t, NEW a
  PROVE  SharedStep(t, a).mapping = [t.mapping EXCEPT ![a.to] = a.fromExpert, ![a.from] = a.toExpert]
<1> DEFINE q == [mapping |-> t.mapping, inv |-> <<>>, places |-> t.places, redundant |-> t.redundant]
<1>1. SharedStep(t, a).mapping = Applying(0, q, a).mapping
  BY DEF SharedStep, Shared
<1>2. Applying(0, q, a) = Exchanged(q, a)
  BY DEF Applying
<1>3. q.mapping = t.mapping
  OBVIOUS
<1> HIDE DEF q
<1>4. Exchanged(q, a).mapping = [q.mapping EXCEPT ![a.to] = a.fromExpert, ![a.from] = a.toExpert]
  BY DEF Exchanged
<1> QED
  BY <1>1, <1>2, <1>3, <1>4

\* All that the invariant says of a round, for a state in which all compute.
LEMMA NewRound ==
  ASSUME TypesInv, AtForward, NEW t, NEW plan, NEW w, Round(t, plan, w), TablesConsistent
  PROVE  /\ \A r \in Ranks : Shared(planner[r]) = SharedAfter(t, plan)
         /\ \A r \in Ranks : pending[r] = <<>> /\ sent[r] = <<>>
         /\ IF Exchange THEN weights = SharedAfter(t, plan).mapping ELSE \A e \in Experts : weights[e] = e
<1>1. \A r \in Ranks : pc[r] = "forward"
  BY DEF AtForward
<1>2. \A r \in Ranks : /\ Shared(planner[r]) = SharedAfter(t, plan)
                       /\ pending[r] = <<>> /\ sent[r] = <<>>
  BY <1>1 DEF Round
<1>3. \A g \in Slots : weights[g] = Landed(w, plan, g)
  BY <1>1, SlotFacts DEF Round, TypesInv
<1>4. CASE ~Exchange
  <2>1. \A e \in Experts : w[e] = e /\ Landed(w, plan, e) = w[e]
    BY <1>4, LandedHome DEF Round, TypesInv
  <2>2. Experts \in SUBSET Slots
    BY SlotFacts DEF TypesInv
  <2> QED
    BY <1>2, <1>3, <1>4, <2>1, <2>2
<1>5. CASE Exchange
  <2>1. GoodPlan(t, plan) /\ w = t.mapping /\ args \in Configs
    BY <1>5 DEF Round, TypesInv
  <2>2. PICK r \in Ranks : TRUE
    BY <2>1, SlotFacts
  <2> DEFINE m == SharedAfter(t, plan).mapping
  <2>3. m = planner[r].mapping /\ m \in [Slots -> Experts]
    <3>1. m = Shared(planner[r]).mapping
      BY <1>2, <2>2
    <3>2. m = planner[r].mapping
      BY <3>1 DEF Shared
    <3> QED
      BY <1>5, <2>2, <3>2 DEF TablesConsistent, Consistent
  <2>4. \A g \in Slots : m[g] = Landed(w, plan, g)
    <3>1. CASE Len(plan) = 0
      <4>1. plan = <<>> /\ m = t.mapping
        BY <2>1, <3>1, PlanMoves DEF SharedAfter
      <4> QED
        BY <2>1, <4>1, LandedNone
    <3>2. CASE Len(plan) = 1
      <4>1. SharedAfter(t, plan) = SharedStep(t, plan[1])
        BY <3>2 DEF SharedAfter
      <4>2. m = [t.mapping EXCEPT ![plan[1].to] = plan[1].fromExpert, ![plan[1].from] = plan[1].toExpert]
        BY <1>5, <4>1, SharedStepMapping
      <4>3. /\ plan[1].from \in Slots /\ plan[1].to \in Slots /\ plan[1].from # plan[1].to
            /\ plan[1].fromExpert = t.mapping[plan[1].from] /\ plan[1].toExpert = t.mapping[plan[1].to]
        BY <1>5, <2>1, <3>2, PlanMoves, MoveFacts
      <4>4. t.mapping \in [Slots -> Experts]
        BY <1>5 DEF Round
      <4>5. \A g \in Slots : m[g] = IF g = plan[1].from THEN t.mapping[plan[1].to]
                                     ELSE IF g = plan[1].to THEN t.mapping[plan[1].from] ELSE t.mapping[g]
        BY <4>2, <4>3, <4>4
      <4> QED
        BY <1>5, <2>1, <3>2, <4>5, LandedSwap
    <3> QED
      BY <1>5, <2>1, <3>1, <3>2, PlanMoves
  <2> QED
    BY <1>2, <1>3, <1>5, <2>3, <2>4 DEF TypesInv
<1> QED
  BY <1>4, <1>5

\* At the start the tables of a rank are consistent if there are as many slots as experts.
LEMMA InitialConsistent ==
  ASSUME args \in Configs, Exchange, NEW r \in Ranks
  PROVE  Consistent(InitialPlanner(args, r))
<1> DEFINE p == InitialPlanner(args, r)
<1>1. args.experts \in Nat \ {0} /\ args.slots = args.experts /\ Experts = 0 .. args.experts - 1 /\ Slots = Experts
  BY Group DEF Exchange, Experts, Slots
<1>2. \A n, k \in Nat : k < n => k % n = k
  OBVIOUS
<1>3. \A e \in Experts : InitialPlace(args, e) = e
  BY <1>1, <1>2 DEF InitialPlace
<1>4. \A e \in Experts : InitialSlots(args, e) = <<e>>
  <2> TAKE e \in Experts
  <2>1. \A n, k \in Nat : k < n => (n - 1 - k) \div n = 0
    OBVIOUS
  <2>2. (args.slots - 1 - e) \div args.experts + 1 = 1
    BY <1>1, <2>1
  <2>3. InitialSlots(args, e) = [i \in 1 .. 1 |-> e + (i - 1) * args.experts]
    BY <2>2 DEF InitialSlots
  <2>4. [i \in 1 .. 1 |-> e + (i - 1) * args.experts] = <<e>>
    BY <1>1
  <2> QED
    BY <2>3, <2>4
<1>5. \A e \in Experts : InitialSlots(args, e)[(r % Len(InitialSlots(args, e))) + 1] = e
  <2> TAKE e \in Experts
  <2>1. Len(<<e>>) = 1 /\ <<e>>[1] = e
    OBVIOUS
  <2>2. r \in Nat
    BY Group DEF Ranks
  <2>3. (r % 1) + 1 = 1
    BY <2>2
  <2> QED
    BY <1>4, <2>1, <2>3
<1>6. p.mapping = [g \in Slots |-> g]
  BY <1>1, <1>3 DEF InitialPlanner, Slots
<1>7. p.inv = [e \in Experts |-> e]
  BY <1>5 DEF InitialPlanner, Experts
<1>8. p.places = [e \in Experts |-> <<e>>]
  BY <1>4 DEF InitialPlanner, Experts
<1> HIDE DEF p
<1>9. p.places = [e \in Experts |-> <<p.inv[e]>>]
  BY <1>7, <1>8
<1>10. /\ p.mapping \in [Slots -> Experts] /\ p.inv \in [Experts -> Slots]
       /\ \A e \in Experts : p.mapping[p.inv[e]] = e
       /\ \A g \in Slots : p.inv[p.mapping[g]] = g
  BY <1>1, <1>6, <1>7
<1> QED
  BY <1>9, <1>10 DEF Consistent, p

\* The invariant holds at the start.
LEMMA InitInv == BalancerInit => IInv
<1> SUFFICES ASSUME BalancerInit
             PROVE  IInv
  OBVIOUS
<1>1. args \in Configs
  BY DEF BalancerInit
<1>2. \A g \in Slots : InitialPlace(args, g) \in Experts
  <2>1. \A n \in Nat, k \in Nat \ {0} : n % k \in 0 .. k - 1
    OBVIOUS
  <2>2. args.experts \in Nat \ {0} /\ Slots \subseteq Nat
    BY <1>1, Group DEF Slots
  <2> QED
    BY <2>1, <2>2 DEF InitialPlace, Experts
<1>3. TypesInv
  <2>1. NoCounts \in [Slots -> Int]
    BY DEF NoCounts
  <2>2. \A r \in Ranks : IsTables(InitialPlanner(args, r))
    BY DEF IsTables, InitialPlanner
  <2> QED
    BY <1>1, <2>1, <2>2 DEF BalancerInit, TypesInv, Phases
<1>4. Together
  BY DEF BalancerInit, Together
<1>5. StatsInStep
  BY DEF BalancerInit, StatsInStep
<1>6. TablesConsistent
  BY <1>1, InitialConsistent DEF BalancerInit, TablesConsistent
<1>7. OneRound
  <2>1. PICK t : \A r \in Ranks : Shared(planner[r]) = t
    <3>1. \A r \in Ranks : Shared(planner[r]) = Shared(InitialPlanner(args, 0))
      BY DEF BalancerInit, Shared, InitialPlanner
    <3> QED
      BY <3>1
  <2>2. AtForward
    BY DEF BalancerInit, AtForward
  <2>3. \A r \in Ranks : pc[r] = "forward" /\ pending[r] = <<>> /\ sent[r] = <<>>
    BY DEF BalancerInit
  <2>4. SharedAfter(t, <<>>) = t
    BY DEF SharedAfter
  <2>5. GoodPlan(t, <<>>)
    BY DEF GoodPlan
  <2>6. \A g \in Slots : weights[g] = Landed(weights, <<>>, g)
    BY LandedNone
  <2>7. IF Exchange THEN weights = t.mapping /\ weights \in [Slots -> Experts]
        ELSE \A e \in Experts : weights[e] = e
    <3>1. CASE Exchange
      <4>1. PICK r \in Ranks : TRUE
        BY <1>1, SlotFacts
      <4>2. t.mapping = planner[r].mapping
        BY <2>1 DEF Shared
      <4>3. planner[r].mapping = weights
        BY DEF BalancerInit, InitialPlanner, Slots
      <4> QED
        BY <1>2, <3>1, <4>2, <4>3 DEF BalancerInit
    <3>2. CASE ~Exchange
      <4>1. \A n, k \in Nat : k < n => k % n = k
        OBVIOUS
      <4>2. \A e \in Experts : e \in Slots /\ InitialPlace(args, e) = e
        BY <1>1, <4>1, Group, SlotFacts DEF InitialPlace, Experts
      <4> QED
        BY <3>2, <4>2 DEF BalancerInit
    <3> QED
      BY <3>1, <3>2
  <2>8. Round(t, <<>>, weights)
    BY <1>1, <2>1, <2>2, <2>3, <2>4, <2>5, <2>6, <2>7, SlotFacts DEF Round
  <2> QED
    BY <2>8 DEF OneRound
<1> QED
  BY <1>3, <1>4, <1>5, <1>6, <1>7 DEF IInv

\* When all compute, a new round may start from the tables and weights there are.
LEMMA FreshRound ==
  ASSUME IInv, AtForward
  PROVE  \E t : /\ \A r \in Ranks : Shared(planner[r]) = t /\ pending[r] = <<>> /\ sent[r] = <<>>
                /\ IF Exchange THEN weights = t.mapping /\ weights \in [Slots -> Experts]
                   ELSE \A e \in Experts : weights[e] = e
<1>1. PICK t, plan, w : Round(t, plan, w)
  BY DEF IInv, OneRound
<1>2. TypesInv /\ TablesConsistent
  BY DEF IInv
<1> DEFINE u == SharedAfter(t, plan)
<1>3. /\ \A r \in Ranks : Shared(planner[r]) = u /\ pending[r] = <<>> /\ sent[r] = <<>>
      /\ IF Exchange THEN weights = u.mapping ELSE \A e \in Experts : weights[e] = e
  BY <1>1, <1>2, NewRound
<1> HIDE DEF u
<1>4. Exchange => weights \in [Slots -> Experts]
  <2> SUFFICES ASSUME Exchange
               PROVE  weights \in [Slots -> Experts]
    OBVIOUS
  <2>1. PICK r \in Ranks : TRUE
    BY <1>2, SlotFacts DEF TypesInv
  <2>2. weights = planner[r].mapping
    BY <1>3, <2>1 DEF Shared
  <2> QED
    BY <1>2, <2>1, <2>2 DEF TablesConsistent, Consistent
<1> QED
  BY <1>3, <1>4

\* A step in which the tables and the ranks stay keeps what is said of each of them.
LEMMA SameTables ==
  ASSUME TablesConsistent, args' = args, planner' = planner
  PROVE  TablesConsistent'
BY SameGroup, SameConsistent DEF TablesConsistent

\* Outside the balancer the warm-up may end at any time.
LEMMA StillForward ==
  ASSUME IInv, AtForward,
         UNCHANGED <<args, weights, planner, stats, counted, locked, pending, sent, pc>>
  PROVE  IInv'
<1>1. TypesInv /\ Together /\ StatsInStep /\ TablesConsistent
  BY DEF IInv
<1>2. PICK t, plan, w : Round(t, plan, w)
  BY DEF IInv, OneRound
<1>3. \A r \in Ranks : pc[r] = "forward"
  BY DEF AtForward
<1>4. TypesInv'
  BY <1>1, SameGroup DEF TypesInv, IsTables
<1>5. Together'
  BY <1>1, SameGroup DEF Together
<1>6. StatsInStep'
  BY <1>1, <1>3, SameGroup DEF StatsInStep
<1>7. Round(t, plan, w)'
  <2>1. AfterStep(t, plan, w, TRUE)
    BY <1>2, <1>3 DEF Round, AfterStep, AtForward
  <2> QED
    BY <2>1, RoundAfter
<1> QED
  BY <1>1, <1>4, <1>5, <1>6, <1>7, SameTables DEF IInv, OneRound

\* A decode step leaves the tables, the weights and the plans alone.
LEMMA DecodeInv == IInv /\ DecodeStep => IInv'
<1> SUFFICES ASSUME IInv, DecodeStep
             PROVE  IInv'
  OBVIOUS
<1>1. TypesInv /\ Together /\ StatsInStep /\ TablesConsistent
  BY DEF IInv
<1>2. /\ AtForward
      /\ UNCHANGED <<args, weights, planner, stats, locked, pending, sent>>
      /\ \E phase \in {"aggregate", "commit"} : pc' = [r \in Ranks |-> phase]
  BY DEF DecodeStep
<1>3. \A r \in Ranks : pc[r] = "forward"
  BY <1>2 DEF AtForward
<1>4. PICK phase \in {"aggregate", "commit"} : pc' = [r \in Ranks |-> phase]
  BY <1>2
<1>5. counted' \in [Slots -> Int]
  <2>1. PICK hot \in RoutedTo, warm \in RoutedTo, n \in Loads :
          /\ SumFunction(counted) + n[1] + n[2] <= MaxCounted
          /\ counted' = [g \in Slots |-> IF locked[RankOf(g)] THEN counted[g]
                                         ELSE counted[g] + (IF g = hot THEN n[1] ELSE 0)
                                                         + (IF g = warm THEN n[2] ELSE 0)]
    BY DEF DecodeStep
  <2>2. n[1] \in Int /\ n[2] \in Int
    BY <2>1, LoadsAssumption
  <2>3. \A g \in Slots : counted[g] \in Int
    BY <1>1 DEF TypesInv
  <2> QED
    BY <2>1, <2>2, <2>3
<1>6. TypesInv'
  BY <1>1, <1>2, <1>4, <1>5, SameGroup DEF TypesInv, IsTables, Phases
<1>7. Together'
  BY <1>2, <1>4, SameGroup DEF Together
<1>8. StatsInStep'
  BY <1>1, <1>2, <1>3, <1>4, SameGroup DEF StatsInStep
<1>9. PICK t : /\ \A r \in Ranks : Shared(planner[r]) = t /\ pending[r] = <<>> /\ sent[r] = <<>>
               /\ IF Exchange THEN weights = t.mapping /\ weights \in [Slots -> Experts]
                  ELSE \A e \in Experts : weights[e] = e
  BY <1>2, FreshRound
<1>10. PICK w : w = weights
  OBVIOUS
<1>11. \A r \in Ranks : pc'[r] = phase
  BY <1>4
<1>12. Round(t, <<>>, w)'
  <2>1. \A r : Parts(r, <<>>) = {} /\ DOMAIN <<>> = {}
    BY DEF Parts
  <2>2. GoodPlan(t, <<>>)
    BY DEF GoodPlan
  <2>3. PICK r \in Ranks : TRUE
    BY <1>1, SlotFacts DEF TypesInv
  <2>4. FALSE <=> \A k \in Ranks : pc'[k] = "forward"
    BY <1>11, <2>3
  <2>5. AfterStep(t, <<>>, w, FALSE)
    BY <1>1, <1>2, <1>9, <1>10, <1>11, <2>1, <2>2, <2>4, SlotFacts DEF TypesInv, AfterStep
  <2> QED
    BY <1>2, <2>5, RoundAfter
<1> QED
  BY <1>1, <1>2, <1>6, <1>7, <1>8, <1>12, SameTables DEF IInv, OneRound

\* The sums are the same on all ranks, so all plan from the same counts.
LEMMA AggregateInv == IInv /\ AggregateExpertStats => IInv'
<1> SUFFICES ASSUME IInv, AggregateExpertStats
             PROVE  IInv'
  OBVIOUS
<1>1. TypesInv /\ Together /\ StatsInStep /\ TablesConsistent
  BY DEF IInv
<1>2. /\ \A r \in Ranks : pc[r] = "aggregate"
      /\ UNCHANGED <<args, weights, planner, counted, warmup, step, pending, sent>>
      /\ locked' = [r \in Ranks |-> TRUE] /\ pc' = [r \in Ranks |-> "plan"]
  BY DEF AggregateExpertStats
<1> DEFINE n == [g \in Slots |-> SumFunction([k \in Ranks |-> stats[k][g]]) + counted[g]]
<1>3. stats' = [r \in Ranks |-> n]
  BY DEF AggregateExpertStats
<1>4. n \in [Slots -> Int]
  <2>1. ASSUME NEW g \in Slots
        PROVE  SumFunction([k \in Ranks |-> stats[k][g]]) + counted[g] \in Int
    <3> DEFINE f == [k \in Ranks |-> stats[k][g]]
    <3>1. \A k \in Ranks : f[k] \in Int
      BY <1>1 DEF TypesInv
    <3>2. DOMAIN f = Ranks
      OBVIOUS
    <3> HIDE DEF f
    <3>3. SumFunctionOnSet(f, Ranks) \in Int
      BY <1>1, <3>1, SumType, SlotFacts DEF TypesInv
    <3>4. SumFunction(f) \in Int
      BY <3>2, <3>3 DEF SumFunction
    <3>5. counted[g] \in Int
      BY <1>1 DEF TypesInv
    <3> QED
      BY <3>4, <3>5 DEF f
  <2> QED
    BY <2>1
<1> HIDE DEF n
<1>5. TypesInv'
  BY <1>1, <1>2, <1>3, <1>4, SameGroup DEF TypesInv, IsTables, Phases
<1>6. Together' /\ StatsInStep'
  BY <1>2, <1>3, SameGroup DEF Together, StatsInStep
<1>7. PICK t, old, w : Round(t, old, w)
  BY DEF IInv, OneRound
<1>8. PICK plan : plan = IF warmup = Over THEN PlanFrom(t, n) ELSE <<>>
  OBVIOUS
<1>9. PICK k \in Ranks : TRUE
  BY <1>1, SlotFacts DEF TypesInv
<1>10. \A r \in Ranks : Shared(planner[r]) = t /\ pending[r] = <<>> /\ sent[r] = <<>>
  BY <1>2, <1>7 DEF Round
<1>11. GoodPlan(t, plan)
  <2>1. Exchange => t.mapping \in [Slots -> Experts]
    BY <1>7 DEF Round
  <2>2. GoodPlan(t, PlanFrom(t, n))
    BY <1>1, <1>4, <2>1, PlanGood DEF TypesInv
  <2>3. GoodPlan(t, <<>>)
    BY DEF GoodPlan
  <2> QED
    BY <1>8, <2>2, <2>3
<1>12. \A g \in Slots : weights[g] = w[g]
  BY <1>1, <1>2, <1>7, SlotFacts DEF Round, TypesInv
<1>13. IF Exchange THEN w = t.mapping /\ w \in [Slots -> Experts] ELSE \A e \in Experts : w[e] = e
  BY <1>7 DEF Round
<1>14. \A r \in Ranks : pc'[r] = "plan" /\ stats'[r] = n
  BY <1>2, <1>3
<1>15. FALSE <=> \A r \in Ranks : pc'[r] = "forward"
  BY <1>9, <1>14
<1>16. AfterStep(t, plan, w, FALSE)
  BY <1>1, <1>2, <1>8, <1>10, <1>11, <1>12, <1>13, <1>14, <1>15, SlotFacts DEF AfterStep, TypesInv
<1> QED
  BY <1>1, <1>2, <1>5, <1>6, <1>16, RoundAfter, SameTables DEF IInv, OneRound

\* A rank plans what the others plan, and sends the weights from before the round.
LEMMA GenerateInv == \A r \in Ranks : IInv /\ GenerateActions(r) => IInv'
<1> SUFFICES ASSUME NEW r \in Ranks, IInv, GenerateActions(r)
             PROVE  IInv'
  OBVIOUS
<1>1. TypesInv /\ Together /\ StatsInStep /\ TablesConsistent
  BY DEF IInv
<1>2. PICK t, plan, w : Round(t, plan, w)
  BY DEF IInv, OneRound
<1>3. /\ pc[r] = "plan" /\ pc' = [pc EXCEPT ![r] = "commit"]
      /\ UNCHANGED <<args, weights, planner, warmup, step>>
  BY DEF GenerateActions
<1>4. /\ Shared(planner[r]) = t /\ pending[r] = <<>> /\ sent[r] = <<>>
      /\ plan = IF warmup = Over THEN PlanFrom(t, stats[r]) ELSE <<>>
  BY <1>2, <1>3 DEF Round
<1>5. GoodPlan(t, plan)
  BY <1>2 DEF Round
<1>6. pending' = [pending EXCEPT ![r] = plan]
  <2>1. CASE warmup = Over
    BY <1>4, <2>1, PlanShared DEF GenerateActions
  <2>2. CASE warmup # Over
    BY <1>1, <1>4, <2>2 DEF GenerateActions, TypesInv
  <2> QED
    BY <2>1, <2>2
<1>7. \A i \in Parts(r, plan) : RoleSlot(r, plan[i]) \in Slots /\ RankOf(RoleSlot(r, plan[i])) = r
  <2> TAKE i \in Parts(r, plan)
  <2>1. plan[i] \in Moves(t) /\ HasRole(r, plan[i])
    BY <1>5, PlanMoves DEF Parts
  <2> QED
    BY <1>1, <2>1, MoveFacts DEF HasRole, RoleSlot, TypesInv
<1>8. \A i \in Parts(r, plan) : weights[RoleSlot(r, plan[i])] = w[RoleSlot(r, plan[i])]
  BY <1>2, <1>3, <1>7 DEF Round
<1>9. /\ \A k \in Ranks \ {r} : sent'[k] = sent[k]
      /\ DOMAIN sent'[r] = Parts(r, plan)
      /\ \A i \in Parts(r, plan) : sent'[r][i] = w[RoleSlot(r, plan[i])]
      /\ sent' = [k \in Ranks |-> sent'[k]]
  <2>1. CASE warmup = Over
    <3>1. sent' = [sent EXCEPT ![r] = [i \in Parts(r, plan) |-> weights[RoleSlot(r, plan[i])]]]
      <4>1. pending'[r] = plan
        BY <1>1, <1>6 DEF TypesInv
      <4> QED
        BY <2>1, <4>1 DEF GenerateActions, Parts
    <3> QED
      BY <1>1, <1>8, <3>1 DEF TypesInv
  <2>2. CASE warmup # Over
    <3>1. plan = <<>> /\ Parts(r, <<>>) = {}
      BY <1>4, <2>2 DEF Parts
    <3>2. sent' = sent
      BY <2>2 DEF GenerateActions
    <3> QED
      BY <1>1, <1>4, <3>1, <3>2 DEF TypesInv
  <2> QED
    BY <2>1, <2>2
<1>10. /\ stats' = [stats EXCEPT ![r] = IF warmup = Over THEN NoCounts ELSE @]
       /\ locked' = [locked EXCEPT ![r] = IF warmup = Over THEN FALSE ELSE @]
       /\ counted' \in [Slots -> Int]
  <2>1. CASE warmup = Over
    <3>1. /\ stats' = [stats EXCEPT ![r] = NoCounts] /\ locked' = [locked EXCEPT ![r] = FALSE]
          /\ counted' = [g \in Slots |-> IF RankOf(g) = r THEN 0 ELSE counted[g]]
      BY <2>1 DEF GenerateActions
    <3>2. counted' \in [Slots -> Int]
      BY <1>1, <3>1 DEF TypesInv
    <3> QED
      BY <2>1, <3>1, <3>2
  <2>2. CASE warmup # Over
    <3>1. UNCHANGED <<stats, counted, locked>>
      BY <2>2 DEF GenerateActions
    <3> QED
      BY <1>1, <2>2, <3>1 DEF TypesInv
  <2> QED
    BY <2>1, <2>2
<1>11. TypesInv'
  <2>1. NoCounts \in [Slots -> Int]
    BY DEF NoCounts
  <2> QED
    BY <1>1, <1>3, <1>6, <1>9, <1>10, <2>1, SameGroup DEF TypesInv, IsTables, Phases
<1>12. Together'
  BY <1>1, <1>3, SameGroup DEF Together, TypesInv
<1>13. StatsInStep'
  <2>1. \A k \in Ranks : pc'[k] = IF k = r THEN "commit" ELSE pc[k]
    BY <1>1, <1>3 DEF TypesInv
  <2>2. \A k \in Ranks : /\ stats'[k] = IF k = r /\ warmup = Over THEN NoCounts ELSE stats[k]
                         /\ locked'[k] = IF k = r /\ warmup = Over THEN FALSE ELSE locked[k]
    BY <1>1, <1>10 DEF TypesInv
  <2>3. \A k \in Ranks :
          /\ pc[k] = "plan" => stats[k] = stats[r] /\ locked[k] = locked[r]
          /\ pc[k] # "plan" => IF warmup = Over THEN stats[k] = NoCounts /\ locked[k] = FALSE
                               ELSE stats[k] = stats[r] /\ locked[k] = locked[r]
    BY <1>1, <1>3 DEF StatsInStep
  <2>4. ASSUME NEW k \in Ranks, NEW j \in Ranks
        PROVE  /\ (pc'[k] = "plan" <=> pc'[j] = "plan") => stats'[k] = stats'[j] /\ locked'[k] = locked'[j]
               /\ pc'[k] = "plan" /\ pc'[j] # "plan" =>
                    IF warmup = Over THEN stats'[j] = NoCounts /\ locked'[j] = FALSE
                    ELSE stats'[j] = stats'[k] /\ locked'[j] = locked'[k]
    BY <2>1, <2>2, <2>3
  <2>5. Ranks' = Ranks /\ NoCounts' = NoCounts /\ warmup' = warmup
    BY <1>3, SameGroup
  <2>6. ASSUME NEW k \in Ranks, NEW j \in Ranks
        PROVE  (/\ (pc[k] = "plan" <=> pc[j] = "plan") => stats[k] = stats[j] /\ locked[k] = locked[j]
                /\ pc[k] = "plan" /\ pc[j] # "plan" =>
                     IF warmup = Over THEN stats[j] = NoCounts /\ locked[j] = FALSE
                     ELSE stats[j] = stats[k] /\ locked[j] = locked[k])'
    BY <2>4, <2>5
  <2> QED
    BY <2>5, <2>6, Zenon DEF StatsInStep
<1>14. FALSE <=> \A k \in Ranks : pc'[k] = "forward"
  BY <1>1, <1>3 DEF TypesInv
<1>15. ~AtForward
  BY <1>3 DEF AtForward
<1>16. AfterStep(t, plan, w, FALSE)
  <2>1. ASSUME NEW k \in Ranks
        PROVE  /\ Shared(planner'[k]) = IF pc'[k] = "forward" THEN SharedAfter(t, plan) ELSE t
               /\ pending'[k] = IF pc'[k] = "commit" THEN plan ELSE <<>>
               /\ pc'[k] = "plan" => plan = IF warmup' = Over THEN PlanFrom(t, stats'[k]) ELSE <<>>
               /\ pc'[k] \in {"aggregate", "plan"} => sent'[k] = <<>>
               /\ ~(pc'[k] \in {"aggregate", "plan"}) =>
                    /\ DOMAIN sent'[k] = Parts(k, plan)
                    /\ \A i \in Parts(k, plan) : sent'[k][i] = w[RoleSlot(k, plan[i])]
    <3>1. CASE k = r
      BY <1>1, <1>3, <1>4, <1>6, <1>9, <3>1 DEF TypesInv
    <3>2. CASE k # r
      <4>1. pc'[k] = pc[k] /\ planner'[k] = planner[k] /\ pending'[k] = pending[k]
            /\ sent'[k] = sent[k] /\ stats'[k] = stats[k] /\ warmup' = warmup
        BY <1>1, <1>3, <1>6, <1>9, <1>10, <3>2 DEF TypesInv
      <4> QED
        BY <1>2, <1>15, <4>1 DEF Round
    <3> QED
      BY <3>1, <3>2
  <2>2. \A g \in Slots : weights'[g] = IF pc'[RankOf(g)] = "forward" THEN Landed(w, plan, g) ELSE w[g]
    BY <1>1, <1>2, <1>3, SlotFacts DEF Round, TypesInv
  <2>3. IF Exchange THEN w = t.mapping /\ w \in [Slots -> Experts] ELSE \A e \in Experts : w[e] = e
    BY <1>2 DEF Round
  <2> QED
    BY <1>5, <1>14, <2>1, <2>2, <2>3 DEF AfterStep
<1> QED
  BY <1>1, <1>3, <1>11, <1>12, <1>13, <1>16, RoundAfter, SameTables DEF IInv, OneRound

\* What a rank installs is what the plan lands in its slots.
LEMMA InstalledLanded ==
  ASSUME TypesInv, NEW t, NEW plan, NEW w, Round(t, plan, w), NEW r \in Ranks, pc[r] = "commit",
         \A i \in Roles(r) : i \in DOMAIN sent[Peer(r, pending[r][i])],
         NEW g \in Slots, RankOf(g) = r
  PROVE  Installed(r, g) = Landed(w, plan, g)
<1>1. pending[r] = plan /\ GoodPlan(t, plan) /\ weights[g] = w[g] /\ args \in Configs /\ ~AtForward
  BY DEF Round, TypesInv, AtForward
<1>2. Roles(r) = Parts(r, plan)
  BY <1>1 DEF Roles, Parts
<1> DEFINE users == {i \in Parts(r, plan) : RoleSlot(r, plan[i]) = g}
           last == plan[Max(users)]
<1>3. Installed(r, g) = IF \A i \in users : ~Receives(r, plan[i]) THEN w[g]
                        ELSE IF Receives(r, last) THEN sent[Peer(r, last)][Max(users)] ELSE Blank
  BY <1>1, <1>2 DEF Installed
<1>4. Landed(w, plan, g) = IF \A i \in users : ~Receives(r, plan[i]) THEN w[g]
                           ELSE IF Receives(r, last) THEN w[RoleSlot(Peer(r, last), last)] ELSE Blank
  BY DEF Landed
<1>5. ASSUME users # {}
      PROVE  sent[Peer(r, last)][Max(users)] = w[RoleSlot(Peer(r, last), last)]
  <2>1. users \in SUBSET (1 .. 3)
    BY <1>1, PlanMoves DEF Parts
  <2>2. Max(users) \in users
    BY <1>5, <2>1, MaxOfThree
  <2> DEFINE m == Max(users)
             k == Peer(r, last)
  <2>3. m \in Parts(r, plan) /\ last = plan[m]
    BY <2>2
  <2> HIDE DEF users, m
  <2>4. k \in Ranks /\ m \in Parts(k, plan)
    BY <1>1, <2>3, PeerFacts DEF m
  <2>5. m \in DOMAIN sent[k]
    BY <1>1, <1>2, <2>3 DEF m
  <2>6. sent[k][m] = w[RoleSlot(k, plan[m])]
    <3>1. sent[k] # <<>>
      BY <2>5
    <3> HIDE DEF k
    <3> QED
      BY <1>1, <2>4, <3>1 DEF Round
  <2> QED
    BY <2>3, <2>6 DEF m
<1> QED
  BY <1>3, <1>4, <1>5

\* A rank that applies the plan makes of its tables and its slots what the round says.
LEMMA CommitInv == \A r \in Ranks : IInv /\ CommitReadyLayers(r) => IInv'
<1> SUFFICES ASSUME NEW r \in Ranks, IInv, CommitReadyLayers(r)
             PROVE  IInv'
  OBVIOUS
<1>1. TypesInv /\ Together /\ StatsInStep /\ TablesConsistent /\ args \in Configs
  BY DEF IInv, TypesInv
<1>2. PICK t, plan, w : Round(t, plan, w)
  BY DEF IInv, OneRound
<1>3. /\ pc[r] = "commit" /\ pc' = [pc EXCEPT ![r] = "forward"]
      /\ \A i \in Roles(r) : i \in DOMAIN sent[Peer(r, pending[r][i])]
      /\ weights' = [g \in Slots |-> IF RankOf(g) = r THEN Installed(r, g) ELSE weights[g]]
      /\ planner' = [planner EXCEPT ![r] = Applied(r)]
      /\ pending' = [pending EXCEPT ![r] = <<>>]
      /\ UNCHANGED <<args, stats, counted, locked, warmup, step>>
  BY DEF CommitReadyLayers, Finished
<1> DEFINE all == \A k \in Ranks \ {r} : pc[k] = "forward"
<1>4. sent' = IF all THEN [k \in Ranks |-> <<>>] ELSE sent
  BY DEF CommitReadyLayers, Finished
<1>5. pending[r] = plan /\ GoodPlan(t, plan) /\ ~AtForward
  BY <1>2, <1>3 DEF Round, AtForward
<1>6. plan \in Seq(Moves(t)) /\ Len(plan) <= 3
  BY <1>5, PlanMoves DEF GoodPlan
<1>7. IsTables(Applied(r)) /\ Shared(Applied(r)) = SharedAfter(t, plan)
  <2>1. IsTables(planner[r]) /\ Shared(planner[r]) = t
    BY <1>1, <1>2, <1>3 DEF TypesInv, Round
  <2> QED
    BY <1>5, <1>6, <2>1, AppliedShared
<1>8. \A k \in Ranks : /\ pc'[k] = IF k = r THEN "forward" ELSE pc[k]
                       /\ planner'[k] = IF k = r THEN Applied(r) ELSE planner[k]
                       /\ pending'[k] = IF k = r THEN <<>> ELSE pending[k]
  BY <1>1, <1>3 DEF TypesInv
<1>9. TypesInv'
  <2>1. \A k \in Ranks : IsTables(planner'[k])
    BY <1>1, <1>7, <1>8 DEF TypesInv
  <2>2. /\ weights' = [g \in Slots |-> weights'[g]] /\ planner' = [k \in Ranks |-> planner'[k]]
        /\ pending' = [k \in Ranks |-> pending'[k]] /\ sent' = [k \in Ranks |-> sent'[k]]
        /\ pc' \in [Ranks -> Phases]
    BY <1>1, <1>3, <1>4 DEF TypesInv, Phases
  <2>3. (\A k \in Ranks : IsTables(planner[k]))'
    BY <1>3, <2>1, SameGroup DEF IsTables
  <2> QED
    BY <1>1, <1>3, <2>2, <2>3, SameGroup DEF TypesInv
<1>10. Together'
  BY <1>1, <1>3, <1>8, SameGroup DEF Together
<1>11. StatsInStep'
  BY <1>1, <1>3, <1>8, SameGroup DEF StatsInStep
<1>12. TablesConsistent'
  <2> SUFFICES ASSUME Exchange, NEW k \in Ranks
               PROVE  Consistent(planner'[k])
    BY <1>3, SameGroup, SameConsistent DEF TablesConsistent
  <2>1. CASE k # r
    BY <1>1, <1>8, <2>1 DEF TablesConsistent
  <2>2. CASE k = r
    <3>1. Consistent(planner[r])
      BY <1>1 DEF TablesConsistent
    <3>2. CASE Len(plan) = 0
      <4>1. Applied(r) = planner[r]
        BY <1>5, <1>6, <3>2, AppliedIs
      <4> QED
        BY <1>8, <2>2, <3>1, <4>1
    <3>3. CASE Len(plan) = 1
      <4>1. Applied(r) = Exchanged(planner[r], plan[1])
        BY <1>5, <1>6, <3>3, AppliedIs DEF Applying
      <4>2. plan[1] \in Moves(Shared(planner[r]))
        BY <1>2, <1>3, <1>5, <3>3, PlanMoves DEF Round
      <4> QED
        BY <1>1, <1>8, <2>2, <3>1, <4>1, <4>2, ExchangedConsistent
    <3> QED
      BY <1>5, <3>2, <3>3, PlanMoves
  <2> QED
    BY <2>1, <2>2
<1>13. all \in BOOLEAN /\ (all <=> \A k \in Ranks : pc'[k] = "forward")
  BY <1>8
<1>14. AfterStep(t, plan, w, all)
  <2>1. ASSUME NEW k \in Ranks
        PROVE  /\ Shared(planner'[k]) = IF pc'[k] = "forward" THEN SharedAfter(t, plan) ELSE t
               /\ pending'[k] = IF pc'[k] = "commit" THEN plan ELSE <<>>
               /\ pc'[k] = "plan" => plan = IF warmup' = Over THEN PlanFrom(t, stats'[k]) ELSE <<>>
    <3>1. CASE k = r
      BY <1>7, <1>8, <3>1
    <3>2. CASE k # r
      BY <1>2, <1>3, <1>8, <3>2 DEF Round
    <3> QED
      BY <3>1, <3>2
  <2>2. ASSUME NEW k \in Ranks
        PROVE  /\ all \/ pc'[k] \in {"aggregate", "plan"} => sent'[k] = <<>>
               /\ ~(all \/ pc'[k] \in {"aggregate", "plan"}) =>
                    /\ DOMAIN sent'[k] = Parts(k, plan)
                    /\ \A i \in Parts(k, plan) : sent'[k][i] = w[RoleSlot(k, plan[i])]
    <3>1. CASE all
      BY <1>4, <3>1
    <3>2. CASE ~all
      <4>1. sent'[k] = sent[k] /\ (pc'[k] \in {"aggregate", "plan"} <=> pc[k] \in {"aggregate", "plan"})
        BY <1>3, <1>4, <1>8, <3>2
      <4> HIDE DEF all
      <4> QED
        BY <1>2, <1>5, <3>2, <4>1 DEF Round
    <3> QED
      BY <3>1, <3>2
  <2>3. ASSUME NEW g \in Slots
        PROVE  weights'[g] = IF pc'[RankOf(g)] = "forward" THEN Landed(w, plan, g) ELSE w[g]
    <3>1. RankOf(g) \in Ranks
      BY <1>1, SlotFacts
    <3>2. CASE RankOf(g) = r
      <4>1. Installed(r, g) = Landed(w, plan, g)
        BY <1>1, <1>2, <1>3, <3>2, InstalledLanded
      <4> QED
        BY <1>3, <1>8, <3>1, <3>2, <4>1
    <3>3. CASE RankOf(g) # r
      BY <1>2, <1>3, <1>8, <3>1, <3>3 DEF Round
    <3> QED
      BY <3>2, <3>3
  <2>4. IF Exchange THEN w = t.mapping /\ w \in [Slots -> Experts] ELSE \A e \in Experts : w[e] = e
    BY <1>2 DEF Round
  <2> HIDE DEF all
  <2> QED
    BY <1>5, <1>13, <2>1, <2>2, <2>3, <2>4 DEF AfterStep
<1>15. Round(t, plan, w)'
  <2> HIDE DEF all
  <2> QED
    BY <1>3, <1>13, <1>14, RoundAfter
<1> QED
  BY <1>9, <1>10, <1>11, <1>12, <1>15 DEF IInv, OneRound

-----------------------------------------------------------------------------
(* The invariant and what follows from it *)

\* Between the steps nothing changes.
LEMMA StutterInv == IInv /\ UNCHANGED balancerVars => IInv'
<1> SUFFICES ASSUME IInv, UNCHANGED balancerVars
             PROVE  IInv'
  OBVIOUS
<1>1. /\ args' = args /\ weights' = weights /\ planner' = planner /\ stats' = stats /\ counted' = counted
      /\ locked' = locked /\ warmup' = warmup /\ pending' = pending /\ sent' = sent /\ pc' = pc
  BY DEF balancerVars
<1>2. TypesInv /\ Together /\ StatsInStep /\ TablesConsistent
  BY DEF IInv
<1>3. PICK t, plan, w : Round(t, plan, w)
  BY DEF IInv, OneRound
<1>4. TypesInv'
  <2>1. (\A k \in Ranks : IsTables(planner[k]))'
    BY <1>1, <1>2, SameGroup DEF IsTables, TypesInv
  <2> QED
    BY <1>1, <1>2, <2>1, SameGroup DEF TypesInv
<1>5. Together'
  BY <1>1, <1>2, SameGroup DEF Together
<1>6. StatsInStep'
  BY <1>1, <1>2, SameGroup DEF StatsInStep
<1>7. TablesConsistent'
  BY <1>1, <1>2, SameGroup, SameConsistent DEF TablesConsistent
<1>8. AfterStep(t, plan, w, AtForward)
  <2>1. \A r \in Ranks :
          /\ Shared(planner'[r]) = IF pc'[r] = "forward" THEN SharedAfter(t, plan) ELSE t
          /\ pending'[r] = IF pc'[r] = "commit" THEN plan ELSE <<>>
          /\ pc'[r] = "plan" => plan = IF warmup' = Over THEN PlanFrom(t, stats'[r]) ELSE <<>>
    BY <1>1, <1>3 DEF Round
  <2>2. \A r \in Ranks :
          /\ AtForward \/ pc'[r] \in {"aggregate", "plan"} => sent'[r] = <<>>
          /\ ~(AtForward \/ pc'[r] \in {"aggregate", "plan"}) =>
               /\ DOMAIN sent'[r] = Parts(r, plan)
               /\ \A i \in Parts(r, plan) : sent'[r][i] = w[RoleSlot(r, plan[i])]
    BY <1>1, <1>3 DEF Round
  <2>3. AtForward <=> \A r \in Ranks : pc'[r] = "forward"
    BY <1>1 DEF AtForward
  <2>4. \A g \in Slots : weights'[g] = IF pc'[RankOf(g)] = "forward" THEN Landed(w, plan, g) ELSE w[g]
    BY <1>1, <1>3 DEF Round
  <2>5. GoodPlan(t, plan) /\ IF Exchange THEN w = t.mapping /\ w \in [Slots -> Experts]
                             ELSE \A e \in Experts : w[e] = e
    BY <1>3 DEF Round
  <2> QED
    BY <2>1, <2>2, <2>3, <2>4, <2>5 DEF AfterStep
<1>9. Round(t, plan, w)'
  <2>1. AtForward \in BOOLEAN
    BY DEF AtForward
  <2> QED
    BY <1>1, <1>8, <2>1, RoundAfter
<1> QED
  BY <1>4, <1>5, <1>6, <1>7, <1>9 DEF IInv, OneRound

\* Every step keeps the invariant.
LEMMA StepInv == IInv /\ [BalancerNext]_balancerVars => IInv'
<1> SUFFICES ASSUME IInv, [BalancerNext]_balancerVars
             PROVE  IInv'
  OBVIOUS
<1>1. ASSUME PrefillStep
      PROVE  IInv'
  BY <1>1, StillForward DEF PrefillStep, IInv, TypesInv
<1>2. ASSUME DecodeStep
      PROVE  IInv'
  BY <1>2, DecodeInv
<1>3. ASSUME EndWarmup
      PROVE  IInv'
  BY <1>3, StillForward DEF EndWarmup, IInv, TypesInv
<1>4. ASSUME AggregateExpertStats
      PROVE  IInv'
  BY <1>4, AggregateInv
<1>5. ASSUME NEW r \in Ranks, GenerateActions(r)
      PROVE  IInv'
  BY <1>5, GenerateInv
<1>6. ASSUME NEW r \in Ranks, CommitReadyLayers(r)
      PROVE  IInv'
  BY <1>6, CommitInv
<1>7. ASSUME UNCHANGED balancerVars
      PROVE  IInv'
  BY <1>7, StutterInv
<1> QED
  BY <1>1, <1>2, <1>3, <1>4, <1>5, <1>6, <1>7 DEF BalancerNext, Balance

\* Since they last computed together the ranks apply one plan to one set of tables and one
\* assignment of weights.
THEOREM RoundsAreShared == BalancerSpec => []IInv
<1>1. BalancerInit => IInv
  BY InitInv
<1>2. IInv /\ [BalancerNext]_balancerVars => IInv'
  BY StepInv
<1> QED
  BY <1>1, <1>2, PTL DEF BalancerSpec

\* The ranks agree in all but the inverse mapping whenever they compute together, though each
\* plans and updates its tables for itself.
THEOREM RanksAgreeAlways == BalancerSpec => []RanksAgree
<1>1. IInv => RanksAgree
  <2> SUFFICES ASSUME IInv, AtForward, NEW r \in Ranks, NEW k \in Ranks
               PROVE  /\ planner[r].mapping = planner[k].mapping
                      /\ planner[r].places = planner[k].places
                      /\ planner[r].redundant = planner[k].redundant
                      /\ stats[r] = stats[k] /\ locked[r] = locked[k]
    BY DEF RanksAgree
  <2>1. PICK t, plan, w : Round(t, plan, w)
    BY DEF IInv, OneRound
  <2>2. pc[r] = "forward" /\ pc[k] = "forward"
    BY DEF AtForward
  <2>3. Shared(planner[r]) = Shared(planner[k])
    BY <2>1, <2>2 DEF Round
  <2>4. stats[r] = stats[k] /\ locked[r] = locked[k]
    BY <2>2 DEF IInv, StatsInStep
  <2> QED
    BY <2>3, <2>4 DEF Shared
<1> QED
  BY <1>1, RoundsAreShared, PTL

\* No rank waits for a transfer its peer has not planned.
THEOREM TransfersMatchAlways == BalancerSpec => []TransfersMatch
<1>1. IInv => TransfersMatch
  <2> SUFFICES ASSUME IInv, NEW r \in Ranks, pc[r] = "commit", NEW i \in Roles(r)
               PROVE  LET k == Peer(r, pending[r][i])
                      IN  pc[k] = "plan" \/ i \in DOMAIN sent[k]
    BY DEF TransfersMatch
  <2> DEFINE k == Peer(r, pending[r][i])
  <2>1. PICK t, plan, w : Round(t, plan, w)
    BY DEF IInv, OneRound
  <2>2. pending[r] = plan /\ i \in Parts(r, plan) /\ GoodPlan(t, plan)
    BY <2>1 DEF Round, Roles, Parts
  <2>3. k \in Ranks /\ i \in Parts(k, plan)
    BY <2>2, PeerFacts DEF IInv, TypesInv
  <2>4. pc[k] # "aggregate" /\ ~AtForward
    BY <2>3 DEF IInv, Together, AtForward
  <2>5. pc[k] = "plan" \/ DOMAIN sent[k] = Parts(k, plan)
    <3> HIDE DEF k
    <3> QED
      BY <2>1, <2>3, <2>4 DEF Round
  <2> QED
    BY <2>3, <2>5
<1> QED
  BY <1>1, RoundsAreShared, PTL

\* With as many slots as experts, exchanges never break the routing, and the tables and the
\* weights tell the same.
THEOREM ExchangeKeepsRoutesAlways == BalancerSpec => []ExchangeKeepsRoutes
<1>1. IInv => ExchangeKeepsRoutes
  <2> SUFFICES ASSUME IInv, Exchange, AtForward, NEW r \in Ranks
               PROVE  /\ \A e \in Experts : weights[planner[r].inv[e]] = e
                      /\ planner[r].mapping = weights
                      /\ \A e \in Experts : planner[r].places[e] = <<planner[r].inv[e]>>
    BY DEF ExchangeKeepsRoutes, RoutedToOwnWeights
  <2>1. PICK t : Shared(planner[r]) = t /\ weights = t.mapping
    BY FreshRound
  <2>2. planner[r].mapping = weights
    BY <2>1 DEF Shared
  <2>3. Consistent(planner[r])
    BY DEF IInv, TablesConsistent
  <2> QED
    BY <2>2, <2>3 DEF Consistent
<1> QED
  BY <1>1, RoundsAreShared, PTL

\* No expert is lost, whatever is exchanged, copied over or left blank.
THEOREM ExpertsSurviveAlways == BalancerSpec => []ExpertsSurvive
<1>1. IInv => ExpertsSurvive
  <2> SUFFICES ASSUME IInv, AtForward, NEW e \in Experts
               PROVE  \E g \in Slots : weights[g] = e
    BY DEF ExpertsSurvive
  <2>1. PICK t : /\ \A r \in Ranks : Shared(planner[r]) = t
                 /\ IF Exchange THEN weights = t.mapping ELSE \A z \in Experts : weights[z] = z
    BY FreshRound
  <2>2. args \in Configs
    BY DEF IInv, TypesInv
  <2>3. CASE ~Exchange
    BY <2>1, <2>2, <2>3, SlotFacts
  <2>4. CASE Exchange
    <3>1. PICK r \in Ranks : TRUE
      BY <2>2, SlotFacts
    <3>2. planner[r].mapping = weights
      BY <2>1, <2>4 DEF Shared
    <3>3. Consistent(planner[r])
      BY <2>4 DEF IInv, TablesConsistent
    <3> QED
      BY <3>2, <3>3 DEF Consistent
  <2> QED
    BY <2>3, <2>4
<1> QED
  BY <1>1, RoundsAreShared, PTL
=============================================================================
