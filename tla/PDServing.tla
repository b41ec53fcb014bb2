----------------------------- MODULE PDServing -----------------------------
(***************************************************************************)
(* Serving with prefill and decode on different machines                   *)
(* (chitu/distributed/pd_disaggregation).  The PDRequestRouter sends every *)
(* request to a prefill and to a decode scheduler.  The prefill scheduler  *)
(* runs the prompt and queues a chunk: its KVManager's transfer worker     *)
(* writes the first token's logits into a slot of the decode scheduler's   *)
(* memory, once the decode scheduler has said which, and tells it so.  The *)
(* decode scheduler serves one request at a time: it waits for that, with  *)
(* a timeout, prefills the prompt again and decodes, sending its tokens to *)
(* the router of TokenRouter.                                              *)
(*                                                                         *)
(* The pages of the KV cache are never sent: get_page_indices is asked for *)
(* the room of a request and the pages are kept under its id.              *)
(***************************************************************************)
EXTENDS TokenRouter

CONSTANTS
  Prefills,      \* prefill schedulers in the order of their ids; Groups has the decode ones
  Decodes,       \* Groups as a sequence
  Sizes,         \* the sizes to consider: the slots of the MetadataBuffers on either
                 \* side, the pages of the KV caches, and a budget (a bound)
  MaxBlocksPerReq,
  BlockSize,
  PromptLen,     \* [Reqs -> Nat]
  MaxNew,        \* [Reqs -> Nat]
  StopWithEos    \* the requests whose answers end at a stop token

ASSUME PDAssumption ==
  /\ Prefills \in Seq(ToSet(Prefills)) /\ IsInjective(Prefills) /\ Prefills # <<>>
  /\ Decodes \in Seq(Groups) /\ IsInjective(Decodes) /\ ToSet(Decodes) = Groups
  /\ Decodes # <<>>
  /\ Sizes \subseteq
       [slots : Nat \ {0}, prefillPages : Nat, decodePages : Nat, budget : Nat]
  /\ {BlockSize, MaxBlocksPerReq} \subseteq Nat \ {0} /\ StopWithEos \subseteq Reqs
  /\ PromptLen \in [Reqs -> Nat \ {0}] /\ MaxNew \in [Reqs -> Nat \ {0}]
\* Every request has an id of its own, which is also its room.
ASSUME PDIdsAssumption == \A ids \in IdChoices : IsInjective(ids)

VARIABLES
  pendingRequests,  \* PDRequestRouter.pending_requests
  roundRobin,       \* prefill_round_robin and decode_round_robin
  prefillChan,      \* requests at the sockets of the prefill and decode schedulers
  decodeChan,
  prefill,          \* the state of each prefill scheduler and its KVManager
  decode,           \* that of each decode scheduler and its KVManager
  toPrefill,        \* registrations and TransferInfos under way, one connection each
  toDecode,         \* <<decode scheduler, room>>: status Success under way
  timedOut,         \* the requests whose transfer timed out
  budget            \* how often the network may fail or a TransferInfo be sent again

pdVars == <<pendingRequests, roundRobin, prefillChan, decodeChan, prefill, decode, toPrefill,
            toDecode, timedOut, budget>>
vars == <<routerVars, pdVars>>

NoSlot == 0
Rank == ToSet(Prefills)
Registration(p, d) == [to |-> p, from |-> d, room |-> NoReq, slot |-> NoSlot]
TransferInfo(p, d, r, slot) == [to |-> p, from |-> d, room |-> r, slot |-> slot]

\* MetadataBuffers: tid_to_index and the logits in each slot, which stay when it is freed.
NewBuffers(n) == [slotOf |-> [r \in Reqs |-> NoSlot], logits |-> [s \in 1 .. n |-> NoReq]]

Init ==
  /\ RouterInit
  /\ pendingRequests = <<>>
  /\ roundRobin = 0
  /\ prefillChan = [p \in Rank |-> <<>>]
  /\ decodeChan = [d \in Groups |-> <<>>]
  /\ \E size \in Sizes :
       /\ budget = size.budget
       /\ prefill = [p \in Rank |->
            [service |-> TRUE, worker |-> TRUE, free |-> size.prefillPages,
             buffers |-> NewBuffers(size.slots), queue |-> <<>>,
             infos |-> [r \in Reqs |-> <<>>], registered |-> {}]]
       /\ decode = [d \in Groups |->
            [phase |-> "idle", req |-> NoReq, first |-> NoReq, made |-> 0, reason |-> "none",
             free |-> size.decodePages, buffers |-> NewBuffers(size.slots),
             success |-> {}, registered |-> {}]]
  /\ toPrefill = {}
  /\ toDecode = {}
  /\ timedOut = {}

-----------------------------------------------------------------------------
(* MetadataBuffers *)

FreeSlots(b) == DOMAIN b.logits \ {b.slotOf[r] : r \in Reqs}
LowestFree(b) == CHOOSE s \in FreeSlots(b) : \A u \in FreeSlots(b) : s <= u

\* A slip: the slot is filled but not taken from the free ones.
FillOnly(b, r) == [b EXCEPT !.logits[LowestFree(b)] = r]

Allocate(b, r) == [b EXCEPT !.slotOf[r] = LowestFree(b)]
AllocateWith(b, r) == [Allocate(b, r) EXCEPT !.logits[LowestFree(b)] = r]
FreeSlot(b, r) == [b EXCEPT !.slotOf[r] = NoSlot]

\* Pages that hold n tokens.
Pages(n) == (n + BlockSize - 1) \div BlockSize
MinOf(m, n) == IF m <= n THEN m ELSE n
-----------------------------------------------------------------------------
(* PDRequestRouter *)

Submit(r) ==
  /\ RegisterRequest(r)
  /\ pendingRequests' = Append(pendingRequests, r)
  /\ UNCHANGED <<roundRobin, prefillChan, decodeChan, prefill, decode, toPrefill, toDecode, timedOut,
                 budget>>

\* _add_pd_request picks both schedulers in turn, _process_pd_request sends to both;
\* requests are taken in the order in which they were added.
Dispatch ==
  /\ pendingRequests # <<>>
  /\ LET r == Head(pendingRequests)
         p == Prefills[(roundRobin % Len(Prefills)) + 1]
         d == Decodes[(roundRobin % Len(Decodes)) + 1]
     IN  /\ prefillChan' = [prefillChan EXCEPT ![p] = Append(@, r)]
         /\ decodeChan' = [decodeChan EXCEPT ![d] = Append(@, r)]
  /\ pendingRequests' = Tail(pendingRequests)
  /\ roundRobin' = roundRobin + 1
  /\ UNCHANGED <<routerVars, prefill, decode, toPrefill, toDecode, timedOut, budget>>

-----------------------------------------------------------------------------
(* Prefill scheduler *)

\* The hook's exceptions are swallowed: without a free slot there is no chunk.
SendKVCache(s, r) ==
  IF FreeSlots(s.buffers) = {} THEN s
  ELSE [s EXCEPT !.buffers = AllocateWith(@, r),
                 !.queue = Append(@, [room |-> r, slot |-> LowestFree(s.buffers)])]

\* _process_prefill_request.  The pages of a prompt are never freed.
PrefillRequest(p) ==
  /\ prefill[p].service /\ prefillChan[p] # <<>>
  /\ LET r == Head(prefillChan[p])
         need == Pages(PromptLen[r])
     IN  /\ need <= prefill[p].free
         /\ prefill' = [prefill EXCEPT ![p] = SendKVCache([prefill[p] EXCEPT !.free = @ - need], r)]
  /\ prefillChan' = [prefillChan EXCEPT ![p] = Tail(@)]
  /\ UNCHANGED <<routerVars, pendingRequests, roundRobin, decodeChan, decode, toPrefill, toDecode,
                 timedOut, budget>>

\* No page is left: the exception ends the request handler, and with it the process.
PrefillDies(p) ==
  /\ prefill[p].service /\ prefillChan[p] # <<>>
  /\ Pages(PromptLen[Head(prefillChan[p])]) > prefill[p].free
  /\ prefill' = [prefill EXCEPT ![p].service = FALSE, ![p].worker = FALSE]
  /\ prefillChan' = [prefillChan EXCEPT ![p] = Tail(@)]
  /\ UNCHANGED <<routerVars, pendingRequests, roundRobin, decodeChan, decode, toPrefill, toDecode,
                 timedOut, budget>>

\* bootstrap_thread
BootstrapReceive(p) ==
  /\ prefill[p].service
  /\ \E m \in toPrefill :
       /\ m.to = p
       /\ toPrefill' = toPrefill \ {m}
       /\ prefill' = IF m.room = NoReq
                     THEN [prefill EXCEPT ![p].registered = @ \cup {m.from}]
                     ELSE [prefill EXCEPT ![p].infos[m.room] = <<m>>]
  /\ UNCHANGED <<routerVars, pendingRequests, roundRobin, prefillChan, decodeChan, decode, toDecode,
                 timedOut, budget>>

Transferring(p) == prefill[p].worker /\ prefill[p].queue # <<>>
Chunk(p) == Head(prefill[p].queue)
Info(p) == prefill[p].infos[Chunk(p).room]

\* A chunk whose TransferInfo has not come is put back, behind the others.
TransferWaits(p) ==
  /\ Transferring(p) /\ Info(p) = <<>>
  /\ prefill' = [prefill EXCEPT ![p].queue = Append(Tail(@), Head(@))]
  /\ UNCHANGED <<routerVars, pendingRequests, roundRobin, prefillChan, decodeChan, decode, toPrefill,
                 toDecode, timedOut, budget>>

\* The TransferInfo has overtaken the registration: a KeyError ends the worker thread.
TransferDies(p) ==
  /\ Transferring(p) /\ Info(p) # <<>>
  /\ Info(p)[1].from \notin prefill[p].registered
  /\ prefill' = [prefill EXCEPT ![p].worker = FALSE, ![p].queue = Tail(@)]
  /\ UNCHANGED <<routerVars, pendingRequests, roundRobin, prefillChan, decodeChan, decode, toPrefill,
                 toDecode, timedOut, budget>>

\* send_aux writes whatever the slot is used for by then, and the status follows.
TransferSucceeds(p) ==
  /\ Transferring(p) /\ Info(p) # <<>>
  /\ LET c == Chunk(p)
         info == Info(p)[1]
     IN  /\ info.from \in prefill[p].registered
         /\ decode' = [decode EXCEPT ![info.from].buffers.logits[info.slot] =
                                       prefill[p].buffers.logits[c.slot]]
         /\ toDecode' = toDecode \cup {<<info.from, c.room>>}
         /\ prefill' = [prefill EXCEPT ![p].queue = Tail(@), ![p].infos[c.room] = <<>>,
                                       ![p].buffers = FreeSlot(@, c.room)]
  /\ UNCHANGED <<routerVars, pendingRequests, roundRobin, prefillChan, decodeChan, toPrefill, timedOut,
                 budget>>

\* A failed transfer is logged; the chunk is gone and its slot stays taken.
TransferFails(p) ==
  /\ Transferring(p) /\ Info(p) # <<>>
  /\ Info(p)[1].from \in prefill[p].registered
  /\ budget > 0
  /\ budget' = budget - 1
  /\ prefill' = [prefill EXCEPT ![p].queue = Tail(@)]
  /\ UNCHANGED <<routerVars, pendingRequests, roundRobin, prefillChan, decodeChan, decode, toPrefill,
                 toDecode, timedOut>>

-----------------------------------------------------------------------------
(* Decode scheduler *)

\* The thread started with the KVManager registers at every prefill scheduler.
RegisterAll(d) ==
  /\ decode[d].registered # Rank
  /\ toPrefill' = toPrefill \cup {Registration(p, d) : p \in Rank \ decode[d].registered}
  /\ decode' = [decode EXCEPT ![d].registered = Rank]
  /\ UNCHANGED <<routerVars, pendingRequests, roundRobin, prefillChan, decodeChan, prefill, toDecode,
                 timedOut, budget>>

\* recv_kv_cache_and_insert up to its loop: reserved pages are never given back.
StartDecode(d) ==
  /\ decode[d].phase = "idle" /\ decodeChan[d] # <<>>
  /\ FreeSlots(decode[d].buffers) # {}
  /\ LET r == Head(decodeChan[d])
         slot == LowestFree(decode[d].buffers)
     IN  /\ decode' = [decode EXCEPT
              ![d].phase = "waiting", ![d].req = r, ![d].made = 0, ![d].first = NoReq,
              ![d].reason = "none", ![d].buffers = Allocate(@, r), ![d].success = @ \ {r},
              ![d].free = @ - MinOf(MaxBlocksPerReq, @), ![d].registered = Rank]
         /\ toPrefill' = toPrefill \cup {Registration(p, d) : p \in Rank \ decode[d].registered}
                                   \cup {TransferInfo(p, d, r, slot) : p \in Rank}
  /\ decodeChan' = [decodeChan EXCEPT ![d] = Tail(@)]
  /\ UNCHANGED <<routerVars, pendingRequests, roundRobin, prefillChan, prefill, toDecode, timedOut,
                 budget>>

\* Without a free slot, allocate raises and the request is lost.
LoseRequest(d) ==
  /\ decode[d].phase = "idle" /\ decodeChan[d] # <<>>
  /\ FreeSlots(decode[d].buffers) = {}
  /\ decodeChan' = [decodeChan EXCEPT ![d] = Tail(@)]
  /\ UNCHANGED <<routerVars, pendingRequests, roundRobin, prefillChan, prefill, decode, toPrefill,
                 toDecode, timedOut, budget>>

Waiting(d) == decode[d].phase = "waiting"

\* Every half second the TransferInfo is sent to all prefill schedulers again.
Rebroadcast(d) ==
  /\ Waiting(d)
  /\ budget > 0
  /\ budget' = budget - 1
  /\ toPrefill' = toPrefill \cup
       {TransferInfo(p, d, decode[d].req, decode[d].buffers.slotOf[decode[d].req]) : p \in Rank}
  /\ UNCHANGED <<routerVars, pendingRequests, roundRobin, prefillChan, decodeChan, prefill, decode,
                 toDecode, timedOut>>

\* The bootstrap server does not answer in time: the exception leaves the slot taken.
BootstrapFails(d) ==
  /\ Waiting(d)
  /\ budget > 0
  /\ budget' = budget - 1
  /\ decode' = [decode EXCEPT ![d].phase = "idle", ![d].req = NoReq]
  /\ UNCHANGED <<routerVars, pendingRequests, roundRobin, prefillChan, decodeChan, prefill, toPrefill,
                 toDecode, timedOut>>

\* decode_thread
StatusArrives(d) ==
  /\ \E r \in Reqs :
       /\ <<d, r>> \in toDecode
       /\ toDecode' = toDecode \ {<<d, r>>}
       /\ decode' = [decode EXCEPT ![d].success = @ \cup {r}]
  /\ UNCHANGED <<routerVars, pendingRequests, roundRobin, prefillChan, decodeChan, prefill, toPrefill,
                 timedOut, budget>>

\* The end of recv_kv_cache_and_insert: the logits are those in the slot.
TakeLogits(d) ==
  LET r == decode[d].req
      b == decode[d].buffers
  IN  decode' = [decode EXCEPT ![d].phase = "prefill", ![d].first = b.logits[b.slotOf[r]],
                               ![d].buffers = FreeSlot(@, r)]

\* A slip: any Success will do.
ReceivedAnyKV(d) ==
  /\ Waiting(d) /\ decode[d].success # {}
  /\ TakeLogits(d)
  /\ UNCHANGED <<routerVars, pendingRequests, roundRobin, prefillChan, decodeChan, prefill, toPrefill,
                 toDecode, timedOut, budget>>

ReceivedKV(d) ==
  /\ Waiting(d) /\ decode[d].req \in decode[d].success
  /\ TakeLogits(d)
  /\ UNCHANGED <<routerVars, pendingRequests, roundRobin, prefillChan, decodeChan, prefill, toPrefill,
                 toDecode, timedOut, budget>>

\* A slip: a timeout that is noticed after the status only.
TimeoutAfterStatus(d) ==
  /\ Waiting(d) /\ decode[d].req \in decode[d].success
  /\ TakeLogits(d)
  /\ timedOut' = timedOut \cup {decode[d].req}
  /\ UNCHANGED <<routerVars, pendingRequests, roundRobin, prefillChan, decodeChan, prefill, toPrefill,
                 toDecode, budget>>

TransferTimeout(d) ==
  /\ Waiting(d)
  /\ TakeLogits(d)
  /\ timedOut' = timedOut \cup {decode[d].req}
  /\ UNCHANGED <<routerVars, pendingRequests, roundRobin, prefillChan, decodeChan, prefill, toPrefill,
                 toDecode, budget>>

\* Pages for the next step of the request: the prompt, or the token made last.
PagesNeeded(d) ==
  LET n == PromptLen[decode[d].req] + decode[d].made
  IN  IF decode[d].phase = "prefill" THEN Pages(n) ELSE Pages(n) - Pages(n - 1)

Stepping(d) == decode[d].phase \in {"prefill", "decoding"}

\* _execute_decode: the local prefill with the token of the received logits, then one
\* decode step per token.
DecodeToken(d) ==
  /\ Stepping(d)
  /\ PagesNeeded(d) <= decode[d].free
  /\ LET r == decode[d].req
         made == decode[d].made + 1
         piece == [of |-> IF made = 1 THEN decode[d].first ELSE r, pos |-> made, whole |-> TRUE]
     IN  /\ sendQueue' = [sendQueue EXCEPT ![d] = SendData(@, TokenMessage(idOf[r], piece))]
         /\ \E eos \in {FALSE, (r \in StopWithEos)} :
              decode' = [decode EXCEPT
                ![d].made = made, ![d].free = @ - PagesNeeded(d),
                ![d].phase = IF eos \/ made = MaxNew[r] THEN "finishing" ELSE "decoding",
                ![d].reason = IF eos THEN "stop" ELSE "length"]
  /\ UNCHANGED <<idOf, registered, activeRequests, streams, pendingRequests, roundRobin, prefillChan,
                 decodeChan, prefill, toPrefill, toDecode, timedOut, budget>>

\* Out of pages: the exception ends the coroutine, the answer gets no finish.
DecodeRaises(d) ==
  /\ Stepping(d)
  /\ PagesNeeded(d) > decode[d].free
  /\ decode' = [decode EXCEPT ![d].phase = "idle", ![d].req = NoReq, ![d].free = 0]
  /\ UNCHANGED <<routerVars, pendingRequests, roundRobin, prefillChan, decodeChan, prefill, toPrefill,
                 toDecode, timedOut, budget>>

SendFinish(d) ==
  /\ decode[d].phase = "finishing"
  /\ sendQueue' = [sendQueue EXCEPT
                     ![d] = SendData(@, FinishMessage(idOf[decode[d].req], decode[d].reason))]
  /\ decode' = [decode EXCEPT ![d].phase = "idle", ![d].req = NoReq]
  /\ UNCHANGED <<idOf, registered, activeRequests, streams, pendingRequests, roundRobin, prefillChan,
                 decodeChan, prefill, toPrefill, toDecode, timedOut, budget>>

-----------------------------------------------------------------------------
TokenRouterStep == RouterNext /\ UNCHANGED pdVars

Next ==
  \/ \E r \in Reqs : Submit(r)
  \/ Dispatch
  \/ \E p \in Rank :
       \/ PrefillRequest(p) \/ PrefillDies(p) \/ BootstrapReceive(p)
       \/ TransferWaits(p) \/ TransferDies(p) \/ TransferSucceeds(p) \/ TransferFails(p)
  \/ \E d \in Groups :
       \/ RegisterAll(d) \/ StartDecode(d) \/ LoseRequest(d) \/ Rebroadcast(d) \/ BootstrapFails(d)
       \/ StatusArrives(d) \/ ReceivedKV(d) \/ TransferTimeout(d)
       \/ DecodeToken(d) \/ DecodeRaises(d) \/ SendFinish(d)
  \/ TokenRouterStep

Spec == Init /\ [][Next]_vars

\* The decode scheduler's event loop goes on: it takes the next request, its wait ends
\* by the clock at the latest, and it decodes.  Nothing else is assumed.
FairSpec ==
  /\ Spec
  /\ \A d \in Groups :
       /\ WF_vars(StartDecode(d)) /\ WF_vars(LoseRequest(d)) /\ WF_vars(TransferTimeout(d))
       /\ WF_vars(DecodeToken(d)) /\ WF_vars(DecodeRaises(d)) /\ WF_vars(SendFinish(d))
-----------------------------------------------------------------------------
\* While no transfer has timed out, the answers are the requests' own: although slots
\* are reused, messages overtake each other and TransferInfos come again, the first
\* token is taken from the logits of the request itself.
OwnAnswersUnlessTimeout == timedOut = {} => OwnAnswerInOrder

\* The logits of a queued chunk are still in its slot when they are sent, however long
\* it waits for its TransferInfo.
ChunksHoldLogits ==
  \A p \in Rank : \A i \in DOMAIN prefill[p].queue :
    prefill[p].buffers.logits[prefill[p].queue[i].slot] = prefill[p].queue[i].room

\* A decode scheduler gets through its requests: no lost message, dead prefill
\* scheduler or exhausted buffer keeps the requests behind it waiting for ever.
DecodeProceeds ==
  \A d \in Groups : \A r \in Reqs :
    (r \in ToSet(decodeChan[d])) ~> (r \notin ToSet(decodeChan[d]) /\ decode[d].req # r)
=============================================================================
