-------------------------- MODULE PDServingProofs --------------------------
(***************************************************************************)
(* Facts about disaggregated serving for any number of requests, prefill   *)
(* and decode schedulers, slots, pages and network failures.  A request    *)
(* has one chunk in its life and one stay at a decode scheduler, so the    *)
(* TransferInfo that a chunk meets, however old, names the slot that the   *)
(* request has now; and as long as no transfer has timed out a slot is     *)
(* given up only when the logits that were meant for it have come.         *)
(***************************************************************************)
EXTENDS PDServing, TokenRouterProofs, WellFoundedInduction

Requests == Reqs \cup {NoReq}
Buffers == [slotOf : [Reqs -> Nat], logits : Seq(Requests)]
Chunks == [room : Reqs, slot : Nat]
PrefillMessages == [to : Rank, from : Groups, room : Requests, slot : Nat]

PrefillStates ==
  [service : BOOLEAN, worker : BOOLEAN, free : Int, buffers : Buffers, queue : Seq(Chunks),
   infos : [Reqs -> Seq(PrefillMessages)], registered : SUBSET Groups]

DecodeStates ==
  [phase : {"idle", "waiting", "prefill", "decoding", "finishing"}, req : Requests,
   first : Requests, made : Nat, reason : {"none", "stop", "length"}, free : Int,
   buffers : Buffers, success : SUBSET Reqs, registered : SUBSET Rank]

PDTypes ==
  /\ pendingRequests \in Seq(registered)
  /\ roundRobin \in Nat
  /\ prefillChan \in [Rank -> Seq(registered)]
  /\ decodeChan \in [Groups -> Seq(registered)]
  /\ prefill \in [Rank -> PrefillStates]
  /\ decode \in [Groups -> DecodeStates]
  /\ toPrefill \in SUBSET PrefillMessages
  /\ toDecode \in SUBSET (Groups \X Reqs)
  /\ timedOut \in SUBSET Reqs

-----------------------------------------------------------------------------
(* The way of a request to the prefill schedulers *)

RoomsOf(q) == {q[i].room : i \in DOMAIN q}
Rooms(p) == RoomsOf(prefill[p].queue)

\* The chunks of a queue are for rooms of their own.
OwnRooms(q) == \A i, j \in DOMAIN q : q[i].room = q[j].room => i = j

\* A request is in one place on its way to a prefill scheduler, once, and it has one
\* chunk, which comes after that.
PrefilledOnce ==
  /\ IsInjective(pendingRequests)
  /\ \A p \in Rank :
       IsInjective(prefillChan[p]) /\ OwnRooms(prefill[p].queue) /\ Rooms(p) \subseteq registered
  /\ \A p \in Rank, r \in registered :
       /\ r \in ToSet(prefillChan[p]) =>
            /\ r \notin ToSet(pendingRequests)
            /\ \A k \in Rank : r \notin Rooms(k) /\ (r \in ToSet(prefillChan[k]) => k = p)
       /\ r \in Rooms(p) =>
            /\ r \notin ToSet(pendingRequests)
            /\ \A k \in Rank : r \in Rooms(k) => k = p

\* Nothing more will be sent for the request.
Done(r) ==
  /\ r \in registered /\ r \notin ToSet(pendingRequests)
  /\ \A p \in Rank : r \notin ToSet(prefillChan[p]) /\ r \notin Rooms(p)

\* A queued chunk has a slot, and its logits are in it.
Held(c, b) ==
  c.slot \in DOMAIN b.logits /\ b.slotOf[c.room] = c.slot /\ b.logits[c.slot] = c.room

SlotsHeld ==
  \A p \in Rank : \A i \in DOMAIN prefill[p].queue :
    Held(prefill[p].queue[i], prefill[p].buffers)

-----------------------------------------------------------------------------
(* The stay of a request at a decode scheduler *)

NotStarted(r) ==
  \/ r \notin registered
  \/ r \in ToSet(pendingRequests)
  \/ \E d \in Groups : r \in ToSet(decodeChan[d])

StartedOnce ==
  /\ \A d \in Groups : IsInjective(decodeChan[d])
  /\ \A d \in Groups, r \in registered : r \in ToSet(decodeChan[d]) =>
       /\ r \notin ToSet(pendingRequests)
       /\ \A k \in Groups : r \in ToSet(decodeChan[k]) => k = d

\* What a decode scheduler does, it does for a request that has started.
Busy ==
  \A d \in Groups :
    /\ decode[d].phase # "idle" => decode[d].req \in Reqs /\ ~NotStarted(decode[d].req)
    /\ decode[d].phase = "decoding" => decode[d].made # 0
    /\ decode[d].phase \in {"decoding", "finishing"} => decode[d].reason # "none"

\* A TransferInfo that has come is kept under its room.
InfoHome ==
  \A p \in Rank, r \in Reqs : prefill[p].infos[r] # <<>> => prefill[p].infos[r][1].room = r

\* Nobody speaks of a request that has not started.
Unheard ==
  \A r \in Reqs : NotStarted(r) =>
    /\ \A m \in toPrefill : m.room # r
    /\ \A p \in Rank : prefill[p].infos[r] = <<>>
    /\ \A d \in Groups : r \notin decode[d].success /\ <<d, r>> \notin toDecode

\* The slots of a decode scheduler are there, and each is of one request.
SlotOfOne(b) ==
  /\ \A r \in Reqs : b.slotOf[r] # NoSlot => b.slotOf[r] \in DOMAIN b.logits
  /\ \A r, q \in Reqs : b.slotOf[r] = b.slotOf[q] /\ b.slotOf[r] # NoSlot => r = q

SlotsTaken ==
  \A d \in Groups :
    /\ SlotOfOne(decode[d].buffers)
    /\ decode[d].phase = "waiting" => decode[d].buffers.slotOf[decode[d].req] # NoSlot

-----------------------------------------------------------------------------
(* The transfers, while none has timed out *)

\* The slot a TransferInfo names is that of its request, or no chunk is left to meet it.
Current(m) ==
  Done(m.room) \/ (/\ m.slot # NoSlot
                   /\ m.slot = decode[m.from].buffers.slotOf[m.room])

\* A Success is about the last transfer for its request, whose logits are in its slot.
Arrived(d, r) ==
  /\ Done(r)
  /\ decode[d].buffers.slotOf[r] # NoSlot =>
       decode[d].buffers.logits[decode[d].buffers.slotOf[r]] = r

TransfersInv ==
  /\ \A m \in toPrefill : m.room # NoReq => Current(m)
  /\ \A p \in Rank, r \in Reqs : prefill[p].infos[r] # <<>> => Current(prefill[p].infos[r][1])
  /\ \A d \in Groups :
       /\ \A r \in Reqs : r \in decode[d].success \/ <<d, r>> \in toDecode => Arrived(d, r)
       /\ decode[d].phase = "prefill" => decode[d].first = decode[d].req

Channels == PrefilledOnce /\ StartedOnce
Speaking ==
  Busy /\ InfoHome /\ Unheard /\ SlotsTaken /\ (timedOut = {} => TransfersInv)

IInv == RouterIInv /\ PDTypes /\ Channels /\ SlotsHeld /\ Speaking

\* A request that is done stays done, and one that has started has started.
Onward ==
  \A r \in Reqs : (Done(r) => Done(r)') /\ (NotStarted(r)' => NotStarted(r))
-----------------------------------------------------------------------------
(* Numbers, buffers and queues *)

\* Every set of naturals has a least element.
LEMMA LeastNatural ==
  ASSUME NEW S \in SUBSET Nat, S # {}
  PROVE  \E n \in S : \A m \in S : n <= m
<1> DEFINE R == OpToRel(<, Nat)
<1>1. IsWellFoundedOn(R, Nat)
  BY NatLessThanWellFounded
<1>2. \A m, n \in Nat : <<m, n>> \in R <=> m < n
  BY DEF OpToRel
<1> HIDE DEF R
<1>3. \E n \in S : \A m \in S : ~(<<m, n>> \in R)
  BY <1>1, WFMin
<1>4. PICK n \in S : \A m \in S : ~(<<m, n>> \in R)
  BY <1>3
<1>5. \A m \in S : ~(m < n)
  BY <1>2, <1>4
<1> QED
  BY <1>5

\* MetadataBuffers hands out a slot that nobody has.
LEMMA LowestFreeSlot ==
  ASSUME NEW b \in Buffers, FreeSlots(b) # {}
  PROVE  /\ LowestFree(b) \in DOMAIN b.logits /\ LowestFree(b) \in Nat /\ LowestFree(b) # NoSlot
         /\ \A r \in Reqs : b.slotOf[r] # LowestFree(b)
<1>1. DOMAIN b.logits = 1 .. Len(b.logits) /\ Len(b.logits) \in Nat
  BY LenProperties DEF Buffers
<1>2. FreeSlots(b) \in SUBSET Nat
  BY <1>1 DEF FreeSlots
<1>3. \E s \in FreeSlots(b) : \A u \in FreeSlots(b) : s <= u
  BY <1>2, LeastNatural
<1>4. LowestFree(b) \in FreeSlots(b)
  BY <1>3 DEF LowestFree
<1> QED
  BY <1>1, <1>4 DEF FreeSlots, NoSlot

\* Taking a slot.
LEMMA AllocateFacts ==
  ASSUME NEW b \in Buffers, FreeSlots(b) # {}, NEW r \in Reqs
  PROVE  /\ Allocate(b, r) \in Buffers
         /\ Allocate(b, r).logits = b.logits
         /\ \A q \in Reqs : Allocate(b, r).slotOf[q] = IF q = r THEN LowestFree(b) ELSE b.slotOf[q]
<1>1. LowestFree(b) \in Nat
  BY LowestFreeSlot
<1> QED
  BY <1>1 DEF Allocate, Buffers

Filled(b, s, v) == [b EXCEPT !.logits[s] = v]

\* Writing a slot that is not there changes nothing.
LEMMA LogitsFacts ==
  ASSUME NEW b \in Buffers, NEW s, NEW v \in Requests
  PROVE  /\ Filled(b, s, v) \in Buffers
         /\ Filled(b, s, v).slotOf = b.slotOf
         /\ DOMAIN Filled(b, s, v).logits = DOMAIN b.logits
         /\ \A u \in DOMAIN b.logits :
              Filled(b, s, v).logits[u] = IF u = s THEN v ELSE b.logits[u]
<1> DEFINE L == [b.logits EXCEPT ![s] = v]
<1>1. b.logits \in Seq(Requests)
  BY DEF Buffers
<1>2. /\ L \in Seq(Requests) /\ DOMAIN L = DOMAIN b.logits
      /\ \A u \in DOMAIN b.logits : L[u] = IF u = s THEN v ELSE b.logits[u]
  <2>1. CASE s \in DOMAIN b.logits
    <3>1. s \in 1 .. Len(b.logits)
      BY <1>1, <2>1, LenProperties
    <3> QED
      BY <1>1, <3>1, ExceptSeq
  <2>2. CASE s \notin DOMAIN b.logits
    <3>1. L = b.logits
      <4>1. b.logits = [u \in DOMAIN b.logits |-> b.logits[u]]
        BY <1>1, SeqDef
      <4> QED
        BY <2>2, <4>1
    <3> QED
      BY <1>1, <2>2, <3>1
  <2> QED
    BY <2>1, <2>2
<1>3. Filled(b, s, v) = [b EXCEPT !.logits = L]
  BY DEF Buffers, Filled
<1> HIDE DEF L
<1> QED
  BY <1>2, <1>3 DEF Buffers

\* Taking a slot and filling it.
LEMMA AllocateWithFacts ==
  ASSUME NEW b \in Buffers, FreeSlots(b) # {}, NEW r \in Reqs
  PROVE  /\ AllocateWith(b, r) \in Buffers
         /\ DOMAIN AllocateWith(b, r).logits = DOMAIN b.logits
         /\ \A q \in Reqs :
              AllocateWith(b, r).slotOf[q] = IF q = r THEN LowestFree(b) ELSE b.slotOf[q]
         /\ \A u \in DOMAIN b.logits :
              AllocateWith(b, r).logits[u] = IF u = LowestFree(b) THEN r ELSE b.logits[u]
<1> DEFINE a == Allocate(b, r)
<1>1. /\ a \in Buffers /\ a.logits = b.logits
      /\ \A q \in Reqs : a.slotOf[q] = IF q = r THEN LowestFree(b) ELSE b.slotOf[q]
  BY AllocateFacts
<1>2. AllocateWith(b, r) = Filled(a, LowestFree(b), r)
  BY DEF AllocateWith, Filled
<1>3. r \in Requests
  BY DEF Requests
<1> HIDE DEF a
<1> QED
  BY <1>1, <1>2, <1>3, LogitsFacts

\* Giving a slot back.
LEMMA FreeSlotFacts ==
  ASSUME NEW b \in Buffers, NEW r \in Reqs
  PROVE  /\ FreeSlot(b, r) \in Buffers
         /\ FreeSlot(b, r).logits = b.logits
         /\ \A q \in Reqs : FreeSlot(b, r).slotOf[q] = IF q = r THEN NoSlot ELSE b.slotOf[q]
  BY DEF FreeSlot, Buffers, NoSlot

\* The first chunk is taken from a queue.
LEMMA QueueTail ==
  ASSUME NEW q \in Seq(Chunks), q # <<>>, OwnRooms(q)
  PROVE  /\ Head(q) \in Chunks /\ Head(q).room \in RoomsOf(q)
         /\ \E j \in DOMAIN q : Head(q) = q[j]
         /\ Tail(q) \in Seq(Chunks) /\ OwnRooms(Tail(q))
         /\ \A i \in DOMAIN Tail(q) : \E j \in DOMAIN q : Tail(q)[i] = q[j]
         /\ RoomsOf(Tail(q)) \subseteq RoomsOf(q) \ {Head(q).room}
<1>1. Head(q) \in Chunks /\ Tail(q) \in Seq(Chunks) /\ Len(Tail(q)) = Len(q) - 1
      /\ \A i \in 1 .. Len(Tail(q)) : Tail(q)[i] = q[i + 1]
  BY HeadTailProperties
<1>2. Len(q) \in Nat \ {0} /\ DOMAIN q = 1 .. Len(q) /\ DOMAIN Tail(q) = 1 .. Len(q) - 1
  BY <1>1, LenProperties, EmptySeq
<1>3. Head(q) = q[1] /\ 1 \in DOMAIN q
  BY <1>2
<1>4. ASSUME NEW i \in DOMAIN Tail(q)
      PROVE  i \in Int /\ i + 1 \in DOMAIN q /\ i + 1 # 1 /\ Tail(q)[i] = q[i + 1]
  BY <1>1, <1>2
<1>5. OwnRooms(Tail(q))
  <2> SUFFICES ASSUME NEW i \in DOMAIN Tail(q), NEW j \in DOMAIN Tail(q),
                      Tail(q)[i].room = Tail(q)[j].room
               PROVE  i = j
    BY DEF OwnRooms
  <2>1. i + 1 = j + 1
    BY <1>4 DEF OwnRooms
  <2> QED
    BY <1>4, <2>1
<1>6. RoomsOf(Tail(q)) \subseteq RoomsOf(q) \ {Head(q).room}
  <2> SUFFICES ASSUME NEW i \in DOMAIN Tail(q)
               PROVE  Tail(q)[i].room \in RoomsOf(q) \ {Head(q).room}
    BY DEF RoomsOf
  <2>1. i + 1 \in DOMAIN q /\ i + 1 # 1 /\ Tail(q)[i] = q[i + 1]
    BY <1>4
  <2> QED
    BY <1>3, <2>1 DEF OwnRooms, RoomsOf
<1> QED
  BY <1>1, <1>3, <1>4, <1>5, <1>6 DEF RoomsOf

\* A chunk for another room is put into a queue.
LEMMA QueueAppend ==
  ASSUME NEW q \in Seq(Chunks), OwnRooms(q), NEW c \in Chunks, c.room \notin RoomsOf(q)
  PROVE  /\ Append(q, c) \in Seq(Chunks) /\ OwnRooms(Append(q, c))
         /\ \A i \in DOMAIN Append(q, c) :
              Append(q, c)[i] = c \/ \E j \in DOMAIN q : Append(q, c)[i] = q[j]
         /\ RoomsOf(Append(q, c)) = RoomsOf(q) \cup {c.room}
<1>1. /\ Append(q, c) \in Seq(Chunks)
      /\ Len(Append(q, c)) = Len(q) + 1
      /\ \A i \in 1 .. Len(q) : Append(q, c)[i] = q[i]
      /\ Append(q, c)[Len(q) + 1] = c
  BY AppendProperties
<1>2. Len(q) \in Nat /\ DOMAIN q = 1 .. Len(q) /\ DOMAIN Append(q, c) = 1 .. Len(q) + 1
  BY <1>1, LenProperties
<1>3. \A i \in DOMAIN Append(q, c) : i \in DOMAIN q \/ i = Len(q) + 1
  BY <1>2
<1>4. DOMAIN q \subseteq DOMAIN Append(q, c) /\ Len(q) + 1 \in DOMAIN Append(q, c)
  BY <1>2
<1>5. OwnRooms(Append(q, c))
  BY <1>1, <1>2, <1>3 DEF OwnRooms, RoomsOf
<1>6. RoomsOf(Append(q, c)) = RoomsOf(q) \cup {c.room}
  BY <1>1, <1>2, <1>3, <1>4 DEF RoomsOf
<1> QED
  BY <1>1, <1>2, <1>3, <1>5, <1>6

\* A chunk that is put back behind the others.
LEMMA QueueRotate ==
  ASSUME NEW q \in Seq(Chunks), q # <<>>, OwnRooms(q)
  PROVE  /\ Append(Tail(q), Head(q)) \in Seq(Chunks) /\ OwnRooms(Append(Tail(q), Head(q)))
         /\ \A i \in DOMAIN Append(Tail(q), Head(q)) :
              \E j \in DOMAIN q : Append(Tail(q), Head(q))[i] = q[j]
         /\ RoomsOf(Append(Tail(q), Head(q))) \subseteq RoomsOf(q)
<1> DEFINE t == Tail(q)
           h == Head(q)
<1>1. /\ h \in Chunks /\ h.room \in RoomsOf(q) /\ \E j \in DOMAIN q : h = q[j]
      /\ t \in Seq(Chunks) /\ OwnRooms(t) /\ \A i \in DOMAIN t : \E j \in DOMAIN q : t[i] = q[j]
      /\ RoomsOf(t) \subseteq RoomsOf(q) \ {h.room}
  BY QueueTail
<1> HIDE DEF t, h
<1>2. /\ Append(t, h) \in Seq(Chunks) /\ OwnRooms(Append(t, h))
      /\ \A i \in DOMAIN Append(t, h) :
           Append(t, h)[i] = h \/ \E j \in DOMAIN t : Append(t, h)[i] = t[j]
      /\ RoomsOf(Append(t, h)) = RoomsOf(t) \cup {h.room}
  BY <1>1, QueueAppend
<1>3. \A i \in DOMAIN Append(t, h) : \E j \in DOMAIN q : Append(t, h)[i] = q[j]
  BY <1>1, <1>2
<1> QED
  BY <1>1, <1>2, <1>3 DEF t, h

-----------------------------------------------------------------------------
(* Requests on their way *)

\* The types of what is on its way, and of the schedulers' states.
LEMMA ChannelTypes ==
  ASSUME IInv
  PROVE  /\ registered \in SUBSET Reqs
         /\ pendingRequests \in Seq(registered) /\ IsInjective(pendingRequests)
         /\ ToSet(pendingRequests) \subseteq registered
         /\ \A p \in Rank : /\ prefillChan[p] \in Seq(registered) /\ IsInjective(prefillChan[p])
                            /\ ToSet(prefillChan[p]) \subseteq registered
                            /\ prefill[p] \in PrefillStates
                            /\ prefill[p].queue \in Seq(Chunks) /\ OwnRooms(prefill[p].queue)
                            /\ prefill[p].buffers \in Buffers
         /\ \A d \in Groups : /\ decodeChan[d] \in Seq(registered) /\ IsInjective(decodeChan[d])
                              /\ ToSet(decodeChan[d]) \subseteq registered
                              /\ decode[d] \in DecodeStates
                              /\ decode[d].buffers \in Buffers
<1>1. /\ registered \in SUBSET Reqs /\ pendingRequests \in Seq(registered)
      /\ \A p \in Rank : prefillChan[p] \in Seq(registered) /\ prefill[p] \in PrefillStates
      /\ \A d \in Groups : decodeChan[d] \in Seq(registered) /\ decode[d] \in DecodeStates
  BY DEF IInv, RouterIInv, RouterTypes, PDTypes
<1>2. /\ IsInjective(pendingRequests)
      /\ \A p \in Rank : IsInjective(prefillChan[p]) /\ OwnRooms(prefill[p].queue)
      /\ \A d \in Groups : IsInjective(decodeChan[d])
  BY DEF IInv, Channels, PrefilledOnce, StartedOnce
<1>3. \A p \in Rank : prefill[p].queue \in Seq(Chunks) /\ prefill[p].buffers \in Buffers
  BY <1>1 DEF PrefillStates
<1>4. \A d \in Groups : decode[d].buffers \in Buffers
  BY <1>1 DEF DecodeStates
<1> QED
  BY <1>1, <1>2, <1>3, <1>4, SetOfSeq

\* A new request is on its way nowhere else.
LEMMA ChannelsSubmit ==
  ASSUME IInv, NEW r \in Reqs, Submit(r)
  PROVE  Channels' /\ Onward /\ pendingRequests' \in Seq(registered')
<1>1. /\ r \notin registered /\ registered' = registered \cup {r}
      /\ pendingRequests' = Append(pendingRequests, r)
      /\ UNCHANGED <<prefillChan, decodeChan, prefill>>
  BY DEF Submit, RegisterRequest
<1>2. pendingRequests \in Seq(registered') /\ r \in registered'
  BY <1>1, ChannelTypes, SeqMonotonic
<1>3. /\ pendingRequests' \in Seq(registered') /\ IsInjective(pendingRequests')
      /\ ToSet(pendingRequests') = ToSet(pendingRequests) \cup {r}
  BY <1>1, <1>2, ChannelTypes, AppendedSet
<1>4. \A p \in Rank : Rooms(p)' = Rooms(p)
  BY <1>1 DEF Rooms
<1>5. /\ \A p \in Rank : r \notin ToSet(prefillChan[p]) /\ r \notin Rooms(p)
      /\ \A d \in Groups : r \notin ToSet(decodeChan[d])
  BY <1>1, ChannelTypes DEF IInv, Channels, PrefilledOnce
<1>6. PrefilledOnce'
  BY <1>1, <1>3, <1>4, <1>5 DEF IInv, Channels, PrefilledOnce
<1>8. StartedOnce'
  BY <1>1, <1>3, <1>5 DEF IInv, Channels, StartedOnce
<1>7. Onward
  BY <1>1, <1>3, <1>4 DEF Onward, Done, NotStarted
<1> QED
  BY <1>3, <1>6, <1>7, <1>8 DEF Channels

\* The schedulers that are next in turn.
LEMMA InTurn ==
  ASSUME roundRobin \in Nat
  PROVE  /\ Prefills[(roundRobin % Len(Prefills)) + 1] \in Rank
         /\ Decodes[(roundRobin % Len(Decodes)) + 1] \in Groups
<1>1. /\ Prefills \in Seq(ToSet(Prefills)) /\ Prefills # <<>>
      /\ Decodes \in Seq(Groups) /\ Decodes # <<>>
  BY PDAssumption
<1>2. /\ Len(Prefills) \in Nat \ {0} /\ \A i \in 1 .. Len(Prefills) : Prefills[i] \in ToSet(Prefills)
      /\ Len(Decodes) \in Nat \ {0} /\ \A i \in 1 .. Len(Decodes) : Decodes[i] \in Groups
  BY <1>1, EmptySeq, LenProperties
<1>3. \A n \in Nat \ {0} : (roundRobin % n) + 1 \in 1 .. n
  OBVIOUS
<1> QED
  BY <1>2, <1>3 DEF Rank

\* The first request that waits is sent to one scheduler of each kind.
LEMMA ChannelsDispatch ==
  ASSUME IInv, Dispatch
  PROVE  /\ Channels' /\ Onward
         /\ pendingRequests' \in Seq(registered)
         /\ prefillChan' \in [Rank -> Seq(registered)]
         /\ decodeChan' \in [Groups -> Seq(registered)]
<1> DEFINE r == Head(pendingRequests)
           p == Prefills[(roundRobin % Len(Prefills)) + 1]
           d == Decodes[(roundRobin % Len(Decodes)) + 1]
<1>1. /\ pendingRequests # <<>>
      /\ prefillChan' = [prefillChan EXCEPT ![p] = Append(@, r)]
      /\ decodeChan' = [decodeChan EXCEPT ![d] = Append(@, r)]
      /\ pendingRequests' = Tail(pendingRequests)
      /\ UNCHANGED <<registered, prefill>>
  BY DEF Dispatch, routerVars
<1>2. p \in Rank /\ d \in Groups
  BY InTurn DEF IInv, PDTypes
<1>3. /\ r \in registered /\ r \in ToSet(pendingRequests)
      /\ pendingRequests' \in Seq(registered) /\ IsInjective(pendingRequests')
      /\ ToSet(pendingRequests') = ToSet(pendingRequests) \ {r}
  BY <1>1, ChannelTypes, TakenSet
<1> HIDE DEF r, p, d
<1>4. /\ prefillChan \in [Rank -> Seq(registered)] /\ decodeChan \in [Groups -> Seq(registered)]
  BY DEF IInv, PDTypes
<1>5. /\ \A k \in Rank : prefillChan'[k] = IF k = p THEN Append(prefillChan[p], r) ELSE prefillChan[k]
      /\ \A k \in Groups : decodeChan'[k] = IF k = d THEN Append(decodeChan[d], r) ELSE decodeChan[k]
  BY <1>1, <1>4
<1>6. r \notin ToSet(prefillChan[p]) /\ r \notin ToSet(decodeChan[d])
  BY <1>2, <1>3 DEF IInv, Channels, PrefilledOnce, StartedOnce
<1>7. /\ Append(prefillChan[p], r) \in Seq(registered) /\ IsInjective(Append(prefillChan[p], r))
      /\ ToSet(Append(prefillChan[p], r)) = ToSet(prefillChan[p]) \cup {r}
  BY <1>2, <1>3, <1>6, ChannelTypes, AppendedSet
<1>8. /\ Append(decodeChan[d], r) \in Seq(registered) /\ IsInjective(Append(decodeChan[d], r))
      /\ ToSet(Append(decodeChan[d], r)) = ToSet(decodeChan[d]) \cup {r}
  BY <1>2, <1>3, <1>6, ChannelTypes, AppendedSet
<1>9. \A k \in Rank : Rooms(k)' = Rooms(k)
  BY <1>1 DEF Rooms
<1>10. ASSUME NEW k \in Rank
       PROVE  /\ IsInjective(prefillChan'[k])
              /\ \A q : q \in ToSet(prefillChan'[k]) <=>
                        q \in ToSet(prefillChan[k]) \/ (k = p /\ q = r)
  BY <1>5, <1>7, ChannelTypes
<1>11. ASSUME NEW k \in Groups
       PROVE  /\ IsInjective(decodeChan'[k])
              /\ \A q : q \in ToSet(decodeChan'[k]) <=>
                        q \in ToSet(decodeChan[k]) \/ (k = d /\ q = r)
  BY <1>5, <1>8, ChannelTypes
<1>12. \A k \in Rank : r \notin ToSet(prefillChan[k]) /\ r \notin Rooms(k)
  BY <1>3 DEF IInv, Channels, PrefilledOnce
<1>13. PrefilledOnce'
  <2>1. \A k \in Rank :
          IsInjective(prefillChan'[k]) /\ OwnRooms(prefill[k].queue) /\ Rooms(k) \subseteq registered
    BY <1>10 DEF IInv, Channels, PrefilledOnce
  <2>2. ASSUME NEW k \in Rank, NEW q \in registered, q \in ToSet(prefillChan'[k])
        PROVE  /\ q \notin ToSet(pendingRequests')
               /\ \A j \in Rank : q \notin Rooms(j) /\ (q \in ToSet(prefillChan'[j]) => j = k)
    <3>1. CASE q = r
      BY <1>3, <1>10, <1>12, <2>2, <3>1
    <3>2. CASE q # r
      <4>1. q \in ToSet(prefillChan[k])
        BY <1>10, <2>2, <3>2
      <4>2. \A j \in Rank : q \in ToSet(prefillChan'[j]) => q \in ToSet(prefillChan[j])
        BY <1>10, <3>2
      <4> QED
        BY <1>3, <4>1, <4>2 DEF IInv, Channels, PrefilledOnce
    <3> QED
      BY <3>1, <3>2
  <2>3. ASSUME NEW k \in Rank, NEW q \in registered, q \in Rooms(k)
        PROVE  q \notin ToSet(pendingRequests') /\ \A j \in Rank : q \in Rooms(j) => j = k
    BY <1>3, <2>3 DEF IInv, Channels, PrefilledOnce
  <2> QED
    BY <1>1, <1>3, <1>9, <2>1, <2>2, <2>3 DEF PrefilledOnce
<1>14. \A k \in Groups : r \notin ToSet(decodeChan[k])
  BY <1>3 DEF IInv, Channels, StartedOnce
<1>15. StartedOnce'
  <2> SUFFICES ASSUME NEW k \in Groups, NEW q \in registered, q \in ToSet(decodeChan'[k])
               PROVE  /\ q \notin ToSet(pendingRequests')
                      /\ \A j \in Groups : q \in ToSet(decodeChan'[j]) => j = k
    BY <1>1, <1>11 DEF StartedOnce
  <2>1. CASE q = r
    BY <1>3, <1>11, <1>14, <2>1
  <2>2. CASE q # r
    <3>1. q \in ToSet(decodeChan[k])
      BY <1>11, <2>2
    <3>2. \A j \in Groups : q \in ToSet(decodeChan'[j]) => q \in ToSet(decodeChan[j])
      BY <1>11, <2>2
    <3> QED
      BY <1>3, <3>1, <3>2 DEF IInv, Channels, StartedOnce
  <2> QED
    BY <2>1, <2>2
<1>16. Onward
  <2>1. ASSUME NEW q \in Reqs, Done(q) PROVE Done(q)'
    <3>1. q # r
      BY <1>3, <2>1 DEF Done
    <3>2. \A k \in Rank : q \notin ToSet(prefillChan'[k])
      BY <1>10, <2>1, <3>1 DEF Done
    <3> QED
      BY <1>1, <1>3, <1>9, <2>1, <3>2 DEF Done
  <2>2. ASSUME NEW q \in Reqs, NotStarted(q)' PROVE NotStarted(q)
    <3>1. ASSUME NEW k \in Groups, q \in ToSet(decodeChan'[k])
          PROVE  q \in ToSet(pendingRequests) \/ q \in ToSet(decodeChan[k])
      BY <1>3, <1>11, <3>1
    <3> QED
      BY <1>1, <1>3, <2>2, <3>1 DEF NotStarted
  <2> QED
    BY <2>1, <2>2 DEF Onward
<1> QED
  BY <1>1, <1>3, <1>4, <1>7, <1>8, <1>13, <1>15, <1>16 DEF Channels

\* A prefill scheduler takes a request and may queue a chunk for it, or works on its
\* queue only.
LEMMA ChannelsPrefill ==
  ASSUME IInv, NEW p \in Rank, NEW s \in PrefillStates, prefill' = [prefill EXCEPT ![p] = s],
         UNCHANGED <<registered, pendingRequests, decodeChan>>, OwnRooms(s.queue),
         \/ prefillChan' = prefillChan /\ RoomsOf(s.queue) \subseteq Rooms(p)
         \/ /\ prefillChan[p] # <<>> /\ prefillChan' = [prefillChan EXCEPT ![p] = Tail(@)]
            /\ RoomsOf(s.queue) \subseteq Rooms(p) \cup {Head(prefillChan[p])}
  PROVE  /\ Channels' /\ Onward
         /\ prefill' \in [Rank -> PrefillStates]
         /\ prefillChan' \in [Rank -> Seq(registered)]
<1>1. /\ prefill \in [Rank -> PrefillStates] /\ prefillChan \in [Rank -> Seq(registered)]
  BY DEF IInv, PDTypes
<1>2. \A k \in Rank : prefill'[k] = IF k = p THEN s ELSE prefill[k]
  BY <1>1
<1>3. \A k \in Rank : Rooms(k)' = IF k = p THEN RoomsOf(s.queue) ELSE Rooms(k)
  BY <1>2 DEF Rooms
<1>4. \A k \in Rank : OwnRooms(prefill'[k].queue)
  BY <1>2, ChannelTypes
<1>5. StartedOnce'
  BY DEF IInv, Channels, StartedOnce
<1>6. CASE prefillChan' = prefillChan /\ RoomsOf(s.queue) \subseteq Rooms(p)
  <2>1. \A k \in Rank : Rooms(k)' \subseteq Rooms(k)
    BY <1>3, <1>6
  <2>2. PrefilledOnce'
    BY <1>4, <1>6, <2>1 DEF IInv, Channels, PrefilledOnce
  <2>3. Onward
    BY <1>6, <2>1 DEF Onward, Done, NotStarted
  <2> QED
    BY <1>1, <1>5, <1>6, <2>2, <2>3 DEF Channels
<1>7. CASE /\ prefillChan[p] # <<>> /\ prefillChan' = [prefillChan EXCEPT ![p] = Tail(@)]
           /\ RoomsOf(s.queue) \subseteq Rooms(p) \cup {Head(prefillChan[p])}
  <2> DEFINE r == Head(prefillChan[p])
  <2>1. /\ r \in registered /\ r \in ToSet(prefillChan[p])
        /\ Tail(prefillChan[p]) \in Seq(registered) /\ IsInjective(Tail(prefillChan[p]))
        /\ ToSet(Tail(prefillChan[p])) = ToSet(prefillChan[p]) \ {r}
    BY <1>7, ChannelTypes, TakenSet
  <2>2. ASSUME NEW k \in Rank
        PROVE  /\ IsInjective(prefillChan'[k])
               /\ \A q : q \in ToSet(prefillChan'[k]) <=>
                         q \in ToSet(prefillChan[k]) /\ ~(k = p /\ q = r)
    BY <1>1, <1>7, <2>1, ChannelTypes
  <2>3. /\ RoomsOf(s.queue) \subseteq Rooms(p) \cup {r}
        /\ \A k \in Rank : \A q \in Rooms(k)' : q \in Rooms(k) \/ (k = p /\ q = r)
    BY <1>3, <1>7
  <2> HIDE DEF r
  <2>4. /\ r \notin ToSet(pendingRequests)
        /\ \A k \in Rank : r \notin Rooms(k) /\ (k # p => r \notin ToSet(prefillChan[k]))
    BY <2>1 DEF IInv, Channels, PrefilledOnce
  <2>5. PrefilledOnce'
    <3>1. \A k \in Rank : Rooms(k)' \subseteq registered
      BY <2>1, <2>3 DEF IInv, Channels, PrefilledOnce
    <3>2. ASSUME NEW k \in Rank, NEW q \in registered, q \in ToSet(prefillChan'[k])
          PROVE  /\ q \notin ToSet(pendingRequests)
                 /\ \A j \in Rank : q \notin Rooms(j)' /\ (q \in ToSet(prefillChan'[j]) => j = k)
      <4>1. q \in ToSet(prefillChan[k]) /\ ~(k = p /\ q = r)
        BY <2>2, <3>2
      <4>2. \A j \in Rank : q \notin Rooms(j) /\ (q \in ToSet(prefillChan[j]) => j = k)
        BY <4>1 DEF IInv, Channels, PrefilledOnce
      <4>3. q # r
        BY <2>4, <4>1
      <4>4. \A j \in Rank : q \notin Rooms(j)' /\ (q \in ToSet(prefillChan'[j]) => j = k)
        BY <2>2, <2>3, <4>2, <4>3
      <4> QED
        BY <4>1, <4>4 DEF IInv, Channels, PrefilledOnce
    <3>3. ASSUME NEW k \in Rank, NEW q \in registered, q \in Rooms(k)'
          PROVE  q \notin ToSet(pendingRequests) /\ \A j \in Rank : q \in Rooms(j)' => j = k
      <4>1. CASE q = r
        BY <2>3, <2>4, <3>3, <4>1
      <4>2. CASE q # r
        BY <2>3, <3>3, <4>2 DEF IInv, Channels, PrefilledOnce
      <4> QED
        BY <4>1, <4>2
    <3> QED
      BY <1>4, <2>2, <3>1, <3>2, <3>3 DEF IInv, Channels, PrefilledOnce
  <2>6. Onward
    BY <2>1, <2>2, <2>3 DEF Onward, Done, NotStarted
  <2>7. prefillChan' \in [Rank -> Seq(registered)]
    BY <1>1, <1>7, <2>1
  <2> QED
    BY <1>1, <1>5, <2>5, <2>6, <2>7 DEF Channels
<1> QED
  BY <1>6, <1>7

\* A decode scheduler takes a request, or none.
LEMMA ChannelsDecode ==
  ASSUME IInv, UNCHANGED <<registered, pendingRequests, prefillChan>>,
         \A p \in Rank : prefill'[p].queue = prefill[p].queue,
         \/ decodeChan' = decodeChan
         \/ \E d \in Groups : decodeChan[d] # <<>> /\ decodeChan' = [decodeChan EXCEPT ![d] = Tail(@)]
  PROVE  Channels' /\ Onward /\ decodeChan' \in [Groups -> Seq(registered)]
<1>1. decodeChan \in [Groups -> Seq(registered)]
  BY DEF IInv, PDTypes
<1>2. \A k \in Rank : Rooms(k)' = Rooms(k)
  BY DEF Rooms
<1>3. PrefilledOnce'
  BY <1>2 DEF IInv, Channels, PrefilledOnce
<1>4. \A k \in Groups : /\ decodeChan'[k] \in Seq(registered) /\ IsInjective(decodeChan'[k])
                        /\ ToSet(decodeChan'[k]) \subseteq ToSet(decodeChan[k])
  <2>1. CASE decodeChan' = decodeChan
    BY <2>1, ChannelTypes
  <2>2. ASSUME NEW d \in Groups, decodeChan[d] # <<>>, decodeChan' = [decodeChan EXCEPT ![d] = Tail(@)]
        PROVE  \A k \in Groups : /\ decodeChan'[k] \in Seq(registered) /\ IsInjective(decodeChan'[k])
                                 /\ ToSet(decodeChan'[k]) \subseteq ToSet(decodeChan[k])
    <3>1. /\ Tail(decodeChan[d]) \in Seq(registered) /\ IsInjective(Tail(decodeChan[d]))
          /\ ToSet(Tail(decodeChan[d])) \subseteq ToSet(decodeChan[d])
      BY <2>2, ChannelTypes, TakenSet
    <3> QED
      BY <1>1, <2>2, <3>1, ChannelTypes
  <2> QED
    BY <2>1, <2>2
<1>5. StartedOnce'
  BY <1>4 DEF IInv, Channels, StartedOnce
<1>6. Onward
  BY <1>2, <1>4 DEF Onward, Done, NotStarted
<1>7. decodeChan' \in [Groups -> Seq(registered)]
  BY <1>1, <1>4
<1> QED
  BY <1>3, <1>5, <1>6, <1>7 DEF Channels

-----------------------------------------------------------------------------
(* What is said of a request *)

\* The fields of a prefill scheduler's state, and of a decode scheduler's.
LEMMA StateFields ==
  ASSUME IInv
  PROVE  /\ prefill \in [Rank -> PrefillStates] /\ decode \in [Groups -> DecodeStates]
         /\ toPrefill \in SUBSET PrefillMessages /\ toDecode \in SUBSET (Groups \X Reqs)
         /\ \A p \in Rank, r \in Reqs : prefill[p].infos[r] \in Seq(PrefillMessages)
         /\ \A p \in Rank, r \in Reqs : prefill[p].infos[r] # <<>> =>
              prefill[p].infos[r][1] \in PrefillMessages
<1>1. /\ prefill \in [Rank -> PrefillStates] /\ decode \in [Groups -> DecodeStates]
      /\ toPrefill \in SUBSET PrefillMessages /\ toDecode \in SUBSET (Groups \X Reqs)
  BY DEF IInv, PDTypes
<1>2. \A p \in Rank, r \in Reqs : prefill[p].infos[r] \in Seq(PrefillMessages)
  BY <1>1 DEF PrefillStates
<1>3. \A i \in Seq(PrefillMessages) : i # <<>> => i[1] \in PrefillMessages
  BY EmptySeq, LenProperties
<1> QED
  BY <1>1, <1>2, <1>3

\* A step that moves requests or their messages, and says nothing new.
LEMMA SpeakingKept ==
  ASSUME IInv, Onward, UNCHANGED <<decode, toDecode, timedOut>>, toPrefill' \subseteq toPrefill,
         \A p \in Rank, r \in Reqs :
           \/ prefill'[p].infos[r] = prefill[p].infos[r]
           \/ \E m \in toPrefill : m.room = r /\ prefill'[p].infos[r] = <<m>>
  PROVE  Speaking'
<1>1. Busy'
  BY DEF IInv, Speaking, Busy, Onward
<1>2. InfoHome'
  BY DEF IInv, Speaking, InfoHome
<1>3. Unheard'
  BY DEF IInv, Speaking, Unheard, Onward
<1>4. ASSUME timedOut = {} PROVE TransfersInv'
  <2>1. TransfersInv
    BY <1>4 DEF IInv, Speaking
  <2>2. ASSUME NEW m \in PrefillMessages, m.room # NoReq, Current(m)
        PROVE  Current(m)'
    <3>1. m.room \in Reqs
      BY <2>2 DEF PrefillMessages, Requests
    <3> QED
      BY <2>2, <3>1 DEF Current, Onward
  <2>3. \A m \in toPrefill : m \in PrefillMessages /\ (m.room # NoReq => Current(m)')
    BY <2>1, <2>2, StateFields DEF TransfersInv
  <2>4. ASSUME NEW p \in Rank, NEW r \in Reqs, prefill'[p].infos[r] # <<>>
        PROVE  Current(prefill[p].infos[r][1])'
    <3>1. CASE prefill'[p].infos[r] = prefill[p].infos[r]
      <4> DEFINE m == prefill[p].infos[r][1]
      <4>1. m \in PrefillMessages /\ m.room = r /\ Current(m)
        BY <2>1, <2>4, <3>1, StateFields DEF IInv, Speaking, InfoHome, TransfersInv
      <4>2. r # NoReq /\ prefill'[p].infos[r][1] = m
        BY <3>1, NoReqAssumption
      <4>3. Done(m.room)' \/ (m.slot # NoSlot /\ m.slot = decode[m.from].buffers.slotOf[m.room])
        BY <4>1 DEF Current, Onward
      <4> QED
        BY <4>2, <4>3 DEF Current
    <3>2. ASSUME NEW m \in toPrefill, m.room = r, prefill'[p].infos[r] = <<m>>
          PROVE  Current(prefill[p].infos[r][1])'
      <4>1. m.room # NoReq /\ prefill'[p].infos[r][1] = m
        BY <3>2, NoReqAssumption
      <4>2. Done(m.room)' \/ (m.slot # NoSlot /\ m.slot = decode[m.from].buffers.slotOf[m.room])
        BY <2>1, <3>2, <4>1 DEF Current, Onward, TransfersInv
      <4> QED
        BY <4>1, <4>2 DEF Current
    <3> QED
      BY <3>1, <3>2
  <2>5. \A d \in Groups, r \in Reqs : Arrived(d, r) => Arrived(d, r)'
    BY DEF Arrived, Onward
  <2> QED
    BY <2>1, <2>3, <2>4, <2>5 DEF TransfersInv
<1>5. SlotsTaken'
  BY DEF IInv, Speaking, SlotsTaken, SlotOfOne
<1> QED
  BY <1>1, <1>2, <1>3, <1>4, <1>5 DEF Speaking

\* A prefill scheduler's slots after a step of its own.
LEMMA HeldPrefill ==
  ASSUME IInv, NEW p \in Rank, NEW s \in PrefillStates, prefill' = [prefill EXCEPT ![p] = s],
         \A i \in DOMAIN s.queue : Held(s.queue[i], s.buffers)
  PROVE  SlotsHeld'
<1>1. \A k \in Rank : prefill'[k] = IF k = p THEN s ELSE prefill[k]
  BY StateFields
<1> QED
  BY <1>1 DEF IInv, SlotsHeld

\* The other types.
OtherTypes ==
  /\ roundRobin \in Nat
  /\ decode \in [Groups -> DecodeStates]
  /\ toPrefill \in SUBSET PrefillMessages
  /\ toDecode \in SUBSET (Groups \X Reqs)
  /\ timedOut \in SUBSET Reqs

\* A step that leaves all but the channels and the prefill schedulers as they are.
LEMMA PDTypesKept ==
  ASSUME IInv, UNCHANGED <<roundRobin, decode, toPrefill, toDecode, timedOut>> PROVE OtherTypes'
  BY DEF IInv, PDTypes, OtherTypes

\* A chunk gets a slot nobody has, and its logits into it: the chunks before it keep theirs.
LEMMA PrefillRequestPD ==
  ASSUME IInv, NEW p \in Rank, PrefillRequest(p)
  PROVE  PDTypes' /\ Channels' /\ SlotsHeld' /\ Speaking' /\ Onward
<1> DEFINE r == Head(prefillChan[p])
           s0 == [prefill[p] EXCEPT !.free = @ - Pages(PromptLen[r])]
           s == SendKVCache(s0, r)
           b == prefill[p].buffers
           q == prefill[p].queue
           c == [room |-> r, slot |-> LowestFree(b)]
<1>1. /\ prefillChan[p] # <<>> /\ prefill' = [prefill EXCEPT ![p] = s]
      /\ prefillChan' = [prefillChan EXCEPT ![p] = Tail(@)]
      /\ UNCHANGED <<idOf, registered, pendingRequests, roundRobin, decodeChan, decode, toPrefill,
                     toDecode, timedOut>>
  BY DEF PrefillRequest, routerVars
<1>2. /\ r \in registered /\ r \in Reqs /\ r \in ToSet(prefillChan[p])
      /\ r \notin Rooms(p)
  <2>1. r \in registered /\ r \in ToSet(prefillChan[p])
    BY <1>1, ChannelTypes, TakenSet
  <2> QED
    BY <2>1, ChannelTypes DEF IInv, Channels, PrefilledOnce
<1>3. prefill[p] \in PrefillStates /\ b \in Buffers /\ q \in Seq(Chunks) /\ OwnRooms(q)
  BY ChannelTypes
<1>4. s0 \in PrefillStates /\ s0.buffers = b /\ s0.queue = q /\ s0.infos = prefill[p].infos
  <2>1. PromptLen[r] \in Int /\ BlockSize \in Nat \ {0}
    BY <1>2, PDAssumption
  <2>2. Pages(PromptLen[r]) \in Int
    BY <2>1 DEF Pages
  <2>3. prefill[p].free - Pages(PromptLen[r]) \in Int
    BY <1>3, <2>2 DEF PrefillStates
  <2> QED
    BY <1>3, <2>3 DEF PrefillStates
<1> HIDE DEF s0
<1>5. \A i \in DOMAIN q : Held(q[i], b)
  BY DEF IInv, SlotsHeld
<1>6. /\ s \in PrefillStates /\ s.infos = prefill[p].infos /\ OwnRooms(s.queue)
      /\ RoomsOf(s.queue) \subseteq Rooms(p) \cup {r}
      /\ \A i \in DOMAIN s.queue : Held(s.queue[i], s.buffers)
  <2>1. CASE FreeSlots(b) = {}
    <3>1. s = s0
      BY <1>4, <2>1 DEF SendKVCache
    <3> HIDE DEF s
    <3> QED
      BY <1>3, <1>4, <1>5, <3>1 DEF Rooms
  <2>2. CASE FreeSlots(b) # {}
    <3>1. s = [s0 EXCEPT !.buffers = AllocateWith(b, r), !.queue = Append(q, c)]
      BY <1>4, <2>2 DEF SendKVCache
    <3>2. /\ LowestFree(b) \in DOMAIN b.logits /\ LowestFree(b) \in Nat
          /\ \A u \in Reqs : b.slotOf[u] # LowestFree(b)
      BY <1>3, <2>2, LowestFreeSlot
    <3>3. c \in Chunks /\ c.room = r /\ c.room \notin RoomsOf(q)
      BY <1>2, <3>2 DEF Chunks, Rooms
    <3>4. /\ AllocateWith(b, r) \in Buffers
          /\ DOMAIN AllocateWith(b, r).logits = DOMAIN b.logits
          /\ \A u \in Reqs :
               AllocateWith(b, r).slotOf[u] = IF u = r THEN LowestFree(b) ELSE b.slotOf[u]
          /\ \A u \in DOMAIN b.logits :
               AllocateWith(b, r).logits[u] = IF u = LowestFree(b) THEN r ELSE b.logits[u]
      BY <1>2, <1>3, <2>2, AllocateWithFacts
    <3>5. /\ Append(q, c) \in Seq(Chunks) /\ OwnRooms(Append(q, c))
          /\ \A i \in DOMAIN Append(q, c) :
               Append(q, c)[i] = c \/ \E j \in DOMAIN q : Append(q, c)[i] = q[j]
          /\ RoomsOf(Append(q, c)) = RoomsOf(q) \cup {r}
      BY <1>3, <3>3, QueueAppend
    <3> HIDE DEF s, c
    <3>6. /\ s \in PrefillStates /\ s.infos = prefill[p].infos /\ s.queue = Append(q, c)
          /\ s.buffers = AllocateWith(b, r)
      BY <1>4, <3>1, <3>4, <3>5 DEF PrefillStates
    <3>7. Held(c, AllocateWith(b, r))
      BY <1>2, <3>2, <3>3, <3>4 DEF Held, c
    <3>8. ASSUME NEW j \in DOMAIN q PROVE Held(q[j], AllocateWith(b, r))
      <4>1. q[j].room \in Reqs /\ q[j].room # r
        <5>1. q[j] \in Chunks /\ q[j].room \in RoomsOf(q)
          BY <1>3, LenProperties DEF RoomsOf
        <5> QED
          BY <3>3, <5>1 DEF Chunks
      <4>2. Held(q[j], b)
        BY <1>5
      <4>3. q[j].slot # LowestFree(b)
        BY <3>2, <4>1, <4>2 DEF Held
      <4> QED
        BY <3>4, <4>1, <4>2, <4>3 DEF Held
    <3>9. \A i \in DOMAIN s.queue : Held(s.queue[i], s.buffers)
      BY <3>5, <3>6, <3>7, <3>8
    <3> QED
      BY <3>5, <3>6, <3>9 DEF Rooms
  <2> QED
    BY <2>1, <2>2
<1> HIDE DEF s
<1>7. /\ Channels' /\ Onward /\ prefill' \in [Rank -> PrefillStates]
      /\ prefillChan' \in [Rank -> Seq(registered)]
  BY <1>1, <1>6, ChannelsPrefill
<1>8. SlotsHeld'
  BY <1>1, <1>6, HeldPrefill
<1>9. \A k \in Rank : prefill'[k].infos = prefill[k].infos
  BY <1>1, <1>6, StateFields
<1>10. Speaking'
  BY <1>1, <1>7, <1>9, SpeakingKept
<1>11. PDTypes'
  BY <1>1, <1>7, PDTypesKept DEF IInv, PDTypes, OtherTypes
<1> QED
  BY <1>7, <1>8, <1>10, <1>11

\* A prefill scheduler that dies, or works on its queue: the chunks that stay were there.
LEMMA QueueStepPD ==
  ASSUME IInv, NEW p \in Rank, NEW s \in PrefillStates, prefill' = [prefill EXCEPT ![p] = s],
         s.buffers = prefill[p].buffers, s.infos = prefill[p].infos,
         OwnRooms(s.queue), RoomsOf(s.queue) \subseteq Rooms(p),
         \A i \in DOMAIN s.queue : \E j \in DOMAIN prefill[p].queue : s.queue[i] = prefill[p].queue[j],
         \/ prefillChan' = prefillChan
         \/ prefillChan[p] # <<>> /\ prefillChan' = [prefillChan EXCEPT ![p] = Tail(@)],
         UNCHANGED <<registered, pendingRequests, roundRobin, decodeChan, decode, toPrefill,
                     toDecode, timedOut>>
  PROVE  PDTypes' /\ Channels' /\ SlotsHeld' /\ Speaking' /\ Onward
<1>1. /\ Channels' /\ Onward /\ prefill' \in [Rank -> PrefillStates]
      /\ prefillChan' \in [Rank -> Seq(registered)]
  BY ChannelsPrefill
<1>2. \A i \in DOMAIN s.queue : Held(s.queue[i], s.buffers)
  BY DEF IInv, SlotsHeld
<1>3. SlotsHeld'
  BY <1>2, HeldPrefill
<1>4. \A k \in Rank : prefill'[k].infos = prefill[k].infos
  BY StateFields
<1>5. Speaking'
  BY <1>1, <1>4, SpeakingKept
<1>6. PDTypes'
  BY <1>1, PDTypesKept DEF IInv, PDTypes, OtherTypes
<1> QED
  BY <1>1, <1>3, <1>5, <1>6

\* A prefill scheduler without pages dies; its queue stays and is never looked at again.
LEMMA PrefillDiesPD ==
  ASSUME IInv, NEW p \in Rank, PrefillDies(p)
  PROVE  PDTypes' /\ Channels' /\ SlotsHeld' /\ Speaking' /\ Onward
<1> DEFINE s == [prefill[p] EXCEPT !.service = FALSE, !.worker = FALSE]
<1>1. prefill' = [prefill EXCEPT ![p] = s]
  BY StateFields DEF PrefillDies
<1>2. /\ s \in PrefillStates /\ s.buffers = prefill[p].buffers /\ s.infos = prefill[p].infos
      /\ s.queue = prefill[p].queue
  BY ChannelTypes DEF PrefillStates
<1> HIDE DEF s
<1>3. OwnRooms(s.queue) /\ RoomsOf(s.queue) \subseteq Rooms(p)
  BY <1>2, ChannelTypes DEF Rooms
<1> QED
  BY <1>1, <1>2, <1>3, QueueStepPD DEF PrefillDies, routerVars

\* A chunk that is put back or given up.
LEMMA ChunkFacts ==
  ASSUME IInv, NEW p \in Rank, Transferring(p)
  PROVE  /\ Chunk(p) \in Chunks /\ Chunk(p).room \in Rooms(p)
         /\ \E j \in DOMAIN prefill[p].queue : Chunk(p) = prefill[p].queue[j]
         /\ Held(Chunk(p), prefill[p].buffers)
         /\ prefill[p].queue \in Seq(Chunks) /\ prefill[p].queue # <<>>
         /\ OwnRooms(prefill[p].queue)
         /\ Tail(prefill[p].queue) \in Seq(Chunks) /\ OwnRooms(Tail(prefill[p].queue))
         /\ \A i \in DOMAIN Tail(prefill[p].queue) : \E j \in DOMAIN prefill[p].queue :
              Tail(prefill[p].queue)[i] = prefill[p].queue[j]
         /\ RoomsOf(Tail(prefill[p].queue)) \subseteq Rooms(p) \ {Chunk(p).room}
<1> DEFINE q == prefill[p].queue
<1>1. q \in Seq(Chunks) /\ q # <<>> /\ OwnRooms(q)
  BY ChannelTypes DEF Transferring
<1>2. \A i \in DOMAIN q : Held(q[i], prefill[p].buffers)
  BY DEF IInv, SlotsHeld
<1> HIDE DEF q
<1>3. /\ Head(q) \in Chunks /\ Head(q).room \in RoomsOf(q)
      /\ \E j \in DOMAIN q : Head(q) = q[j]
      /\ Tail(q) \in Seq(Chunks) /\ OwnRooms(Tail(q))
      /\ \A i \in DOMAIN Tail(q) : \E j \in DOMAIN q : Tail(q)[i] = q[j]
      /\ RoomsOf(Tail(q)) \subseteq RoomsOf(q) \ {Head(q).room}
  BY <1>1, QueueTail
<1>4. Held(Head(q), prefill[p].buffers)
  BY <1>2, <1>3
<1> QED
  BY <1>1, <1>3, <1>4 DEF Chunk, Rooms, q

\* A chunk without a TransferInfo goes to the end of its queue and keeps its slot.
LEMMA TransferWaitsPD ==
  ASSUME IInv, NEW p \in Rank, TransferWaits(p)
  PROVE  PDTypes' /\ Channels' /\ SlotsHeld' /\ Speaking' /\ Onward
<1> DEFINE q == prefill[p].queue
           s == [prefill[p] EXCEPT !.queue = Append(Tail(q), Head(q))]
<1>1. prefill' = [prefill EXCEPT ![p] = s]
  BY StateFields DEF TransferWaits
<1>2. q \in Seq(Chunks) /\ q # <<>> /\ OwnRooms(q)
  BY ChunkFacts DEF TransferWaits
<1>3. /\ Append(Tail(q), Head(q)) \in Seq(Chunks) /\ OwnRooms(Append(Tail(q), Head(q)))
      /\ \A i \in DOMAIN Append(Tail(q), Head(q)) :
           \E j \in DOMAIN q : Append(Tail(q), Head(q))[i] = q[j]
      /\ RoomsOf(Append(Tail(q), Head(q))) \subseteq RoomsOf(q)
  BY <1>2, QueueRotate
<1>4. /\ s \in PrefillStates /\ s.buffers = prefill[p].buffers /\ s.infos = prefill[p].infos
      /\ s.queue = Append(Tail(q), Head(q))
  BY <1>3, ChannelTypes DEF PrefillStates
<1> HIDE DEF s
<1>5. /\ prefillChan' = prefillChan
      /\ UNCHANGED <<registered, pendingRequests, roundRobin, decodeChan, decode, toPrefill, toDecode,
                     timedOut>>
  BY DEF TransferWaits, routerVars
<1>6. /\ OwnRooms(s.queue) /\ RoomsOf(s.queue) \subseteq Rooms(p)
      /\ \A i \in DOMAIN s.queue : \E j \in DOMAIN prefill[p].queue : s.queue[i] = prefill[p].queue[j]
  BY <1>3, <1>4 DEF Rooms
<1> HIDE DEF q
<1> QED
  BY <1>1, <1>4, <1>5, <1>6, QueueStepPD

\* A chunk whose transfer fails, or kills the worker, is gone; its slot stays taken.
LEMMA TransferEndsPD ==
  ASSUME IInv, NEW p \in Rank, TransferDies(p) \/ TransferFails(p)
  PROVE  PDTypes' /\ Channels' /\ SlotsHeld' /\ Speaking' /\ Onward
<1> DEFINE q == prefill[p].queue
<1>1. PICK w \in BOOLEAN : prefill' = [prefill EXCEPT ![p] = [@ EXCEPT !.worker = w, !.queue = Tail(q)]]
  <2>1. prefill[p] = [prefill[p] EXCEPT !.worker = prefill[p].worker] /\ prefill[p].worker \in BOOLEAN
    BY StateFields DEF PrefillStates
  <2> QED
    BY <2>1, StateFields DEF TransferDies, TransferFails, PrefillStates
<1> DEFINE s == [prefill[p] EXCEPT !.worker = w, !.queue = Tail(q)]
<1>2. Transferring(p)
  BY DEF TransferDies, TransferFails
<1>3. /\ Tail(q) \in Seq(Chunks) /\ OwnRooms(Tail(q))
      /\ \A i \in DOMAIN Tail(q) : \E j \in DOMAIN q : Tail(q)[i] = q[j]
      /\ RoomsOf(Tail(q)) \subseteq Rooms(p)
  BY <1>2, ChunkFacts
<1>4. /\ s \in PrefillStates /\ s.buffers = prefill[p].buffers /\ s.infos = prefill[p].infos
      /\ s.queue = Tail(q)
  BY <1>3, ChannelTypes DEF PrefillStates
<1>5. prefill' = [prefill EXCEPT ![p] = s]
  BY <1>1
<1> HIDE DEF s
<1>6. /\ prefillChan' = prefillChan
      /\ UNCHANGED <<registered, pendingRequests, roundRobin, decodeChan, decode, toPrefill, toDecode,
                     timedOut>>
  BY DEF TransferDies, TransferFails, routerVars
<1>7. /\ OwnRooms(s.queue) /\ RoomsOf(s.queue) \subseteq Rooms(p)
      /\ \A i \in DOMAIN s.queue : \E j \in DOMAIN prefill[p].queue : s.queue[i] = prefill[p].queue[j]
  BY <1>3, <1>4
<1> HIDE DEF q
<1> QED
  BY <1>4, <1>5, <1>6, <1>7, QueueStepPD

\* A request is submitted.
LEMMA SubmitPD ==
  ASSUME IInv, NEW r \in Reqs, Submit(r)
  PROVE  PDTypes' /\ Channels' /\ SlotsHeld' /\ Speaking' /\ Onward
<1>1. /\ registered \subseteq registered'
      /\ UNCHANGED <<roundRobin, prefillChan, decodeChan, prefill, decode, toPrefill, toDecode,
                     timedOut>>
  BY DEF Submit, RegisterRequest
<1>2. Channels' /\ Onward /\ pendingRequests' \in Seq(registered')
  BY ChannelsSubmit
<1>3. /\ prefillChan \in [Rank -> Seq(registered')] /\ decodeChan \in [Groups -> Seq(registered')]
  BY <1>1, SeqMonotonic DEF IInv, PDTypes
<1>4. PDTypes'
  BY <1>1, <1>2, <1>3, PDTypesKept DEF IInv, PDTypes, OtherTypes
<1>5. SlotsHeld'
  BY <1>1 DEF IInv, SlotsHeld
<1>6. Speaking'
  BY <1>1, <1>2, SpeakingKept
<1> QED
  BY <1>2, <1>4, <1>5, <1>6

\* A request is sent to its two schedulers.
LEMMA DispatchPD ==
  ASSUME IInv, Dispatch
  PROVE  PDTypes' /\ Channels' /\ SlotsHeld' /\ Speaking' /\ Onward
<1>1. /\ roundRobin' = roundRobin + 1
      /\ UNCHANGED <<registered, prefill, decode, toPrefill, toDecode, timedOut>>
  BY DEF Dispatch, routerVars
<1>2. /\ Channels' /\ Onward
      /\ pendingRequests' \in Seq(registered)
      /\ prefillChan' \in [Rank -> Seq(registered)]
      /\ decodeChan' \in [Groups -> Seq(registered)]
  BY ChannelsDispatch
<1>3. PDTypes'
  BY <1>1, <1>2 DEF IInv, PDTypes
<1>4. SlotsHeld'
  BY <1>1 DEF IInv, SlotsHeld
<1>5. Speaking'
  BY <1>1, <1>2, SpeakingKept
<1> QED
  BY <1>2, <1>3, <1>4, <1>5

\* A registration or a TransferInfo comes.
LEMMA BootstrapReceivePD ==
  ASSUME IInv, NEW p \in Rank, BootstrapReceive(p)
  PROVE  PDTypes' /\ Channels' /\ SlotsHeld' /\ Speaking' /\ Onward
<1>1. PICK m \in toPrefill :
        /\ toPrefill' = toPrefill \ {m}
        /\ prefill' = IF m.room = NoReq
                      THEN [prefill EXCEPT ![p].registered = @ \cup {m.from}]
                      ELSE [prefill EXCEPT ![p].infos[m.room] = <<m>>]
  BY DEF BootstrapReceive
<1>2. UNCHANGED <<registered, pendingRequests, roundRobin, prefillChan, decodeChan, decode, toDecode,
                  timedOut>>
  BY DEF BootstrapReceive, routerVars
<1>3. m \in PrefillMessages /\ m.from \in Groups /\ (m.room # NoReq => m.room \in Reqs)
  BY StateFields DEF PrefillMessages, Requests
<1> DEFINE s == IF m.room = NoReq THEN [prefill[p] EXCEPT !.registered = @ \cup {m.from}]
                                  ELSE [prefill[p] EXCEPT !.infos[m.room] = <<m>>]
<1>4. prefill' = [prefill EXCEPT ![p] = s]
  BY <1>1, StateFields
<1>5. /\ s \in PrefillStates /\ s.buffers = prefill[p].buffers /\ s.queue = prefill[p].queue
      /\ \A r \in Reqs : s.infos[r] = prefill[p].infos[r] \/ (m.room = r /\ s.infos[r] = <<m>>)
  <2>1. prefill[p] \in PrefillStates
    BY ChannelTypes
  <2>2. <<m>> \in Seq(PrefillMessages)
    BY <1>3
  <2>3. CASE m.room = NoReq
    BY <1>3, <2>1, <2>3 DEF PrefillStates
  <2>4. CASE m.room # NoReq
    BY <1>3, <2>1, <2>2, <2>4 DEF PrefillStates
  <2> QED
    BY <2>3, <2>4
<1> HIDE DEF s
<1>6. OwnRooms(s.queue) /\ RoomsOf(s.queue) \subseteq Rooms(p)
  BY <1>5, ChannelTypes DEF Rooms
<1>7. Channels' /\ Onward /\ prefill' \in [Rank -> PrefillStates]
  BY <1>2, <1>4, <1>5, <1>6, ChannelsPrefill
<1>8. \A i \in DOMAIN s.queue : Held(s.queue[i], s.buffers)
  BY <1>5 DEF IInv, SlotsHeld
<1>9. SlotsHeld'
  BY <1>4, <1>5, <1>8, HeldPrefill
<1>10. \A k \in Rank, r \in Reqs :
         \/ prefill'[k].infos[r] = prefill[k].infos[r]
         \/ m.room = r /\ prefill'[k].infos[r] = <<m>>
  BY <1>4, <1>5, StateFields
<1>11. Speaking'
  BY <1>1, <1>2, <1>7, <1>10, SpeakingKept
<1>12. PDTypes'
  BY <1>1, <1>2, <1>7 DEF IInv, PDTypes
<1> QED
  BY <1>7, <1>9, <1>11, <1>12

Written(f, g, s, v) == [f EXCEPT ![g].buffers.logits[s] = v]

\* What a transfer writes at a decode scheduler.
LEMMA WrittenLogits ==
  ASSUME IInv, NEW g \in Groups, NEW s, NEW v \in Requests,
         decode' = Written(decode, g, s, v)
  PROVE  /\ decode' \in [Groups -> DecodeStates]
         /\ \A d \in Groups :
              /\ decode'[d].phase = decode[d].phase /\ decode'[d].req = decode[d].req
              /\ decode'[d].first = decode[d].first /\ decode'[d].made = decode[d].made
              /\ decode'[d].reason = decode[d].reason /\ decode'[d].success = decode[d].success
              /\ decode'[d].buffers.slotOf = decode[d].buffers.slotOf
              /\ DOMAIN decode'[d].buffers.logits = DOMAIN decode[d].buffers.logits
              /\ \A u \in DOMAIN decode[d].buffers.logits :
                   decode'[d].buffers.logits[u] =
                     IF d = g /\ u = s THEN v ELSE decode[d].buffers.logits[u]
<1> DEFINE a == decode[g].buffers
           b == Filled(a, s, v)
           t == [decode[g] EXCEPT !.buffers = b]
<1>1. decode[g] \in DecodeStates /\ a \in Buffers /\ decode \in [Groups -> DecodeStates]
  BY ChannelTypes, StateFields
<1>2. decode' = [decode EXCEPT ![g] = t]
  BY <1>1 DEF Written, Filled
<1> HIDE DEF a
<1>3. /\ b \in Buffers /\ b.slotOf = a.slotOf /\ DOMAIN b.logits = DOMAIN a.logits
      /\ \A u \in DOMAIN a.logits : b.logits[u] = IF u = s THEN v ELSE a.logits[u]
  <2>1. a \in Buffers
    BY <1>1
  <2> QED
    BY <2>1, LogitsFacts
<1> HIDE DEF b
<1>4. /\ t \in DecodeStates /\ t.buffers = b /\ t.phase = decode[g].phase /\ t.req = decode[g].req
      /\ t.first = decode[g].first /\ t.made = decode[g].made /\ t.reason = decode[g].reason
      /\ t.success = decode[g].success
  BY <1>1, <1>3 DEF DecodeStates
<1> HIDE DEF t
<1>5. \A d \in Groups : decode'[d] = IF d = g THEN t ELSE decode[d]
  BY <1>1, <1>2
<1> QED
  BY <1>1, <1>2, <1>3, <1>4, <1>5 DEF a

\* The logits of a request are written into the slot it has: its chunk was the only one,
\* so no transfer for it has been before, and the TransferInfo is current.
LEMMA TransferSucceedsPD ==
  ASSUME IInv, NEW p \in Rank, TransferSucceeds(p)
  PROVE  PDTypes' /\ Channels' /\ SlotsHeld' /\ Speaking' /\ Onward
<1>0. PICK c, info : c = Chunk(p) /\ info = prefill[p].infos[c.room][1]
  OBVIOUS
<1> DEFINE r == c.room
           g == info.from
           q == prefill[p].queue
           b == prefill[p].buffers
           s == [prefill[p] EXCEPT !.queue = Tail(q), !.infos[r] = <<>>, !.buffers = FreeSlot(b, r)]
<1>1. /\ Transferring(p) /\ prefill[p].infos[r] # <<>>
      /\ decode' = [decode EXCEPT ![g].buffers.logits[info.slot] = b.logits[c.slot]]
      /\ toDecode' = toDecode \cup {<<g, r>>}
      /\ UNCHANGED <<registered, pendingRequests, roundRobin, prefillChan, decodeChan, toPrefill,
                     timedOut>>
  BY <1>0 DEF TransferSucceeds, Info, routerVars
<1>2. prefill' = [prefill EXCEPT ![p] = s]
  <2>1. /\ prefill \in [Rank -> PrefillStates]
        /\ prefill' = [prefill EXCEPT ![p].queue = Tail(@), ![p].infos[r] = <<>>,
                                      ![p].buffers = FreeSlot(@, r)]
    BY <1>0, StateFields DEF TransferSucceeds
  <2> QED
    BY <2>1 DEF PrefillStates
<1>3. /\ c \in Chunks /\ r \in Rooms(p) /\ Held(c, b)
      /\ Tail(q) \in Seq(Chunks) /\ OwnRooms(Tail(q))
      /\ \A i \in DOMAIN Tail(q) : \E j \in DOMAIN q : Tail(q)[i] = q[j]
      /\ RoomsOf(Tail(q)) \subseteq Rooms(p) \ {r}
  BY <1>0, <1>1, ChunkFacts
<1>4. r \in Reqs /\ r # NoReq /\ b.logits[c.slot] = r /\ b \in Buffers
  BY <1>3, NoReqAssumption, ChannelTypes DEF Chunks, Held
<1>5. info \in PrefillMessages /\ g \in Groups /\ info.room = r
  BY <1>0, <1>1, <1>4, StateFields DEF PrefillMessages, IInv, Speaking, InfoHome
<1>6. /\ FreeSlot(b, r) \in Buffers /\ FreeSlot(b, r).logits = b.logits
      /\ \A u \in Reqs : FreeSlot(b, r).slotOf[u] = IF u = r THEN NoSlot ELSE b.slotOf[u]
  BY <1>4, FreeSlotFacts
<1>7. /\ s \in PrefillStates /\ s.queue = Tail(q) /\ s.buffers = FreeSlot(b, r)
      /\ \A u \in Reqs : s.infos[u] = IF u = r THEN <<>> ELSE prefill[p].infos[u]
  <2>1. prefill[p] \in PrefillStates
    BY ChannelTypes
  <2>2. <<>> \in Seq(PrefillMessages)
    BY EmptySeq
  <2>3. [prefill[p].infos EXCEPT ![r] = <<>>] \in [Reqs -> Seq(PrefillMessages)]
    BY <2>1, <2>2 DEF PrefillStates
  <2> QED
    BY <1>3, <1>6, <2>1, <2>3 DEF PrefillStates
<1> HIDE DEF s
<1>8. /\ Channels' /\ Onward /\ prefill' \in [Rank -> PrefillStates]
  <2>1. OwnRooms(s.queue) /\ RoomsOf(s.queue) \subseteq Rooms(p)
    BY <1>3, <1>7
  <2>2. prefillChan' = prefillChan /\ UNCHANGED <<registered, pendingRequests, decodeChan>>
    BY <1>1
  <2> QED
    BY <1>2, <1>7, <2>1, <2>2, ChannelsPrefill
<1>9. SlotsHeld'
  <2>1. ASSUME NEW i \in DOMAIN s.queue PROVE Held(s.queue[i], s.buffers)
    <3>1. PICK j \in DOMAIN q : s.queue[i] = q[j]
      BY <1>3, <1>7
    <3>2. Held(q[j], b) /\ q[j] \in Chunks
      BY ChannelTypes, LenProperties DEF IInv, SlotsHeld
    <3>3. q[j].room # r
      BY <1>3, <1>7, <3>1 DEF RoomsOf
    <3> QED
      BY <1>6, <1>7, <3>1, <3>2, <3>3 DEF Held, Chunks
  <2> QED
    BY <1>2, <1>7, <2>1, HeldPrefill
<1>10. /\ \A k \in Rank, u \in Reqs : prefill'[k].infos[u] \in {prefill[k].infos[u], <<>>}
  BY <1>2, <1>7, StateFields
<1>11. ~Done(r) /\ Done(r)'
  <2>1. /\ r \in registered /\ r \notin ToSet(pendingRequests)
        /\ \A k \in Rank : r \notin ToSet(prefillChan[k]) /\ (r \in Rooms(k) => k = p)
    BY <1>3, <1>4, ChannelTypes DEF IInv, Channels, PrefilledOnce
  <2>2. \A k \in Rank : Rooms(k)' = IF k = p THEN RoomsOf(Tail(q)) ELSE Rooms(k)
    BY <1>2, <1>7, StateFields DEF Rooms
  <2>3. \A k \in Rank : r \notin Rooms(k)'
    BY <1>3, <2>1, <2>2
  <2> QED
    BY <1>1, <1>3, <2>1, <2>3 DEF Done
<1> HIDE DEF r, g
<1>12. /\ decode' \in [Groups -> DecodeStates]
       /\ \A d \in Groups :
            /\ decode'[d].phase = decode[d].phase /\ decode'[d].req = decode[d].req
            /\ decode'[d].first = decode[d].first /\ decode'[d].made = decode[d].made
            /\ decode'[d].reason = decode[d].reason /\ decode'[d].success = decode[d].success
            /\ decode'[d].buffers.slotOf = decode[d].buffers.slotOf
            /\ DOMAIN decode'[d].buffers.logits = DOMAIN decode[d].buffers.logits
            /\ \A u \in DOMAIN decode[d].buffers.logits :
                 decode'[d].buffers.logits[u] =
                   IF d = g /\ u = info.slot THEN r ELSE decode[d].buffers.logits[u]
  <2>1. decode' = Written(decode, g, info.slot, r) /\ r \in Requests
    BY <1>1, <1>4 DEF Requests, Written
  <2> QED
    BY <1>5, <2>1, WrittenLogits
<1>13. Busy' /\ InfoHome'
  BY <1>8, <1>10, <1>12 DEF IInv, Speaking, Busy, InfoHome, Onward
<1>14. Unheard'
  <2>1. ~NotStarted(r)
    BY <1>1, <1>4 DEF IInv, Speaking, Unheard, r
  <2> QED
    BY <1>1, <1>8, <1>10, <1>12, <2>1 DEF IInv, Speaking, Unheard, Onward
<1>15. ASSUME timedOut = {} PROVE TransfersInv'
  <2>1. TransfersInv
    BY <1>15 DEF IInv, Speaking
  <2>2. ASSUME NEW m \in PrefillMessages, m.room # NoReq, Current(m)
        PROVE  Current(m)'
    BY <1>8, <1>12, <2>2 DEF Current, Onward, PrefillMessages, Requests
  <2>3. \A m \in toPrefill' : m.room # NoReq => Current(m)'
    BY <1>1, <2>1, <2>2, StateFields DEF TransfersInv
  <2>4. ASSUME NEW k \in Rank, NEW u \in Reqs, prefill'[k].infos[u] # <<>>
        PROVE  Current(prefill[k].infos[u][1])'
    <3>1. prefill'[k].infos[u] = prefill[k].infos[u]
      BY <1>10, <2>4
    <3>2. PICK m \in PrefillMessages : m = prefill[k].infos[u][1] /\ m.room # NoReq /\ Current(m)
      BY <2>1, <2>4, <3>1, StateFields, NoReqAssumption DEF IInv, Speaking, InfoHome, TransfersInv
    <3>3. Current(m)'
      BY <2>2, <3>2
    <3> QED
      BY <3>1, <3>2, <3>3 DEF Current
  <2>6. /\ info.slot # NoSlot /\ info.slot = decode[g].buffers.slotOf[r]
    BY <1>0, <1>1, <1>4, <1>5, <1>11, <2>1 DEF TransfersInv, Current, r, g
  <2>7. ASSUME NEW d \in Groups, NEW u \in Reqs, Arrived(d, u) \/ (d = g /\ u = r)
        PROVE  Arrived(d, u)'
    <3>1. Done(u)'
      BY <1>8, <1>11, <2>7 DEF Arrived, Onward
    <3>2. ASSUME decode[d].buffers.slotOf[u] # NoSlot
          PROVE  decode'[d].buffers.logits[decode[d].buffers.slotOf[u]] = u
      <4>1. decode[d].buffers.slotOf[u] \in DOMAIN decode[d].buffers.logits
        BY <3>2 DEF IInv, Speaking, SlotsTaken, SlotOfOne
      <4>2. d = g /\ decode[d].buffers.slotOf[u] = info.slot => u = r
        BY <1>4, <2>6 DEF IInv, Speaking, SlotsTaken, SlotOfOne
      <4>3. d = g /\ u = r => decode[d].buffers.slotOf[u] = info.slot
        BY <2>6
      <4>4. Arrived(d, u) => decode[d].buffers.logits[decode[d].buffers.slotOf[u]] = u
        BY <3>2 DEF Arrived
      <4> QED
        BY <1>12, <2>7, <4>1, <4>2, <4>3, <4>4
    <3> QED
      BY <1>12, <3>1, <3>2 DEF Arrived
  <2>8. ASSUME NEW d \in Groups, NEW u \in Reqs, u \in decode'[d].success \/ <<d, u>> \in toDecode'
        PROVE  Arrived(d, u)'
    BY <1>1, <1>12, <2>1, <2>7, <2>8 DEF TransfersInv
  <2>9. ASSUME NEW d \in Groups
        PROVE  decode'[d].phase = "prefill" => decode'[d].first = decode'[d].req
    BY <1>12, <2>1 DEF TransfersInv
  <2> QED
    BY <2>3, <2>4, <2>8, <2>9 DEF TransfersInv
<1>18. SlotsTaken'
  BY <1>12 DEF IInv, Speaking, SlotsTaken, SlotOfOne
<1>16. Speaking'
  BY <1>1, <1>13, <1>14, <1>15, <1>18 DEF Speaking
<1>17. PDTypes'
  <2>1. toDecode' \in SUBSET (Groups \X Reqs)
    BY <1>1, <1>4, <1>5, StateFields
  <2> QED
    BY <1>1, <1>8, <1>12, <2>1 DEF IInv, PDTypes
<1> QED
  BY <1>8, <1>9, <1>16, <1>17

\* A step of a decode scheduler that takes up no request, reserves no slot and writes no
\* logits: a slot it gives up is of a request that is done, unless a transfer timed out.
DecodeStep(d, t) ==
  /\ decode' = [decode EXCEPT ![d] = t]
  /\ UNCHANGED <<registered, pendingRequests, roundRobin, prefillChan, decodeChan, prefill>>
  /\ \A m \in toPrefill' \ toPrefill :
       /\ m \in PrefillMessages
       /\ \/ m.room = NoReq
          \/ /\ decode[d].phase = "waiting" /\ t = decode[d] /\ m.from = d
             /\ m.room = decode[d].req /\ m.slot = decode[d].buffers.slotOf[m.room]
  /\ toDecode' \subseteq toDecode /\ timedOut \subseteq timedOut' /\ timedOut' \subseteq Reqs
  /\ \A r \in Reqs : r \in t.success => r \in decode[d].success \/ <<d, r>> \in toDecode
  /\ t.buffers.logits = decode[d].buffers.logits
  /\ \A r \in Reqs :
       \/ t.buffers.slotOf[r] = decode[d].buffers.slotOf[r]
       \/ t.buffers.slotOf[r] = NoSlot /\ (timedOut' = {} => Done(r))
  /\ t.phase # "idle" => decode[d].phase # "idle" /\ t.req = decode[d].req
  /\ t.phase = "waiting" => decode[d].phase = "waiting" /\ t.buffers = decode[d].buffers
  /\ t.phase = "decoding" => t.made # 0
  /\ t.phase \in {"decoding", "finishing"} => t.reason # "none"
  /\ timedOut' = {} /\ t.phase = "prefill" => t.first = t.req

\* Such a step keeps what is said of the transfers.
LEMMA DecodeStepPD ==
  ASSUME IInv, NEW d \in Groups, NEW t \in DecodeStates, DecodeStep(d, t)
  PROVE  PDTypes' /\ Channels' /\ SlotsHeld' /\ Speaking' /\ Onward
<1>0. /\ decode' = [decode EXCEPT ![d] = t]
      /\ UNCHANGED <<registered, pendingRequests, roundRobin, prefillChan, decodeChan, prefill>>
      /\ toDecode' \subseteq toDecode /\ timedOut \subseteq timedOut' /\ timedOut' \subseteq Reqs
  BY DEF DecodeStep
<1>1. \A k \in Groups : decode'[k] = IF k = d THEN t ELSE decode[k]
  BY <1>0, StateFields
<1>2. Channels' /\ Onward
  BY <1>0, ChannelsDecode
<1>3. SlotsHeld'
  BY <1>0 DEF IInv, SlotsHeld
<1>4. Busy' /\ InfoHome'
  BY <1>0, <1>1, <1>2 DEF DecodeStep, IInv, Speaking, Busy, InfoHome, Onward
<1>5. Unheard'
  <2> SUFFICES ASSUME NEW r \in Reqs, NotStarted(r)
               PROVE  /\ \A m \in toPrefill' : m.room # r
                      /\ \A p \in Rank : prefill[p].infos[r] = <<>>
                      /\ \A k \in Groups : r \notin decode'[k].success /\ <<k, r>> \notin toDecode'
    BY <1>0, <1>2 DEF Unheard, Onward
  <2>1. /\ \A m \in toPrefill : m.room # r
        /\ \A p \in Rank : prefill[p].infos[r] = <<>>
        /\ \A k \in Groups : r \notin decode[k].success /\ <<k, r>> \notin toDecode
    BY DEF IInv, Speaking, Unheard
  <2>2. decode[d].phase = "waiting" => decode[d].req # r
    BY DEF IInv, Speaking, Busy
  <2>3. \A m \in toPrefill' : m.room # r
    BY <2>1, <2>2, NoReqAssumption DEF DecodeStep
  <2> QED
    BY <1>0, <1>1, <2>1, <2>3 DEF DecodeStep
<1>6. SlotsTaken'
  BY <1>1 DEF DecodeStep, IInv, Speaking, SlotsTaken, SlotOfOne
<1>7. ASSUME timedOut' = {} PROVE TransfersInv'
  <2>1. TransfersInv /\ timedOut = {}
    BY <1>0, <1>7 DEF IInv, Speaking
  <2>2. ASSUME NEW m \in PrefillMessages, m.room # NoReq, Current(m)
        PROVE  Current(m)'
    <3>1. m.room \in Reqs
      BY <2>2 DEF PrefillMessages, Requests
    <3>2. CASE Done(m.room)
      BY <1>2, <3>1, <3>2 DEF Current, Onward
    <3>3. CASE m.slot # NoSlot /\ m.slot = decode[m.from].buffers.slotOf[m.room]
      <4>1. m.from \in Groups
        BY DEF PrefillMessages
      <4> QED
        BY <1>1, <1>2, <1>7, <3>1, <3>3, <4>1 DEF DecodeStep, Current, Onward
    <3> QED
      BY <2>2, <3>2, <3>3 DEF Current
  <2>3. ASSUME NEW m \in toPrefill', m.room # NoReq PROVE Current(m)'
    <3>1. CASE m \in toPrefill
      BY <2>1, <2>2, <2>3, <3>1, StateFields DEF TransfersInv
    <3>2. CASE /\ decode[d].phase = "waiting" /\ t = decode[d]
               /\ m.from = d /\ m.room = decode[d].req /\ m.slot = decode[d].buffers.slotOf[m.room]
      <4>1. m.slot # NoSlot
        BY <3>2 DEF IInv, Speaking, SlotsTaken
      <4> QED
        BY <1>1, <3>2, <4>1 DEF Current
    <3> QED
      BY <2>3, <3>1, <3>2 DEF DecodeStep
  <2>4. ASSUME NEW p \in Rank, NEW r \in Reqs, prefill[p].infos[r] # <<>>
        PROVE  Current(prefill[p].infos[r][1])'
    <3>1. PICK m \in PrefillMessages : m = prefill[p].infos[r][1] /\ m.room # NoReq /\ Current(m)
      BY <2>1, <2>4, StateFields, NoReqAssumption DEF IInv, Speaking, InfoHome, TransfersInv
    <3>2. Current(m)'
      BY <2>2, <3>1
    <3> QED
      BY <1>0, <3>1, <3>2 DEF Current
  <2>5. ASSUME NEW k \in Groups, NEW r \in Reqs, Arrived(k, r) PROVE Arrived(k, r)'
    BY <1>1, <1>2, <2>5 DEF DecodeStep, Arrived, Onward
  <2>6. ASSUME NEW k \in Groups, NEW r \in Reqs, r \in decode'[k].success \/ <<k, r>> \in toDecode'
        PROVE  Arrived(k, r)'
    BY <1>0, <1>1, <2>1, <2>5, <2>6 DEF DecodeStep, TransfersInv
  <2>7. ASSUME NEW k \in Groups
        PROVE  decode'[k].phase = "prefill" => decode'[k].first = decode'[k].req
    BY <1>1, <1>7, <2>1 DEF DecodeStep, TransfersInv
  <2> QED
    BY <1>0, <2>3, <2>4, <2>6, <2>7 DEF TransfersInv
<1>8. PDTypes'
  <2>1. decode' \in [Groups -> DecodeStates]
    BY <1>0, StateFields
  <2>2. toPrefill' \in SUBSET PrefillMessages
    BY StateFields DEF DecodeStep
  <2> QED
    BY <1>0, <2>1, <2>2, StateFields DEF IInv, PDTypes
<1> QED
  BY <1>2, <1>3, <1>4, <1>5, <1>6, <1>7, <1>8 DEF Speaking

\* A decode scheduler is done with its request, one way or another.
LEMMA IdleStepPD ==
  ASSUME IInv, NEW d \in Groups, NEW t \in DecodeStates, decode' = [decode EXCEPT ![d] = t],
         UNCHANGED <<registered, pendingRequests, roundRobin, prefillChan, decodeChan, prefill>>,
         UNCHANGED <<toPrefill, toDecode, timedOut>>,
         t.success = decode[d].success, t.buffers = decode[d].buffers, t.phase = "idle"
  PROVE  PDTypes' /\ Channels' /\ SlotsHeld' /\ Speaking' /\ Onward
<1>1. /\ toDecode' \subseteq toDecode /\ timedOut \subseteq timedOut' /\ timedOut' \subseteq Reqs
      /\ toPrefill' \subseteq toPrefill
  BY DEF IInv, PDTypes
<1>2. /\ t.buffers.logits = decode[d].buffers.logits
      /\ \A r \in Reqs : t.buffers.slotOf[r] = decode[d].buffers.slotOf[r]
      /\ \A r \in Reqs : r \in t.success => r \in decode[d].success
      /\ t.phase # "waiting" /\ t.phase # "prefill" /\ t.phase # "decoding" /\ t.phase # "finishing"
  OBVIOUS
<1>20. DecodeStep(d, t)
  BY <1>1, <1>2 DEF DecodeStep
<1> QED
  BY <1>1, <1>2, <1>20, DecodeStepPD

\* The decode scheduler registers at all prefill schedulers.
LEMMA RegisterAllPD ==
  ASSUME IInv, NEW d \in Groups, RegisterAll(d)
  PROVE  PDTypes' /\ Channels' /\ SlotsHeld' /\ Speaking' /\ Onward
<1> DEFINE t == [decode[d] EXCEPT !.registered = Rank]
<1>1. /\ decode' = [decode EXCEPT ![d] = t]
      /\ UNCHANGED <<registered, pendingRequests, roundRobin, prefillChan, decodeChan, prefill,
                     toDecode, timedOut>>
      /\ toPrefill' = toPrefill \cup {Registration(p, d) : p \in Rank \ decode[d].registered}
  BY StateFields DEF RegisterAll, routerVars
<1>2. /\ t \in DecodeStates /\ t.success = decode[d].success /\ t.buffers = decode[d].buffers
      /\ t.phase = decode[d].phase /\ t.req = decode[d].req /\ t.made = decode[d].made
      /\ t.reason = decode[d].reason /\ t.first = decode[d].first
  BY ChannelTypes DEF DecodeStates
<1> HIDE DEF t
<1>3. \A m \in toPrefill' \ toPrefill : m \in PrefillMessages /\ m.room = NoReq
  BY <1>1 DEF Registration, PrefillMessages, Requests, NoSlot
<1>4. /\ t.phase = "decoding" => t.made # 0
      /\ t.phase \in {"decoding", "finishing"} => t.reason # "none"
      /\ timedOut = {} /\ t.phase = "prefill" => t.first = t.req
  BY <1>2 DEF IInv, Speaking, Busy, TransfersInv
<1>5. timedOut \subseteq Reqs
  BY DEF IInv, PDTypes
<1>6. /\ toDecode' \subseteq toDecode /\ timedOut \subseteq timedOut' /\ timedOut' \subseteq Reqs
      /\ timedOut' = {} /\ t.phase = "prefill" => t.first = t.req
  BY <1>1, <1>4, <1>5
<1>7. /\ t.phase # "idle" => decode[d].phase # "idle" /\ t.req = decode[d].req
      /\ t.phase = "waiting" => decode[d].phase = "waiting" /\ t.buffers = decode[d].buffers
      /\ t.buffers.logits = decode[d].buffers.logits
      /\ \A r \in Reqs : t.buffers.slotOf[r] = decode[d].buffers.slotOf[r]
      /\ \A r \in Reqs : r \in t.success => r \in decode[d].success
  BY <1>2
<1>8. UNCHANGED <<registered, pendingRequests, roundRobin, prefillChan, decodeChan, prefill>>
  BY <1>1
<1>20. DecodeStep(d, t)
  BY <1>1, <1>2, <1>3, <1>4, <1>6, <1>7, <1>8 DEF DecodeStep
<1> QED
  BY <1>1, <1>2, <1>3, <1>4, <1>6, <1>7, <1>8, <1>20, DecodeStepPD

\* A request for which there is no slot is given up.
LEMMA LoseRequestPD ==
  ASSUME IInv, NEW d \in Groups, LoseRequest(d)
  PROVE  PDTypes' /\ Channels' /\ SlotsHeld' /\ Speaking' /\ Onward
<1>1. /\ decodeChan[d] # <<>> /\ decodeChan' = [decodeChan EXCEPT ![d] = Tail(@)]
      /\ UNCHANGED <<registered, pendingRequests, roundRobin, prefillChan, prefill, decode, toPrefill,
                     toDecode, timedOut>>
  BY DEF LoseRequest, routerVars
<1>2. Channels' /\ Onward /\ decodeChan' \in [Groups -> Seq(registered)]
  BY <1>1, ChannelsDecode
<1>3. SlotsHeld'
  BY <1>1 DEF IInv, SlotsHeld
<1>4. Speaking'
  BY <1>1, <1>2, SpeakingKept
<1>5. PDTypes'
  BY <1>1, <1>2 DEF IInv, PDTypes
<1> QED
  BY <1>2, <1>3, <1>4, <1>5

\* The TransferInfo of the request that waits is sent again.
LEMMA RebroadcastPD ==
  ASSUME IInv, NEW d \in Groups, Rebroadcast(d)
  PROVE  PDTypes' /\ Channels' /\ SlotsHeld' /\ Speaking' /\ Onward
<1> DEFINE r == decode[d].req
<1>1. /\ decode[d].phase = "waiting"
      /\ UNCHANGED <<registered, pendingRequests, roundRobin, prefillChan, decodeChan, prefill,
                     decode, toDecode, timedOut>>
      /\ toPrefill' = toPrefill \cup {TransferInfo(p, d, r, decode[d].buffers.slotOf[r]) : p \in Rank}
  BY DEF Rebroadcast, Waiting, routerVars
<1>2. decode' = [decode EXCEPT ![d] = decode[d]] /\ decode[d] \in DecodeStates
  BY <1>1, StateFields
<1>3. r \in Reqs /\ decode[d].buffers.slotOf[r] \in Nat
  BY <1>1, ChannelTypes DEF IInv, Speaking, Busy, Buffers
<1>4. \A m \in toPrefill' \ toPrefill :
        /\ m \in PrefillMessages /\ m.from = d /\ m.room = r
        /\ m.slot = decode[d].buffers.slotOf[m.room]
  <2> SUFFICES ASSUME NEW p \in Rank
               PROVE  LET m == TransferInfo(p, d, r, decode[d].buffers.slotOf[r])
                      IN  /\ m \in PrefillMessages /\ m.from = d /\ m.room = r
                          /\ m.slot = decode[d].buffers.slotOf[m.room]
    BY <1>1 DEF TransferInfo
  <2> QED
    BY <1>3 DEF TransferInfo, PrefillMessages, Requests
<1>5. /\ toDecode' \subseteq toDecode /\ timedOut \subseteq timedOut' /\ timedOut' \subseteq Reqs
      /\ UNCHANGED <<registered, pendingRequests, roundRobin, prefillChan, decodeChan, prefill>>
  BY <1>1 DEF IInv, PDTypes
<1>6. /\ decode[d].phase = "decoding" => decode[d].made # 0
      /\ decode[d].phase \in {"decoding", "finishing"} => decode[d].reason # "none"
  BY DEF IInv, Speaking, Busy
<1>20. DecodeStep(d, decode[d])
  BY <1>1, <1>2, <1>4, <1>5, <1>6 DEF DecodeStep
<1> QED
  BY <1>1, <1>2, <1>4, <1>5, <1>6, <1>20, DecodeStepPD

\* The bootstrap server fails the decode scheduler.
LEMMA BootstrapFailsPD ==
  ASSUME IInv, NEW d \in Groups, BootstrapFails(d)
  PROVE  PDTypes' /\ Channels' /\ SlotsHeld' /\ Speaking' /\ Onward
<1> DEFINE t == [decode[d] EXCEPT !.phase = "idle", !.req = NoReq]
<1>1. /\ decode' = [decode EXCEPT ![d] = t]
      /\ UNCHANGED <<registered, pendingRequests, roundRobin, prefillChan, decodeChan, prefill>>
      /\ UNCHANGED <<toPrefill, toDecode, timedOut>>
  BY StateFields DEF BootstrapFails, routerVars
<1>2. /\ t \in DecodeStates /\ t.success = decode[d].success /\ t.buffers = decode[d].buffers
      /\ t.phase = "idle"
  BY ChannelTypes DEF DecodeStates, Requests
<1> HIDE DEF t
<1> QED
  BY <1>1, <1>2, IdleStepPD

\* A Success comes.
LEMMA StatusArrivesPD ==
  ASSUME IInv, NEW d \in Groups, StatusArrives(d)
  PROVE  PDTypes' /\ Channels' /\ SlotsHeld' /\ Speaking' /\ Onward
<1>1. PICK r \in Reqs : /\ <<d, r>> \in toDecode /\ toDecode' = toDecode \ {<<d, r>>}
                        /\ decode' = [decode EXCEPT ![d].success = @ \cup {r}]
  BY DEF StatusArrives
<1> DEFINE t == [decode[d] EXCEPT !.success = @ \cup {r}]
<1>2. /\ decode' = [decode EXCEPT ![d] = t]
      /\ UNCHANGED <<registered, pendingRequests, roundRobin, prefillChan, decodeChan, prefill>>
      /\ UNCHANGED <<toPrefill, timedOut>>
  BY <1>1, StateFields DEF StatusArrives, routerVars
<1>3. /\ t \in DecodeStates /\ t.success = decode[d].success \cup {r}
      /\ t.buffers = decode[d].buffers
      /\ t.phase = decode[d].phase /\ t.req = decode[d].req /\ t.made = decode[d].made
      /\ t.reason = decode[d].reason /\ t.first = decode[d].first
  BY ChannelTypes DEF DecodeStates
<1> HIDE DEF t
<1>4. /\ t.phase = "decoding" => t.made # 0
      /\ t.phase \in {"decoding", "finishing"} => t.reason # "none"
      /\ timedOut' = {} /\ t.phase = "prefill" => t.first = t.req
  BY <1>2, <1>3 DEF IInv, Speaking, Busy, TransfersInv
<1>5. /\ toDecode' \subseteq toDecode /\ timedOut \subseteq timedOut' /\ timedOut' \subseteq Reqs
  BY <1>1, <1>2 DEF IInv, PDTypes
<1>6. /\ t.phase # "idle" => decode[d].phase # "idle" /\ t.req = decode[d].req
      /\ t.phase = "waiting" => decode[d].phase = "waiting" /\ t.buffers = decode[d].buffers
      /\ t.buffers.logits = decode[d].buffers.logits
      /\ \A u \in Reqs : t.buffers.slotOf[u] = decode[d].buffers.slotOf[u]
      /\ \A u \in Reqs : u \in t.success => u \in decode[d].success \/ <<d, u>> \in toDecode
      /\ toPrefill' \subseteq toPrefill
  BY <1>1, <1>2, <1>3
<1>20. DecodeStep(d, t)
  BY <1>2, <1>3, <1>4, <1>5, <1>6 DEF DecodeStep
<1> QED
  BY <1>2, <1>3, <1>4, <1>5, <1>6, <1>20, DecodeStepPD

\* The wait of a request is over: the slot it gives up has its logits, unless the wait
\* was ended by the clock.
LEMMA TakeLogitsPD ==
  ASSUME IInv, NEW d \in Groups, ReceivedKV(d) \/ TransferTimeout(d)
  PROVE  PDTypes' /\ Channels' /\ SlotsHeld' /\ Speaking' /\ Onward
<1> DEFINE r == decode[d].req
           b == decode[d].buffers
           f == b.logits[b.slotOf[r]]
           t == [decode[d] EXCEPT !.phase = "prefill", !.first = f, !.buffers = FreeSlot(b, r)]
<1>1. /\ decode[d].phase = "waiting"
      /\ UNCHANGED <<registered, pendingRequests, roundRobin, prefillChan, decodeChan, prefill>>
      /\ UNCHANGED <<toPrefill, toDecode>>
      /\ \/ timedOut' = timedOut /\ r \in decode[d].success
         \/ timedOut' = timedOut \cup {r}
  BY DEF ReceivedKV, TransferTimeout, Waiting, routerVars
<1>2. decode' = [decode EXCEPT ![d] = t]
  BY StateFields DEF ReceivedKV, TransferTimeout, TakeLogits, DecodeStates
<1>3. decode[d] \in DecodeStates /\ b \in Buffers /\ r \in Reqs
  BY <1>1, ChannelTypes DEF IInv, Speaking, Busy
<1>4. b.slotOf[r] # NoSlot /\ b.slotOf[r] \in DOMAIN b.logits
  BY <1>1, <1>3 DEF IInv, Speaking, SlotsTaken, SlotOfOne
<1>5. f \in Requests
  BY <1>3, <1>4, LenProperties DEF Buffers
<1>6. timedOut' = {} => Done(r) /\ f = r
  BY <1>1, <1>3, <1>4 DEF IInv, Speaking, TransfersInv, Arrived
<1>7. /\ FreeSlot(b, r) \in Buffers /\ FreeSlot(b, r).logits = b.logits
      /\ \A u \in Reqs : FreeSlot(b, r).slotOf[u] = IF u = r THEN NoSlot ELSE b.slotOf[u]
  BY <1>3, FreeSlotFacts
<1>8. /\ t \in DecodeStates /\ t.success = decode[d].success /\ t.buffers = FreeSlot(b, r)
      /\ t.phase = "prefill" /\ t.req = r /\ t.first = f
  BY <1>3, <1>5, <1>7 DEF DecodeStates
<1> HIDE DEF t, f
<1>9. /\ toDecode' \subseteq toDecode /\ timedOut \subseteq timedOut' /\ timedOut' \subseteq Reqs
      /\ toPrefill' \subseteq toPrefill
  BY <1>1, <1>3 DEF IInv, PDTypes
<1>10. /\ t.phase # "idle" => decode[d].phase # "idle" /\ t.req = decode[d].req
       /\ t.buffers.logits = decode[d].buffers.logits
       /\ \A u \in Reqs :
            \/ t.buffers.slotOf[u] = decode[d].buffers.slotOf[u]
            \/ t.buffers.slotOf[u] = NoSlot /\ (timedOut' = {} => Done(u))
       /\ \A u \in Reqs : u \in t.success => u \in decode[d].success \/ <<d, u>> \in toDecode
       /\ timedOut' = {} /\ t.phase = "prefill" => t.first = t.req
       /\ t.phase # "waiting" /\ t.phase # "decoding" /\ t.phase # "finishing"
  BY <1>1, <1>6, <1>7, <1>8
<1>20. DecodeStep(d, t)
  BY <1>1, <1>2, <1>8, <1>9, <1>10 DEF DecodeStep
<1> QED
  BY <1>1, <1>2, <1>8, <1>9, <1>10, <1>20, DecodeStepPD

\* The pages of a step are a number.
LEMMA PagesNeededType ==
  ASSUME IInv, NEW d \in Groups, Stepping(d)
  PROVE  PagesNeeded(d) \in Int /\ decode[d].made \in Nat
<1>1. decode[d].req \in Reqs /\ decode[d].made \in Nat
  BY ChannelTypes DEF IInv, Speaking, Busy, Stepping, DecodeStates
<1>2. PromptLen[decode[d].req] \in Nat /\ BlockSize \in Nat \ {0}
  BY <1>1, PDAssumption
<1>3. \A n \in Int : Pages(n) \in Int
  BY <1>2 DEF Pages
<1> DEFINE n == PromptLen[decode[d].req] + decode[d].made
<1>4. n \in Int /\ n - 1 \in Int
  BY <1>1, <1>2
<1>5. PagesNeeded(d) = IF decode[d].phase = "prefill" THEN Pages(n) ELSE Pages(n) - Pages(n - 1)
  BY DEF PagesNeeded
<1> HIDE DEF n
<1>6. Pages(n) \in Int /\ Pages(n - 1) \in Int
  BY <1>3, <1>4
<1> QED
  BY <1>1, <1>5, <1>6

\* The message of a token, and what becomes of the request.
LEMMA DecodeTokenFacts ==
  ASSUME IInv, NEW d \in Groups, DecodeToken(d)
  PROVE  LET r == decode[d].req
             made == decode[d].made + 1
             piece == [of |-> IF made = 1 THEN decode[d].first ELSE r, pos |-> made, whole |-> TRUE]
         IN  /\ r \in Reqs /\ piece \in Pieces /\ decode[d].made \in Nat
             /\ decode[d].phase \in {"prefill", "decoding"}
             /\ sendQueue' = [sendQueue EXCEPT ![d] = SendData(@, TokenMessage(idOf[r], piece))]
             /\ \E t \in DecodeStates :
                  /\ decode' = [decode EXCEPT ![d] = t]
                  /\ t.success = decode[d].success /\ t.buffers = decode[d].buffers
                  /\ t.phase \in {"finishing", "decoding"} /\ t.req = r /\ t.made = made
                  /\ t.reason \in {"stop", "length"}
<1> DEFINE r == decode[d].req
           made == decode[d].made + 1
           piece == [of |-> IF made = 1 THEN decode[d].first ELSE r, pos |-> made, whole |-> TRUE]
<1>1. PICK eos \in {FALSE, (r \in StopWithEos)} :
        decode' = [decode EXCEPT
          ![d].made = made, ![d].free = @ - PagesNeeded(d),
          ![d].phase = IF eos \/ made = MaxNew[r] THEN "finishing" ELSE "decoding",
          ![d].reason = IF eos THEN "stop" ELSE "length"]
  BY DEF DecodeToken
<1>2. /\ Stepping(d)
      /\ sendQueue' = [sendQueue EXCEPT ![d] = SendData(@, TokenMessage(idOf[r], piece))]
  BY DEF DecodeToken
<1>3. /\ decode[d] \in DecodeStates /\ r \in Reqs /\ decode[d].made \in Nat
      /\ decode[d].phase \in {"prefill", "decoding"}
      /\ PagesNeeded(d) \in Int /\ decode[d].first \in Requests
  BY <1>2, PagesNeededType, ChannelTypes DEF IInv, Speaking, Busy, Stepping, DecodeStates
<1>4. piece \in Pieces
  BY <1>3 DEF Pieces, Requests
<1> DEFINE free == decode[d].free - PagesNeeded(d)
           phase == IF eos \/ made = MaxNew[r] THEN "finishing" ELSE "decoding"
           reason == IF eos THEN "stop" ELSE "length"
           t == [decode[d] EXCEPT !.made = made, !.free = free, !.phase = phase, !.reason = reason]
<1>5. decode' = [decode EXCEPT ![d] = t]
  BY <1>1, StateFields DEF DecodeStates
<1>6. /\ free \in Int /\ made \in Nat /\ phase \in {"finishing", "decoding"}
      /\ reason \in {"stop", "length"}
  BY <1>3 DEF DecodeStates
<1> HIDE DEF free, made, phase, reason
<1>7. /\ t \in DecodeStates /\ t.success = decode[d].success /\ t.buffers = decode[d].buffers
      /\ t.phase = phase /\ t.req = r /\ t.made = made /\ t.reason = reason
  BY <1>3, <1>6 DEF DecodeStates
<1> HIDE DEF t, piece
<1> QED
  BY <1>2, <1>3, <1>4, <1>5, <1>6, <1>7 DEF piece, made

\* A token is made and sent.
LEMMA DecodeTokenPD ==
  ASSUME IInv, NEW d \in Groups, DecodeToken(d)
  PROVE  PDTypes' /\ Channels' /\ SlotsHeld' /\ Speaking' /\ Onward
<1>1. decode[d].phase \in {"prefill", "decoding"} /\ decode[d].made \in Nat
  BY DecodeTokenFacts
<1>2. PICK t \in DecodeStates :
        /\ decode' = [decode EXCEPT ![d] = t]
        /\ t.success = decode[d].success /\ t.buffers = decode[d].buffers
        /\ t.phase \in {"finishing", "decoding"} /\ t.req = decode[d].req
        /\ t.made = decode[d].made + 1 /\ t.reason \in {"stop", "length"}
  BY DecodeTokenFacts
<1>3. /\ UNCHANGED <<registered, pendingRequests, roundRobin, prefillChan, decodeChan, prefill>>
      /\ UNCHANGED <<toPrefill, toDecode, timedOut>>
  BY DEF DecodeToken
<1>4. timedOut' \subseteq Reqs
  BY <1>3 DEF IInv, PDTypes
<1>5. DecodeStep(d, t)
  BY <1>1, <1>2, <1>3, <1>4 DEF DecodeStep
<1> QED
  BY <1>5, DecodeStepPD

\* No page is left for a token.
LEMMA DecodeRaisesPD ==
  ASSUME IInv, NEW d \in Groups, DecodeRaises(d)
  PROVE  PDTypes' /\ Channels' /\ SlotsHeld' /\ Speaking' /\ Onward
<1> DEFINE t == [decode[d] EXCEPT !.phase = "idle", !.req = NoReq, !.free = 0]
<1>1. /\ decode' = [decode EXCEPT ![d] = t]
      /\ UNCHANGED <<registered, pendingRequests, roundRobin, prefillChan, decodeChan, prefill>>
      /\ UNCHANGED <<toPrefill, toDecode, timedOut>>
  BY StateFields DEF DecodeRaises, routerVars
<1>2. /\ t \in DecodeStates /\ t.success = decode[d].success /\ t.buffers = decode[d].buffers
      /\ t.phase = "idle"
  <2>1. decode[d] \in DecodeStates /\ NoReq \in Requests /\ 0 \in Int
    BY ChannelTypes DEF Requests
  <2> QED
    BY <2>1 DEF DecodeStates
<1> HIDE DEF t
<1> QED
  BY <1>1, <1>2, IdleStepPD

\* The end of an answer is sent.
LEMMA SendFinishPD ==
  ASSUME IInv, NEW d \in Groups, SendFinish(d)
  PROVE  PDTypes' /\ Channels' /\ SlotsHeld' /\ Speaking' /\ Onward
<1> DEFINE t == [decode[d] EXCEPT !.phase = "idle", !.req = NoReq]
<1>1. /\ decode' = [decode EXCEPT ![d] = t]
      /\ UNCHANGED <<registered, pendingRequests, roundRobin, prefillChan, decodeChan, prefill>>
      /\ UNCHANGED <<toPrefill, toDecode, timedOut>>
  BY StateFields DEF SendFinish
<1>2. /\ t \in DecodeStates /\ t.success = decode[d].success /\ t.buffers = decode[d].buffers
      /\ t.phase = "idle"
  BY ChannelTypes DEF DecodeStates, Requests
<1> HIDE DEF t
<1> QED
  BY <1>1, <1>2, IdleStepPD

\* What a decode scheduler does when it takes up a request.
LEMMA StartDecodeFacts ==
  ASSUME IInv, NEW d \in Groups, StartDecode(d)
  PROVE  \E r \in Reqs :
           LET b == decode[d].buffers
           IN  /\ r = Head(decodeChan[d]) /\ NotStarted(r) /\ ~NotStarted(r)'
               /\ decode[d].phase = "idle"
               /\ LowestFree(b) \in DOMAIN b.logits /\ LowestFree(b) \in Nat /\ LowestFree(b) # NoSlot
               /\ \A u \in Reqs : b.slotOf[u] # LowestFree(b)
               /\ Channels' /\ Onward /\ decodeChan' \in [Groups -> Seq(registered)]
               /\ \E t \in DecodeStates :
                    /\ decode' = [decode EXCEPT ![d] = t]
                    /\ t.phase = "waiting" /\ t.req = r /\ t.made = 0
                    /\ t.success = decode[d].success \ {r}
                    /\ t.buffers.logits = b.logits
                    /\ \A u \in Reqs :
                         t.buffers.slotOf[u] = IF u = r THEN LowestFree(b) ELSE b.slotOf[u]
<1>0. PICK r : r = Head(decodeChan[d])
  OBVIOUS
<1> DEFINE b == decode[d].buffers
<1>1. /\ decode[d].phase = "idle" /\ decodeChan[d] # <<>> /\ FreeSlots(b) # {}
      /\ decodeChan' = [decodeChan EXCEPT ![d] = Tail(@)]
      /\ UNCHANGED <<registered, pendingRequests, prefillChan, prefill>>
  BY DEF StartDecode, routerVars
<1>2. /\ r \in registered /\ r \in Reqs /\ r \in ToSet(decodeChan[d])
      /\ ToSet(Tail(decodeChan[d])) = ToSet(decodeChan[d]) \ {r}
  BY <1>0, <1>1, ChannelTypes, TakenSet
<1>3. /\ decode[d] \in DecodeStates /\ b \in Buffers /\ decode \in [Groups -> DecodeStates]
  BY ChannelTypes, StateFields
<1>4. /\ LowestFree(b) \in DOMAIN b.logits /\ LowestFree(b) \in Nat /\ LowestFree(b) # NoSlot
      /\ \A u \in Reqs : b.slotOf[u] # LowestFree(b)
  BY <1>1, <1>3, LowestFreeSlot
<1>5. /\ Allocate(b, r) \in Buffers /\ Allocate(b, r).logits = b.logits
      /\ \A u \in Reqs : Allocate(b, r).slotOf[u] = IF u = r THEN LowestFree(b) ELSE b.slotOf[u]
  BY <1>1, <1>2, <1>3, AllocateFacts
<1>6. Channels' /\ Onward /\ decodeChan' \in [Groups -> Seq(registered)]
  BY <1>1, ChannelsDecode
<1>7. NotStarted(r)
  BY <1>2 DEF NotStarted
<1>8. ~NotStarted(r)'
  <2>1. /\ r \notin ToSet(pendingRequests)
        /\ \A k \in Groups : r \in ToSet(decodeChan[k]) => k = d
    BY <1>2 DEF IInv, Channels, StartedOnce
  <2>2. \A k \in Groups : decodeChan'[k] = IF k = d THEN Tail(decodeChan[d]) ELSE decodeChan[k]
    BY <1>1 DEF IInv, PDTypes
  <2>3. \A k \in Groups : r \notin ToSet(decodeChan'[k])
    BY <1>2, <2>1, <2>2
  <2> QED
    BY <1>1, <1>2, <2>1, <2>3 DEF NotStarted
<1> DEFINE free == decode[d].free - MinOf(MaxBlocksPerReq, decode[d].free)
           success == decode[d].success \ {r}
           t == [decode[d] EXCEPT !.phase = "waiting", !.req = r, !.made = 0, !.first = NoReq,
                  !.reason = "none", !.buffers = Allocate(b, r), !.success = success,
                  !.free = free, !.registered = Rank]
<1>9. decode' = [decode EXCEPT ![d] = t]
  <2>1. decode' = [decode EXCEPT
          ![d].phase = "waiting", ![d].req = r, ![d].made = 0, ![d].first = NoReq,
          ![d].reason = "none", ![d].buffers = Allocate(@, r), ![d].success = @ \ {r},
          ![d].free = @ - MinOf(MaxBlocksPerReq, @), ![d].registered = Rank]
    BY <1>0 DEF StartDecode
  <2> QED
    BY <1>3, <2>1 DEF DecodeStates
<1>10. free \in Int /\ success \in SUBSET Reqs
  <2>1. MaxBlocksPerReq \in Nat /\ decode[d].free \in Int
    BY <1>3, PDAssumption DEF DecodeStates
  <2> QED
    BY <1>3, <2>1 DEF MinOf, DecodeStates
<1> HIDE DEF free
<1>11. /\ t \in DecodeStates /\ t.phase = "waiting" /\ t.req = r /\ t.made = 0
       /\ t.success = success /\ t.buffers = Allocate(b, r)
  BY <1>2, <1>3, <1>5, <1>10 DEF DecodeStates, Requests
<1> HIDE DEF t
<1>12. \E v \in DecodeStates :
         /\ decode' = [decode EXCEPT ![d] = v]
         /\ v.phase = "waiting" /\ v.req = r /\ v.made = 0
         /\ v.success = decode[d].success \ {r}
         /\ v.buffers.logits = b.logits
         /\ \A u \in Reqs : v.buffers.slotOf[u] = IF u = r THEN LowestFree(b) ELSE b.slotOf[u]
  <2> USE <1>11
  <2> WITNESS t \in DecodeStates
  <2> QED
    BY <1>5, <1>9, <1>11
<1> QED
  BY <1>0, <1>1, <1>2, <1>4, <1>6, <1>7, <1>8, <1>12

\* A request is taken up: nobody has spoken of it, and it gets a slot of its own.
LEMMA StartDecodePD ==
  ASSUME IInv, NEW d \in Groups, StartDecode(d)
  PROVE  PDTypes' /\ Channels' /\ SlotsHeld' /\ Speaking' /\ Onward
<1>1. PICK r \in Reqs :
        LET b == decode[d].buffers
        IN  /\ r = Head(decodeChan[d]) /\ NotStarted(r) /\ ~NotStarted(r)'
            /\ decode[d].phase = "idle"
            /\ LowestFree(b) \in DOMAIN b.logits /\ LowestFree(b) \in Nat /\ LowestFree(b) # NoSlot
            /\ \A u \in Reqs : b.slotOf[u] # LowestFree(b)
            /\ Channels' /\ Onward /\ decodeChan' \in [Groups -> Seq(registered)]
            /\ \E t \in DecodeStates :
                 /\ decode' = [decode EXCEPT ![d] = t]
                 /\ t.phase = "waiting" /\ t.req = r /\ t.made = 0
                 /\ t.success = decode[d].success \ {r}
                 /\ t.buffers.logits = b.logits
                 /\ \A u \in Reqs :
                      t.buffers.slotOf[u] = IF u = r THEN LowestFree(b) ELSE b.slotOf[u]
  BY StartDecodeFacts
<1>2. PICK t \in DecodeStates :
        /\ decode' = [decode EXCEPT ![d] = t]
        /\ t.phase = "waiting" /\ t.req = r /\ t.made = 0
        /\ t.success = decode[d].success \ {r}
        /\ t.buffers.logits = decode[d].buffers.logits
        /\ \A u \in Reqs : t.buffers.slotOf[u] = IF u = r THEN LowestFree(decode[d].buffers)
                                                 ELSE decode[d].buffers.slotOf[u]
  BY <1>1
<1>3. PICK slot \in Nat :
        /\ slot = LowestFree(decode[d].buffers) /\ slot # NoSlot
        /\ slot \in DOMAIN decode[d].buffers.logits
        /\ \A u \in Reqs : decode[d].buffers.slotOf[u] # slot
  BY <1>1
<1>4. /\ Channels' /\ Onward /\ decodeChan' \in [Groups -> Seq(registered)]
      /\ NotStarted(r) /\ ~NotStarted(r)'
  BY <1>1
<1>5. /\ UNCHANGED <<registered, pendingRequests, roundRobin, prefillChan, prefill, toDecode, timedOut>>
      /\ toPrefill' = toPrefill \cup {Registration(p, d) : p \in Rank \ decode[d].registered}
                                \cup {TransferInfo(p, d, r, slot) : p \in Rank}
  <2>1. /\ UNCHANGED <<registered, pendingRequests, roundRobin, prefillChan, prefill, toDecode,
                       timedOut>>
        /\ toPrefill' = toPrefill \cup {Registration(p, d) : p \in Rank \ decode[d].registered}
             \cup {TransferInfo(p, d, Head(decodeChan[d]), LowestFree(decode[d].buffers)) : p \in Rank}
    BY DEF StartDecode, routerVars
  <2>2. r = Head(decodeChan[d]) /\ slot = LowestFree(decode[d].buffers)
    BY <1>1, <1>3
  <2> QED
    BY <2>1, <2>2
<1>6. \A k \in Groups : decode'[k] = IF k = d THEN t ELSE decode[k]
  BY <1>2, StateFields
<1>7. ASSUME NEW m \in toPrefill', m \notin toPrefill
      PROVE  /\ m \in PrefillMessages
             /\ m.room = NoReq \/ (m.room = r /\ m.from = d /\ m.slot = slot)
  BY <1>5, <1>7 DEF Registration, TransferInfo, PrefillMessages, Requests, NoSlot
<1>8. SlotsHeld'
  BY <1>5 DEF IInv, SlotsHeld
<1>9. Busy' /\ InfoHome'
  BY <1>2, <1>4, <1>5, <1>6 DEF IInv, Speaking, Busy, InfoHome, Onward
<1>10. /\ \A m \in toPrefill : m.room # r
       /\ \A p \in Rank : prefill[p].infos[r] = <<>>
       /\ \A k \in Groups : r \notin decode[k].success /\ <<k, r>> \notin toDecode
  BY <1>4 DEF IInv, Speaking, Unheard
<1>11. Unheard'
  <2> SUFFICES ASSUME NEW u \in Reqs, u # r, NotStarted(u)
               PROVE  /\ \A m \in toPrefill' : m.room # u
                      /\ \A p \in Rank : prefill[p].infos[u] = <<>>
                      /\ \A k \in Groups : u \notin decode'[k].success /\ <<k, u>> \notin toDecode
    BY <1>4, <1>5 DEF Unheard, Onward
  <2>1. /\ \A m \in toPrefill : m.room # u
        /\ \A p \in Rank : prefill[p].infos[u] = <<>>
        /\ \A k \in Groups : u \notin decode[k].success /\ <<k, u>> \notin toDecode
    BY DEF IInv, Speaking, Unheard
  <2>2. \A m \in toPrefill' : m.room # u
    BY <1>7, <2>1, NoReqAssumption
  <2> QED
    BY <1>2, <1>6, <2>1, <2>2
<1>12. SlotsTaken'
  <2>1. SlotOfOne(decode[d].buffers)
    BY DEF IInv, Speaking, SlotsTaken
  <2>2. SlotOfOne(t.buffers)
    BY <1>2, <1>3, <2>1 DEF SlotOfOne
  <2>3. t.buffers.slotOf[r] # NoSlot
    BY <1>2, <1>3
  <2> QED
    BY <1>2, <1>6, <2>2, <2>3 DEF IInv, Speaking, SlotsTaken, SlotOfOne
<1>13. ASSUME timedOut = {} PROVE TransfersInv'
  <2>1. TransfersInv
    BY <1>13 DEF IInv, Speaking
  <2>2. ASSUME NEW m \in PrefillMessages, m.room # NoReq, m.room # r, Current(m)
        PROVE  Current(m)'
    <3>1. m.room \in Reqs /\ m.from \in Groups
      BY <2>2 DEF PrefillMessages, Requests
    <3>2. decode'[m.from].buffers.slotOf[m.room] = decode[m.from].buffers.slotOf[m.room]
      BY <1>2, <1>6, <2>2, <3>1
    <3> QED
      BY <1>4, <2>2, <3>1, <3>2 DEF Current, Onward
  <2>3. ASSUME NEW m \in toPrefill', m.room # NoReq PROVE Current(m)'
    <3>1. CASE m \in toPrefill
      BY <1>10, <2>1, <2>2, <2>3, <3>1, StateFields DEF TransfersInv
    <3>2. CASE m \notin toPrefill
      <4>1. m.room = r /\ m.from = d /\ m.slot = slot
        BY <1>7, <2>3, <3>2
      <4> QED
        BY <1>2, <1>3, <1>6, <4>1 DEF Current
    <3> QED
      BY <3>1, <3>2
  <2>4. ASSUME NEW p \in Rank, NEW u \in Reqs, prefill[p].infos[u] # <<>>
        PROVE  Current(prefill[p].infos[u][1])'
    <3>1. PICK m \in PrefillMessages : /\ m = prefill[p].infos[u][1] /\ Current(m)
                                       /\ m.room # NoReq /\ m.room # r
      BY <1>10, <2>1, <2>4, StateFields, NoReqAssumption DEF IInv, Speaking, InfoHome, TransfersInv
    <3>2. Current(m)'
      BY <2>2, <3>1
    <3> QED
      BY <1>5, <3>1, <3>2 DEF Current
  <2>5. ASSUME NEW k \in Groups, NEW u \in Reqs, u # r, Arrived(k, u) PROVE Arrived(k, u)'
    BY <1>2, <1>4, <1>6, <2>5 DEF Arrived, Onward
  <2>6. ASSUME NEW k \in Groups, NEW u \in Reqs, u \in decode'[k].success \/ <<k, u>> \in toDecode'
        PROVE  Arrived(k, u)'
    <3>1. u # r /\ (u \in decode[k].success \/ <<k, u>> \in toDecode)
      BY <1>2, <1>5, <1>6, <1>10, <2>6
    <3> QED
      BY <2>1, <2>5, <3>1 DEF TransfersInv
  <2>7. ASSUME NEW k \in Groups
        PROVE  decode'[k].phase = "prefill" => decode'[k].first = decode'[k].req
    BY <1>2, <1>6, <2>1 DEF TransfersInv
  <2> QED
    BY <1>5, <2>3, <2>4, <2>6, <2>7 DEF TransfersInv
<1>14. PDTypes'
  <2>1. decode' \in [Groups -> DecodeStates]
    BY <1>2, StateFields
  <2>2. toPrefill' \in SUBSET PrefillMessages
    BY <1>7, StateFields
  <2> QED
    BY <1>4, <1>5, <2>1, <2>2 DEF IInv, PDTypes
<1> QED
  BY <1>4, <1>5, <1>8, <1>9, <1>11, <1>12, <1>13, <1>14 DEF Speaking

-----------------------------------------------------------------------------
(* The invariant *)

\* Nothing that the schedulers have changes.
LEMMA StillPD ==
  ASSUME IInv, UNCHANGED registered, UNCHANGED pdVars
  PROVE  PDTypes' /\ Channels' /\ SlotsHeld' /\ Speaking' /\ Onward
<1>1. UNCHANGED <<registered, pendingRequests, roundRobin, prefillChan, decodeChan, prefill, decode,
                  toPrefill, toDecode, timedOut>>
  BY DEF pdVars
<1>2. PDTypes'
  BY <1>1 DEF IInv, PDTypes
<1>3. Channels' /\ Onward
  BY <1>1, ChannelsDecode
<1>4. SlotsHeld'
  BY <1>1 DEF IInv, SlotsHeld
<1>5. Speaking'
  BY <1>1, <1>3, SpeakingKept
<1> QED
  BY <1>2, <1>3, <1>4, <1>5

\* The router moves answers only.
LEMMA RouterNextPD ==
  ASSUME IInv, RouterNext, UNCHANGED pdVars
  PROVE  PDTypes' /\ Channels' /\ SlotsHeld' /\ Speaking' /\ Onward
<1>1. registered' = registered
  BY DEF RouterNext, DropUnknown, DropExpired, ProcessToken, ProcessFinish, Cleanup
<1> QED
  BY <1>1, StillPD

\* A step of a process that sends what it has to say to the router.
LEMMA SendsIInv ==
  ASSUME IInv, NEW d \in Groups, DecodeToken(d) \/ SendFinish(d)
  PROVE  RouterIInv' /\ KeepsStopped
<1>1. PICK m \in Messages : sendQueue' = [sendQueue EXCEPT ![d] = SendData(@, m)]
  <2>1. CASE DecodeToken(d)
    <3> DEFINE r == decode[d].req
               made == decode[d].made + 1
               piece == [of |-> IF made = 1 THEN decode[d].first ELSE r, pos |-> made, whole |-> TRUE]
    <3>1. /\ r \in Reqs /\ piece \in Pieces
          /\ sendQueue' = [sendQueue EXCEPT ![d] = SendData(@, TokenMessage(idOf[r], piece))]
      BY <2>1, DecodeTokenFacts
    <3> HIDE DEF piece
    <3>2. TokenMessage(idOf[r], piece) \in Messages
      BY <3>1 DEF IInv, RouterIInv, RouterTypes, TokenMessage, Messages, TokenMessages
    <3> QED
      BY <3>1, <3>2
  <2>2. CASE SendFinish(d)
    <3>1. /\ decode[d].phase = "finishing"
          /\ sendQueue' = [sendQueue EXCEPT
                ![d] = SendData(@, FinishMessage(idOf[decode[d].req], decode[d].reason))]
      BY <2>2 DEF SendFinish
    <3>2. decode[d].req \in Reqs /\ decode[d].reason \in {"stop", "length"}
      BY <3>1, ChannelTypes DEF IInv, Speaking, Busy, DecodeStates
    <3>3. FinishMessage(idOf[decode[d].req], decode[d].reason) \in Messages
      BY <3>2 DEF IInv, RouterIInv, RouterTypes, FinishMessage, Messages, FinishMessages
    <3> QED
      BY <3>1, <3>3
  <2> QED
    BY <2>1, <2>2
<1>2. sendQueue[d] \in Seq(Messages) /\ Len(sendQueue[d]) <= QueueSize
  BY DEF IInv, RouterIInv, RouterTypes, QueuesBounded
<1>3. SendData(sendQueue[d], m) \in Seq(Messages) /\ Len(SendData(sendQueue[d], m)) <= QueueSize
  BY <1>2, SendDataType
<1>4. sendQueue' = [sendQueue EXCEPT ![d] = SendData(sendQueue[d], m)]
  BY <1>1
<1>5. UNCHANGED <<idOf, registered, activeRequests, streams>>
  BY DEF DecodeToken, SendFinish
<1> QED
  BY <1>3, <1>4, <1>5, SendingIInv DEF IInv

\* The invariant holds of fresh schedulers.
LEMMA InitIInv == ASSUME Init PROVE IInv
<1>1. PICK size \in Sizes :
        /\ prefill = [p \in Rank |->
             [service |-> TRUE, worker |-> TRUE, free |-> size.prefillPages,
              buffers |-> NewBuffers(size.slots), queue |-> <<>>,
              infos |-> [r \in Reqs |-> <<>>], registered |-> {}]]
        /\ decode = [d \in Groups |->
             [phase |-> "idle", req |-> NoReq, first |-> NoReq, made |-> 0, reason |-> "none",
              free |-> size.decodePages, buffers |-> NewBuffers(size.slots),
              success |-> {}, registered |-> {}]]
  BY DEF Init
<1>2. /\ RouterInit /\ registered = {} /\ pendingRequests = <<>> /\ roundRobin = 0
      /\ prefillChan = [p \in Rank |-> <<>>] /\ decodeChan = [d \in Groups |-> <<>>]
      /\ toPrefill = {} /\ toDecode = {} /\ timedOut = {}
  BY DEF Init, RouterInit
<1>3. /\ size.slots \in Nat /\ size.prefillPages \in Int /\ size.decodePages \in Int
  BY PDAssumption
<1>4. /\ NewBuffers(size.slots) \in Buffers
      /\ \A r \in Reqs : NewBuffers(size.slots).slotOf[r] = NoSlot
  <2>1. [s \in 1 .. size.slots |-> NoReq] \in Seq(Requests)
    BY <1>3, SeqDef DEF Requests
  <2> QED
    BY <2>1 DEF NewBuffers, Buffers, NoSlot
<1> DEFINE b == NewBuffers(size.slots)
<1> HIDE DEF b
<1>5. /\ \A S : <<>> \in Seq(S) /\ ToSet(<<>>) = {}
      /\ IsInjective(<<>>) /\ DOMAIN <<>> = {}
  BY EmptySeq DEF ToSet, IsInjective
<1>6. /\ prefill \in [Rank -> PrefillStates]
      /\ \A p \in Rank : /\ prefill[p].queue = <<>> /\ \A r \in Reqs : prefill[p].infos[r] = <<>>
  BY <1>1, <1>3, <1>4, <1>5 DEF PrefillStates
<1>7. /\ decode \in [Groups -> DecodeStates]
      /\ \A d \in Groups : /\ decode[d].phase = "idle" /\ decode[d].success = {}
                           /\ \A r \in Reqs : decode[d].buffers.slotOf[r] = NoSlot
  BY <1>1, <1>3, <1>4 DEF DecodeStates, Requests
<1>8. PDTypes
  BY <1>2, <1>5, <1>6, <1>7 DEF PDTypes
<1>9. Channels /\ SlotsHeld
  <2>1. \A p \in Rank : OwnRooms(prefill[p].queue) /\ Rooms(p) = {}
    BY <1>5, <1>6 DEF OwnRooms, Rooms, RoomsOf
  <2> QED
    BY <1>2, <1>5, <1>6, <2>1 DEF Channels, PrefilledOnce, StartedOnce, SlotsHeld
<1>10. Speaking
  BY <1>2, <1>6, <1>7 DEF Speaking, Busy, InfoHome, Unheard, SlotsTaken, SlotOfOne, TransfersInv
<1> QED
  BY <1>2, <1>8, <1>9, <1>10, RouterInitIInv DEF IInv

\* Every step preserves the invariant, and leaves the stopped streams as they are.
LEMMA NextIInv == ASSUME IInv, [Next]_vars PROVE IInv' /\ KeepsStopped
<1>1. ASSUME NEW r \in Reqs, Submit(r) PROVE IInv' /\ KeepsStopped
  BY <1>1, SubmitPD, RegisterIInv DEF IInv, Submit
<1>2. ASSUME Dispatch PROVE IInv' /\ KeepsStopped
  BY <1>2, DispatchPD, RouterUnchanged DEF IInv, Dispatch
<1>3. ASSUME NEW p \in Rank,
             \/ PrefillRequest(p) \/ PrefillDies(p) \/ BootstrapReceive(p)
             \/ TransferWaits(p) \/ TransferDies(p) \/ TransferSucceeds(p) \/ TransferFails(p)
      PROVE  IInv' /\ KeepsStopped
  <2>1. UNCHANGED routerVars
    BY <1>3 DEF PrefillRequest, PrefillDies, BootstrapReceive, TransferWaits, TransferDies,
       TransferSucceeds, TransferFails
  <2>2. PDTypes' /\ Channels' /\ SlotsHeld' /\ Speaking'
    BY <1>3, PrefillRequestPD, PrefillDiesPD, BootstrapReceivePD, TransferWaitsPD, TransferEndsPD,
       TransferSucceedsPD
  <2> QED
    BY <2>1, <2>2, RouterUnchanged DEF IInv
<1>4. ASSUME NEW d \in Groups,
             \/ RegisterAll(d) \/ StartDecode(d) \/ LoseRequest(d) \/ Rebroadcast(d)
             \/ BootstrapFails(d) \/ StatusArrives(d) \/ ReceivedKV(d) \/ TransferTimeout(d)
             \/ DecodeRaises(d)
      PROVE  IInv' /\ KeepsStopped
  <2>1. UNCHANGED routerVars
    BY <1>4 DEF RegisterAll, StartDecode, LoseRequest, Rebroadcast, BootstrapFails, StatusArrives,
       ReceivedKV, TransferTimeout, DecodeRaises
  <2>2. PDTypes' /\ Channels' /\ SlotsHeld' /\ Speaking'
    BY <1>4, RegisterAllPD, StartDecodePD, LoseRequestPD, RebroadcastPD, BootstrapFailsPD,
       StatusArrivesPD, TakeLogitsPD, DecodeRaisesPD
  <2> QED
    BY <2>1, <2>2, RouterUnchanged DEF IInv
<1>5. ASSUME NEW d \in Groups, DecodeToken(d) \/ SendFinish(d) PROVE IInv' /\ KeepsStopped
  <2>1. PDTypes' /\ Channels' /\ SlotsHeld' /\ Speaking'
    BY <1>5, DecodeTokenPD, SendFinishPD
  <2> QED
    BY <1>5, <2>1, SendsIInv DEF IInv
<1>6. CASE TokenRouterStep
  BY <1>6, RouterNextPD, RouterNextIInv DEF IInv, TokenRouterStep
<1>7. CASE UNCHANGED vars
  <2>1. UNCHANGED routerVars /\ UNCHANGED pdVars
    BY <1>7 DEF vars
  <2> QED
    BY <2>1, StillPD, RouterUnchanged DEF IInv, routerVars
<1> QED
  BY <1>1, <1>2, <1>3, <1>4, <1>5, <1>6, <1>7 DEF Next

\* The inductive invariant of disaggregated serving.
THEOREM Inductive == Spec => []IInv
<1>1. Init => IInv
  BY InitIInv
<1>2. IInv /\ [Next]_vars => IInv'
  BY NextIInv
<1> QED
  BY <1>1, <1>2, PTL DEF Spec

\* The logits of a queued chunk are still in its slot when they are sent: a slot is freed
\* only after its chunk has left the queue (ChunksHoldLogits).
THEOREM HeldLogits == Spec => []ChunksHoldLogits
<1>1. IInv => ChunksHoldLogits
  BY DEF IInv, SlotsHeld, Held, ChunksHoldLogits
<1> QED
  BY <1>1, Inductive, PTL

\* Late tokens, a late finish or a second timeout never reach a stopped stream, wherever
\* the messages come from (StoppedForGood).
THEOREM StoppedStreamsStay == Spec => StoppedForGood
<1>1. IInv /\ [Next]_vars => [\A r \in Reqs : streams[r].stop => streams'[r] = streams[r]]_routerVars
  BY NextIInv DEF KeepsStopped
<1> QED
  BY <1>1, Inductive, PTL DEF Spec, StoppedForGood

-----------------------------------------------------------------------------
(* The answers, while no transfer has timed out *)

\* H has a decode scheduler and each request it has taken up, M how many tokens it has
\* made of its answer.
Account(H, M) ==
  /\ Answers(idOf, sendQueue, streams, H, M)
  /\ \A d \in Groups : decode[d].phase # "idle" =>
       <<d, decode[d].req>> \in H /\ M[d][decode[d].req] = decode[d].made
  /\ \A d \in Groups, r \in Reqs : <<d, r>> \in H => ~NotStarted(r)

AnswersInv == timedOut = {} => \E H \in Histories, M \in MadeMaps : Account(H, M)

\* What is of a type the lemmas about answers ask for.
LEMMA AnswerMaps ==
  ASSUME IInv PROVE idOf \in IdMaps /\ sendQueue \in QueueMaps /\ streams \in StreamMaps
  BY DEF IInv, RouterIInv, RouterTypes, IdMaps, QueueMaps, StreamMaps

\* A step that takes up no request and makes no token.
LEMMA AccountKept ==
  ASSUME IInv, Onward, NEW H \in Histories, NEW M \in MadeMaps, Account(H, M),
         Answers(idOf', sendQueue', streams', H, M),
         \A d \in Groups : decode'[d].phase # "idle" =>
           /\ decode[d].phase # "idle"
           /\ decode'[d].req = decode[d].req /\ decode'[d].made = decode[d].made
  PROVE  Account(H, M)'
<1>1. \A d \in Groups : decode'[d].phase # "idle" =>
        <<d, decode'[d].req>> \in H /\ M[d][decode'[d].req] = decode'[d].made
  BY DEF Account
<1>2. \A d \in Groups, r \in Reqs : <<d, r>> \in H => ~NotStarted(r)'
  BY DEF Account, Onward
<1> QED
  BY <1>1, <1>2 DEF Account

\* The requests of the decode schedulers, when none takes up one or makes a token.
LEMMA SameRequests ==
  ASSUME IInv, NEW d \in Groups,
         \/ RegisterAll(d) \/ BootstrapFails(d) \/ StatusArrives(d) \/ ReceivedKV(d)
         \/ TransferTimeout(d) \/ DecodeRaises(d) \/ SendFinish(d)
  PROVE  \A k \in Groups : decode'[k].phase # "idle" =>
           /\ decode[k].phase # "idle"
           /\ decode'[k].req = decode[k].req /\ decode'[k].made = decode[k].made
<1> SUFFICES ASSUME NEW k \in Groups, decode'[k].phase # "idle"
             PROVE  /\ decode[k].phase # "idle"
                    /\ decode'[k].req = decode[k].req /\ decode'[k].made = decode[k].made
  OBVIOUS
<1>1. decode \in [Groups -> DecodeStates]
  BY StateFields
<1>2. CASE RegisterAll(d) \/ BootstrapFails(d) \/ DecodeRaises(d) \/ SendFinish(d)
  BY <1>1, <1>2 DEF RegisterAll, BootstrapFails, DecodeRaises, SendFinish, DecodeStates
<1>3. CASE StatusArrives(d)
  BY <1>1, <1>3 DEF StatusArrives, DecodeStates
<1>4. CASE ReceivedKV(d) \/ TransferTimeout(d)
  <2> DEFINE b == decode[d].buffers
             t == [decode[d] EXCEPT !.phase = "prefill", !.first = b.logits[b.slotOf[decode[d].req]],
                                    !.buffers = FreeSlot(b, decode[d].req)]
  <2>1. decode' = [decode EXCEPT ![d] = t] /\ decode[d].phase = "waiting"
    BY <1>1, <1>4 DEF ReceivedKV, TransferTimeout, TakeLogits, Waiting, DecodeStates
  <2>2. t.req = decode[d].req /\ t.made = decode[d].made
    BY <1>1 DEF DecodeStates
  <2> HIDE DEF t
  <2> QED
    BY <1>1, <2>1, <2>2
<1> QED
  BY <1>2, <1>3, <1>4

\* The request that a scheduler takes up is one that none has had.
LEMMA StartDecodeAnswers ==
  ASSUME IInv, timedOut = {}, NEW d \in Groups, StartDecode(d),
         NEW H \in Histories, NEW M \in MadeMaps, Account(H, M)
  PROVE  \E H2 \in Histories, M2 \in MadeMaps : Account(H2, M2)'
<1>1. PICK r \in Reqs, t \in DecodeStates :
        /\ NotStarted(r) /\ ~NotStarted(r)' /\ Onward
        /\ decode' = [decode EXCEPT ![d] = t]
        /\ t.phase = "waiting" /\ t.req = r /\ t.made = 0
  BY StartDecodeFacts
<1>2. PICK H2 \in Histories, M2 \in MadeMaps :
        /\ H2 = H \cup {<<d, r>>}
        /\ \A k \in Groups, u \in Reqs : M2[k][u] = IF k = d /\ u = r THEN 0 ELSE M[k][u]
  <2> DEFINE M3 == [k \in Groups |-> [u \in Reqs |-> IF k = d /\ u = r THEN 0 ELSE M[k][u]]]
  <2>1. M3 \in MadeMaps /\ H \cup {<<d, r>>} \in Histories
    BY DEF MadeMaps, Histories
  <2>2. \A k \in Groups, u \in Reqs : M3[k][u] = IF k = d /\ u = r THEN 0 ELSE M[k][u]
    OBVIOUS
  <2> HIDE DEF M3
  <2> QED
    BY <2>1, <2>2
<1>3. \A k \in Groups : <<k, r>> \notin H
  BY <1>1 DEF Account
<1>4. OneScheduler(H2)
  BY <1>2, <1>3 DEF OneScheduler, Account, Answers
<1>5. Answers(idOf, sendQueue, streams, H2, M2)
  <2>1. \A k \in Groups, u \in Reqs : <<k, u>> \in H => M2[k][u] = M[k][u]
    BY <1>2, <1>3
  <2>2. H \subseteq H2 /\ Answers(idOf, sendQueue, streams, H, M)
    BY <1>2 DEF Account
  <2> QED
    BY <1>4, <2>1, <2>2, AnswersReceived
<1>6. UNCHANGED <<idOf, sendQueue, streams>>
  BY DEF StartDecode, routerVars
<1>7. \A k \in Groups : decode'[k] = IF k = d THEN t ELSE decode[k]
  BY <1>1, StateFields
<1>8. ASSUME NEW k \in Groups, decode'[k].phase # "idle"
      PROVE  <<k, decode'[k].req>> \in H2 /\ M2[k][decode'[k].req] = decode'[k].made
  <2>1. CASE k = d
    BY <1>1, <1>2, <1>7, <2>1
  <2>2. CASE k # d
    <3>1. /\ decode'[k] = decode[k] /\ decode[k].req \in Reqs
          /\ <<k, decode[k].req>> \in H /\ M[k][decode[k].req] = decode[k].made
      BY <1>7, <1>8, <2>2 DEF Account, IInv, Speaking, Busy
    <3> QED
      BY <1>2, <2>2, <3>1
  <2> QED
    BY <2>1, <2>2
<1>9. \A k \in Groups, u \in Reqs : <<k, u>> \in H2 => ~NotStarted(u)'
  BY <1>1, <1>2 DEF Account, Onward
<1> QED
  BY <1>2, <1>5, <1>6, <1>8, <1>9 DEF Account

\* The token that a scheduler sends is the next of its request, and the first of them
\* comes from the logits of the request.
LEMMA DecodeTokenAnswers ==
  ASSUME IInv, timedOut = {}, NEW d \in Groups, DecodeToken(d),
         NEW H \in Histories, NEW M \in MadeMaps, Account(H, M)
  PROVE  \E M2 \in MadeMaps : Account(H, M2)'
<1>1. PICK r \in Reqs, made \in Nat, piece \in Pieces, t \in DecodeStates :
        /\ r = decode[d].req /\ made = decode[d].made
        /\ piece.of = r /\ piece.pos = made + 1
        /\ sendQueue' = [sendQueue EXCEPT ![d] = SendData(@, TokenMessage(idOf[r], piece))]
        /\ decode' = [decode EXCEPT ![d] = t]
        /\ t.req = r /\ t.made = made + 1
        /\ decode[d].phase # "idle"
  <2> DEFINE r == decode[d].req
             made == decode[d].made + 1
             piece == [of |-> IF made = 1 THEN decode[d].first ELSE r, pos |-> made, whole |-> TRUE]
  <2>1. /\ r \in Reqs /\ piece \in Pieces /\ decode[d].made \in Nat
        /\ decode[d].phase \in {"prefill", "decoding"}
        /\ sendQueue' = [sendQueue EXCEPT ![d] = SendData(@, TokenMessage(idOf[r], piece))]
    BY DecodeTokenFacts
  <2>2. \E t \in DecodeStates : decode' = [decode EXCEPT ![d] = t] /\ t.req = r /\ t.made = made
    BY DecodeTokenFacts
  <2>3. piece.of = r /\ piece.pos = decode[d].made + 1
    <3>1. decode[d].phase = "prefill" => decode[d].first = r
      BY DEF IInv, Speaking, TransfersInv
    <3>2. decode[d].phase = "decoding" => decode[d].made # 0
      BY DEF IInv, Speaking, Busy
    <3> QED
      BY <2>1, <3>1, <3>2
  <2> HIDE DEF piece
  <2>4. PICK q \in Pieces :
          /\ q.of = r /\ q.pos = decode[d].made + 1
          /\ sendQueue' = [sendQueue EXCEPT ![d] = SendData(@, TokenMessage(idOf[r], q))]
    BY <2>1, <2>3
  <2>5. PICK t \in DecodeStates :
          decode' = [decode EXCEPT ![d] = t] /\ t.req = r /\ t.made = decode[d].made + 1
    BY <2>2
  <2> QED
    BY <2>1, <2>4, <2>5
<1>2. M[d][r] = made /\ <<d, r>> \in H
  BY <1>1 DEF Account
<1>3. PICK M2 \in MadeMaps :
        \A k \in Groups, u \in Reqs : M2[k][u] = IF k = d /\ u = r THEN M[d][r] + 1 ELSE M[k][u]
  <2> DEFINE M3 == [k \in Groups |-> [u \in Reqs |-> IF k = d /\ u = r THEN M[d][r] + 1 ELSE M[k][u]]]
  <2>1. M3 \in MadeMaps
    BY <1>2 DEF MadeMaps
  <2>2. \A k \in Groups, u \in Reqs : M3[k][u] = IF k = d /\ u = r THEN M[d][r] + 1 ELSE M[k][u]
    OBVIOUS
  <2> HIDE DEF M3
  <2> QED
    BY <2>1, <2>2
<1>4. Answers(idOf, sendQueue', streams, H, M2)
  <2>1. Answers(idOf, sendQueue, streams, H, M)
    BY DEF Account
  <2>2. piece.pos = M[d][r] + 1
    BY <1>1, <1>2
  <2> QED
    BY <1>1, <1>2, <1>3, <2>1, <2>2, AnswerMaps, AnswersSent
<1>5. UNCHANGED <<idOf, streams>> /\ Onward
  BY DecodeTokenPD DEF DecodeToken
<1>6. \A k \in Groups : decode'[k] = IF k = d THEN t ELSE decode[k]
  BY <1>1, StateFields
<1>7. ASSUME NEW k \in Groups, decode'[k].phase # "idle"
      PROVE  <<k, decode'[k].req>> \in H /\ M2[k][decode'[k].req] = decode'[k].made
  <2>1. CASE k = d
    BY <1>1, <1>2, <1>3, <1>6, <2>1
  <2>2. CASE k # d
    <3>1. /\ decode'[k] = decode[k] /\ decode[k].req \in Reqs
          /\ <<k, decode[k].req>> \in H /\ M[k][decode[k].req] = decode[k].made
      BY <1>6, <1>7, <2>2 DEF Account, IInv, Speaking, Busy
    <3> QED
      BY <1>3, <2>2, <3>1
  <2> QED
    BY <2>1, <2>2
<1>8. \A k \in Groups, u \in Reqs : <<k, u>> \in H => ~NotStarted(u)'
  BY <1>5 DEF Account, Onward
<1> QED
  BY <1>4, <1>5, <1>7, <1>8 DEF Account

\* Every step keeps the answers in order, as long as no transfer has timed out.
LEMMA NextAnswers ==
  ASSUME IInv, AnswersInv, [Next]_vars PROVE AnswersInv'
<1> SUFFICES ASSUME timedOut' = {}
             PROVE  \E H \in Histories, M \in MadeMaps : Account(H, M)'
  BY DEF AnswersInv
<1>1. timedOut = {}
  <2>1. ASSUME NEW d \in Groups, TransferTimeout(d) PROVE timedOut \subseteq timedOut'
    BY <2>1 DEF TransferTimeout
  <2>2. ASSUME NEW p \in Rank,
               \/ PrefillRequest(p) \/ PrefillDies(p) \/ BootstrapReceive(p)
               \/ TransferWaits(p) \/ TransferDies(p) \/ TransferSucceeds(p) \/ TransferFails(p)
        PROVE  UNCHANGED timedOut
    BY <2>2 DEF PrefillRequest, PrefillDies, BootstrapReceive, TransferWaits, TransferDies,
       TransferSucceeds, TransferFails
  <2>3. ASSUME NEW d \in Groups,
               \/ RegisterAll(d) \/ StartDecode(d) \/ LoseRequest(d) \/ Rebroadcast(d)
               \/ BootstrapFails(d) \/ StatusArrives(d) \/ ReceivedKV(d)
               \/ DecodeToken(d) \/ DecodeRaises(d) \/ SendFinish(d)
        PROVE  UNCHANGED timedOut
    BY <2>3 DEF RegisterAll, StartDecode, LoseRequest, Rebroadcast, BootstrapFails, StatusArrives,
       ReceivedKV, DecodeToken, DecodeRaises, SendFinish
  <2>4. CASE TokenRouterStep \/ Dispatch \/ (\E r \in Reqs : Submit(r)) \/ UNCHANGED vars
    BY <2>4 DEF TokenRouterStep, Dispatch, Submit, vars, pdVars
  <2> QED
    BY <2>1, <2>2, <2>3, <2>4 DEF Next
<1>2. PICK H \in Histories, M \in MadeMaps : Account(H, M)
  BY <1>1 DEF AnswersInv
<1>3. Answers(idOf, sendQueue, streams, H, M)
  BY <1>2 DEF Account
<1>4. ASSUME NEW r \in Reqs, Submit(r) PROVE Account(H, M)'
  <2>1. UNCHANGED <<idOf, sendQueue, streams, decode>> /\ Onward
    BY <1>4, SubmitPD DEF Submit, RegisterRequest
  <2> QED
    BY <1>2, <1>3, <2>1, AccountKept
<1>5. ASSUME Dispatch PROVE Account(H, M)'
  <2>1. UNCHANGED <<idOf, sendQueue, streams, decode>> /\ Onward
    BY <1>5, DispatchPD DEF Dispatch, routerVars
  <2> QED
    BY <1>2, <1>3, <2>1, AccountKept
<1>6. ASSUME NEW p \in Rank,
             \/ PrefillRequest(p) \/ PrefillDies(p) \/ BootstrapReceive(p)
             \/ TransferWaits(p) \/ TransferDies(p) \/ TransferFails(p)
      PROVE  Account(H, M)'
  <2>1. UNCHANGED <<idOf, sendQueue, streams, decode>>
    BY <1>6 DEF PrefillRequest, PrefillDies, BootstrapReceive, TransferWaits, TransferDies,
       TransferFails, routerVars
  <2>2. Onward
    BY <1>6, PrefillRequestPD, PrefillDiesPD, BootstrapReceivePD, TransferWaitsPD, TransferEndsPD
  <2> QED
    BY <1>2, <1>3, <2>1, <2>2, AccountKept
<1>7. ASSUME NEW p \in Rank, TransferSucceeds(p) PROVE Account(H, M)'
  <2>1. UNCHANGED <<idOf, sendQueue, streams>> /\ Onward
    BY <1>7, TransferSucceedsPD DEF TransferSucceeds, routerVars
  <2>2. \A k \in Groups : /\ decode'[k].phase = decode[k].phase /\ decode'[k].req = decode[k].req
                          /\ decode'[k].made = decode[k].made
    BY <1>7, StateFields DEF TransferSucceeds, DecodeStates
  <2> QED
    BY <1>2, <1>3, <2>1, <2>2, AccountKept
<1>8. ASSUME NEW d \in Groups, LoseRequest(d) \/ Rebroadcast(d) PROVE Account(H, M)'
  <2>1. UNCHANGED <<idOf, sendQueue, streams, decode>> /\ Onward
    BY <1>8, LoseRequestPD, RebroadcastPD DEF LoseRequest, Rebroadcast, routerVars
  <2> QED
    BY <1>2, <1>3, <2>1, AccountKept
<1>9. ASSUME NEW d \in Groups,
             \/ RegisterAll(d) \/ BootstrapFails(d) \/ StatusArrives(d) \/ ReceivedKV(d)
             \/ TransferTimeout(d) \/ DecodeRaises(d)
      PROVE  Account(H, M)'
  <2>1. UNCHANGED <<idOf, sendQueue, streams>>
    BY <1>9 DEF RegisterAll, BootstrapFails, StatusArrives, ReceivedKV, TransferTimeout,
       DecodeRaises, routerVars
  <2>2. Onward
    BY <1>9, RegisterAllPD, BootstrapFailsPD, StatusArrivesPD, TakeLogitsPD, DecodeRaisesPD
  <2>3. \A k \in Groups : decode'[k].phase # "idle" =>
          /\ decode[k].phase # "idle"
          /\ decode'[k].req = decode[k].req /\ decode'[k].made = decode[k].made
    BY <1>9, SameRequests
  <2> QED
    BY <1>2, <1>3, <2>1, <2>2, <2>3, AccountKept
<1>10. ASSUME NEW d \in Groups, SendFinish(d) PROVE Account(H, M)'
  <2>1. /\ decode[d].phase = "finishing"
        /\ sendQueue' = [sendQueue EXCEPT
              ![d] = SendData(@, FinishMessage(idOf[decode[d].req], decode[d].reason))]
        /\ UNCHANGED <<idOf, streams>>
    BY <1>10 DEF SendFinish
  <2>2. decode[d].req \in Reqs /\ decode[d].reason \in {"stop", "length"}
    BY <2>1, ChannelTypes DEF IInv, Speaking, Busy, DecodeStates
  <2>3. FinishMessage(idOf[decode[d].req], decode[d].reason) \in FinishMessages
    BY <2>2 DEF IInv, RouterIInv, RouterTypes, FinishMessage, FinishMessages
  <2>4. Answers(idOf', sendQueue', streams', H, M)
    BY <1>3, <2>1, <2>3, AnswerMaps, AnswersFinish
  <2>5. Onward
    BY <1>10, SendFinishPD
  <2>6. \A k \in Groups : decode'[k].phase # "idle" =>
          /\ decode[k].phase # "idle"
          /\ decode'[k].req = decode[k].req /\ decode'[k].made = decode[k].made
    BY <1>10, SameRequests
  <2> QED
    BY <1>2, <2>4, <2>5, <2>6, AccountKept
<1>11. CASE TokenRouterStep
  <2>1. Onward /\ UNCHANGED decode
    BY <1>11, RouterNextPD DEF TokenRouterStep, pdVars
  <2>2. Answers(idOf', sendQueue', streams', H, M)
    BY <1>3, <1>11, RouterNextAnswers DEF IInv, TokenRouterStep
  <2> QED
    BY <1>2, <2>1, <2>2, AccountKept
<1>12. CASE UNCHANGED vars
  <2>1. UNCHANGED <<idOf, sendQueue, streams, decode, registered>> /\ UNCHANGED pdVars
    BY <1>12 DEF vars, routerVars, pdVars
  <2>2. Onward
    BY <2>1, StillPD
  <2> QED
    BY <1>2, <1>3, <2>1, <2>2, AccountKept
<1> QED
  BY <1>1, <1>2, <1>4, <1>5, <1>6, <1>7, <1>8, <1>9, <1>10, <1>11, <1>12, StartDecodeAnswers,
     DecodeTokenAnswers DEF Next

\* While no transfer has timed out, every client whose request id is its own sees a
\* subsequence of its own answer: no piece of another request, none twice, none before an
\* earlier one (OwnAnswersUnlessTimeout).
THEOREM OwnAnswers == Spec => []OwnAnswersUnlessTimeout
<1>1. Init => AnswersInv
  <2> SUFFICES ASSUME Init PROVE \E H \in Histories, M \in MadeMaps : Account(H, M)
    BY DEF AnswersInv
  <2> DEFINE M == [d \in Groups |-> [r \in Reqs |-> 0]]
  <2>1. {} \in Histories /\ M \in MadeMaps
    BY DEF Histories, MadeMaps
  <2>2. Answers(idOf, sendQueue, streams, {}, M)
    BY AnswersInit DEF Init
  <2>3. \A d \in Groups : decode[d].phase = "idle"
    BY DEF Init
  <2> HIDE DEF M
  <2> QED
    BY <2>1, <2>2, <2>3 DEF Account
<1>2. IInv /\ AnswersInv /\ [Next]_vars => AnswersInv'
  BY NextAnswers
<1>3. AnswersInv => OwnAnswersUnlessTimeout
  BY AnswersOwn DEF AnswersInv, Account, Answers, OwnAnswersUnlessTimeout
<1> QED
  BY <1>1, <1>2, <1>3, Inductive, PTL DEF Spec
=============================================================================
