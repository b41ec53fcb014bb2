------------------------- MODULE TokenRouterProofs -------------------------
(***************************************************************************)
(* Facts about the token router for any number of requests, ids, groups    *)
(* and any size of the sending queues: its steps, and those of the         *)
(* processes around it, preserve RouterIInv and never touch a stream that  *)
(* has been stopped.                                                       *)
(***************************************************************************)
EXTENDS TokenRouter, SequenceTheorems, TLAPS

TokenMessages == [type : {"token"}, id : Ids, piece : Pieces]
FinishMessages == [type : {"finish"}, id : Ids, reason : {"stop", "length"}]
Messages == TokenMessages \cup FinishMessages

StreamRecords == [seqs : Seq(Pieces), tokens : Nat, stop : BOOLEAN,
                  finish : {"none", "stop", "length"}]

RouterTypes ==
  /\ idOf \in [Reqs -> Ids]
  /\ registered \in SUBSET Reqs
  /\ activeRequests \in [Ids -> Reqs \cup {NoReq}]
  /\ streams \in [Reqs -> StreamRecords]
  /\ sendQueue \in [Groups -> Seq(Messages)]

QueuesBounded == \A g \in Groups : Len(sendQueue[g]) <= QueueSize

\* The router knows a request under its own id, and only until its stream is stopped.
ActiveOpen ==
  \A id \in Ids : activeRequests[id] # NoReq =>
    /\ activeRequests[id] \in registered
    /\ idOf[activeRequests[id]] = id
    /\ ~streams[activeRequests[id]].stop

\* A stream that is not registered has not been stopped.
NewOpen == \A r \in Reqs \ registered : ~streams[r].stop

RouterIInv ==
  RouterTypes /\ idOf \in IdChoices /\ QueuesBounded /\ ActiveOpen /\ NewOpen

\* A step leaves every stopped stream as it is.
KeepsStopped == \A r \in Reqs : streams[r].stop => streams'[r] = streams[r]

-----------------------------------------------------------------------------
\* The router starts with no requests and empty queues.
LEMMA RouterInitIInv == ASSUME RouterInit PROVE RouterIInv
<1>1. NewStream \in StreamRecords
  BY EmptySeq DEF NewStream, StreamRecords
<1>2. <<>> \in Seq(Messages) /\ Len(<<>>) = 0
  BY EmptySeq
<1>3. RouterTypes
  BY <1>1, <1>2, IdsAssumption DEF RouterInit, RouterTypes
<1>4. QueuesBounded
  BY <1>2, QueueSizeAssumption DEF RouterInit, QueuesBounded
<1>5. ActiveOpen /\ NewOpen
  BY DEF RouterInit, ActiveOpen, NewOpen, NewStream
<1> QED
  BY <1>3, <1>4, <1>5 DEF RouterInit, RouterIInv

\* A new registration takes an id over from an older one, whose stream stays open but is
\* no longer found: the new stream is the only one the id leads to.
LEMMA RegisterIInv ==
  ASSUME RouterIInv, NEW r \in Reqs, RegisterRequest(r)
  PROVE  RouterIInv' /\ KeepsStopped
<1>1. RouterTypes' /\ idOf' \in IdChoices /\ QueuesBounded'
  BY DEF RouterIInv, RouterTypes, QueuesBounded, RegisterRequest
<1>2. ActiveOpen'
  BY DEF RouterIInv, RouterTypes, ActiveOpen, NewOpen, RegisterRequest
<1>3. NewOpen' /\ KeepsStopped
  BY DEF RouterIInv, NewOpen, RegisterRequest, KeepsStopped
<1> QED
  BY <1>1, <1>2, <1>3 DEF RouterIInv

\* Taking a message off a queue keeps the queues in order.
LEMMA TakenQueues ==
  ASSUME RouterTypes, QueuesBounded, NEW g \in Groups, Receiving(g), Taken(g)
  PROVE  /\ sendQueue' \in [Groups -> Seq(Messages)]
         /\ \A k \in Groups : Len(sendQueue'[k]) <= QueueSize
         /\ Received(g) \in Messages
<1>1. sendQueue[g] \in Seq(Messages) /\ sendQueue[g] # <<>>
  BY DEF RouterTypes, Receiving
<1>2. /\ Head(sendQueue[g]) \in Messages /\ Tail(sendQueue[g]) \in Seq(Messages)
      /\ Len(Tail(sendQueue[g])) = Len(sendQueue[g]) - 1
  BY <1>1, HeadTailProperties
<1>3. Len(sendQueue[g]) \in Nat
  BY <1>1, LenProperties
<1>4. sendQueue' = [sendQueue EXCEPT ![g] = Tail(@)]
  BY DEF Taken
<1> QED
  BY <1>2, <1>3, <1>4, QueueSizeAssumption DEF RouterTypes, QueuesBounded, Received

\* A dropped message changes nothing else.
LEMMA DropIInv ==
  ASSUME RouterIInv, NEW g \in Groups, DropUnknown(g) \/ DropExpired(g)
  PROVE  RouterIInv' /\ KeepsStopped
<1>1. Receiving(g) /\ Taken(g) /\ UNCHANGED <<idOf, registered, activeRequests, streams>>
  BY DEF DropUnknown, DropExpired
<1>2. RouterTypes' /\ QueuesBounded'
  BY <1>1, TakenQueues DEF RouterIInv, RouterTypes, QueuesBounded
<1>3. ActiveOpen' /\ NewOpen' /\ KeepsStopped
  BY <1>1 DEF RouterIInv, ActiveOpen, NewOpen, KeepsStopped
<1> QED
  BY <1>1, <1>2, <1>3 DEF RouterIInv

\* A token leaves its stream open, or stopped, as it was.
LEMMA AddTextDataType ==
  ASSUME NEW s \in StreamRecords, NEW piece \in Pieces
  PROVE  /\ AddTextData(s, piece) \in StreamRecords
         /\ AddTextData(s, piece).stop = s.stop
<1> DEFINE seqs == IF piece.whole THEN Append(s.seqs, piece) ELSE s.seqs
<1>1. s.seqs \in Seq(Pieces) /\ s.tokens \in Nat
  BY DEF StreamRecords
<1>2. seqs \in Seq(Pieces)
  BY <1>1, AppendProperties
<1>3. AddTextData(s, piece) = [s EXCEPT !.tokens = s.tokens + 1, !.seqs = seqs]
  BY DEF AddTextData, StreamRecords
<1>4. s.tokens + 1 \in Nat
  BY <1>1
<1> HIDE DEF seqs
<1> QED
  BY <1>2, <1>3, <1>4 DEF StreamRecords

\* A token goes to the open stream that has its id.
LEMMA TokenIInv ==
  ASSUME RouterIInv, NEW g \in Groups, ProcessToken(g)
  PROVE  RouterIInv' /\ KeepsStopped
<1> DEFINE m == Received(g)
           r == Context(g)
           s == AddTextData(streams[r], m.piece)
<1>1. /\ Receiving(g) /\ Taken(g) /\ m.type = "token" /\ r # NoReq
      /\ UNCHANGED <<idOf, registered, activeRequests>>
      /\ streams' = [streams EXCEPT ![r] = AddTextData(@, m.piece)]
  BY DEF ProcessToken
<1>2. m \in Messages
  BY <1>1, TakenQueues DEF RouterIInv
<1>3. m.id \in Ids /\ m.piece \in Pieces
  BY <1>1, <1>2 DEF Messages, TokenMessages, FinishMessages
<1>4. r \in Reqs /\ ~streams[r].stop
  BY <1>1, <1>3 DEF RouterIInv, RouterTypes, ActiveOpen, Context
<1>5. streams[r] \in StreamRecords
  BY <1>4 DEF RouterIInv, RouterTypes
<1>6. s \in StreamRecords /\ s.stop = streams[r].stop
  BY <1>3, <1>5, AddTextDataType
<1>7. streams' = [streams EXCEPT ![r] = s]
  BY <1>1
<1> HIDE DEF m, r, s
<1>8. RouterTypes' /\ QueuesBounded'
  BY <1>1, <1>4, <1>6, <1>7, TakenQueues DEF RouterIInv, RouterTypes, QueuesBounded
<1>9. \A q \in Reqs : streams'[q].stop = streams[q].stop
  BY <1>4, <1>6, <1>7 DEF RouterIInv, RouterTypes
<1>10. ActiveOpen' /\ NewOpen'
  BY <1>1, <1>9 DEF RouterIInv, RouterTypes, ActiveOpen, NewOpen
<1>11. KeepsStopped
  BY <1>4, <1>7 DEF RouterIInv, RouterTypes, KeepsStopped
<1> QED
  BY <1>1, <1>8, <1>10, <1>11 DEF RouterIInv

\* Whoever stops an active request, the finish message or the cleanup, takes its entry
\* away: a request has one entry, so no other leads to the stopped stream.
LEMMA StopIInv ==
  ASSUME RouterIInv, NEW id \in Ids, NEW reason \in {"none", "stop", "length"},
         activeRequests[id] # NoReq,
         SendStopSignal(activeRequests[id], reason),
         activeRequests' = [activeRequests EXCEPT ![id] = NoReq],
         UNCHANGED <<idOf, registered>>,
         sendQueue' \in [Groups -> Seq(Messages)],
         \A k \in Groups : Len(sendQueue'[k]) <= QueueSize
  PROVE  RouterIInv' /\ KeepsStopped
<1> DEFINE r == activeRequests[id]
           s == [streams[r] EXCEPT !.stop = TRUE,
                                   !.finish = IF reason = "none" THEN @ ELSE reason]
<1>1. r \in registered /\ r \in Reqs /\ idOf[r] = id /\ ~streams[r].stop
  BY DEF RouterIInv, RouterTypes, ActiveOpen
<1>2. streams[r] \in StreamRecords
  BY <1>1 DEF RouterIInv, RouterTypes
<1>3. s \in StreamRecords
  BY <1>2 DEF StreamRecords
<1>4. streams' = [streams EXCEPT ![r] = s]
  BY <1>1, <1>2 DEF RouterIInv, RouterTypes, SendStopSignal, StreamRecords
<1> HIDE DEF r, s
<1>5. RouterTypes' /\ QueuesBounded'
  BY <1>1, <1>3, <1>4 DEF RouterIInv, RouterTypes, QueuesBounded
<1>6. \A q \in Reqs \ {r} : streams'[q] = streams[q]
  BY <1>1, <1>4 DEF RouterIInv, RouterTypes
<1>7. ASSUME NEW i \in Ids, activeRequests'[i] # NoReq
      PROVE  /\ i # id /\ activeRequests'[i] = activeRequests[i]
             /\ activeRequests[i] \in Reqs \ {r}
  BY <1>1, <1>7 DEF RouterIInv, RouterTypes, ActiveOpen
<1>8. ActiveOpen'
  BY <1>6, <1>7 DEF RouterIInv, ActiveOpen
<1>9. NewOpen' /\ KeepsStopped
  BY <1>1, <1>6 DEF RouterIInv, NewOpen, KeepsStopped
<1> QED
  BY <1>5, <1>8, <1>9 DEF RouterIInv

\* A finish message stops the stream of its id and takes the entry away.
LEMMA FinishIInv ==
  ASSUME RouterIInv, NEW g \in Groups, ProcessFinish(g)
  PROVE  RouterIInv' /\ KeepsStopped
<1>1. Receiving(g) /\ Taken(g) /\ Received(g).type = "finish"
  BY DEF ProcessFinish
<1>2. /\ Received(g) \in Messages
      /\ sendQueue' \in [Groups -> Seq(Messages)]
      /\ \A k \in Groups : Len(sendQueue'[k]) <= QueueSize
  BY <1>1, TakenQueues DEF RouterIInv
<1>3. Received(g).id \in Ids /\ Received(g).reason \in {"none", "stop", "length"}
  BY <1>1, <1>2 DEF Messages, TokenMessages, FinishMessages
<1> QED
  BY <1>2, <1>3, StopIInv DEF ProcessFinish, Context

\* So does the cleanup after five minutes.
LEMMA CleanupIInv ==
  ASSUME RouterIInv, NEW id \in Ids, Cleanup(id)
  PROVE  RouterIInv' /\ KeepsStopped
  BY StopIInv DEF Cleanup, RouterIInv, RouterTypes, QueuesBounded

\* Every step of the router itself.
LEMMA RouterNextIInv == ASSUME RouterIInv, RouterNext PROVE RouterIInv' /\ KeepsStopped
<1>1. CASE \E g \in Groups : DropUnknown(g) \/ DropExpired(g)
  BY <1>1, DropIInv
<1>2. CASE \E g \in Groups : ProcessToken(g)
  BY <1>2, TokenIInv
<1>3. CASE \E g \in Groups : ProcessFinish(g)
  BY <1>3, FinishIInv
<1>4. CASE \E id \in Ids : Cleanup(id)
  BY <1>4, CleanupIInv
<1> QED
  BY <1>1, <1>2, <1>3, <1>4 DEF RouterNext

\* What is in a sequence is in the set it is over.
LEMMA SetOfSeq == ASSUME NEW S, NEW s \in Seq(S) PROVE ToSet(s) \subseteq S
  BY LenProperties DEF ToSet

\* An element that a sequence of distinct elements does not have can be appended to it.
LEMMA AppendedSet ==
  ASSUME NEW S, NEW s \in Seq(S), NEW e \in S
  PROVE  /\ Append(s, e) \in Seq(S)
         /\ ToSet(Append(s, e)) = ToSet(s) \cup {e}
         /\ IsInjective(s) /\ e \notin ToSet(s) => IsInjective(Append(s, e))
<1>1. /\ Append(s, e) \in Seq(S)
      /\ Len(Append(s, e)) = Len(s) + 1
      /\ \A i \in 1 .. Len(s) : Append(s, e)[i] = s[i]
      /\ Append(s, e)[Len(s) + 1] = e
  BY AppendProperties
<1>2. Len(s) \in Nat /\ DOMAIN s = 1 .. Len(s) /\ DOMAIN Append(s, e) = 1 .. Len(s) + 1
  BY <1>1, LenProperties
<1> QED
  BY <1>1, <1>2 DEF ToSet, IsInjective

\* Taking the first of distinct elements off a sequence leaves all the others.
LEMMA TakenSet ==
  ASSUME NEW S, NEW s \in Seq(S), s # <<>>, IsInjective(s)
  PROVE  /\ Head(s) \in S /\ Head(s) \in ToSet(s)
         /\ Tail(s) \in Seq(S) /\ IsInjective(Tail(s))
         /\ ToSet(Tail(s)) = ToSet(s) \ {Head(s)}
<1>1. Head(s) \in S /\ Tail(s) \in Seq(S) /\ Len(Tail(s)) = Len(s) - 1
      /\ \A i \in 1 .. Len(Tail(s)) : Tail(s)[i] = s[i + 1]
  BY HeadTailProperties
<1>2. Len(s) \in Nat \ {0} /\ DOMAIN s = 1 .. Len(s) /\ DOMAIN Tail(s) = 1 .. Len(s) - 1
  BY <1>1, LenProperties, EmptySeq
<1>3. Head(s) = s[1] /\ 1 \in DOMAIN s
  BY <1>2
<1>4. ASSUME NEW i \in DOMAIN s, i # 1
      PROVE  i - 1 \in DOMAIN Tail(s) /\ Tail(s)[i - 1] = s[i] /\ s[i] # s[1]
  BY <1>1, <1>2, <1>3, <1>4 DEF IsInjective
<1>5. ASSUME NEW i \in DOMAIN Tail(s)
      PROVE  i + 1 \in DOMAIN s /\ i + 1 # 1 /\ Tail(s)[i] = s[i + 1]
  BY <1>1, <1>2
<1>6. IsInjective(Tail(s))
  BY <1>2, <1>5 DEF IsInjective
<1>7. ToSet(Tail(s)) = ToSet(s) \ {Head(s)}
  <2>1. ASSUME NEW i \in DOMAIN Tail(s) PROVE Tail(s)[i] \in ToSet(s) \ {s[1]}
    <3>1. i + 1 \in DOMAIN s /\ i + 1 # 1 /\ Tail(s)[i] = s[i + 1]
      BY <1>5
    <3> QED
      BY <3>1, <1>4 DEF ToSet
  <2>2. ASSUME NEW i \in DOMAIN s, s[i] # s[1] PROVE s[i] \in ToSet(Tail(s))
    BY <1>4, <2>2 DEF ToSet
  <2> QED
    BY <1>3, <2>1, <2>2 DEF ToSet
<1> QED
  BY <1>1, <1>3, <1>6, <1>7 DEF ToSet

\* A queue that is sent a message stays in order and within its size.
LEMMA SendDataType ==
  ASSUME NEW q \in Seq(Messages), Len(q) <= QueueSize, NEW m \in Messages
  PROVE  SendData(q, m) \in Seq(Messages) /\ Len(SendData(q, m)) <= QueueSize
<1>1. Append(q, m) \in Seq(Messages) /\ Len(Append(q, m)) = Len(q) + 1
  BY AppendProperties
<1>2. Len(q) \in Nat
  BY LenProperties
<1> QED
  BY <1>1, <1>2, QueueSizeAssumption DEF SendData

\* A step of a process that sends on one queue, or loses it, and does nothing else to
\* the router.
LEMMA SendingIInv ==
  ASSUME RouterIInv, NEW g \in Groups, NEW q \in Seq(Messages), Len(q) <= QueueSize,
         sendQueue' = [sendQueue EXCEPT ![g] = q],
         UNCHANGED <<idOf, registered, activeRequests, streams>>
  PROVE  RouterIInv' /\ KeepsStopped
<1>1. RouterTypes' /\ QueuesBounded'
  BY DEF RouterIInv, RouterTypes, QueuesBounded
<1>2. ActiveOpen' /\ NewOpen' /\ KeepsStopped
  BY DEF RouterIInv, ActiveOpen, NewOpen, KeepsStopped
<1> QED
  BY <1>1, <1>2 DEF RouterIInv

\* A step that leaves the router alone.
LEMMA RouterUnchanged ==
  ASSUME RouterIInv, UNCHANGED routerVars PROVE RouterIInv' /\ KeepsStopped
  BY DEF RouterIInv, RouterTypes, QueuesBounded, ActiveOpen, NewOpen, KeepsStopped, routerVars

\* What the invariant says of the types the runs check.
LEMMA RouterTyping == ASSUME RouterIInv PROVE RouterTypeOK
<1>1. ASSUME NEW r \in Reqs
      PROVE  /\ streams[r].seqs \in Seq(Pieces) /\ streams[r].tokens \in Nat
             /\ streams[r].stop \in BOOLEAN /\ streams[r].finish \in {"none", "stop", "length"}
  BY DEF RouterIInv, RouterTypes, StreamRecords
<1>2. activeRequests \in [Ids -> registered \cup {NoReq}]
  BY DEF RouterIInv, RouterTypes, ActiveOpen
<1> QED
  BY <1>1, <1>2 DEF RouterIInv, RouterTypes, QueuesBounded, RouterTypeOK

-----------------------------------------------------------------------------
(* Answers in their order.  Between a scheduler's task and the client's      *)
(* stream the tokens of an answer pass one queue.  H has <<g, r>> when       *)
(* scheduler g has, or had, request r, and M[g][r] is the number of tokens   *)
(* it has made of its answer; the modules that follow say what H and M are   *)
(* in the schedulers they are about.                                         *)

\* The token messages of an id in a queue.
TokensOf(q, id) == {i \in DOMAIN q : q[i].type = "token" /\ q[i].id = id}

OwnIds(ids) == {r \in Reqs : \A s \in Reqs \ {r} : ids[s] # ids[r]}

OneScheduler(H) == \A g, k \in Groups, r \in Reqs : <<g, r>> \in H /\ <<k, r>> \in H => g = k

\* The tokens in a queue were made by its scheduler, in their order.
QueuedInOrder(ids, queues, H, M) ==
  \A g \in Groups, r \in OwnIds(ids) : \A i \in TokensOf(queues[g], ids[r]) :
    /\ <<g, r>> \in H
    /\ queues[g][i].piece.of = r
    /\ queues[g][i].piece.pos <= M[g][r]
    /\ \A j \in TokensOf(queues[g], ids[r]) :
         i < j => queues[g][i].piece.pos < queues[g][j].piece.pos

\* What a stream has was made before what is still in a queue.
StreamedFirst(ids, queues, strs, H, M) ==
  \A r \in OwnIds(ids) : \A i \in DOMAIN strs[r].seqs :
    /\ \E k \in Groups : <<k, r>> \in H
    /\ \A k \in Groups :
         /\ <<k, r>> \in H => strs[r].seqs[i].pos <= M[k][r]
         /\ \A j \in TokensOf(queues[k], ids[r]) :
              strs[r].seqs[i].pos < queues[k][j].piece.pos

StreamedInOrder(ids, strs) ==
  \A r \in OwnIds(ids) :
    /\ \A i \in DOMAIN strs[r].seqs : strs[r].seqs[i].of = r
    /\ \A i, j \in DOMAIN strs[r].seqs : i < j => strs[r].seqs[i].pos < strs[r].seqs[j].pos

Answers(ids, queues, strs, H, M) ==
  /\ OneScheduler(H)
  /\ QueuedInOrder(ids, queues, H, M)
  /\ StreamedFirst(ids, queues, strs, H, M)
  /\ StreamedInOrder(ids, strs)

IdMaps == [Reqs -> Ids]
QueueMaps == [Groups -> Seq(Messages)]
StreamMaps == [Reqs -> StreamRecords]
Histories == SUBSET (Groups \X Reqs)
MadeMaps == [Groups -> [Reqs -> Nat]]

\* What holds of the streams is the property of the runs.
LEMMA AnswersOwn ==
  ASSUME StreamedInOrder(idOf, streams) PROVE OwnAnswerInOrder
  BY DEF StreamedInOrder, OwnAnswerInOrder, OwnIds, Unshared

\* With empty queues and streams nothing can be out of order.
LEMMA AnswersInit ==
  ASSUME NEW M, RouterInit
  PROVE  Answers(idOf, sendQueue, streams, {}, M)
<1>1. \A g \in Groups : DOMAIN sendQueue[g] = {}
  BY DEF RouterInit
<1>2. \A r \in Reqs : DOMAIN streams[r].seqs = {}
  BY DEF RouterInit, NewStream
<1> QED
  BY <1>1, <1>2 DEF Answers, OneScheduler, QueuedInOrder, StreamedFirst, StreamedInOrder,
     TokensOf, OwnIds

\* A scheduler may get a request that no other has, and the others' tokens are the same.
LEMMA AnswersReceived ==
  ASSUME NEW ids, NEW queues, NEW strs, NEW H, NEW M, NEW strs2, NEW H2, NEW M2,
         Answers(ids, queues, strs, H, M),
         \A r \in Reqs : strs2[r].seqs = strs[r].seqs,
         H \subseteq H2, OneScheduler(H2),
         \A g \in Groups, r \in Reqs : <<g, r>> \in H => M2[g][r] = M[g][r]
  PROVE  Answers(ids, queues, strs2, H2, M2)
<1>1. \A r \in OwnIds(ids) : r \in Reqs
  BY DEF OwnIds
<1>2. QueuedInOrder(ids, queues, H2, M2)
  <2> SUFFICES ASSUME NEW k \in Groups, NEW r \in OwnIds(ids), NEW i \in TokensOf(queues[k], ids[r])
               PROVE  /\ <<k, r>> \in H2
                      /\ queues[k][i].piece.of = r
                      /\ queues[k][i].piece.pos <= M2[k][r]
                      /\ \A j \in TokensOf(queues[k], ids[r]) :
                           i < j => queues[k][i].piece.pos < queues[k][j].piece.pos
    BY DEF QueuedInOrder
  <2>1. /\ <<k, r>> \in H
        /\ queues[k][i].piece.of = r
        /\ queues[k][i].piece.pos <= M[k][r]
        /\ \A j \in TokensOf(queues[k], ids[r]) :
             i < j => queues[k][i].piece.pos < queues[k][j].piece.pos
    BY DEF Answers, QueuedInOrder
  <2>2. <<k, r>> \in H2 /\ M2[k][r] = M[k][r]
    BY <1>1, <2>1
  <2> QED
    BY <2>1, <2>2
<1>3. StreamedFirst(ids, queues, strs2, H2, M2)
  <2> SUFFICES ASSUME NEW r \in OwnIds(ids), NEW i \in DOMAIN strs[r].seqs
               PROVE  /\ \E k \in Groups : <<k, r>> \in H2
                      /\ \A k \in Groups :
                           /\ <<k, r>> \in H2 => strs[r].seqs[i].pos <= M2[k][r]
                           /\ \A j \in TokensOf(queues[k], ids[r]) :
                                strs[r].seqs[i].pos < queues[k][j].piece.pos
    BY <1>1 DEF StreamedFirst
  <2>1. PICK g \in Groups : <<g, r>> \in H
    BY DEF Answers, StreamedFirst
  <2>2. \A k \in Groups : <<k, r>> \in H2 => k = g
    BY <1>1, <2>1 DEF OneScheduler
  <2> QED
    BY <1>1, <2>1, <2>2 DEF Answers, StreamedFirst
<1>4. StreamedInOrder(ids, strs2)
  BY <1>1 DEF Answers, StreamedInOrder
<1> QED
  BY <1>2, <1>3, <1>4 DEF Answers

\* What is left of a queue has the tokens it had, in their order, after the first.
LEMMA TakenTokens ==
  ASSUME NEW q \in Seq(Messages), q # <<>>, NEW id
  PROVE  /\ Head(q) = q[1]
         /\ Head(q).type = "token" /\ Head(q).id = id => 1 \in TokensOf(q, id)
         /\ \A i \in TokensOf(Tail(q), id) :
              i \in Nat \ {0} /\ i + 1 \in TokensOf(q, id) /\ Tail(q)[i] = q[i + 1]
<1>1. /\ Tail(q) \in Seq(Messages) /\ Len(Tail(q)) = Len(q) - 1
      /\ \A i \in 1 .. Len(Tail(q)) : Tail(q)[i] = q[i + 1]
  BY HeadTailProperties
<1>2. Len(q) \in Nat \ {0} /\ DOMAIN q = 1 .. Len(q) /\ DOMAIN Tail(q) = 1 .. Len(q) - 1
  BY <1>1, LenProperties, EmptySeq
<1>3. Head(q) = q[1] /\ 1 \in DOMAIN q
  BY <1>2
<1>4. ASSUME NEW i \in DOMAIN Tail(q)
      PROVE  i \in Nat \ {0} /\ i + 1 \in DOMAIN q /\ Tail(q)[i] = q[i + 1]
  BY <1>1, <1>2
<1> QED
  BY <1>3, <1>4 DEF TokensOf

\* A queue a message has been sent on has the tokens it had, then this one or none.
LEMMA SentTokens ==
  ASSUME NEW q \in Seq(Messages), NEW m \in Messages, NEW id,
         NEW i \in TokensOf(SendData(q, m), id)
  PROVE  \/ i \in TokensOf(q, id) /\ SendData(q, m)[i] = q[i] /\ i <= Len(q) /\ i \in Nat
         \/ /\ i = Len(q) + 1 /\ Len(q) \in Nat
            /\ SendData(q, m)[i] = m /\ m.type = "token" /\ m.id = id
<1>1. /\ Append(q, m) \in Seq(Messages) /\ Len(Append(q, m)) = Len(q) + 1
      /\ \A k \in 1 .. Len(q) : Append(q, m)[k] = q[k]
      /\ Append(q, m)[Len(q) + 1] = m
  BY AppendProperties
<1>2. Len(q) \in Nat /\ DOMAIN q = 1 .. Len(q) /\ DOMAIN Append(q, m) = 1 .. Len(q) + 1
  BY <1>1, LenProperties
<1> QED
  BY <1>1, <1>2 DEF TokensOf, SendData

\* The tokens of an id in queue q2 are tokens it had in queue q, e places further back.
Shifted(q2, q, id, e) ==
  \A i \in TokensOf(q2, id) : i \in Nat /\ i + e \in TokensOf(q, id) /\ q2[i] = q[i + e]

\* A queue that loses messages at its front, or gets others than tokens, keeps its
\* tokens in order.
LEMMA AnswersKept ==
  ASSUME NEW ids \in IdMaps, NEW queues, NEW queues2, NEW strs, NEW strs2, NEW H, NEW M,
         Answers(ids, queues, strs, H, M), NEW g \in Groups, NEW e \in Nat,
         \A r \in Reqs : strs2[r].seqs = strs[r].seqs,
         \A k \in Groups \ {g} : queues2[k] = queues[k],
         \A id \in Ids : Shifted(queues2[g], queues[g], id, e)
  PROVE  Answers(ids, queues2, strs2, H, M)
<1>1. \A r \in OwnIds(ids) : r \in Reqs /\ ids[r] \in Ids
  BY DEF OwnIds, IdMaps
<1>2. QueuedInOrder(ids, queues2, H, M)
  <2> SUFFICES ASSUME NEW k \in Groups, NEW r \in OwnIds(ids), NEW i \in TokensOf(queues2[k], ids[r])
               PROVE  /\ <<k, r>> \in H
                      /\ queues2[k][i].piece.of = r
                      /\ queues2[k][i].piece.pos <= M[k][r]
                      /\ \A j \in TokensOf(queues2[k], ids[r]) :
                           i < j => queues2[k][i].piece.pos < queues2[k][j].piece.pos
    BY DEF QueuedInOrder
  <2>1. CASE k # g
    BY <2>1 DEF Answers, QueuedInOrder
  <2>2. CASE k = g
    <3>1. /\ i \in Nat /\ i + e \in TokensOf(queues[g], ids[r])
          /\ queues2[g][i] = queues[g][i + e]
      BY <1>1, <2>2 DEF Shifted
    <3>2. ASSUME NEW j \in TokensOf(queues2[g], ids[r]), i < j
          PROVE  queues2[g][i].piece.pos < queues2[g][j].piece.pos
      <4>1. /\ j \in Nat /\ j + e \in TokensOf(queues[g], ids[r])
            /\ queues2[g][j] = queues[g][j + e]
        BY <1>1 DEF Shifted
      <4>2. i + e < j + e
        BY <3>1, <3>2, <4>1
      <4> QED
        BY <3>1, <4>1, <4>2 DEF Answers, QueuedInOrder
    <3> QED
      BY <2>2, <3>1, <3>2 DEF Answers, QueuedInOrder
  <2> QED
    BY <2>1, <2>2
<1>3. StreamedFirst(ids, queues2, strs2, H, M)
  <2> SUFFICES ASSUME NEW r \in OwnIds(ids), NEW i \in DOMAIN strs[r].seqs,
                      NEW k \in Groups, NEW j \in TokensOf(queues2[k], ids[r])
               PROVE  strs[r].seqs[i].pos < queues2[k][j].piece.pos
    BY <1>1 DEF Answers, StreamedFirst
  <2>1. CASE k # g
    BY <2>1 DEF Answers, StreamedFirst
  <2>2. CASE k = g
    <3>1. j + e \in TokensOf(queues[g], ids[r]) /\ queues2[g][j] = queues[g][j + e]
      BY <1>1, <2>2 DEF Shifted
    <3> QED
      BY <2>2, <3>1 DEF Answers, StreamedFirst
  <2> QED
    BY <2>1, <2>2
<1>4. StreamedInOrder(ids, strs2)
  BY <1>1 DEF Answers, StreamedInOrder
<1> QED
  BY <1>2, <1>3, <1>4 DEF Answers

\* A queue that loses its first message, or all of them.
LEMMA AnswersLost ==
  ASSUME NEW ids \in IdMaps, NEW queues \in QueueMaps, NEW queues2, NEW strs, NEW strs2, NEW H, NEW M,
         Answers(ids, queues, strs, H, M), NEW g \in Groups,
         \A r \in Reqs : strs2[r].seqs = strs[r].seqs,
         \/ queues[g] # <<>> /\ queues2 = [queues EXCEPT ![g] = Tail(@)]
         \/ queues2 = [queues EXCEPT ![g] = <<>>]
  PROVE  Answers(ids, queues2, strs2, H, M)
<1>1. CASE queues[g] # <<>> /\ queues2 = [queues EXCEPT ![g] = Tail(@)]
  <2>1. queues2[g] = Tail(queues[g]) /\ \A k \in Groups \ {g} : queues2[k] = queues[k]
    BY <1>1 DEF QueueMaps
  <2>2. queues[g] \in Seq(Messages) /\ 1 \in Nat
    BY DEF QueueMaps
  <2>3. \A id \in Ids : \A i \in TokensOf(Tail(queues[g]), id) :
          /\ i \in Nat \ {0} /\ i + 1 \in TokensOf(queues[g], id)
          /\ Tail(queues[g])[i] = queues[g][i + 1]
    BY <1>1, <2>2, TakenTokens
  <2>4. \A id \in Ids : Shifted(queues2[g], queues[g], id, 1)
    BY <2>1, <2>3 DEF Shifted
  <2> QED
    BY <2>1, <2>2, <2>4, AnswersKept
<1>2. CASE queues2 = [queues EXCEPT ![g] = <<>>]
  <2>1. queues2[g] = <<>> /\ \A k \in Groups \ {g} : queues2[k] = queues[k]
    BY <1>2 DEF QueueMaps
  <2>2. \A id \in Ids : TokensOf(queues2[g], id) = {}
    BY <2>1 DEF TokensOf
  <2>3. 0 \in Nat /\ \A id \in Ids : Shifted(queues2[g], queues[g], id, 0)
    BY <2>2 DEF Shifted
  <2> QED
    BY <2>1, <2>3, AnswersKept
<1> QED
  BY <1>1, <1>2

\* A queue that is sent a finish message, or drops it.
LEMMA AnswersFinish ==
  ASSUME NEW ids \in IdMaps, NEW queues \in QueueMaps, NEW strs, NEW H, NEW M,
         Answers(ids, queues, strs, H, M), NEW g \in Groups, NEW m \in FinishMessages
  PROVE  Answers(ids, [queues EXCEPT ![g] = SendData(@, m)], strs, H, M)
<1> DEFINE queues2 == [queues EXCEPT ![g] = SendData(@, m)]
<1>1. queues2[g] = SendData(queues[g], m) /\ \A k \in Groups \ {g} : queues2[k] = queues[k]
  BY DEF QueueMaps
<1>2. queues[g] \in Seq(Messages) /\ m \in Messages /\ m.type # "token"
  BY DEF QueueMaps, Messages, FinishMessages
<1> HIDE DEF queues2
<1>3. \A id \in Ids : Shifted(queues2[g], queues[g], id, 0)
  <2> SUFFICES ASSUME NEW id \in Ids, NEW i \in TokensOf(SendData(queues[g], m), id)
               PROVE  /\ i \in Nat /\ i + 0 \in TokensOf(queues[g], id)
                      /\ SendData(queues[g], m)[i] = queues[g][i + 0]
    BY <1>1 DEF Shifted
  <2>1. i \in TokensOf(queues[g], id) /\ SendData(queues[g], m)[i] = queues[g][i] /\ i \in Nat
    BY <1>2, SentTokens
  <2>2. i + 0 = i
    BY <2>1
  <2> QED
    BY <2>1, <2>2
<1> QED
  <2>1. 0 \in Nat
    OBVIOUS
  <2>2. Answers(ids, queues2, strs, H, M)
    BY <1>1, <1>3, <2>1, AnswersKept
  <2> QED
    BY <2>2 DEF queues2

\* The next token of an answer comes after all its scheduler has made of it.
LEMMA AnswersSent ==
  ASSUME NEW ids \in IdMaps, NEW queues \in QueueMaps, NEW strs \in StreamMaps, NEW H,
         NEW M \in MadeMaps, Answers(ids, queues, strs, H, M),
         NEW g \in Groups, NEW t \in Reqs, <<g, t>> \in H, NEW piece \in Pieces,
         piece.of = t, piece.pos = M[g][t] + 1,
         NEW M2, \A k \in Groups, r \in Reqs :
                   M2[k][r] = IF k = g /\ r = t THEN M[g][t] + 1 ELSE M[k][r]
  PROVE  Answers(ids, [queues EXCEPT ![g] = SendData(@, TokenMessage(ids[t], piece))], strs, H, M2)
<1> DEFINE m == TokenMessage(ids[t], piece)
           queues2 == [queues EXCEPT ![g] = SendData(@, m)]
<1>1. \A k \in Groups : queues2[k] = IF k = g THEN SendData(queues[g], m) ELSE queues[k]
  BY DEF QueueMaps
<1>2. /\ m \in Messages /\ m.type = "token" /\ m.id = ids[t] /\ m.piece.of = t
      /\ m.piece.pos = M[g][t] + 1
  BY DEF TokenMessage, Messages, TokenMessages, IdMaps
<1>3. \A k \in Groups : queues[k] \in Seq(Messages)
  BY DEF QueueMaps
<1>4. \A k \in Groups, r \in Reqs : M[k][r] \in Nat
  BY DEF MadeMaps
<1>5. \A r \in OwnIds(ids) : r \in Reqs
  BY DEF OwnIds
<1> HIDE DEF m, queues2
<1>6. ASSUME NEW k \in Groups, NEW r \in OwnIds(ids), NEW i \in TokensOf(queues2[k], ids[r])
      PROVE  \/ /\ i \in TokensOf(queues[k], ids[r]) /\ queues2[k][i] = queues[k][i]
                /\ (k = g => i <= Len(queues[g]) /\ i \in Nat)
             \/ /\ k = g /\ r = t /\ i = Len(queues[g]) + 1 /\ Len(queues[g]) \in Nat
                /\ queues2[k][i] = m
  <2>1. CASE k # g
    BY <1>1, <1>6, <2>1
  <2>2. CASE k = g
    <3>1. i \in TokensOf(SendData(queues[g], m), ids[r]) /\ queues2[k] = SendData(queues[g], m)
      BY <1>1, <1>6, <2>2
    <3>2. ids[r] = ids[t] => r = t
      BY DEF OwnIds
    <3> QED
      BY <1>2, <1>3, <2>2, <3>1, <3>2, SentTokens
  <2> QED
    BY <2>1, <2>2
<1>7. QueuedInOrder(ids, queues2, H, M2)
  <2> SUFFICES ASSUME NEW k \in Groups, NEW r \in OwnIds(ids), NEW i \in TokensOf(queues2[k], ids[r])
               PROVE  /\ <<k, r>> \in H
                      /\ queues2[k][i].piece.of = r
                      /\ queues2[k][i].piece.pos <= M2[k][r]
                      /\ \A j \in TokensOf(queues2[k], ids[r]) :
                           i < j => queues2[k][i].piece.pos < queues2[k][j].piece.pos
    BY DEF QueuedInOrder
  <2>1. CASE /\ i \in TokensOf(queues[k], ids[r]) /\ queues2[k][i] = queues[k][i]
             /\ (k = g => i <= Len(queues[g]))
    <3>1. /\ <<k, r>> \in H /\ queues[k][i].piece.of = r
          /\ queues[k][i].piece.pos <= M[k][r]
          /\ queues[k][i].piece.pos \in Nat
      <4>1. queues[k][i] \in Messages /\ queues[k][i].type = "token"
        BY <1>3, <2>1, LenProperties DEF TokensOf
      <4> QED
        BY <2>1, <4>1 DEF Answers, QueuedInOrder, Messages, TokenMessages, FinishMessages, Pieces
    <3>2. queues[k][i].piece.pos <= M2[k][r]
      BY <1>4, <1>5, <3>1
    <3>3. ASSUME NEW j \in TokensOf(queues2[k], ids[r]), i < j
          PROVE  queues[k][i].piece.pos < queues2[k][j].piece.pos
      <4>1. CASE j \in TokensOf(queues[k], ids[r]) /\ queues2[k][j] = queues[k][j]
        BY <2>1, <3>3, <4>1 DEF Answers, QueuedInOrder
      <4>2. CASE k = g /\ r = t /\ queues2[k][j] = m
        BY <1>2, <1>4, <3>1, <4>2
      <4> QED
        BY <1>6, <4>1, <4>2
    <3> QED
      BY <2>1, <3>1, <3>2, <3>3
  <2>2. CASE /\ k = g /\ r = t /\ i = Len(queues[g]) + 1 /\ Len(queues[g]) \in Nat
             /\ queues2[k][i] = m
    <3>1. \A j \in TokensOf(queues2[k], ids[r]) : ~(i < j)
      <4> SUFFICES ASSUME NEW j \in TokensOf(queues2[k], ids[r]) PROVE ~(i < j)
        OBVIOUS
      <4>1. j = Len(queues[g]) + 1 \/ (j <= Len(queues[g]) /\ j \in Nat)
        BY <1>6, <2>2
      <4> QED
        BY <2>2, <4>1
    <3> QED
      BY <1>2, <1>4, <2>2, <3>1
  <2> QED
    BY <1>6, <2>1, <2>2
<1>8. StreamedFirst(ids, queues2, strs, H, M2)
  <2> SUFFICES ASSUME NEW r \in OwnIds(ids), NEW i \in DOMAIN strs[r].seqs
               PROVE  /\ \E k \in Groups : <<k, r>> \in H
                      /\ \A k \in Groups :
                           /\ <<k, r>> \in H => strs[r].seqs[i].pos <= M2[k][r]
                           /\ \A j \in TokensOf(queues2[k], ids[r]) :
                                strs[r].seqs[i].pos < queues2[k][j].piece.pos
    BY DEF StreamedFirst
  <2>1. strs[r].seqs[i].pos \in Nat
    <3>1. strs[r].seqs \in Seq(Pieces)
      BY <1>5 DEF StreamMaps, StreamRecords
    <3>2. strs[r].seqs[i] \in Pieces
      BY <3>1, LenProperties
    <3> QED
      BY <3>2 DEF Pieces
  <2>2. ASSUME NEW k \in Groups, <<k, r>> \in H
        PROVE  strs[r].seqs[i].pos <= M[k][r] /\ strs[r].seqs[i].pos <= M2[k][r]
    BY <1>4, <1>5, <2>1, <2>2 DEF Answers, StreamedFirst
  <2>3. ASSUME NEW k \in Groups, NEW j \in TokensOf(queues2[k], ids[r])
        PROVE  strs[r].seqs[i].pos < queues2[k][j].piece.pos
    <3>1. CASE j \in TokensOf(queues[k], ids[r]) /\ queues2[k][j] = queues[k][j]
      BY <3>1 DEF Answers, StreamedFirst
    <3>2. CASE k = g /\ r = t /\ queues2[k][j] = m
      BY <1>2, <1>4, <2>1, <2>2, <3>2
    <3> QED
      BY <1>6, <3>1, <3>2
  <2> QED
    BY <2>2, <2>3 DEF Answers, StreamedFirst
<1> QED
  BY <1>7, <1>8 DEF Answers, m, queues2

\* The token at the head of a queue was made after all its stream has and before all
\* that is left in the queues.
LEMMA AnswersToken ==
  ASSUME NEW ids \in IdMaps, NEW queues \in QueueMaps, NEW strs \in StreamMaps, NEW H, NEW M,
         Answers(ids, queues, strs, H, M), NEW g \in Groups, queues[g] # <<>>,
         Head(queues[g]).type = "token",
         NEW r \in Reqs, ids[r] = Head(queues[g]).id
  PROVE  Answers(ids, [queues EXCEPT ![g] = Tail(@)],
                 [strs EXCEPT ![r] = AddTextData(@, Head(queues[g]).piece)], H, M)
<1> DEFINE Q == queues[g]
           m == Head(Q)
           queues2 == [queues EXCEPT ![g] = Tail(@)]
           strs2 == [strs EXCEPT ![r] = AddTextData(@, m.piece)]
<1>1. \A k \in Groups : queues2[k] = IF k = g THEN Tail(Q) ELSE queues[k]
  BY DEF QueueMaps
<1>2. Q \in Seq(Messages)
  BY DEF QueueMaps
<1>3. /\ m.id \in Ids /\ m.piece \in Pieces /\ m = Q[1] /\ 1 \in TokensOf(Q, m.id)
  <2>1. m \in Messages
    BY <1>2, HeadTailProperties
  <2> QED
    BY <1>2, <2>1, TakenTokens DEF Messages, TokenMessages, FinishMessages
<1>4. \A q \in Reqs : strs2[q] = IF q = r THEN AddTextData(strs[q], m.piece) ELSE strs[q]
  BY DEF StreamMaps
<1>5. ids[r] = m.id /\ Q # <<>>
  OBVIOUS
<1>6. \A id \in Ids : \A i \in TokensOf(Tail(Q), id) :
        i \in Nat \ {0} /\ i + 1 \in TokensOf(Q, id) /\ Tail(Q)[i] = Q[i + 1]
  BY <1>2, <1>5, TakenTokens
<1>7. \A q \in OwnIds(ids) : q \in Reqs /\ ids[q] \in Ids
  BY DEF OwnIds, IdMaps
<1> HIDE DEF m, queues2, strs2, Q
<1>8. QueuedInOrder(ids, queues2, H, M)
  <2>1. Answers(ids, queues2, strs, H, M)
    BY <1>5, AnswersLost DEF queues2, Q
  <2> QED
    BY <2>1 DEF Answers
<1>9. ASSUME NEW q \in OwnIds(ids)
      PROVE  /\ strs[q].seqs \in Seq(Pieces)
             /\ \/ strs2[q].seqs = strs[q].seqs
                \/ q = r /\ strs2[q].seqs = Append(strs[q].seqs, m.piece)
  <2>1. strs[q] \in StreamRecords /\ q \in Reqs
    BY <1>7 DEF StreamMaps
  <2>2. strs2[q] = IF q = r THEN AddTextData(strs[q], m.piece) ELSE strs[q]
    BY <1>4, <2>1
  <2>3. AddTextData(strs[q], m.piece).seqs
          = IF m.piece.whole THEN Append(strs[q].seqs, m.piece) ELSE strs[q].seqs
    BY <2>1 DEF AddTextData, StreamRecords
  <2> QED
    BY <2>1, <2>2, <2>3 DEF StreamRecords
<1>10. ASSUME NEW q \in OwnIds(ids), NEW i \in DOMAIN strs2[q].seqs
       PROVE  \/ i \in DOMAIN strs[q].seqs /\ strs2[q].seqs[i] = strs[q].seqs[i]
              \/ /\ q = r /\ strs2[q].seqs[i] = m.piece
                 /\ i = Len(strs[q].seqs) + 1 /\ Len(strs[q].seqs) \in Nat
  <2>1. CASE strs2[q].seqs = strs[q].seqs
    BY <2>1, <1>10
  <2>2. CASE q = r /\ strs2[q].seqs = Append(strs[q].seqs, m.piece)
    <3> DEFINE s == strs[q].seqs
    <3>1. s \in Seq(Pieces)
      BY <1>9
    <3> HIDE DEF s
    <3>2. /\ Append(s, m.piece) \in Seq(Pieces) /\ Len(Append(s, m.piece)) = Len(s) + 1
          /\ \A k \in 1 .. Len(s) : Append(s, m.piece)[k] = s[k]
          /\ Append(s, m.piece)[Len(s) + 1] = m.piece
      BY <1>3, <3>1, AppendProperties
    <3>3. Len(s) \in Nat /\ DOMAIN s = 1 .. Len(s) /\ DOMAIN Append(s, m.piece) = 1 .. Len(s) + 1
      BY <3>1, <3>2, LenProperties
    <3>4. i \in 1 .. Len(s) + 1
      BY <2>2, <3>3, <1>10 DEF s
    <3>5. i \in 1 .. Len(s) \/ i = Len(s) + 1
      BY <3>3, <3>4
    <3> QED
      BY <2>2, <3>2, <3>3, <3>5 DEF s
  <2> QED
    BY <1>9, <2>1, <2>2
<1>11. r \in OwnIds(ids) => <<g, r>> \in H /\ m.piece.of = r /\ m.piece.pos <= M[g][r]
  BY <1>3, <1>5 DEF Answers, QueuedInOrder, Q
<1>12. StreamedFirst(ids, queues2, strs2, H, M)
  <2> SUFFICES ASSUME NEW q \in OwnIds(ids), NEW i \in DOMAIN strs2[q].seqs
               PROVE  /\ \E k \in Groups : <<k, q>> \in H
                      /\ \A k \in Groups :
                           /\ <<k, q>> \in H => strs2[q].seqs[i].pos <= M[k][q]
                           /\ \A j \in TokensOf(queues2[k], ids[q]) :
                                strs2[q].seqs[i].pos < queues2[k][j].piece.pos
    BY DEF StreamedFirst
  <2>1. CASE i \in DOMAIN strs[q].seqs /\ strs2[q].seqs[i] = strs[q].seqs[i]
    <3>1. ASSUME NEW k \in Groups, NEW j \in TokensOf(queues2[k], ids[q])
          PROVE  strs[q].seqs[i].pos < queues2[k][j].piece.pos
      <4>1. CASE k = g
        <5>1. j + 1 \in TokensOf(queues[k], ids[q]) /\ queues2[k][j] = queues[k][j + 1]
          BY <1>1, <1>6, <1>7, <4>1 DEF Q
        <5> QED
          BY <2>1, <5>1 DEF Answers, StreamedFirst
      <4>2. CASE k # g
        BY <1>1, <2>1, <4>2 DEF Answers, StreamedFirst
      <4> QED
        BY <4>1, <4>2
    <3> QED
      BY <2>1, <3>1 DEF Answers, StreamedFirst
  <2>2. CASE q = r /\ strs2[q].seqs[i] = m.piece
    <3>1. ASSUME NEW k \in Groups, <<k, q>> \in H PROVE k = g
      BY <1>7, <1>11, <2>2, <3>1 DEF Answers, OneScheduler
    <3>2. ASSUME NEW k \in Groups, NEW j \in TokensOf(queues2[k], ids[q])
          PROVE  m.piece.pos < queues2[k][j].piece.pos
      <4>1. CASE k = g
        <5>1. queues2[k] = Tail(Q) /\ ids[q] \in Ids
          BY <1>1, <1>7, <4>1
        <5>2. j \in Nat \ {0} /\ j + 1 \in TokensOf(Q, ids[q]) /\ queues2[k][j] = Q[j + 1]
          BY <1>6, <5>1
        <5>3. 1 < j + 1
          BY <5>2
        <5>4. 1 \in TokensOf(Q, ids[q]) /\ m = Q[1]
          BY <1>3, <1>5, <2>2
        <5> QED
          BY <4>1, <5>2, <5>3, <5>4 DEF Answers, QueuedInOrder, Q
      <4>2. CASE k # g
        BY <1>1, <3>1, <4>2 DEF Answers, QueuedInOrder
      <4> QED
        BY <4>1, <4>2
    <3> QED
      BY <1>11, <2>2, <3>1, <3>2
  <2> QED
    BY <1>10, <2>1, <2>2
<1>13. StreamedInOrder(ids, strs2)
  <2> SUFFICES ASSUME NEW q \in OwnIds(ids), NEW i \in DOMAIN strs2[q].seqs
               PROVE  /\ strs2[q].seqs[i].of = q
                      /\ \A j \in DOMAIN strs2[q].seqs :
                           i < j => strs2[q].seqs[i].pos < strs2[q].seqs[j].pos
    BY DEF StreamedInOrder
  <2>1. strs2[q].seqs[i].of = q
    BY <1>10, <1>11 DEF Answers, StreamedInOrder
  <2>2. ASSUME NEW j \in DOMAIN strs2[q].seqs, i < j
        PROVE  strs2[q].seqs[i].pos < strs2[q].seqs[j].pos
    <3>1. CASE j \in DOMAIN strs[q].seqs /\ strs2[q].seqs[j] = strs[q].seqs[j]
      <4>1. j \in 1 .. Len(strs[q].seqs)
        BY <1>9, <3>1, LenProperties
      <4>2. i # Len(strs[q].seqs) + 1
        BY <1>9, <2>2, <4>1, LenProperties
      <4>3. i \in DOMAIN strs[q].seqs /\ strs2[q].seqs[i] = strs[q].seqs[i]
        BY <1>10, <4>2
      <4> QED
        BY <2>2, <3>1, <4>3 DEF Answers, StreamedInOrder
    <3>2. CASE /\ q = r /\ strs2[q].seqs[j] = m.piece
               /\ j = Len(strs[q].seqs) + 1 /\ Len(strs[q].seqs) \in Nat
      <4>1. i # j
        BY <2>2, <3>2, <1>10, <1>9, LenProperties
      <4>2. i \in DOMAIN strs[q].seqs /\ strs2[q].seqs[i] = strs[q].seqs[i]
        BY <1>10, <3>2, <4>1
      <4>3. 1 \in TokensOf(queues[g], ids[q]) /\ m = queues[g][1]
        BY <1>3, <1>5, <3>2 DEF Q
      <4> QED
        BY <3>2, <4>2, <4>3 DEF Answers, StreamedFirst
    <3> QED
      BY <1>10, <3>1, <3>2
  <2> QED
    BY <2>1, <2>2
<1> QED
  BY <1>8, <1>12, <1>13 DEF Answers, queues2, strs2, m, Q

\* A stream that is stopped keeps its pieces.
LEMMA StopKeeps ==
  ASSUME RouterIInv, NEW r, NEW reason, SendStopSignal(r, reason)
  PROVE  \A q \in Reqs : streams'[q].seqs = streams[q].seqs
<1>1. \A q \in Reqs : streams[q] \in StreamRecords
  BY DEF RouterIInv, RouterTypes
<1>2. streams \in [Reqs -> StreamRecords]
  BY DEF RouterIInv, RouterTypes
<1>3. \A q \in Reqs : streams'[q] = IF q = r THEN [streams[q] EXCEPT !.stop = TRUE,
                                       !.finish = IF reason = "none" THEN @ ELSE reason]
                                    ELSE streams[q]
  BY <1>1, <1>2 DEF SendStopSignal, StreamRecords
<1> QED
  BY <1>1, <1>3 DEF StreamRecords

\* Every step of the router itself keeps the answers in order.
LEMMA RouterNextAnswers ==
  ASSUME RouterIInv, RouterNext, NEW H, NEW M, Answers(idOf, sendQueue, streams, H, M)
  PROVE  Answers(idOf', sendQueue', streams', H, M)
<1>1. idOf \in IdMaps /\ sendQueue \in QueueMaps /\ streams \in StreamMaps
  BY DEF RouterIInv, RouterTypes, IdMaps, QueueMaps, StreamMaps
<1>2. ASSUME NEW g \in Groups, DropUnknown(g) \/ DropExpired(g) \/ ProcessFinish(g)
      PROVE  Answers(idOf', sendQueue', streams', H, M)
  <2>1. /\ idOf' = idOf /\ sendQueue[g] # <<>> /\ sendQueue' = [sendQueue EXCEPT ![g] = Tail(@)]
    BY <1>2 DEF DropUnknown, DropExpired, ProcessFinish, Receiving, Taken
  <2>2. \A q \in Reqs : streams'[q].seqs = streams[q].seqs
    BY <1>2, StopKeeps DEF DropUnknown, DropExpired, ProcessFinish
  <2> QED
    BY <1>1, <2>1, <2>2, AnswersLost
<1>3. ASSUME NEW g \in Groups, ProcessToken(g)
      PROVE  Answers(idOf', sendQueue', streams', H, M)
  <2>1. /\ idOf' = idOf /\ sendQueue[g] # <<>> /\ Head(sendQueue[g]).type = "token"
        /\ Context(g) # NoReq
        /\ sendQueue' = [sendQueue EXCEPT ![g] = Tail(@)]
        /\ streams' = [streams EXCEPT ![Context(g)] = AddTextData(@, Head(sendQueue[g]).piece)]
    BY <1>3 DEF ProcessToken, Receiving, Taken, Received
  <2>2. Head(sendQueue[g]) \in Messages
    BY <1>1, <2>1, HeadTailProperties DEF QueueMaps
  <2>3. Context(g) \in Reqs /\ idOf[Context(g)] = Head(sendQueue[g]).id
    BY <2>1, <2>2 DEF RouterIInv, RouterTypes, ActiveOpen, Context, Received, Messages,
       TokenMessages, FinishMessages
  <2> QED
    BY <1>1, <2>1, <2>3, AnswersToken
<1>4. ASSUME NEW id \in Ids, Cleanup(id)
      PROVE  Answers(idOf', sendQueue', streams', H, M)
  <2>1. \A q \in Reqs : streams'[q].seqs = streams[q].seqs
    BY <1>4, StopKeeps DEF Cleanup
  <2>2. OneScheduler(H)
    BY DEF Answers
  <2> QED
    BY <1>4, <2>1, <2>2, AnswersReceived DEF Cleanup
<1> QED
  BY <1>2, <1>3, <1>4 DEF RouterNext
=============================================================================
