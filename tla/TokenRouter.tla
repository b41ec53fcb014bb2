---------------------------- MODULE TokenRouter ----------------------------
(***************************************************************************)
(* The way back of an answer when the HTTP server and the model run in     *)
(* different processes: a DPTokenSender (chitu/dp_token_sender.py) queues  *)
(* one message per token, its thread pushes them over a socket, and the    *)
(* TokenRouter (chitu/dp_token_router.py) hands their text to the stream   *)
(* registered under the message's request id.                              *)
(*                                                                         *)
(* DPServing and PDServing extend this module with the processes that send *)
(* the messages.  The sender's queue and its socket are one FIFO queue per *)
(* group; what the router does by the clock may happen at any time.        *)
(***************************************************************************)
EXTENDS Integers, SequencesExt

CONSTANTS
  Reqs,
  Ids,         \* request ids
  IdChoices,   \* the assignments of ids to requests to consider: a client may send
               \* a conversation_id of its choice, and reuse it
  Groups,      \* DP groups: a sender and a receiving socket each
  QueueSize,   \* messages a sender's queue holds, 10000 in the code
  NoReq

ASSUME IdsAssumption == IdChoices \subseteq [Reqs -> Ids]
ASSUME QueueSizeAssumption == QueueSize \in Nat \ {0}
ASSUME NoReqAssumption == NoReq \notin Reqs

VARIABLES
  idOf,            \* the conversation_id of each request
  registered,      \* the requests the HTTP handler has registered
  activeRequests,  \* TokenRouter.active_requests: [Ids -> Reqs], NoReq for no entry
  streams,         \* the DPAsyncDataStream and finish_reason of each request
  sendQueue        \* [Groups -> Seq(message)]

routerVars == <<idOf, registered, activeRequests, streams, sendQueue>>

\* A token by the request whose logits it was taken from (NoReq for none), its position
\* in the answer, and whether its text is whole: one that decodes to a part of a
\* character only is not.
Pieces == [of : Reqs \cup {NoReq}, pos : Nat \ {0}, whole : BOOLEAN]

TokenMessage(id, piece) == [type |-> "token", id |-> id, piece |-> piece]
FinishMessage(id, reason) == [type |-> "finish", id |-> id, reason |-> reason]

NewStream == [seqs |-> <<>>, tokens |-> 0, stop |-> FALSE, finish |-> "none"]

RouterInit ==
  /\ idOf \in IdChoices
  /\ registered = {}
  /\ activeRequests = [id \in Ids |-> NoReq]
  /\ streams = [r \in Reqs |-> NewStream]
  /\ sendQueue = [g \in Groups |-> <<>>]

-----------------------------------------------------------------------------
(* DPTokenSender *)

\* _send_data: a message that finds the queue full is dropped.
SendData(q, m) == IF Len(q) < QueueSize THEN Append(q, m) ELSE q

-----------------------------------------------------------------------------
(* TokenRouter *)

\* A stream of the same id that is still being written is no longer found.
RegisterRequest(r) ==
  /\ r \notin registered
  /\ registered' = registered \cup {r}
  /\ activeRequests' = [activeRequests EXCEPT ![idOf[r]] = r]
  /\ UNCHANGED <<idOf, streams, sendQueue>>

Receiving(g) == sendQueue[g] # <<>>
Received(g) == Head(sendQueue[g])
Context(g) == activeRequests[Received(g).id]
Taken(g) == sendQueue' = [sendQueue EXCEPT ![g] = Tail(@)]

\* The token counts, its text is skipped when it is not whole.
AddTextData(s, piece) ==
  [s EXCEPT !.tokens = @ + 1, !.seqs = IF piece.whole THEN Append(@, piece) ELSE @]

\* Messages for requests the router has removed, or never had, are dropped.
DropUnknown(g) ==
  /\ Receiving(g) /\ Context(g) = NoReq
  /\ Taken(g)
  /\ UNCHANGED <<idOf, registered, activeRequests, streams>>

\* So are messages of any type that are more than 30 seconds old.
DropExpired(g) ==
  /\ Receiving(g) /\ Context(g) # NoReq
  /\ Taken(g)
  /\ UNCHANGED <<idOf, registered, activeRequests, streams>>

ProcessToken(g) ==
  /\ Receiving(g) /\ Context(g) # NoReq
  /\ Received(g).type = "token"
  /\ streams' = [streams EXCEPT ![Context(g)] = AddTextData(@, Received(g).piece)]
  /\ Taken(g)
  /\ UNCHANGED <<idOf, registered, activeRequests>>

SendStopSignal(r, reason) ==
  streams' = [streams EXCEPT ![r].stop = TRUE,
                             ![r].finish = IF reason = "none" THEN @ ELSE reason]

ProcessFinish(g) ==
  /\ Receiving(g) /\ Context(g) # NoReq
  /\ Received(g).type = "finish"
  /\ SendStopSignal(Context(g), Received(g).reason)
  /\ activeRequests' = [activeRequests EXCEPT ![Received(g).id] = NoReq]
  /\ Taken(g)
  /\ UNCHANGED <<idOf, registered>>

\* Two slips: the stream is forgotten but not stopped, or stopped and kept.
CleanupSilently(id) ==
  /\ activeRequests[id] # NoReq
  /\ activeRequests' = [activeRequests EXCEPT ![id] = NoReq]
  /\ UNCHANGED <<idOf, registered, streams, sendQueue>>

CleanupKeeping(id) ==
  /\ activeRequests[id] # NoReq
  /\ SendStopSignal(activeRequests[id], "none")
  /\ UNCHANGED <<idOf, registered, activeRequests, sendQueue>>

\* _cleanup_task: a request registered five minutes ago is stopped, whatever state
\* its answer is in.
Cleanup(id) ==
  /\ activeRequests[id] # NoReq
  /\ SendStopSignal(activeRequests[id], "none")
  /\ activeRequests' = [activeRequests EXCEPT ![id] = NoReq]
  /\ UNCHANGED <<idOf, registered, sendQueue>>

RouterNext ==
  \/ \E g \in Groups : DropUnknown(g) \/ DropExpired(g) \/ ProcessToken(g) \/ ProcessFinish(g)
  \/ \E id \in Ids : Cleanup(id)

-----------------------------------------------------------------------------
(* Properties *)

\* Requests whose id no other request has had.
Unshared == {r \in Reqs : \A s \in Reqs \ {r} : idOf[s] # idOf[r]}

RouterTypeOK ==
  /\ idOf \in IdChoices
  /\ registered \subseteq Reqs
  /\ activeRequests \in [Ids -> registered \cup {NoReq}]
  /\ \A r \in Reqs :
       /\ streams[r].seqs \in Seq(Pieces)
       /\ streams[r].tokens \in Nat /\ streams[r].stop \in BOOLEAN
       /\ streams[r].finish \in {"none", "stop", "length"}
  /\ \A g \in Groups : Len(sendQueue[g]) <= QueueSize

\* Whatever is dropped at a full queue, by its age or after a timeout, a client whose
\* request id is its own sees a subsequence of its own answer: no piece of another
\* request, none twice, none before an earlier one.
OwnAnswerInOrder ==
  \A r \in Unshared :
    /\ \A i \in DOMAIN streams[r].seqs : streams[r].seqs[i].of = r
    /\ \A i, j \in DOMAIN streams[r].seqs :
         i < j => streams[r].seqs[i].pos < streams[r].seqs[j].pos

\* The client's generator ends at the stop signal and has then sent the usage counts:
\* late tokens, a late finish or a second timeout never reach a stopped stream.
StoppedForGood == [][\A r \in Reqs : streams[r].stop => streams'[r] = streams[r]]_routerVars
=============================================================================
