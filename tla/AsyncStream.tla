---------------------------- MODULE AsyncStream ----------------------------
(***************************************************************************)
(* One answer stream between two threads (chitu/async_response.py).  The   *)
(* worker thread adds tokens to the AsyncDataStream of a request and, after *)
(* the whole batch has got its tokens, asks the server's event loop to set *)
(* data_event (chitu/hooks.py, chitu/task.py).  On the loop runs the       *)
(* generator of the HTTP response: it takes pieces of text, labels each as *)
(* reasoning or content, and sleeps on data_event when there are none.     *)
(*                                                                         *)
(* A token is whole text, one of the two reasoning marks, or a part of a   *)
(* character that two tokens share; a piece is what one add_data appends.  *)
(* Decoding the whole answer each time (force_full_seq_decode) or only the *)
(* tokens since the last piece yields the same pieces.                     *)
(***************************************************************************)
EXTENDS Naturals, Sequences

CONSTANT MaxTokens     \* bound: tokens of the answer

ASSUME MaxTokensAssumption == MaxTokens \in Nat

VARIABLES
  seqs,          \* seqs: for each piece, the field of the response it belongs in
  tokensLen,     \* tokens_len
  cache,         \* cache_tokens: how far they are from a piece
  isReasoning,   \* is_reasoning
  reasoningLen,  \* reasoning_len
  stopSignal,    \* stop_signal
  worker,        \* where the worker thread is in delivering a token
  incoming,      \* the token add_data is working on
  callbacks,     \* calls of data_event.set the loop has still to run
  dataEvent,     \* data_event is set
  consumer,      \* where the generator is
  index,         \* index: pieces taken
  labels         \* the field each taken piece was sent in

stream == <<seqs, tokensLen, cache, isReasoning, reasoningLen, stopSignal>>
streamVars == <<seqs, tokensLen, cache, isReasoning, reasoningLen, stopSignal, worker,
                incoming, callbacks, dataEvent, consumer, index, labels>>

Kinds == {"text", "think", "endthink", "open", "close"}

Fields == {"reasoning_content", "content"}

Field(inside) == IF inside THEN "reasoning_content" ELSE "content"

StreamInit ==
  /\ seqs = <<>> /\ tokensLen = 0 /\ cache = "empty"
  /\ isReasoning = FALSE /\ reasoningLen = 0 /\ stopSignal = FALSE
  /\ worker = "idle" /\ incoming = [kind |-> "text", field |-> "content"]
  /\ callbacks = 0 /\ dataEvent = FALSE
  /\ consumer = "check" /\ index = 0 /\ labels = <<>>

\* The worker is inside add_data, which holds the lock.
Locked == worker \in {"leaving", "decoding"}

-----------------------------------------------------------------------------
(* Worker thread *)

\* A slip: the piece of the closing mark is not counted.
ReasoningHandleShort(kind) ==
  /\ worker = "idle" /\ tokensLen < MaxTokens
  /\ LET inside == isReasoning \/ (tokensLen = 0 /\ kind = "think")
         leaves == inside /\ kind = "endthink"
     IN  /\ incoming' = [kind |-> kind, field |-> Field(inside)]
         /\ isReasoning' = inside
         /\ reasoningLen' = IF leaves THEN Len(seqs) ELSE reasoningLen
         /\ worker' = IF leaves THEN "leaving" ELSE "decoding"
  /\ UNCHANGED <<seqs, tokensLen, cache, stopSignal, callbacks, dataEvent, consumer,
                 index, labels>>

\* add_data takes the lock and looks for the marks of the reasoning.
ReasoningHandle(kind) ==
  /\ worker = "idle" /\ tokensLen < MaxTokens
  /\ LET inside == isReasoning \/ (tokensLen = 0 /\ kind = "think")
         leaves == inside /\ kind = "endthink"
     IN  /\ incoming' = [kind |-> kind, field |-> Field(inside)]
         /\ isReasoning' = inside
         /\ reasoningLen' = IF leaves THEN Len(seqs) + 1 ELSE reasoningLen
         /\ worker' = IF leaves THEN "leaving" ELSE "decoding"
  /\ UNCHANGED <<seqs, tokensLen, cache, stopSignal, callbacks, dataEvent, consumer,
                 index, labels>>

\* The generator reads is_reasoning and reasoning_len without the lock, so the
\* second assignment is a step of its own.
LeaveReasoning ==
  /\ worker = "leaving"
  /\ isReasoning' = FALSE
  /\ worker' = "decoding"
  /\ UNCHANGED <<seqs, tokensLen, cache, reasoningLen, stopSignal, incoming, callbacks,
                 dataEvent, consumer, index, labels>>

\* What the cached tokens decode to with the new one: a piece, a character that
\* is not whole yet, or text that no later token makes valid again.
Decoded(kind) ==
  CASE cache = "empty" /\ kind \in {"text", "think", "endthink"} -> "empty"
    [] cache = "empty" /\ kind = "open" -> "open"
    [] cache = "open" /\ kind = "close" -> "empty"
    [] OTHER -> "garbled"

Decode ==
  /\ worker = "decoding"
  /\ tokensLen' = tokensLen + 1
  /\ cache' = Decoded(incoming.kind)
  /\ seqs' = IF cache' = "empty" THEN Append(seqs, incoming.field) ELSE seqs
  /\ worker' = "added"
  /\ UNCHANGED <<isReasoning, reasoningLen, stopSignal, incoming, callbacks, dataEvent,
                 consumer, index, labels>>

\* A slip: nobody is told of the end.
SendStopSignalQuietly ==
  /\ worker = "added"
  /\ stopSignal' = TRUE
  /\ worker' = "finished"
  /\ UNCHANGED <<seqs, tokensLen, cache, isReasoning, reasoningLen, incoming, callbacks,
                 dataEvent, consumer, index, labels>>

\* UserRequest.add_data: the token was the last one.
SendStopSignal ==
  /\ worker = "added"
  /\ stopSignal' = TRUE
  /\ worker' = "stopped"
  /\ UNCHANGED <<seqs, tokensLen, cache, isReasoning, reasoningLen, incoming, callbacks,
                 dataEvent, consumer, index, labels>>

NotifyStop ==
  /\ worker = "stopped"
  /\ callbacks' = callbacks + 1
  /\ worker' = "emitted"
  /\ UNCHANGED <<stream, incoming, dataEvent, consumer, index, labels>>

\* A slip: the worker sets the event itself, from its own thread.
NotifyBatchDirectly ==
  /\ \/ worker = "added" /\ worker' = "idle"
     \/ worker = "emitted" /\ worker' = "finished"
  /\ dataEvent' = TRUE
  /\ consumer' = IF consumer = "asleep" THEN "check" ELSE consumer
  /\ UNCHANGED <<stream, incoming, callbacks, index, labels>>

\* LocalTokenSink.emit_batch, once every request of the batch has its token.
NotifyBatch ==
  /\ \/ worker = "added" /\ worker' = "idle"
     \/ worker = "emitted" /\ worker' = "finished"
  /\ callbacks' = callbacks + 1
  /\ UNCHANGED <<stream, incoming, dataEvent, consumer, index, labels>>

-----------------------------------------------------------------------------
(* Event loop of the server *)

\* The loop runs a callback when the generator has given way.
RunCallback ==
  /\ callbacks > 0 /\ consumer \in {"check", "asleep", "done"}
  /\ callbacks' = callbacks - 1
  /\ dataEvent' = TRUE
  /\ consumer' = IF consumer = "asleep" THEN "check" ELSE consumer
  /\ UNCHANGED <<stream, worker, incoming, index, labels>>

\* A slip: the stop signal is looked at before the pieces.
CheckStopFirst ==
  /\ consumer = "check" /\ ~Locked
  /\ \/ stopSignal /\ consumer' = "done" /\ UNCHANGED index
     \/ ~stopSignal /\ index < Len(seqs) /\ consumer' = "readFlag" /\ index' = index + 1
     \/ ~stopSignal /\ index >= Len(seqs) /\ consumer' = "clear" /\ UNCHANGED index
  /\ UNCHANGED <<stream, worker, incoming, callbacks, dataEvent, labels>>

\* __anext__ under the lock: the end, a piece, or nothing yet.
Check ==
  /\ consumer = "check" /\ ~Locked
  /\ \/ stopSignal /\ index >= Len(seqs) /\ consumer' = "done" /\ UNCHANGED index
     \/ index < Len(seqs) /\ consumer' = "readFlag" /\ index' = index + 1
     \/ ~stopSignal /\ index >= Len(seqs) /\ consumer' = "clear" /\ UNCHANGED index
  /\ UNCHANGED <<stream, worker, incoming, callbacks, dataEvent, labels>>

\* is_reasoning_content, without the lock: the flag first, then the length.
ReadFlag ==
  /\ consumer = "readFlag"
  /\ \/ isReasoning /\ labels' = Append(labels, Field(TRUE)) /\ consumer' = "check"
     \/ ~isReasoning /\ consumer' = "readLen" /\ UNCHANGED labels
  /\ UNCHANGED <<stream, worker, incoming, callbacks, dataEvent, index>>

ReadLen ==
  /\ consumer = "readLen"
  /\ labels' = Append(labels, Field(index <= reasoningLen))
  /\ consumer' = "check"
  /\ UNCHANGED <<stream, worker, incoming, callbacks, dataEvent, index>>

Clear ==
  /\ consumer = "clear"
  /\ dataEvent' = FALSE
  /\ consumer' = "wait"
  /\ UNCHANGED <<stream, worker, incoming, callbacks, index, labels>>

Wait ==
  /\ consumer = "wait"
  /\ consumer' = IF dataEvent THEN "check" ELSE "asleep"
  /\ UNCHANGED <<stream, worker, incoming, callbacks, dataEvent, index, labels>>

-----------------------------------------------------------------------------
\* Once a token is sampled its delivery goes on to the end.
Deliver == LeaveReasoning \/ Decode \/ SendStopSignal \/ NotifyStop \/ NotifyBatch

Consume == Check \/ ReadFlag \/ ReadLen \/ Clear \/ Wait

StreamNext == \/ \E kind \in Kinds : ReasoningHandle(kind)
              \/ Deliver \/ RunCallback \/ Consume

StreamSpec == StreamInit /\ [][StreamNext]_streamVars

\* Neither thread stops while it has something to do.
FairSpec ==
  StreamSpec /\ WF_streamVars(Deliver) /\ WF_streamVars(RunCallback) /\ WF_streamVars(Consume)
-----------------------------------------------------------------------------
StreamTypeOK ==
  /\ seqs \in Seq(Fields) /\ tokensLen \in Nat
  /\ cache \in {"empty", "open", "garbled"}
  /\ isReasoning \in BOOLEAN /\ reasoningLen \in Nat /\ stopSignal \in BOOLEAN
  /\ worker \in {"idle", "leaving", "decoding", "added", "stopped", "emitted", "finished"}
  /\ incoming \in [kind : Kinds, field : Fields]
  /\ callbacks \in Nat /\ dataEvent \in BOOLEAN
  /\ consumer \in {"check", "readFlag", "readLen", "clear", "wait", "asleep", "done"}
  /\ index \in Nat /\ labels \in Seq(Fields)

\* The generator never sleeps through the news: when there is a piece it has not
\* taken, or the end, a wake-up is queued on the loop or the worker is about to
\* queue one.
NoLostWakeup ==
  consumer \in {"clear", "wait", "asleep"} /\ (stopSignal \/ index < Len(seqs)) =>
    callbacks > 0 \/ worker \in {"added", "stopped", "emitted"}

\* A piece is sent as reasoning if and only if its tokens belong to the reasoning,
\* the closing mark included, however the worker's two assignments and the
\* generator's two reads interleave.
LabelsRight == \A i \in DOMAIN labels : i \in DOMAIN seqs /\ labels[i] = seqs[i]

\* The generator ends with every piece taken and labelled, and no piece comes after.
NothingLeftBehind ==
  consumer = "done" => /\ index = Len(seqs) /\ Len(labels) = Len(seqs)
                       /\ worker \in {"stopped", "emitted", "finished"}

\* A stream that was closed ends the response.
ResponseEnds == stopSignal ~> consumer = "done"
=============================================================================
