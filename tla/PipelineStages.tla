--------------------------- MODULE PipelineStages ---------------------------
(***************************************************************************)
(* The ranks of a pipeline other than rank 0 (PipeDispatcher and           *)
(* Executor.step, chitu/executor.py).  A stage gets each batch twice: its  *)
(* description over a socket, its hidden states over the GPU network, each *)
(* in order.  It keeps copies of the tasks and a KV cache of its own, and  *)
(* hands both on to the next stage; the last one samples and sends the     *)
(* tokens to rank 0.                                                       *)
(*                                                                         *)
(* infer.dp_size, tp_size and mtp_size are 1, and there is no overlap,     *)
(* which infer.schedule_overlap "auto" excludes.                           *)
(***************************************************************************)
EXTENDS Lists

CONSTANTS
  Reqs,
  NoReq,            \* no request
  LastStage,        \* infer.pp_size - 1
  StopWithEos       \* SUBSET Reqs: the requests with stop_with_eos

ASSUME StagesAssumption ==
  /\ NoReq \notin Reqs /\ IsFiniteSet(Reqs)
  /\ LastStage \in Nat \ {0}
  /\ StopWithEos \subseteq Reqs

VARIABLES
  copy,        \* the tasks in the TaskPool of each rank but rank 0
  kv,          \* [Nodes -> [Reqs -> Nat]]: tokens in the cache of each rank
  meta,        \* descriptions of batches on their way to a rank
  hidden,      \* hidden states on their way to a stage
  toMain       \* results on their way to rank 0

stageVars == <<copy, kv, meta, hidden, toMain>>

Main == 0
Nodes == 0 .. LastStage
Others == Nodes \ {Main}

\* A token is the one that comes after the first "at" tokens of its request, 0 when it
\* was sampled from something else than these.
NoToken == [of |-> NoReq, at |-> 0, eos |-> FALSE]
NoCopy == [type |-> "none", len |-> 0, consumed |-> 0]

StagesInit ==
  /\ copy = [n \in Others |-> [r \in Reqs |-> NoCopy]]
  /\ kv = [n \in Nodes |-> [r \in Reqs |-> 0]]
  /\ meta = [n \in Others |-> <<>>]
  /\ hidden = [n \in Others |-> <<>>]
  /\ toMain = <<>>

Listed(items) == {items[i].r : i \in DOMAIN items}
ItemOf(items, r) == CHOOSE i \in ToSet(items) : i.r = r

-----------------------------------------------------------------------------
(* Tasks and batches, at rank 0 and in the copies.  An item of a batch is a *)
(* request and the tokens it feeds: "take" of them, which come after the    *)
(* first "from".                                                            *)

PrefillItem(r, t, take) == [r |-> r, len |-> t.len, from |-> t.consumed, take |-> take]

\* A token of another request comes after nothing.
DecodeItem(r, tok) == [r |-> r, from |-> IF tok.of = r THEN tok.at ELSE -1, take |-> 1]

HasOutput(t, take) == t.type = "Decode" \/ t.consumed + take >= t.len

ConsumeReqTokens(t, take) ==
  [t EXCEPT !.consumed = @ + take, !.type = IF t.consumed + take >= t.len THEN "Decode" ELSE @]

Grown(n, items) ==
  [r \in Reqs |-> IF r \in Listed(items) THEN kv[n][r] + ItemOf(items, r).take ELSE kv[n][r]]

\* What rank n computes from tokens, and from the rows the stage before computed: a row
\* is good when it belongs to its request and to where the cache of the rank ends.
Embedded(n, items) ==
  Mapped(items, LAMBDA i : [r |-> i.r, end |-> kv[n][i.r] + i.take, ok |-> i.from = kv[n][i.r]])

Computed(n, items, rows) ==
  [j \in DOMAIN items |->
     LET end == kv[n][items[j].r] + items[j].take
     IN  [r |-> items[j].r, end |-> end,
          ok |-> j \in DOMAIN rows /\ rows[j] = [r |-> items[j].r, end |-> end, ok |-> TRUE]]]

-----------------------------------------------------------------------------
(* One step of a rank *)

Received(n, kind) == meta[n] # <<>> /\ Head(meta[n]).kind = kind
Items(n) == Head(meta[n]).items

\* recv_payload waits for the hidden states.
PayloadReady(n) == hidden[n] # <<>>

RowsAt(n) == Computed(n, Items(n), Head(hidden[n]))

\* dispatch_metadata hands the description on before the model runs.
Forward(n, items) ==
  meta' = [m \in Others |-> CASE m = n -> Tail(meta[n])
                              [] m = n + 1 ->
                                   Append(meta[m], [kind |-> Head(meta[n]).kind, items |-> items])
                              [] OTHER -> meta[m]]

\* send_payload of a stage that is not the last.
SendHidden(n, rows) ==
  hidden' = [m \in DOMAIN hidden |-> CASE m = n -> Tail(hidden[m])
                                       [] m = n + 1 -> Append(hidden[m], rows)
                                       [] OTHER -> hidden[m]]

\* Some of the answers that may end so end.
Sampled(rows) ==
  {[j \in DOMAIN rows |-> [of |-> rows[j].r, at |-> IF rows[j].ok THEN rows[j].end ELSE 0,
                           eos |-> rows[j].r \in E]]
   : E \in SUBSET ({rows[j].r : j \in DOMAIN rows} \cap StopWithEos)}

\* send_payload; the last stage sends the tokens of the outputs, if there are any.
SendPayload(n, rows, outputs) ==
  /\ SendHidden(n, rows)
  /\ IF n < LastStage \/ outputs = {} THEN UNCHANGED toMain
     ELSE \E tokens \in Sampled(Filtered(rows, {row \in ToSet(rows) : row.r \in outputs})) :
            toMain' = Append(toMain, tokens)

\* deserialize_prefill_tasks: a task the rank knows takes over the progress.
PrefillCopy(n, i) ==
  [(IF copy[n][i.r] = NoCopy THEN [type |-> "Prefill", len |-> i.len, consumed |-> 0]
    ELSE copy[n][i.r]) EXCEPT !.consumed = i.from]

StagePrefill(n) ==
  LET items == Items(n)
      known(r) == PrefillCopy(n, ItemOf(items, r))
      take(r) == ItemOf(items, r).take
  IN  /\ Received(n, "Prefill") /\ PayloadReady(n)
      /\ copy' = [copy EXCEPT ![n] = [r \in Reqs |->
                    IF r \in Listed(items) THEN ConsumeReqTokens(known(r), take(r)) ELSE @[r]]]
      /\ kv' = [kv EXCEPT ![n] = Grown(n, items)]
      /\ Forward(n, Mapped(items, LAMBDA i : PrefillItem(i.r, known(i.r), i.take)))
      /\ SendPayload(n, RowsAt(n), {r \in Listed(items) : HasOutput(known(r), take(r))})

StageDecode(n) ==
  /\ Received(n, "Decode") /\ PayloadReady(n)
  /\ kv' = [kv EXCEPT ![n] = Grown(n, Items(n))]
  /\ Forward(n, Items(n))
  /\ SendPayload(n, RowsAt(n), {r \in Listed(Items(n)) : HasOutput(copy[n][r], 1)})
  /\ UNCHANGED copy

StageEndTask(n) ==
  LET gone == Listed(Items(n))
  IN  /\ Received(n, "EndTask")
      /\ copy' = [copy EXCEPT ![n] = [r \in Reqs |-> IF r \in gone THEN NoCopy ELSE @[r]]]
      /\ kv' = [kv EXCEPT ![n] = [r \in Reqs |-> IF r \in gone THEN 0 ELSE @[r]]]
      /\ Forward(n, Items(n))
      /\ UNCHANGED <<hidden, toMain>>

Stage(n) == StagePrefill(n) \/ StageDecode(n) \/ StageEndTask(n)

-----------------------------------------------------------------------------
(* What the ranks have to agree on *)

\* The tokens of r the cache of n will hold when n has taken the messages on their way.
KvAhead(n, r) ==
  LET ahead[j \in 0 .. Len(meta[n])] ==
        IF j = 0 THEN kv[n][r]
        ELSE IF r \notin Listed(meta[n][j].items) THEN ahead[j - 1]
        ELSE IF meta[n][j].kind = "EndTask" THEN 0
        ELSE ahead[j - 1] + ItemOf(meta[n][j].items, r).take
  IN  ahead[Len(meta[n])]

\* A stage caches what the stage before caches, once it has taken what is on its way, and
\* finds every task of a batch as the batch is: a stage that does not know a task of a
\* decode batch raises, and one of the other type lets the batch run as the other kind.
StagesInStep ==
  \A n \in Others :
    /\ \A r \in Reqs : KvAhead(n, r) = kv[n - 1][r]
    /\ Received(n, "Decode") => \A r \in Listed(Items(n)) : copy[n][r].type = "Decode"
    /\ Received(n, "Prefill") =>
         \A r \in Listed(Items(n)) :
           copy[n][r].type = IF ItemOf(Items(n), r).from = 0 THEN "none" ELSE "Prefill"
=============================================================================
