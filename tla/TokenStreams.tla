---------------------------- MODULE TokenStreams ----------------------------
(***************************************************************************)
(* What the inference engine of chitu promises the HTTP side: every        *)
(* request has one output stream, its tokens arrive in order, none missing *)
(* and none twice, and the stream is closed by the token that ends the     *)
(* answer: an end-of-sequence token or the max_tokens-th token, whichever  *)
(* comes first.  Several streams may advance together, one token each.     *)
(* Engine is the detailed specification that implements this one.          *)
(***************************************************************************)
EXTENDS Naturals, Sequences

CONSTANT Reqs       \* request identifiers

VARIABLE stream     \* [Reqs -> [out: tokens delivered, closed: BOOLEAN, limit: max_new_tokens]]

StreamsInit == stream \in [Reqs -> [out : {<<>>}, closed : {FALSE}, limit : Nat \ {0}]]

\* Every request of S gets its next token; for those of E it is an end of
\* sequence.
Deliver(S, E) ==
  /\ \A r \in S : ~stream[r].closed /\ Len(stream[r].out) < stream[r].limit
  /\ stream' = [r \in Reqs |->
       IF r \notin S THEN stream[r]
       ELSE LET n == Len(stream[r].out) + 1
            IN  [out    |-> Append(stream[r].out, [pos |-> n, eos |-> r \in E]),
                 closed |-> r \in E \/ n = stream[r].limit,
                 limit  |-> stream[r].limit]]

StreamsNext == \E S \in SUBSET Reqs : \E E \in SUBSET S : Deliver(S, E)

StreamsSpec == StreamsInit /\ [][StreamsNext]_stream
=============================================================================
