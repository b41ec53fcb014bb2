---------------------------- MODULE MCPDServing ----------------------------
(***************************************************************************)
(* A load for PDServing: requests with ids of their own, one prefill and   *)
(* one decode scheduler.                                                   *)
(***************************************************************************)
EXTENDS PDServing, TLC

CONSTANTS r1, r2, x, y, p1, d1

OwnIds == {(r1 :> x) @@ (r2 :> y)}
Prompts == (r1 :> 3) @@ (r2 :> 1)
Answers == (r1 :> 2) @@ (r2 :> 1)
SomeSizes == {[slots |-> 2, prefillPages |-> 3, decodePages |-> 5, budget |-> 0],
              [slots |-> 1, prefillPages |-> 2, decodePages |-> 4, budget |-> 1]}
OnePrefill == <<p1>>
OneDecode == <<d1>>
=============================================================================
