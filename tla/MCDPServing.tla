----------------------------- MODULE MCDPServing -----------------------------
(***************************************************************************)
(* A load for DPServing: two requests with ids of their own, or two turns  *)
(* of a conversation under one id, answered in one or two tokens, one of   *)
(* which is a part of a character.                                         *)
(***************************************************************************)
EXTENDS DPServing, TLC

CONSTANTS a, b, x, y, g, h

OwnAndSharedIds == {(a :> x) @@ (b :> y), (a :> x) @@ (b :> x)}
Answers == (a :> 2) @@ (b :> 1)
Parts == {<<a, 1>>}
=============================================================================
