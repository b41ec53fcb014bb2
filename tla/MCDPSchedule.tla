---------------------------- MODULE MCDPSchedule ----------------------------
(***************************************************************************)
(* Three requests on two ranks.  With one slot per rank the third waits;   *)
(* with two slots a rank has two.  Of a chunk of three tokens rank 0 gets  *)
(* two and the other rank one, so that b takes two or three steps.         *)
(***************************************************************************)
EXTENDS DPSchedule, TLC

CONSTANTS a, b, c

Prompts == (a :> 1) @@ (b :> 3) @@ (c :> 2)
Answers == (a :> 3) @@ (b :> 2) @@ (c :> 2)
=============================================================================
