----------------------------- MODULE MCPipeline -----------------------------
(* Instances of Pipeline for TLC. *)
EXTENDS Pipeline

CONSTANTS r1, r2, r3, nobody

MCReqs == {r1, r2, r3}
MCStops == {r2}

Lengths(a, b, c) == (r1 :> a) @@ (r2 :> b) @@ (r3 :> c)

\* Two requests fit the cache side by side, three do not; a chunk of three tokens; and a
\* prompt that no cache holds.
MCSmall == [promptLen |-> Lengths(2, 3, 1), maxNew |-> Lengths(3, 3, 2), blocks |-> 5, chunk |-> NoChunk]
MCChunked == [promptLen |-> Lengths(2, 4, 1), maxNew |-> Lengths(2, 2, 2), blocks |-> 7, chunk |-> 3]
MCHuge == [promptLen |-> Lengths(2, 1, 9), maxNew |-> Lengths(2, 2, 2), blocks |-> 4, chunk |-> NoChunk]
MCConfigs == {MCSmall, MCChunked, MCHuge}
=============================================================================
