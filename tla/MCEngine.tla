------------------------------ MODULE MCEngine ------------------------------
(***************************************************************************)
(* Requests for the runs of Engine.  Prompts and answers are a few tokens  *)
(* long and pages hold two, so that a step crosses a page boundary every   *)
(* other token.                                                            *)
(***************************************************************************)
EXTENDS Engine, TLC

CONSTANTS a, b, c

Keys == (a :> 1) @@ (b :> 1) @@ (c :> 2)

Load(prompts, answers, blocks, chunks, overlaps) ==
  [promptLen : {prompts}, maxNew : {answers}, blocks : {blocks}, chunk : chunks,
   overlap : overlaps]

OddPrompts == (a :> 1) @@ (b :> 3) @@ (c :> 1)
FullPages == (a :> 2) @@ (b :> 1) @@ (c :> 2)
LongAnswers == (a :> 5) @@ (b :> 4) @@ (c :> 5)
ShortAnswers == (a :> 2) @@ (b :> 4) @@ (c :> 3)

\* Each request fits the cache alone and no two do: evictions. Prompts that fill their
\* pages make the worker raise with overlap.
Congested ==
  Load(OddPrompts, LongAnswers, 4, {NoChunk}, BOOLEAN)
    \cup Load(FullPages, ShortAnswers, 3, {NoChunk}, BOOLEAN)

\* Twice the pages, or pages for all, and prompts that share chunks or are split into them.
InChunks ==
  Load(OddPrompts, LongAnswers, 8, {2, 3}, BOOLEAN)
    \cup Load(OddPrompts, LongAnswers, 10, {2}, BOOLEAN)

\* One prompt that no cache of four pages holds.
HugePrompt == (a :> 9) @@ (b :> 2) @@ (c :> 3)
TooLarge == Load(HugePrompt, ShortAnswers, 4, {NoChunk, 2, 3}, {TRUE})

MCConfigs == Congested \cup InChunks \cup TooLarge
=============================================================================
