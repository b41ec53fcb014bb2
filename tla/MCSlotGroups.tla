---------------------------- MODULE MCSlotGroups ----------------------------
EXTENDS SlotGroups

\* Two short prompts and a longer one: three tokens are a chunk, so that some
\* prompts share one, one is split, and one has to wait for the next.
MCPromptLen == [r \in Reqs |-> IF r = "b" THEN 2 ELSE 1]

AllStops == SUBSET {"stop", "length"} \ {{}}

\* One stage with and without overlap and chunks, several stages with neither,
\* where answers that end in both ways contain those that end in one.
ConfigsWith(stages) ==
  [pp : {1}, overlap : BOOLEAN, chunk : {NoChunk, 3}, stops : AllStops]
    \cup [pp : stages, overlap : {FALSE}, chunk : {NoChunk}, stops : {{"stop", "length"}}]

\* Three batches under way are what it takes for two to be taken at once.
MCConfigs == ConfigsWith({2, 3})

\* What serve_config.yaml makes of one stage, when answers end at their length.
OverlapConfigs == {[pp |-> 1, overlap |-> TRUE, chunk |-> 3, stops |-> {"length"}]}
=============================================================================
