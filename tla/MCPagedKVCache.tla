--------------------------- MODULE MCPagedKVCache ---------------------------
(***************************************************************************)
(* The allocator on a cache of three pages of two tokens, with three       *)
(* requests of at most four tokens: two of them can fill the cache, so the *)
(* deque runs dry at the first, a middle and the last turn of a loop.      *)
(***************************************************************************)
EXTENDS PagedKVCache
=============================================================================
