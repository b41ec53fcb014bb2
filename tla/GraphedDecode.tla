---------------------------- MODULE GraphedDecode ----------------------------
(***************************************************************************)
(* The tensors that tell a forward pass of chitu which tokens of which     *)
(* requests it works on, and how CUDA graphs of the decode pass use them.  *)
(*                                                                         *)
(* A BatchedSeqLenDelta holds the lengths of the batch before and after    *)
(* the pass and derives, when first asked, prefix sums, sequence ids and   *)
(* position ids; the paged cache derives from those the page and the       *)
(* offset each new token is written to.  Every derived tensor is cached in *)
(* a static buffer with an up-to-date flag (see GraphedProperty).  With    *)
(* multi-token prediction a decode step drafts MtpSize tokens, one call of *)
(* the draft graph each, with a second BatchedSeqLenDelta, then verifies   *)
(* them in one call of the main graph; both write pages, through the same  *)
(* two static tensors.  A graph is captured per batch size: Python sizes   *)
(* and branches are those of the capture.                                  *)
(***************************************************************************)
EXTENDS Naturals, Integers, Sequences, FiniteSets, FiniteSetsExt, SequencesExt

CONSTANTS
  Reqs,        \* requests
  Prompt,      \* [Reqs -> Nat \ {0}]: tokens of the prompt
  MaxLen,      \* infer.max_seq_len: no request grows longer
  MaxChunk,    \* a request's share of a prefill pass
  BlockSize,   \* tokens of a page
  MtpSizes,    \* values of infer.mtp_size explored; 1 is without drafts
  InDecode,    \* what the decode pass reads, by the models and attention backends in use
  NoGraph

\* The cached tensors: prefix sums, sequence ids and position ids of the
\* new lengths ("n") and of the difference ("d"), pages and offsets of the new
\* tokens, and main_last_hidden_states ("hidden").
Kinds == {"nprefix", "nseq", "npos", "dprefix", "dseq", "dpos", "page", "off", "hidden"}

ASSUME BoundsAssumption ==
  /\ InDecode \subseteq Kinds
  /\ {MaxLen, MaxChunk, BlockSize} \cup MtpSizes \subseteq Nat \ {0}
  /\ Prompt \in [Reqs -> 1 .. MaxLen]

VARIABLES
  mtp,       \* infer.mtp_size
  pc,        \* "idle", "draft", "verify", "accept"
  graphsOn,  \* CUDA graphs are enabled: not before infer.num_blocks is known
  reqLen,    \* req_id_to_seq_len, 0 for a request that is not there
  work,      \* curr_req_ids and, for each delta, the lengths before and after
  drafts,    \* calls of the draft graph in this step
  cache,     \* the cached tensors: flag and contents
  graphs,    \* captured graphs by callable and batch size
  seen       \* what the last forward pass read

vars == <<mtp, pc, graphsOn, reqLen, work, drafts, cache, graphs, seen>>

-----------------------------------------------------------------------------
Deltas == {"main", "mtp"}

\* Both deltas share the static tensors and flags of the pages.
CacheOf(d, k) == IF k \in {"page", "off"} THEN <<"both", k>> ELSE <<d, k>>
CacheIds == {CacheOf(d, k) : d \in Deltas, k \in Kinds}
PageCaches == {<<"both", "page">>, <<"both", "off">>}
LensCaches(d) == {<<d, k>> : k \in {"nprefix", "nseq", "npos", "dprefix", "dseq", "dpos"}}

Junk == -1
At(s, i) == IF i \in DOMAIN s THEN s[i] ELSE Junk
SumOf(s) == MapThenSumSet(LAMBDA i : s[i], DOMAIN s)
PrefixSums(s) == [i \in 1 .. Len(s) + 1 |-> SumOf(SubSeq(s, 1, i - 1))]
Diff(l) == [i \in DOMAIN l.new |-> l.new[i] - l.old[i]]
CeilDiv(n, m) == (n + m - 1) \div m

\* torch.searchsorted(bounds, t, right=True)
SearchSorted(bounds, t) == Cardinality({i \in DOMAIN bounds : bounds[i] <= t})

\* One new token for every request, none of them new: the tensors of the
\* difference need no computing then.
IsClassic(l) == \A i \in DOMAIN l.old : l.old[i] > 0 /\ l.old[i] + 1 = l.new[i]

\* gpu_block_table: the j-th page of request r is <<r, j>> (which page that is
\* is the subject of PagedKVCache), rows padded for the graphs.
BlockTable(w) ==
  [i \in DOMAIN w.reqs |-> [j \in 1 .. CeilDiv(MaxLen, BlockSize) |->
     IF j <= CeilDiv(w.main.new[i], BlockSize) THEN <<w.reqs[i], j>> ELSE <<>>]]

-----------------------------------------------------------------------------
(* Computing one tensor.                                                   *)

\* The tensor k of delta d with n elements, from the device tensors of the
\* lengths and of the page table and from the caches c.
Evaluate(k, d, n, classic, w, c) ==
  LET l        == w[d]
      Of(kk)   == c[CacheOf(d, kk)].val
      bounds   == PrefixSums(Diff(l))
      IdOf(t) == IF classic THEN t - 1 ELSE At(Of("dseq"), t)
      PosOf(t) == IF classic THEN At(l.old, t) ELSE At(Of("dpos"), t)
      DposOf(t) == LET s == SearchSorted(Tail(bounds), t - 1)
                   IN At(l.old, s + 1) + t - 1 - At(bounds, s + 1)
  IN CASE k = "nprefix" -> PrefixSums(l.new)
       [] k = "dprefix" -> bounds
       [] k = "nseq" -> [t \in 1 .. n |-> SearchSorted(Tail(Of("nprefix")), t - 1)]
       [] k = "dseq" -> [t \in 1 .. n |-> SearchSorted(Tail(Of("dprefix")), t - 1)]
       [] k = "npos" -> [t \in 1 .. n |-> t - 1 - At(Of("nprefix"), At(Of("nseq"), t) + 1)]
       [] k = "dpos" -> [t \in 1 .. n |-> DposOf(t)]
       [] k = "page" -> [t \in 1 .. n |->
                          At(At(BlockTable(w), IdOf(t) + 1), (PosOf(t) \div BlockSize) + 1)]
       [] k = "off"  -> [t \in 1 .. n |-> PosOf(t) % BlockSize]
       [] k = "hidden" -> [t \in 1 .. n |-> <<At(w.reqs, IdOf(t) + 1), PosOf(t)>>]

\* The tensors a computation of k reads.
Uses(k, classic) ==
  CASE k = "nseq" -> {"nprefix"}
    [] k = "npos" -> {"nseq", "nprefix"}
    [] k = "dseq" -> {"dprefix"}
    [] k \in {"page", "hidden"} /\ ~classic -> {"dseq", "dpos"}
    [] k = "off" /\ ~classic -> {"dpos"}
    [] OTHER -> {}

\* total_len and delta_total_len, computed by Python
SizeNow(k, l) == IF k \in {"nseq", "npos"} THEN SumOf(l.new) ELSE SumOf(Diff(l))

\* In classic decoding the tensors of the difference come from no cache.
Direct == {"dprefix", "dseq", "dpos"}

\* The tensors that reading those of R makes Python compute: those that are
\* not up to date, and what their computation reads in turn.
ToCompute(R, d, classic, c) ==
  LET Stale(S) == {k \in S : ~c[CacheOf(d, k)].fresh}
      Close(S) == S \cup Stale(UNION {Uses(k, classic) : k \in S})
  IN Close(Close(Stale(IF classic THEN R \ Direct ELSE R)))

\* The caches after the tensors of S are computed, with these sizes: each
\* after those it reads.
Computed(S, d, classic, size, w, c) ==
  LET Fill(K, cc) ==
        [i \in DOMAIN cc |->
          IF i \in {CacheOf(d, k) : k \in K \cap S}
          THEN [fresh |-> TRUE, val |-> Evaluate(i[2], d, size[i[2]], classic, w, cc)]
          ELSE cc[i]]
  IN Fill({"npos", "page", "off", "hidden"},
          Fill({"nseq", "dseq"}, Fill({"nprefix", "dprefix", "dpos"}, c)))

\* What a kernel that was given tensor k reads, through a view of n elements.
View(k, d, n, classic, w, c) ==
  LET v == c[CacheOf(d, k)].val
  IN IF classic /\ k = "dpos" THEN SubSeq(w[d].old, 1, n)
     ELSE IF classic /\ k = "dseq" THEN [t \in 1 .. n |-> t - 1]
     ELSE IF classic /\ k = "dprefix" THEN [t \in 1 .. n |-> t - 1]
     ELSE [t \in 1 .. n |-> At(v, t)]

ViewSize(k, d, classic, w, c) ==
  IF classic /\ k \in Direct THEN Len(w[d].old) + (IF k = "dprefix" THEN 1 ELSE 0)
  ELSE Len(c[CacheOf(d, k)].val)

Views(R, d, sizes, classic, w, c) ==
  [p \in {d} \X R |-> View(p[2], d, sizes[p[2]], classic, w, c)]

\* One run of Python over a pass that reads R: [the caches, the sizes of the
\* tensors its kernels are given, what it computes].
Run(R, d, w, c) ==
  LET classic == IsClassic(w[d])
      S       == ToCompute(R, d, classic, c)
      after   == Computed(S, d, classic, [k \in Kinds |-> SizeNow(k, w[d])], w, c)
  IN [cache   |-> after,
      graph   |-> [computes |-> S, classic |-> classic,
                   sizes |-> [k \in R \cup S |-> ViewSize(k, d, classic, w, after)]]]

\* A replay: the kernels of the capture on the present device tensors, then
\* the post hooks, which set flags and shapes.
Replayed(g, d, w, c) == Computed(g.computes, d, g.classic, g.sizes, w, c)

-----------------------------------------------------------------------------
Init ==
  /\ mtp \in MtpSizes
  /\ pc = "idle"
  /\ graphsOn \in BOOLEAN
  /\ reqLen = [r \in Reqs |-> 0]
  /\ work = [reqs |-> <<>>, main |-> [old |-> <<>>, new |-> <<>>],
                            mtp |-> [old |-> <<>>, new |-> <<>>]]
  /\ drafts = 0
  /\ cache = [i \in CacheIds |-> [fresh |-> FALSE, val |-> <<>>]]
  /\ graphs = [d \in Deltas |-> [b \in 1 .. Cardinality(Reqs) |-> NoGraph]]
  /\ seen = <<>>

\* The caches of I marked out of date.
Outdated(I, c) ==
  [i \in DOMAIN c |-> IF i \in I THEN [c[i] EXCEPT !.fresh = FALSE] ELSE c[i]]

\* Requests are batched in any order.
Batches(S) == {rs \in BoundedSeq(S, Cardinality(S)) : rs # <<>> /\ IsInjective(rs)}

\* What a prefill pass reads: a chunk that follows others reads the earlier
\* tokens back; a chunk that adds one token to every request is taken for a
\* decode pass.
PrefillReads(l) ==
  {"dpos", "dseq", "page", "off"}
    \cup (IF IsClassic(l) THEN {} ELSE {"dprefix", "nprefix"})
    \cup (IF ~IsClassic(l) /\ \E i \in DOMAIN l.old : l.old[i] > 0
          THEN {"nseq", "npos"} ELSE {})

\* A prefill pass, run without a graph: the layers of the model and, with
\* drafts, the draft layer.
Prefill(rs, chunk) ==
  LET l  == [old |-> [i \in DOMAIN rs |-> reqLen[rs[i]]],
             new |-> [i \in DOMAIN rs |-> reqLen[rs[i]] + chunk[i]]]
      w  == [reqs |-> rs, main |-> l, mtp |-> IF mtp > 1 THEN l ELSE work.mtp]
      R  == PrefillReads(l)
      c0 == Outdated(PageCaches \cup LensCaches("main")
                       \cup (IF mtp > 1 THEN LensCaches("mtp") ELSE {}), cache)
      run1 == Run(R, "main", w, c0)
      run2 == Run(R, "mtp", w, run1.cache)
      Read(d, run) == Views(R, d, run.graph.sizes, run.graph.classic, w, run.cache)
  IN /\ pc = "idle"
     /\ \A i \in DOMAIN rs : reqLen[rs[i]] + chunk[i] <= Prompt[rs[i]]
     /\ reqLen' = [r \in Reqs |-> IF r \in Range(rs)
                                  THEN reqLen[r] + chunk[CHOOSE i \in DOMAIN rs : rs[i] = r]
                                  ELSE reqLen[r]]
     /\ work' = w
     /\ cache' = IF mtp > 1 THEN run2.cache ELSE run1.cache
     /\ seen' = IF mtp > 1 THEN Read("main", run1) @@ Read("mtp", run2) ELSE Read("main", run1)
     /\ UNCHANGED <<mtp, pc, graphsOn, drafts, graphs>>

\* prepare_cache_decode
PrepareDecode(rs) ==
  LET old == [i \in DOMAIN rs |-> reqLen[rs[i]]]
  IN /\ pc = "idle"
     /\ \A i \in DOMAIN rs : reqLen[rs[i]] >= Prompt[rs[i]] /\ reqLen[rs[i]] + mtp <= MaxLen
     /\ reqLen' = [r \in Reqs |-> reqLen[r] + (IF r \in Range(rs) THEN mtp ELSE 0)]
     /\ work' = [work EXCEPT !.reqs = rs,
                   !.main = [old |-> old, new |-> [i \in DOMAIN rs |-> old[i] + mtp]]]
     /\ cache' = Outdated(PageCaches \cup LensCaches("main"), cache)
     /\ pc' = IF mtp > 1 THEN "draft" ELSE "verify"
     /\ drafts' = 0
     /\ seen' = <<>>
     /\ UNCHANGED <<mtp, graphsOn, graphs>>

\* A call of a callable that reads R of delta d: eagerly, as a warm-up run
\* and a capture, or as a replay.
CallGraphed(R, d, w, c) ==
  LET b   == Len(w.reqs)
      g   == graphs[d][b]
      run == Run(R, d, w, c)
      Read(gr, after) == Views(R, d, gr.sizes, gr.classic, w, after)
  IN \/ /\ ~graphsOn
        /\ cache' = run.cache
        /\ seen' = Read(run.graph, run.cache)
        /\ UNCHANGED graphs
     \/ /\ graphsOn /\ g = NoGraph
        /\ cache' = run.cache
        /\ seen' = Read(run.graph, run.cache)
        /\ graphs' = [graphs EXCEPT ![d][b] = run.graph]
     \/ /\ graphsOn /\ g # NoGraph
        /\ cache' = Replayed(g, d, w, c)
        /\ seen' = Read(g, cache')
        /\ UNCHANGED graphs

\* A slip: the page tensors of the draft before are kept.
DraftKeepingPages ==
  LET old == [i \in DOMAIN work.reqs |-> reqLen[work.reqs[i]] - mtp + drafts]
      w   == [work EXCEPT !.mtp = [old |-> old, new |-> [i \in DOMAIN old |-> old[i] + 1]]]
  IN /\ pc = "draft" /\ drafts < mtp
     /\ work' = w
     /\ CallGraphed({"dpos", "dseq", "page", "off"}, "mtp", w, Outdated(LensCaches("mtp"), cache))
     /\ drafts' = drafts + 1
     /\ pc' = IF drafts + 1 = mtp THEN "verify" ELSE "draft"
     /\ UNCHANGED <<mtp, graphsOn, reqLen>>

\* One draft: prepare_mtp_cache_decode, update_page_offs, the draft graph.
Draft ==
  LET old == [i \in DOMAIN work.reqs |-> reqLen[work.reqs[i]] - mtp + drafts]
      w   == [work EXCEPT !.mtp = [old |-> old, new |-> [i \in DOMAIN old |-> old[i] + 1]]]
  IN /\ pc = "draft" /\ drafts < mtp
     /\ work' = w
     /\ CallGraphed({"dpos", "dseq", "page", "off"}, "mtp", w,
                    Outdated(PageCaches \cup LensCaches("mtp"), cache))
     /\ drafts' = drafts + 1
     /\ pc' = IF drafts + 1 = mtp THEN "verify" ELSE "draft"
     /\ UNCHANGED <<mtp, graphsOn, reqLen>>

\* The call of the model: with drafts it verifies them, and the page tensors
\* of the drafts and the hidden states of the last step are marked out of date.
Verify ==
  /\ pc = "verify"
  /\ CallGraphed(InDecode \cup (IF mtp > 1 THEN {"hidden"} ELSE {}), "main", work,
                 IF mtp > 1 THEN Outdated(PageCaches \cup {<<"main", "hidden">>}, cache) ELSE cache)
  /\ pc' = IF mtp > 1 THEN "accept" ELSE "idle"
  /\ UNCHANGED <<mtp, graphsOn, reqLen, work, drafts>>

\* update_mtp_cache_decode: of the tokens of each request those up to the
\* first wrong draft are kept.
Accept(kept) ==
  /\ pc = "accept"
  /\ reqLen' = [r \in Reqs |-> IF r \in Range(work.reqs)
                               THEN reqLen[r] + kept[CHOOSE i \in DOMAIN work.reqs : work.reqs[i] = r] - mtp
                               ELSE reqLen[r]]
  /\ pc' = "idle"
  /\ UNCHANGED <<mtp, graphsOn, work, drafts, cache, graphs, seen>>

\* finalize_cache_all_decode
Finish(r) ==
  /\ pc = "idle" /\ reqLen[r] >= Prompt[r]
  /\ reqLen' = [reqLen EXCEPT ![r] = 0]
  /\ UNCHANGED <<mtp, pc, graphsOn, work, drafts, cache, graphs, seen>>

\* The number of blocks becomes known after the warm-up requests: the next
\* decode makes its callables anew, with graphs.
EnableGraphs ==
  /\ pc = "idle" /\ ~graphsOn
  /\ \A r \in Reqs : reqLen[r] = 0
  /\ graphsOn' = TRUE
  /\ UNCHANGED <<mtp, pc, reqLen, work, drafts, cache, graphs, seen>>

Next ==
  \/ \E rs \in Batches(Reqs) : \E chunk \in [DOMAIN rs -> 1 .. MaxChunk] : Prefill(rs, chunk)
  \/ \E rs \in Batches(Reqs) : PrepareDecode(rs)
  \/ Draft
  \/ Verify
  \/ \E kept \in [DOMAIN work.reqs -> 1 .. mtp] : Accept(kept)
  \/ \E r \in Reqs : Finish(r)
  \/ EnableGraphs

Spec == Init /\ [][Next]_vars

-----------------------------------------------------------------------------
(* Reference definitions, from the tokens of the pass one by one.          *)

\* The tokens <<index in the batch, position>> between two lengths of each
\* request.
Tokens(from, to) ==
  FlattenSeq([i \in DOMAIN to |-> [j \in 1 .. to[i] - from[i] |-> <<i, from[i] + j - 1>>]])

\* How many of the tokens are of a request before the i-th.
CountBefore(toks, i) == Cardinality({t \in DOMAIN toks : toks[t][1] < i})

Reference(k, d, w) ==
  LET all == Tokens([i \in DOMAIN w[d].new |-> 0], w[d].new)
      new == Tokens(w[d].old, w[d].new)
      Each(toks, Op(_)) == [t \in DOMAIN toks |-> Op(toks[t])]
      Bounds(toks) == [i \in 1 .. Len(w[d].new) + 1 |-> CountBefore(toks, i)]
  IN CASE k = "nprefix" -> Bounds(all)
       [] k = "dprefix" -> Bounds(new)
       [] k = "nseq" -> Each(all, LAMBDA x : x[1] - 1)
       [] k = "dseq" -> Each(new, LAMBDA x : x[1] - 1)
       [] k = "npos" -> Each(all, LAMBDA x : x[2])
       [] k = "dpos" -> Each(new, LAMBDA x : x[2])
       [] k = "page" -> Each(new, LAMBDA x : <<w.reqs[x[1]], (x[2] \div BlockSize) + 1>>)
       [] k = "off"  -> Each(new, LAMBDA x : x[2] % BlockSize)
       [] k = "hidden" -> Each(new, LAMBDA x : <<w.reqs[x[1]], x[2]>>)

\* Every tensor a forward pass reads, in a graph or outside, is that of the
\* batch and the lengths of this pass: each new token is written to the page
\* and offset of its own request and position, although flags are set by hooks
\* of replays and both deltas share the page tensors (cache_manager.py:494-518,
\* model.py:862-880).
ReadsCurrent == \A p \in DOMAIN seen : seen[p] = Reference(p[2], p[1], work)
=============================================================================
