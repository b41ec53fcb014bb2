---------------------------- MODULE EngineProofs ----------------------------
(***************************************************************************)
(* What holds of Engine for any requests, priorities, page size, batch     *)
(* size and arguments: every token and every cached position is accounted  *)
(* for; pages come back and no request is left with an open stream, unless *)
(* batches without overlap have chunks; the streams are those of           *)
(* TokenStreams for limits of two tokens or more; and the worker thread    *)
(* does not crash on a load it is to cope with but for a late token.       *)
(***************************************************************************)
EXTENDS Engine, TLAPS, FiniteSetTheorems, SequenceTheorems

Token == [pos : Nat, eos : BOOLEAN]

Tasks ==
  [type : {"Prefill", "Decode"}, prefix : Int, consumed : Int, chunk : Int, next : Token,
   numNew : Nat, status : {"Normal", "WillStopLength", "Stopped"}, sync : BOOLEAN, gen : Token]

Requests ==
  [out : Seq(Token), remain : Int, finish : {"none", "stop", "length"}, closed : BOOLEAN]

Batches == UNION {[D -> Token] : D \in SUBSET Reqs}

Places == {"loop", "schedule", "chunk", "select", "step", "update", "crashed"}

EngineTypes ==
  /\ args \in Configs
  /\ submitted \in SUBSET Reqs
  /\ pending \in Seq(Reqs) /\ idList \in Seq(Reqs) /\ batch \in Seq(Reqs)
  /\ order.prefill \in Seq(Reqs) /\ order.decode \in Seq(Reqs)
  /\ order = [prefill |-> order.prefill, decode |-> order.decode]
  /\ task \in [Reqs -> Tasks]
  /\ req \in [Reqs -> Requests]
  /\ kvLen \in [Reqs -> Int]
  /\ results \in Seq(Batches)
  /\ pc \in Places

NoRepeat(s) == \A i, j \in DOMAIN s : s[i] = s[j] => i = j

\* A request is queued or in the pool, once.
QueuedOnce ==
  /\ NoRepeat(idList) /\ NoRepeat(pending)
  /\ Pooled \cap Elems(pending) = {}
  /\ Pooled \cup Elems(pending) \subseteq submitted

\* At most one batch of tokens waits for the next step, with overlap none.
OneResult ==
  /\ Len(results) <= 1
  /\ args.overlap => results = <<>>

\* What is being scheduled or run is in the pool, and of one type.
OfType(ids, type) == \A r \in Elems(ids) : r \in Pooled /\ task[r].type = type

Scheduled ==
  /\ pc \in {"chunk", "select"} =>
       /\ OfType(order.prefill, "Prefill")
       /\ OfType(order.decode, "Decode")
       /\ NoRepeat(order.decode)
  /\ pc = "select" => OfType(batch, "Prefill")
  /\ pc = "step" => \/ OfType(batch, "Prefill") \/ OfType(batch, "Decode")
  /\ pc = "update" => Elems(batch) \subseteq Pooled

\* The requests whose token waits.
Awaited == UNION {DOMAIN results[i] : i \in DOMAIN results}

OneIf(yes) == IF yes THEN 1 ELSE 0

\* The tasks of a batch without overlap are synchronised together, prompts in the middle
\* of their chunks included; nothing is where a batch has no chunk or no such step.
Whole(g) == g.overlap \/ g.chunk = NoChunk

\* The limit is announced a token ahead, which takes two tokens.
Announced(g, r) == g.maxNew[r] >= 2

\* Task t of request u with k cached tokens, w being whether one more token waits.
Tallied(g, r, t, u, w) ==
  /\ t.prefix = g.promptLen[r] + t.numNew
  /\ t.numNew = Len(u.out) + OneIf(w)
  /\ u.remain = OneIf(w)

Cached(g, t, k) ==
  k = IF t.type = "Prefill" THEN t.consumed ELSE IF g.overlap THEN t.prefix ELSE t.prefix - 1

\* Where the newest token is: on the GPU, or in the task.
Newest(g, t) ==
  /\ g.overlap /\ t.type = "Decode" => t.gen.pos = t.numNew + 1
  /\ ~g.overlap => /\ t.sync /\ t.gen = NoToken /\ ~t.next.eos
                   /\ t.type = "Prefill" => t.next = NoToken
                   /\ t.type = "Decode" => t.numNew > 0 /\ t.next.pos = t.numNew

Going(g, r, t, u, k, w) ==
  /\ Tallied(g, r, t, u, w)
  /\ Cached(g, t, k)
  /\ Newest(g, t)
  /\ u.finish = "none" /\ ~u.closed
  /\ g.chunk = NoChunk => t.chunk = NoChunk
  /\ Announced(g, r) => /\ t.status = "Normal" => t.numNew + 1 < g.maxNew[r]
                        /\ t.status = "WillStopLength" => t.numNew + 1 = g.maxNew[r]

Ended(g, r, t, u, w) ==
  /\ Tallied(g, r, t, u, w)
  /\ u.finish # "none"
  /\ Whole(g) => t.type = "Decode" /\ (u.closed \/ w)

\* NewTask
Blank(g, r) ==
  [type |-> "Prefill", prefix |-> g.promptLen[r], consumed |-> 0, chunk |-> NoChunk,
   next |-> NoToken, numNew |-> 0, status |-> "Normal", sync |-> TRUE, gen |-> NoToken]

Fresh(g, r, t, u, k, w) == t = Blank(g, r) /\ u = NewReq /\ k = 0 /\ ~w

Left(g, u, k, w) == Whole(g) => k = 0 /\ (u.closed \/ (w /\ u.finish # "none"))

\* A token that waits ends the answer if the request has a reason to end.
Waits(g, r, u, tok) ==
  /\ ~u.closed /\ u.remain = 1 /\ tok.pos = Len(u.out) + 1
  /\ Announced(g, r) => /\ tok.pos <= g.maxNew[r]
                        /\ u.finish # "none" <=> tok.eos \/ tok.pos = g.maxNew[r]

\* Where request r with the state u of its stream stands, w as above.
Standing(r, u, w) ==
  /\ r \in Pooled =>
       IF task[r].status = "Stopped"
       THEN pc = "update" /\ r \in Elems(batch) /\ Ended(args, r, task[r], u, w)
       ELSE Going(args, r, task[r], u, kvLen[r], w)
  /\ r \notin Pooled =>
       IF r \in submitted \ Elems(pending)
       THEN Left(args, u, kvLen[r], w)
       ELSE Fresh(args, r, task[r], u, kvLen[r], w)

Account(r) ==
  /\ r \in Awaited => Waits(args, r, req[r], results[1][r])
  /\ Standing(r, req[r], r \in Awaited)

IInv ==
  /\ EngineTypes
  /\ QueuedOnce
  /\ OneResult
  /\ Scheduled
  /\ UsedBlocks <= NumBlocks
  /\ \A r \in Reqs : Account(r)

-----------------------------------------------------------------------------
(* Sequences and pages *)

\* The elements of queues that are joined.
LEMMA ElemsOfConcat ==
  ASSUME NEW s \in Seq(Reqs), NEW t \in Seq(Reqs)
  PROVE  /\ s \o t \in Seq(Reqs)
         /\ Elems(s \o t) = Elems(s) \cup Elems(t)
         /\ NoRepeat(s) /\ NoRepeat(t) /\ Elems(s) \cap Elems(t) = {} => NoRepeat(s \o t)
<1>1. /\ s \o t \in Seq(Reqs) /\ Len(s \o t) = Len(s) + Len(t)
      /\ \A i \in 1 .. Len(s) + Len(t) :
           (s \o t)[i] = IF i <= Len(s) THEN s[i] ELSE t[i - Len(s)]
  BY ConcatProperties
<1>2. /\ DOMAIN s = 1 .. Len(s) /\ DOMAIN t = 1 .. Len(t) /\ DOMAIN (s \o t) = 1 .. Len(s) + Len(t)
      /\ Len(s) \in Nat /\ Len(t) \in Nat
  BY <1>1, LenProperties
<1>3. Elems(s \o t) = Elems(s) \cup Elems(t)
  <2>1. \A x : x \in Elems(s \o t) => x \in Elems(s) \cup Elems(t)
    BY <1>1, <1>2 DEF Elems
  <2>2. \A x : x \in Elems(s) => x \in Elems(s \o t)
    <3>1. \A i \in DOMAIN s : i \in DOMAIN (s \o t) /\ (s \o t)[i] = s[i]
      BY <1>1, <1>2
    <3> QED
      BY <3>1 DEF Elems
  <2>3. \A x : x \in Elems(t) => x \in Elems(s \o t)
    <3>1. \A i \in DOMAIN t : i + Len(s) \in DOMAIN (s \o t) /\ (s \o t)[i + Len(s)] = t[i]
      BY <1>1, <1>2
    <3> QED
      BY <3>1 DEF Elems
  <2> QED
    BY <2>1, <2>2, <2>3
<1>4. ASSUME NoRepeat(s), NoRepeat(t), Elems(s) \cap Elems(t) = {}
      PROVE  NoRepeat(s \o t)
  <2> SUFFICES ASSUME NEW i \in 1 .. Len(s) + Len(t), NEW j \in 1 .. Len(s) + Len(t),
                      (s \o t)[i] = (s \o t)[j]
               PROVE  i = j
    BY <1>2 DEF NoRepeat
  <2>1. CASE i <= Len(s) /\ j <= Len(s)
    BY <1>1, <1>2, <1>4, <2>1 DEF NoRepeat
  <2>2. CASE i > Len(s) /\ j > Len(s)
    <3>1. t[i - Len(s)] = t[j - Len(s)]
      BY <1>1, <1>2, <2>2
    <3>2. i - Len(s) \in DOMAIN t /\ j - Len(s) \in DOMAIN t
      BY <1>2, <2>2
    <3>3. i - Len(s) = j - Len(s)
      BY <1>4, <3>1, <3>2 DEF NoRepeat
    <3> QED
      BY <1>2, <3>3
  <2>3. ASSUME NEW m \in 1 .. Len(s) + Len(t), NEW n \in 1 .. Len(s) + Len(t),
               m <= Len(s), n > Len(s), (s \o t)[m] = (s \o t)[n]
        PROVE  FALSE
    <3>1. s[m] = t[n - Len(s)] /\ m \in DOMAIN s /\ n - Len(s) \in DOMAIN t
      BY <1>1, <1>2, <2>3
    <3> QED
      BY <1>4, <3>1 DEF Elems
  <2> QED
    BY <1>2, <2>1, <2>2, <2>3
<1> QED
  BY <1>1, <1>3, <1>4

\* The elements of a queue with one more at the end.
LEMMA ElemsOfAppend ==
  ASSUME NEW s \in Seq(Reqs), NEW r \in Reqs
  PROVE  /\ Append(s, r) \in Seq(Reqs)
         /\ Elems(Append(s, r)) = Elems(s) \cup {r}
         /\ NoRepeat(s) /\ r \notin Elems(s) => NoRepeat(Append(s, r))
<1>1. /\ Append(s, r) \in Seq(Reqs) /\ Len(Append(s, r)) = Len(s) + 1
      /\ \A i \in 1 .. Len(s) : Append(s, r)[i] = s[i]
      /\ Append(s, r)[Len(s) + 1] = r
  BY AppendProperties
<1>2. DOMAIN s = 1 .. Len(s) /\ DOMAIN Append(s, r) = 1 .. Len(s) + 1 /\ Len(s) \in Nat
  BY <1>1, LenProperties
<1>3. \A i \in DOMAIN Append(s, r) : (i \in DOMAIN s /\ Append(s, r)[i] = s[i]) \/ (i = Len(s) + 1 /\ Append(s, r)[i] = r)
  BY <1>1, <1>2
<1>4. \A i \in DOMAIN s : i \in DOMAIN Append(s, r) /\ i # Len(s) + 1 /\ Append(s, r)[i] = s[i]
  BY <1>1, <1>2
<1>5. Len(s) + 1 \in DOMAIN Append(s, r)
  BY <1>2
<1>6. Elems(Append(s, r)) = Elems(s) \cup {r}
  BY <1>1, <1>3, <1>4, <1>5 DEF Elems
<1>7. ASSUME NoRepeat(s), r \notin Elems(s) PROVE NoRepeat(Append(s, r))
  BY <1>3, <1>7 DEF NoRepeat, Elems
<1> QED
  BY <1>1, <1>6, <1>7

\* The beginning of a batch has no other elements.
LEMMA ElemsOfSubSeq ==
  ASSUME NEW s \in Seq(Reqs), NEW n \in Int
  PROVE  /\ SubSeq(s, 1, Smaller(n, Len(s))) \in Seq(Reqs)
         /\ Len(SubSeq(s, 1, Smaller(n, Len(s)))) <= Len(s)
         /\ \A x \in Elems(SubSeq(s, 1, Smaller(n, Len(s)))) : \E i \in DOMAIN s : i <= n /\ s[i] = x
<1> DEFINE m == Smaller(n, Len(s))
<1>1. m \in Int /\ m <= Len(s) /\ m <= n /\ Len(s) \in Nat /\ DOMAIN s = 1 .. Len(s)
  BY LenProperties DEF Smaller
<1>2. \A i \in 1 .. m : s[i] \in Reqs
  BY <1>1, ElementOfSeq
<1>3. /\ SubSeq(s, 1, m) \in Seq(Reqs)
      /\ Len(SubSeq(s, 1, m)) = IF 1 <= m THEN m - 1 + 1 ELSE 0
      /\ \A i \in 1 .. m - 1 + 1 : SubSeq(s, 1, m)[i] = s[1 + i - 1]
  <2> HIDE DEF m
  <2> QED
    BY <1>1, <1>2, SubSeqProperties
<1>4. ASSUME NEW x \in Elems(SubSeq(s, 1, m))
      PROVE  \E i \in DOMAIN s : i <= n /\ s[i] = x
  <2>1. PICK i \in DOMAIN SubSeq(s, 1, m) : SubSeq(s, 1, m)[i] = x
    BY <1>4 DEF Elems
  <2>2. i \in 1 .. m
    BY <1>1, <1>3, <2>1, LenProperties
  <2>3. s[i] = x
    BY <1>1, <1>3, <2>1, <2>2
  <2> QED
    BY <1>1, <2>2, <2>3
<1>5. Len(SubSeq(s, 1, m)) <= Len(s)
  BY <1>1, <1>3
<1> QED
  BY <1>3, <1>4, <1>5

\* As many of a queue as there are members of K.
LEMMA CountedPrefix ==
  ASSUME NEW s \in Seq(Reqs), NEW K \in SUBSET DOMAIN s
  PROVE  /\ SubSeq(s, 1, Cardinality(K)) \in Seq(Reqs)
         /\ Len(SubSeq(s, 1, Cardinality(K))) <= Len(s)
         /\ Elems(SubSeq(s, 1, Cardinality(K))) \subseteq Elems(s)
<1>1. DOMAIN s = 1 .. Len(s) /\ Len(s) \in Nat
  BY LenProperties
<1>2. IsFiniteSet(DOMAIN s) /\ Cardinality(DOMAIN s) = Len(s)
  <2>1. /\ IsFiniteSet(1 .. Len(s))
        /\ Cardinality(1 .. Len(s)) = IF 1 > Len(s) THEN 0 ELSE Len(s) - 1 + 1
    BY <1>1, FS_Interval
  <2> QED
    BY <1>1, <2>1
<1>3. IsFiniteSet(K) /\ Cardinality(K) <= Len(s)
  BY <1>2, FS_Subset
<1>4. Cardinality(K) \in Nat
  BY <1>3, FS_CardinalityType
<1>5. Smaller(Cardinality(K), Len(s)) = Cardinality(K)
  BY <1>3 DEF Smaller
<1>6. /\ SubSeq(s, 1, Smaller(Cardinality(K), Len(s))) \in Seq(Reqs)
      /\ Len(SubSeq(s, 1, Smaller(Cardinality(K), Len(s)))) <= Len(s)
      /\ \A x \in Elems(SubSeq(s, 1, Smaller(Cardinality(K), Len(s)))) : \E i \in DOMAIN s : i <= Cardinality(K) /\ s[i] = x
  BY <1>4, ElemsOfSubSeq
<1> QED
  BY <1>5, <1>6 DEF Elems

\* A listing of a set of requests is a sequence of them, each once.
LEMMA ListingFacts ==
  ASSUME NEW S \in SUBSET Reqs, NEW s \in Listings(S)
  PROVE  s \in Seq(Reqs) /\ Elems(s) = S /\ NoRepeat(s)
<1>1. IsFiniteSet(S)
  BY ReqsAssumption, FS_Subset
<1> DEFINE D == 1 .. Cardinality(S)
<1>2. Cardinality(S) \in Nat /\ IsFiniteSet(D) /\ Cardinality(D) = Cardinality(S)
  BY <1>1, FS_CardinalityType, FS_Interval
<1>3. s \in [D -> S] /\ Elems(s) = S
  BY DEF Listings
<1>4. s \in Surjection(D, S)
  BY <1>3 DEF Surjection, Elems
<1>5. s \in Injection(D, S)
  BY <1>1, <1>2, <1>4, FS_SurjSameCardinalityImpliesInj
<1>6. NoRepeat(s)
  BY <1>3, <1>5 DEF Injection, IsInjective, NoRepeat
<1>7. s \in Seq(Reqs)
  <2>1. s \in [D -> Reqs]
    BY <1>3
  <2> QED
    BY <1>2, <2>1, SeqDef
<1> QED
  BY <1>3, <1>6, <1>7

\* Pages are finitely many.
LEMMA PagesFinite ==
  ASSUME NEW S \in SUBSET Reqs, NEW len \in [Reqs -> Int]
  PROVE  IsFiniteSet(PagesOf(S, len))
<1>1. IsFiniteSet(S)
  BY ReqsAssumption, FS_Subset
<1> DEFINE P(r) == {r} \X (1 .. Held(len[r]))
           T == {P(r) : r \in S}
<1>2. \A r \in S : IsFiniteSet(P(r))
  <2> TAKE r \in S
  <2>1. Held(len[r]) \in Int
    BY BlockSizeAssumption DEF Held
  <2>2. IsFiniteSet(1 .. Held(len[r]))
    BY <2>1, FS_Interval
  <2>3. IsFiniteSet({r})
    BY FS_Singleton
  <2> QED
    BY <2>2, <2>3, FS_Product
<1>3. IsFiniteSet(T)
  <2> DEFINE f == [r \in S |-> P(r)]
  <2>1. f \in Surjection(S, T)
    BY DEF Surjection
  <2> QED
    BY <1>1, <2>1, FS_Surjection
<1>4. \A X \in T : IsFiniteSet(X)
  BY <1>2
<1> QED
  BY <1>3, <1>4, FS_UNION DEF PagesOf

\* A step that takes the pages it lacks stays within the cache.
LEMMA PagesTaken ==
  ASSUME NEW S \in SUBSET Reqs, NEW len \in [Reqs -> Int], kvLen \in [Reqs -> Int],
         \A r \in Reqs \ S : len[r] = kvLen[r],
         UsedBlocks <= NumBlocks, NumBlocks \in Nat, Allocates(S, len)
  PROVE  Cardinality(PagesOf(Reqs, len)) <= NumBlocks
<1> DEFINE used == PagesOf(Reqs, kvLen)
           new == PagesOf(S, len) \ PagesOf(S, kvLen)
<1>1. IsFiniteSet(used) /\ IsFiniteSet(PagesOf(S, len)) /\ IsFiniteSet(PagesOf(Reqs, len))
  BY PagesFinite
<1>2. IsFiniteSet(new)
  BY <1>1, FS_Difference
<1>3. PagesOf(Reqs, len) \subseteq used \cup new
  BY DEF PagesOf
<1>4. /\ IsFiniteSet(used \cup new) /\ IsFiniteSet(used \cap new)
      /\ Cardinality(used \cup new) = Cardinality(used) + Cardinality(new) - Cardinality(used \cap new)
  BY <1>1, <1>2, FS_Union, FS_Intersection
<1>5. Cardinality(PagesOf(Reqs, len)) <= Cardinality(used \cup new)
  BY <1>3, <1>4, FS_Subset
<1>6. /\ Cardinality(used) \in Nat /\ Cardinality(new) \in Nat /\ Cardinality(used \cap new) \in Nat
      /\ Cardinality(used \cup new) \in Nat /\ Cardinality(PagesOf(Reqs, len)) \in Nat
  BY <1>1, <1>2, <1>4, FS_CardinalityType
<1>7. Cardinality(new) <= NumBlocks - Cardinality(used)
  BY DEF Allocates, Lacking, UsedBlocks
<1> HIDE DEF used, new
<1> QED
  BY <1>4, <1>5, <1>6, <1>7

\* Requests that give their pages back leave no more in use.
LEMMA PagesGiven ==
  ASSUME NEW len \in [Reqs -> Int], kvLen \in [Reqs -> Int],
         \A r \in Reqs : len[r] \in {0, kvLen[r]},
         UsedBlocks <= NumBlocks, NumBlocks \in Nat
  PROVE  Cardinality(PagesOf(Reqs, len)) <= NumBlocks
<1>1. IsFiniteSet(PagesOf(Reqs, kvLen)) /\ IsFiniteSet(PagesOf(Reqs, len))
  BY PagesFinite
<1>2. Held(0) = 0
  BY BlockSizeAssumption DEF Held
<1>3. PagesOf(Reqs, len) \subseteq PagesOf(Reqs, kvLen)
  <2> SUFFICES ASSUME NEW r \in Reqs, NEW x \in {r} \X (1 .. Held(len[r]))
               PROVE  x \in {r} \X (1 .. Held(kvLen[r]))
    BY DEF PagesOf
  <2>1. CASE len[r] = 0
    <3>1. x[2] \in 1 .. 0
      BY <1>2, <2>1
    <3> QED
      BY <3>1
  <2> QED
    BY <2>1
<1>4. Cardinality(PagesOf(Reqs, len)) <= Cardinality(PagesOf(Reqs, kvLen))
  BY <1>1, <1>3, FS_Subset
<1>5. Cardinality(PagesOf(Reqs, len)) \in Nat /\ Cardinality(PagesOf(Reqs, kvLen)) \in Nat
  BY <1>1, FS_CardinalityType
<1> QED
  BY <1>4, <1>5 DEF UsedBlocks

-----------------------------------------------------------------------------
(* One request through the functions of the task and of the stream *)

\* The arguments of a run.
LEMMA ArgsFacts ==
  ASSUME args \in Configs
  PROVE  /\ args.promptLen \in [Reqs -> Nat] /\ args.maxNew \in [Reqs -> Nat]
         /\ args.blocks \in Nat /\ args.chunk \in Nat /\ args.overlap \in BOOLEAN
         /\ \A r \in Reqs : args.promptLen[r] \in Nat /\ args.promptLen[r] > 0
         /\ \A r \in Reqs : args.maxNew[r] \in Nat /\ args.maxNew[r] > 0
         /\ PromptLen = args.promptLen /\ MaxNew = args.maxNew /\ NumBlocks = args.blocks
<1>1. args \in [promptLen : [Reqs -> Nat \ {0}], maxNew : [Reqs -> Nat \ {0}],
                blocks : Nat \ {0}, chunk : Nat, overlap : BOOLEAN]
  BY ConfigsAssumption
<1> QED
  BY <1>1 DEF PromptLen, MaxNew, NumBlocks

\* add_data: the token is counted, and closes the stream of a request with a reason to end.
LEMMA AddDataFacts ==
  ASSUME NEW u \in Requests, NEW tok \in Token
  PROVE  /\ AddData(u, tok) \in Requests
         /\ AddData(u, tok).out = Append(u.out, tok)
         /\ Len(AddData(u, tok).out) = Len(u.out) + 1
         /\ AddData(u, tok).remain = u.remain - 1
         /\ AddData(u, tok).finish = u.finish
         /\ AddData(u, tok).closed <=> u.closed \/ (u.finish # "none" /\ u.remain = 1)
<1> DEFINE o == Append(u.out, tok)
           c == u.closed \/ (u.finish # "none" /\ u.remain = 1)
<1>1. o \in Seq(Token) /\ Len(o) = Len(u.out) + 1
  BY AppendProperties DEF Requests
<1>2. AddData(u, tok) = [u EXCEPT !.out = o, !.remain = u.remain - 1, !.closed = c]
  BY DEF AddData
<1>3. c \in BOOLEAN
  BY DEF Requests
<1>4. c <=> u.closed \/ (u.finish # "none" /\ u.remain = 1)
  OBVIOUS
<1> HIDE DEF o, c
<1>5. /\ AddData(u, tok).out = o /\ AddData(u, tok).remain = u.remain - 1
      /\ AddData(u, tok).finish = u.finish /\ AddData(u, tok).closed = c
  BY <1>2 DEF Requests
<1>6. AddData(u, tok) \in Requests
  <2>1. AddData(u, tok) = [out |-> o, remain |-> u.remain - 1, finish |-> u.finish, closed |-> c]
    BY <1>2 DEF Requests
  <2>2. u.remain - 1 \in Int /\ u.finish \in {"none", "stop", "length"}
    BY DEF Requests
  <2> QED
    BY <1>1, <1>3, <2>1, <2>2 DEF Requests
<1> QED
  BY <1>1, <1>4, <1>5, <1>6 DEF o

\* The batch that waits.
LEMMA AwaitedFacts ==
  ASSUME results \in Seq(Batches), Len(results) <= 1
  PROVE  /\ Popped(results) = <<>>
         /\ results = <<>> => Awaited = {}
         /\ results # <<>> => /\ Awaited = DOMAIN results[1] /\ Head(results) = results[1]
                              /\ results[1] \in Batches
         /\ \A r \in Awaited : r \in Reqs /\ results # <<>> /\ results[1][r] \in Token
<1>1. Len(results) \in Nat /\ DOMAIN results = 1 .. Len(results)
  BY LenProperties
<1>2. CASE results = <<>>
  BY <1>2 DEF Popped, Awaited
<1>3. CASE results # <<>>
  <2>1. Tail(results) \in Seq(Batches) /\ Len(Tail(results)) = Len(results) - 1
    BY <1>3, HeadTailProperties
  <2>2. Len(results) = 1
    <3>1. Len(results) # 0
      BY <1>3, EmptySeq
    <3> QED
      BY <1>1, <3>1
  <2>3. Tail(results) = <<>>
    <3>1. \A q \in Seq(Batches) : q # <<>> => Len(q) \in Nat \ {0}
      BY EmptySeq
    <3>2. Len(Tail(results)) = 0
      BY <2>1, <2>2
    <3> QED
      BY <2>1, <3>1, <3>2
  <2>4. DOMAIN results = {1}
    BY <1>1, <2>2
  <2>5. results[1] \in Batches
    BY <2>4, <1>1, ElementOfSeq
  <2>6. Awaited = DOMAIN results[1]
    BY <2>4 DEF Awaited
  <2>7. \A r \in DOMAIN results[1] : r \in Reqs /\ results[1][r] \in Token
    BY <2>5 DEF Batches
  <2> QED
    BY <1>3, <2>3, <2>5, <2>6, <2>7 DEF Popped
<1> QED
  BY <1>2, <1>3

\* A token that waits is delivered: the accounts carry on with none waiting.
LEMMA Delivered ==
  ASSUME args \in Configs, NEW r \in Reqs, NEW t \in Tasks, NEW u \in Requests, NEW k \in Int,
         NEW tok \in Token, Waits(args, r, u, tok)
  PROVE  /\ Going(args, r, t, u, k, TRUE) => Going(args, r, t, AddData(u, tok), k, FALSE)
         /\ Ended(args, r, t, u, TRUE) => Ended(args, r, t, AddData(u, tok), FALSE)
         /\ Left(args, u, k, TRUE) => Left(args, AddData(u, tok), k, FALSE)
<1> DEFINE v == AddData(u, tok)
<1>1. /\ Len(v.out) = Len(u.out) + 1 /\ v.remain = u.remain - 1 /\ v.finish = u.finish
      /\ v.closed <=> u.closed \/ (u.finish # "none" /\ u.remain = 1)
  BY AddDataFacts
<1>2. ~u.closed /\ u.remain = 1
  BY DEF Waits
<1>3. Len(u.out) \in Nat
  BY LenProperties DEF Requests
<1> HIDE DEF v
<1>4. Tallied(args, r, t, u, TRUE) => Tallied(args, r, t, v, FALSE)
  BY <1>1, <1>2, <1>3 DEF Tallied, OneIf
<1>5. v.closed <=> u.finish # "none"
  BY <1>1, <1>2
<1>6. Going(args, r, t, u, k, TRUE) => Going(args, r, t, v, k, FALSE)
  BY <1>1, <1>4, <1>5 DEF Going
<1>7. Ended(args, r, t, u, TRUE) => Ended(args, r, t, v, FALSE)
  BY <1>1, <1>4, <1>5 DEF Ended
<1>8. Left(args, u, k, TRUE) => Left(args, v, k, FALSE)
  BY <1>1, <1>2, <1>5 DEF Left
<1> QED
  BY <1>6, <1>7, <1>8 DEF v

\* Sending what waits leaves every account in order.
LEMMA Emission ==
  ASSUME IInv
  PROVE  /\ EmittedReqs(req, results) \in [Reqs -> Requests]
         /\ Popped(results) = <<>>
         /\ \A r \in Reqs : Standing(r, EmittedReqs(req, results)[r], FALSE)
<1> DEFINE q == EmittedReqs(req, results)
<1>1. /\ results \in Seq(Batches) /\ Len(results) <= 1 /\ req \in [Reqs -> Requests]
      /\ task \in [Reqs -> Tasks] /\ kvLen \in [Reqs -> Int] /\ args \in Configs
  BY DEF IInv, EngineTypes, OneResult
<1>2. \A r \in Reqs : q[r] = IF r \in Awaited THEN AddData(req[r], results[1][r]) ELSE req[r]
  BY <1>1, AwaitedFacts DEF EmittedReqs
<1>3. DOMAIN q = Reqs /\ q = [r \in Reqs |-> q[r]]
  BY <1>1 DEF EmittedReqs
<1> HIDE DEF q
<1>4. ASSUME NEW r \in Reqs
      PROVE  q[r] \in Requests /\ Standing(r, q[r], FALSE)
  <2>1. Account(r)
    BY DEF IInv
  <2>2. req[r] \in Requests /\ task[r] \in Tasks /\ kvLen[r] \in Int
    BY <1>1
  <2>3. CASE r \in Awaited
    <3> DEFINE tok == results[1][r]
    <3>1. tok \in Token
      BY <1>1, <2>3, AwaitedFacts
    <3>2. Waits(args, r, req[r], tok) /\ Standing(r, req[r], TRUE)
      <4>1. (r \in Awaited) = TRUE
        BY <2>3
      <4> QED
        BY <2>1, <4>1 DEF Account
    <3> HIDE DEF tok
    <3>3. /\ Going(args, r, task[r], req[r], kvLen[r], TRUE) =>
               Going(args, r, task[r], AddData(req[r], tok), kvLen[r], FALSE)
          /\ Ended(args, r, task[r], req[r], TRUE) =>
               Ended(args, r, task[r], AddData(req[r], tok), FALSE)
          /\ Left(args, req[r], kvLen[r], TRUE) => Left(args, AddData(req[r], tok), kvLen[r], FALSE)
      BY <1>1, <2>2, <3>1, <3>2, Delivered
    <3>4. AddData(req[r], tok) \in Requests
      BY <2>2, <3>1, AddDataFacts
    <3>5. q[r] = AddData(req[r], tok)
      BY <1>2, <2>3 DEF tok
    <3>6. ~Fresh(args, r, task[r], req[r], kvLen[r], TRUE)
      BY DEF Fresh
    <3>7. Standing(r, AddData(req[r], tok), FALSE)
      BY <3>2, <3>3, <3>6 DEF Standing
    <3> QED
      BY <3>4, <3>5, <3>7
  <2>4. CASE r \notin Awaited
    <3>1. Standing(r, req[r], FALSE)
      <4>1. (r \in Awaited) = FALSE
        BY <2>4
      <4> QED
        BY <2>1, <4>1 DEF Account
    <3> QED
      BY <1>2, <2>2, <2>4, <3>1
  <2> QED
    BY <2>3, <2>4
<1>5. q \in [Reqs -> Requests]
  BY <1>3, <1>4
<1> QED
  BY <1>1, <1>4, <1>5, AwaitedFacts DEF q

\* The fields of a task.
LEMMA TaskFields ==
  ASSUME NEW t \in Tasks
  PROVE  /\ t.type \in {"Prefill", "Decode"} /\ t.prefix \in Int /\ t.consumed \in Int
         /\ t.chunk \in Int /\ t.next \in Token /\ t.numNew \in Nat
         /\ t.status \in {"Normal", "WillStopLength", "Stopped"} /\ t.sync \in BOOLEAN
         /\ t.gen \in Token
         /\ t = [type |-> t.type, prefix |-> t.prefix, consumed |-> t.consumed, chunk |-> t.chunk,
                 next |-> t.next, numNew |-> t.numNew, status |-> t.status, sync |-> t.sync,
                 gen |-> t.gen]
BY DEF Tasks

\* A part of the prompt, or its rest, is consumed as the cache grows.
LEMMA Consumed ==
  ASSUME args \in Configs, NEW r \in Reqs, NEW t \in Tasks, NEW u \in Requests, NEW k \in Int,
         t.type = "Prefill", t.status # "Stopped", Going(args, r, t, u, k, FALSE)
  PROVE  LET t2 == ConsumeReqTokens(t)
             k2 == k + NextReqTokensLen(t)
         IN  /\ t2 \in Tasks /\ k2 \in Int
             /\ HasOutput(t) <=> LastChunk(t)
             /\ /\ t2.prefix = t.prefix /\ t2.numNew = t.numNew /\ t2.next = t.next
                /\ t2.status = t.status /\ t2.sync = t.sync /\ t2.gen = t.gen
                /\ t2.chunk = NoChunk
             /\ LastChunk(t) => t2.type = "Decode" /\ k2 = t.prefix
             /\ ~LastChunk(t) => t2.type = "Prefill" /\ Going(args, r, t2, u, k2, FALSE)
                                 /\ args.chunk # NoChunk
<1>1. /\ t.prefix \in Int /\ t.consumed \in Int /\ t.chunk \in Int /\ k = t.consumed
      /\ args.chunk = NoChunk => t.chunk = NoChunk
  BY DEF Tasks, Going, Cached
<1>2. HasOutput(t) <=> LastChunk(t)
  BY DEF HasOutput
<1>3. PrefixTokensLen(t) = t.prefix
  BY DEF PrefixTokensLen
<1>4. CASE LastChunk(t)
  <2>1. ConsumeReqTokens(t) = [t EXCEPT !.consumed = t.prefix, !.type = "Decode", !.chunk = NoChunk]
    BY <1>3, <1>4 DEF ConsumeReqTokens
  <2>2. NextReqTokensLen(t) = t.prefix - t.consumed
    BY <1>3, <1>4 DEF NextReqTokensLen
  <2>3. ConsumeReqTokens(t) \in Tasks
    <3>1. ConsumeReqTokens(t) =
            [type |-> "Decode", prefix |-> t.prefix, consumed |-> t.prefix, chunk |-> NoChunk,
             next |-> t.next, numNew |-> t.numNew, status |-> t.status, sync |-> t.sync,
             gen |-> t.gen]
      BY <2>1, TaskFields
    <3> QED
      BY <3>1, TaskFields DEF Tasks, NoChunk
  <2> QED
    BY <1>1, <1>2, <1>4, <2>1, <2>2, <2>3 DEF Tasks
<1>5. CASE ~LastChunk(t)
  <2>1. ConsumeReqTokens(t) = [t EXCEPT !.consumed = t.consumed + t.chunk, !.chunk = NoChunk]
    BY <1>5 DEF ConsumeReqTokens
  <2>2. NextReqTokensLen(t) = t.chunk
    BY <1>5 DEF NextReqTokensLen
  <2> DEFINE t2 == ConsumeReqTokens(t)
  <2>3. t2 \in Tasks
    <3>1. t2 = [type |-> t.type, prefix |-> t.prefix, consumed |-> t.consumed + t.chunk,
                chunk |-> NoChunk, next |-> t.next, numNew |-> t.numNew, status |-> t.status,
                sync |-> t.sync, gen |-> t.gen]
      BY <2>1, TaskFields
    <3>2. t.consumed + t.chunk \in Int
      BY <1>1
    <3> QED
      BY <3>1, <3>2, TaskFields DEF Tasks, NoChunk
  <2>4. /\ t2.prefix = t.prefix /\ t2.numNew = t.numNew /\ t2.next = t.next
        /\ t2.status = t.status /\ t2.sync = t.sync /\ t2.gen = t.gen
        /\ t2.chunk = NoChunk /\ t2.type = t.type /\ t2.consumed = t.consumed + t.chunk
    BY <2>1 DEF Tasks
  <2> HIDE DEF t2
  <2>5. Going(args, r, t2, u, k + t.chunk, FALSE)
    <3>1. Tallied(args, r, t2, u, FALSE)
      BY <2>4 DEF Going, Tallied
    <3>2. Cached(args, t2, k + t.chunk)
      BY <1>1, <2>4 DEF Cached
    <3>3. Newest(args, t2)
      BY <2>4 DEF Going, Newest
    <3> QED
      BY <2>4, <3>1, <3>2, <3>3 DEF Going
  <2>6. args.chunk # NoChunk
    BY <1>1, <1>5 DEF LastChunk
  <2>7. k + t.chunk \in Int
    BY <1>1
  <2>8. t2.type = "Prefill"
    BY <2>4
  <2> QED
    BY <1>2, <1>5, <2>2, <2>3, <2>4, <2>5, <2>6, <2>7, <2>8 DEF t2
<1> QED
  BY <1>4, <1>5

\* A decode task of which the next token may be synchronised.
Due(g, r, t, u) ==
  /\ t.type = "Decode" /\ t.status # "Stopped"
  /\ Tallied(g, r, t, u, FALSE)
  /\ u.finish = "none" /\ ~u.closed
  /\ g.chunk = NoChunk => t.chunk = NoChunk
  /\ Announced(g, r) => /\ t.status = "Normal" => t.numNew + 1 < g.maxNew[r]
                        /\ t.status = "WillStopLength" => t.numNew + 1 = g.maxNew[r]

\* What synchronising token tok makes of the task and of the request.
Updated(t, tok) == UpdatePrefix(UpdateResponseNoSync(t, tok))

TokenTaken(r, t, tok) == [UpdateDecodeStatus(r, Updated(t, tok)) EXCEPT !.gen = NoToken]

TokenCounted(t, u, tok) ==
  [u EXCEPT !.remain = u.remain + 1,
            !.finish = IF StopReason(Updated(t, tok)) = "none" THEN u.finish
                       ELSE StopReason(Updated(t, tok))]

\* A synchronised token is one more of the task and of the request; it waits, and the
\* request has a reason to end if and only if the task has stopped.
Taken(g, r, t, u, tok, t3, u3) ==
  /\ t3 \in Tasks /\ u3 \in Requests
  /\ t3.type = "Decode" /\ t3.next = tok /\ t3.sync /\ t3.gen = NoToken
  /\ t3.prefix = t.prefix + 1 /\ t3.numNew = t.numNew + 1 /\ t3.chunk = t.chunk
  /\ Waits(g, r, u3, tok)
  /\ Tallied(g, r, t3, u3, TRUE)
  /\ u3.out = u.out /\ ~u3.closed
  /\ t3.status = "Stopped" => u3.finish # "none"
  /\ t3.status # "Stopped" =>
       /\ u3.finish = "none" /\ ~tok.eos
       /\ Announced(g, r) =>
            /\ t3.status = "Normal" => t3.numNew + 1 < g.maxNew[r]
            /\ t3.status = "WillStopLength" => t3.numNew + 1 = g.maxNew[r]
  /\ t.status = "WillStopLength" => t3.status = "Stopped"

\* Synchronising the next token of a task does so.
LEMMA TokenTakenFacts ==
  ASSUME args \in Configs, NEW r \in Reqs, NEW t \in Tasks, NEW u \in Requests, NEW tok \in Token,
         Due(args, r, t, u), tok.pos = t.numNew + 1
  PROVE  Taken(args, r, t, u, tok, TokenTaken(r, t, tok), TokenCounted(t, u, tok))
<1> DEFINE t2 == Updated(t, tok)
           t3 == TokenTaken(r, t, tok)
           u3 == TokenCounted(t, u, tok)
<1>1. /\ args.maxNew[r] \in Nat /\ args.promptLen[r] \in Nat /\ MaxNew = args.maxNew
  BY ArgsFacts
<1>2. /\ t.numNew \in Nat /\ t.prefix \in Int /\ tok.pos \in Nat /\ tok.eos \in BOOLEAN
      /\ u.remain \in Int /\ u.closed \in BOOLEAN /\ Len(u.out) \in Nat
  BY LenProperties DEF Tasks, Token, Requests
<1>3. /\ t.type = "Decode" /\ t.status # "Stopped" /\ t.numNew = Len(u.out)
      /\ u.remain = 0 /\ u.finish = "none" /\ ~u.closed
  BY DEF Due, Tallied, OneIf
<1>4. tok # NoToken
  BY <1>2, <1>3 DEF NoToken
<1> DEFINE n == t.numNew + 1
           p == t.prefix + 1
<1>5. n \in Nat /\ p \in Int
  BY <1>2
<1>6. /\ t2 \in Tasks
      /\ t2.type = "Decode" /\ t2.prefix = p /\ t2.chunk = t.chunk /\ t2.next = tok
      /\ t2.numNew = n /\ t2.status = t.status /\ t2.sync
  <2> DEFINE t1 == UpdateResponseNoSync(t, tok)
  <2>1. t1 = [t EXCEPT !.next = tok, !.numNew = n, !.sync = FALSE]
    BY DEF UpdateResponseNoSync
  <2> HIDE DEF t1, n, p
  <2>2. /\ t1 \in Tasks
        /\ t1.type = "Decode" /\ t1.prefix = t.prefix /\ t1.chunk = t.chunk /\ t1.next = tok
        /\ t1.numNew = n /\ t1.status = t.status /\ ~t1.sync
    BY <1>3, <1>5, <2>1 DEF Tasks
  <2>3. t2 = [t1 EXCEPT !.prefix = p, !.sync = TRUE]
    BY <1>4, <2>2 DEF t1, Updated, UpdatePrefix, p
  <2> HIDE DEF t2
  <2> QED
    BY <1>5, <2>2, <2>3 DEF Tasks
<1> HIDE DEF t2, n, p
<1> DEFINE reason == StopReason(t2)
           s3 == IF reason # "none" THEN "Stopped"
                 ELSE IF t.numNew + 2 >= args.maxNew[r] THEN "WillStopLength" ELSE t.status
<1>7. reason = IF tok.eos THEN "stop" ELSE IF t.status = "WillStopLength" THEN "length" ELSE "none"
  <2>1. t2.numNew > 0
    BY <1>2, <1>6 DEF n
  <2> QED
    BY <1>3, <1>6, <2>1 DEF StopReason
<1>8. /\ s3 \in {"Normal", "WillStopLength", "Stopped"}
      /\ reason \in {"none", "stop", "length"}
  BY <1>7, TaskFields
<1>9. /\ t3 \in Tasks
      /\ t3.type = "Decode" /\ t3.next = tok /\ t3.sync /\ t3.gen = NoToken
      /\ t3.prefix = p /\ t3.numNew = n /\ t3.chunk = t.chunk /\ t3.status = s3
  <2>1. UpdateDecodeStatus(r, t2) = [t2 EXCEPT !.status = s3]
    <3>1. t2.status # "Stopped" /\ t2.numNew + 1 = t.numNew + 2 /\ t2.status = t.status
      BY <1>2, <1>3, <1>6 DEF n
    <3>2. [t2 EXCEPT !.status = t2.status] = t2
      BY <1>6 DEF Tasks
    <3> QED
      BY <1>1, <3>1, <3>2 DEF UpdateDecodeStatus
  <2>2. t3 = [UpdateDecodeStatus(r, t2) EXCEPT !.gen = NoToken]
    BY DEF TokenTaken, t2
  <2>3. NoToken \in Token
    BY DEF NoToken, Token
  <2> HIDE DEF s3, t3
  <2> DEFINE d == UpdateDecodeStatus(r, t2)
  <2>4. /\ d \in Tasks
        /\ d.type = "Decode" /\ d.next = tok /\ d.sync
        /\ d.prefix = p /\ d.numNew = n /\ d.chunk = t.chunk /\ d.status = s3
    BY <1>6, <1>8, <2>1 DEF Tasks
  <2> HIDE DEF d
  <2>5. t3 = [d EXCEPT !.gen = NoToken]
    BY <2>2 DEF d
  <2> QED
    BY <2>3, <2>4, <2>5 DEF Tasks
<1> DEFINE m == u.remain + 1
           f == IF reason = "none" THEN u.finish ELSE reason
<1>10. u3 = [u EXCEPT !.remain = m, !.finish = f]
  BY DEF TokenCounted, t2
<1>11. m = 1 /\ f = reason
  BY <1>3
<1> HIDE DEF t3, u3, reason, m, f
<1>12. /\ u3 \in Requests
       /\ u3.out = u.out /\ u3.remain = 1 /\ u3.finish = reason /\ u3.closed = u.closed
  <2>1. m \in Int /\ f \in {"none", "stop", "length"}
    BY <1>8, <1>11
  <2>2. u3 \in Requests
    BY <1>10, <2>1 DEF Requests
  <2>3. u3.out = u.out /\ u3.remain = m /\ u3.finish = f /\ u3.closed = u.closed
    BY <1>10 DEF Requests
  <2> QED
    BY <1>11, <2>2, <2>3
<1>13. /\ t3.type = "Decode" /\ t3.next = tok /\ t3.sync /\ t3.gen = NoToken
       /\ t3.prefix = t.prefix + 1 /\ t3.numNew = t.numNew + 1 /\ t3.chunk = t.chunk
       /\ t3.status = s3
  BY <1>9 DEF n, p
<1>14. /\ u3.out = u.out /\ u3.remain = 1 /\ u3.finish = reason /\ ~u3.closed
  BY <1>3, <1>12
<1>15. Tallied(args, r, t3, u3, TRUE)
  BY <1>1, <1>2, <1>3, <1>13, <1>14 DEF Due, Tallied, OneIf
<1>16. Announced(args, r) => /\ t.status = "Normal" => t.numNew + 1 < args.maxNew[r]
                             /\ t.status = "WillStopLength" => t.numNew + 1 = args.maxNew[r]
  BY DEF Due
<1>17. t.status \in {"Normal", "WillStopLength"}
  BY <1>3, TaskFields
<1>18. Waits(args, r, u3, tok)
  <2>1. tok.pos = Len(u3.out) + 1
    BY <1>3, <1>14
  <2>2. ASSUME Announced(args, r)
        PROVE  tok.pos <= args.maxNew[r] /\ (u3.finish # "none" <=> (tok.eos \/ tok.pos = args.maxNew[r]))
    <3>1. t.status = "WillStopLength" <=> t.numNew + 1 = args.maxNew[r]
      BY <1>1, <1>2, <1>16, <1>17, <2>2
    <3>2. t.numNew + 1 <= args.maxNew[r]
      BY <1>1, <1>2, <1>16, <1>17, <2>2
    <3>3. reason # "none" <=> (tok.eos \/ t.status = "WillStopLength")
      BY <1>2, <1>7
    <3> QED
      BY <1>14, <3>1, <3>2, <3>3
  <2> QED
    BY <1>14, <2>1, <2>2 DEF Waits
<1>19. t3.status = "Stopped" <=> reason # "none"
  BY <1>13, <1>17
<1>20. ASSUME t3.status # "Stopped"
       PROVE  /\ u3.finish = "none" /\ ~tok.eos /\ t.status = "Normal"
              /\ Announced(args, r) =>
                   /\ t3.status = "Normal" => t3.numNew + 1 < args.maxNew[r]
                   /\ t3.status = "WillStopLength" => t3.numNew + 1 = args.maxNew[r]
  <2>1. reason = "none"
    BY <1>19, <1>20
  <2>2. ~tok.eos /\ t.status = "Normal"
    BY <1>2, <1>7, <1>17, <2>1
  <2>3. s3 = IF t.numNew + 2 >= args.maxNew[r] THEN "WillStopLength" ELSE "Normal"
    BY <2>1, <2>2
  <2> HIDE DEF s3
  <2>4. CASE t.numNew + 2 >= args.maxNew[r]
    BY <1>1, <1>2, <1>13, <1>14, <1>16, <2>1, <2>2, <2>3, <2>4
  <2>5. CASE ~(t.numNew + 2 >= args.maxNew[r])
    BY <1>1, <1>2, <1>13, <1>14, <1>16, <2>1, <2>2, <2>3, <2>5
  <2> QED
    BY <2>4, <2>5
<1> HIDE DEF s3
<1>21. t3.status = "Stopped" => u3.finish # "none"
  BY <1>14, <1>19
<1>22. t.status = "WillStopLength" => t3.status = "Stopped"
  BY <1>20
<1>23. /\ t3 \in Tasks /\ u3 \in Requests
       /\ t3.type = "Decode" /\ t3.next = tok /\ t3.sync /\ t3.gen = NoToken
       /\ t3.prefix = t.prefix + 1 /\ t3.numNew = t.numNew + 1 /\ t3.chunk = t.chunk
       /\ u3.out = u.out /\ ~u3.closed
  BY <1>9, <1>12, <1>13, <1>14
<1> QED
  BY <1>15, <1>18, <1>20, <1>21, <1>22, <1>23 DEF Taken, t3, u3

\* What synchronising a batch makes of one of it without a token, and of its request.
PassedTask(r, t) == [UpdateDecodeStatus(r, UpdatePrefix(t)) EXCEPT !.gen = @]

PassedReq(t, u) ==
  [u EXCEPT !.remain = @,
            !.finish = IF StopReason(UpdatePrefix(t)) = "none" THEN @
                       ELSE StopReason(UpdatePrefix(t))]

\* A batch of prompts in which another ends reaches this one in the middle: at most its
\* status changes, and if it stops there no stream is closed.
LEMMA PassedOver ==
  ASSUME args \in Configs, ~args.overlap, args.chunk # NoChunk,
         NEW r \in Reqs, NEW t \in Tasks, NEW u \in Requests, NEW k \in Int,
         t.type = "Prefill", t.status # "Stopped", Going(args, r, t, u, k, FALSE)
  PROVE  /\ PassedTask(r, t) \in Tasks /\ PassedReq(t, u) \in Requests
         /\ PassedTask(r, t).type = "Prefill"
         /\ PassedTask(r, t).status = "Stopped" => Ended(args, r, PassedTask(r, t), PassedReq(t, u), FALSE)
         /\ PassedTask(r, t).status # "Stopped" => Going(args, r, PassedTask(r, t), PassedReq(t, u), k, FALSE)
<1>1. /\ args.maxNew[r] \in Nat /\ MaxNew = args.maxNew
  BY ArgsFacts
<1>2. /\ Tallied(args, r, t, u, FALSE) /\ Cached(args, t, k)
      /\ t.sync /\ t.next = NoToken /\ u.finish = "none" /\ ~u.closed
  BY DEF Going, Newest
<1>3. UpdatePrefix(t) = t
  BY <1>2 DEF UpdatePrefix
<1> DEFINE reason == StopReason(t)
           f == IF reason = "none" THEN u.finish ELSE reason
           d == UpdateDecodeStatus(r, t)
           t3 == [d EXCEPT !.gen = @]
           u3 == [u EXCEPT !.remain = @, !.finish = f]
<1>4. reason = IF t.status = "WillStopLength" THEN "length" ELSE "none"
  <2>1. ~t.next.eos
    BY <1>2 DEF NoToken
  <2> QED
    BY <2>1 DEF StopReason
<1>5. f = reason /\ f \in {"none", "stop", "length"}
  BY <1>2, <1>4
<1> DEFINE s3 == IF reason # "none" THEN "Stopped"
                 ELSE IF t.numNew + 1 >= args.maxNew[r] THEN "WillStopLength" ELSE t.status
<1>6. t.status \in {"Normal", "WillStopLength"} /\ s3 \in {"Normal", "WillStopLength", "Stopped"}
  BY TaskFields
<1>7. d = [t EXCEPT !.status = s3]
  <2>1. [t EXCEPT !.status = t.status] = t
    BY DEF Tasks
  <2> QED
    BY <1>1, <2>1 DEF UpdateDecodeStatus
<1>8. s3 = "Stopped" <=> reason # "none"
  BY <1>6
<1>9. /\ s3 # "Stopped" => t.status = "Normal"
      /\ Announced(args, r) /\ s3 # "Stopped" => s3 = "Normal"
  <2>1. s3 # "Stopped" => t.status = "Normal"
    BY <1>4, <1>6, <1>8
  <2>2. ASSUME Announced(args, r), s3 # "Stopped"
        PROVE  s3 = "Normal"
    <3>1. t.numNew + 1 < args.maxNew[r] /\ t.numNew \in Nat
      BY <2>1, <2>2, TaskFields DEF Going
    <3>2. ~(t.numNew + 1 >= args.maxNew[r])
      BY <1>1, <3>1
    <3> QED
      BY <1>8, <2>1, <2>2, <3>2
  <2> QED
    BY <2>1, <2>2
<1> HIDE DEF s3, reason, f, d
<1>10. /\ d \in Tasks /\ d.type = "Prefill" /\ d.status = s3 /\ d.prefix = t.prefix
       /\ d.numNew = t.numNew /\ d.consumed = t.consumed /\ d.chunk = t.chunk
       /\ d.sync = t.sync /\ d.next = t.next /\ d.gen = t.gen
  BY <1>6, <1>7 DEF Tasks
<1>11. t3 = d
  BY <1>10 DEF Tasks
<1>12. u3 \in Requests
  BY <1>5 DEF Requests
<1>13. u3.out = u.out /\ u3.remain = u.remain /\ u3.finish = f /\ u3.closed = u.closed
  BY DEF Requests
<1> HIDE DEF t3, u3
<1>14. Tallied(args, r, t3, u3, FALSE)
  BY <1>2, <1>10, <1>11, <1>13 DEF Tallied
<1>15. Cached(args, t3, k)
  BY <1>2, <1>10, <1>11 DEF Cached
<1>16. Newest(args, t3)
  BY <1>2, <1>10, <1>11 DEF Newest, Going
<1>17. t3.status = "Stopped" => Ended(args, r, t3, u3, FALSE)
  <2>1. ~Whole(args)
    BY DEF Whole
  <2> QED
    BY <1>5, <1>8, <1>10, <1>11, <1>13, <1>14, <2>1 DEF Ended
<1>18. ASSUME t3.status # "Stopped" PROVE Going(args, r, t3, u3, k, FALSE)
  <2>1. u3.finish = "none" /\ ~u3.closed
    BY <1>2, <1>5, <1>8, <1>10, <1>11, <1>13, <1>18
  <2>2. Announced(args, r) => t.status = "Normal" /\ t3.status = "Normal"
    BY <1>9, <1>10, <1>11, <1>18
  <2>3. Announced(args, r) => t3.numNew + 1 < args.maxNew[r]
    BY <1>10, <1>11, <2>2 DEF Going
  <2> QED
    BY <1>14, <1>15, <1>16, <2>1, <2>2, <2>3 DEF Going
<1>19. t3 = PassedTask(r, t) /\ u3 = PassedReq(t, u)
  BY <1>3 DEF t3, u3, d, f, reason, PassedTask, PassedReq
<1> QED
  BY <1>10, <1>11, <1>12, <1>17, <1>18, <1>19

-----------------------------------------------------------------------------
(* The steps of the loop *)

\* A new task.
LEMMA NewTaskFacts ==
  ASSUME args \in Configs, NEW r \in Reqs
  PROVE  NewTask(r) = Blank(args, r) /\ NewTask(r) \in Tasks /\ NewReq \in Requests
<1>1. PromptLen = args.promptLen /\ args.promptLen[r] \in Nat
  BY ArgsFacts
<1>2. NoToken \in Token
  BY DEF NoToken, Token
<1>3. NewTask(r) = Blank(args, r)
  BY <1>1 DEF NewTask, Blank
<1>4. Blank(args, r) \in Tasks
  BY <1>1, <1>2 DEF Blank, Tasks, NoChunk
<1>5. NewReq \in Requests
  <2>1. <<>> \in Seq(Token)
    BY EmptySeq
  <2> QED
    BY <2>1 DEF NewReq, Requests
<1> QED
  BY <1>3, <1>4, <1>5

\* A request that is new has its accounts in order.
LEMMA FreshFacts ==
  ASSUME args \in Configs, NEW r \in Reqs, NEW t, NEW u, NEW k, NEW w \in BOOLEAN,
         Fresh(args, r, t, u, k, w)
  PROVE  Going(args, r, t, u, k, w) /\ t.status # "Stopped"
<1>1. args.promptLen[r] \in Nat /\ args.maxNew[r] \in Nat /\ args.overlap \in BOOLEAN
  BY ArgsFacts
<1>2. t = Blank(args, r) /\ u = NewReq /\ k = 0 /\ ~w
  BY DEF Fresh
<1>3. /\ t.type = "Prefill" /\ t.prefix = args.promptLen[r] /\ t.consumed = 0 /\ t.chunk = NoChunk
      /\ t.next = NoToken /\ t.numNew = 0 /\ t.status = "Normal" /\ t.sync /\ t.gen = NoToken
  BY <1>2 DEF Blank
<1>4. Len(u.out) = 0 /\ u.remain = 0 /\ u.finish = "none" /\ ~u.closed
  BY <1>2 DEF NewReq
<1>5. Tallied(args, r, t, u, w)
  BY <1>1, <1>2, <1>3, <1>4 DEF Tallied, OneIf
<1>6. Cached(args, t, k) /\ Newest(args, t)
  BY <1>2, <1>3 DEF Cached, Newest, NoToken
<1>7. Announced(args, r) => t.numNew + 1 < args.maxNew[r]
  BY <1>1, <1>3 DEF Announced
<1> QED
  BY <1>3, <1>4, <1>5, <1>6, <1>7 DEF Going

\* The first state.
LEMMA InitIInv == Init => IInv
<1> SUFFICES ASSUME Init PROVE IInv
  OBVIOUS
<1> USE DEF Init
<1>1. args \in Configs
  OBVIOUS
<1>2. NumBlocks \in Nat
  BY <1>1, ArgsFacts
<1>3. Elems(<<>>) = {} /\ DOMAIN <<>> = {} /\ Len(<<>>) = 0
  BY DEF Elems
<1>4. EngineTypes
  <2>1. task \in [Reqs -> Tasks] /\ req \in [Reqs -> Requests]
    BY <1>1, NewTaskFacts
  <2>2. <<>> \in Seq(Reqs) /\ <<>> \in Seq(Batches)
    BY EmptySeq
  <2> QED
    BY <1>1, <2>1, <2>2 DEF EngineTypes, NoOrder, Places
<1>5. QueuedOnce /\ OneResult /\ Scheduled
  BY <1>3 DEF QueuedOnce, OneResult, Scheduled, NoRepeat, Pooled
<1>6. UsedBlocks <= NumBlocks
  <2>1. Held(0) = 0
    BY BlockSizeAssumption DEF Held
  <2>2. \A r \in Reqs : {r} \X (1 .. Held(kvLen[r])) = {}
    <3> TAKE r \in Reqs
    <3>1. 1 .. Held(kvLen[r]) = {}
      BY <2>1
    <3> QED
      BY <3>1
  <2>3. PagesOf(Reqs, kvLen) = {}
    BY <2>2 DEF PagesOf
  <2>4. Cardinality({}) = 0
    BY FS_EmptySet
  <2>5. UsedBlocks = 0
    BY <2>3, <2>4 DEF UsedBlocks
  <2> QED
    BY <1>2, <2>5
<1>7. ASSUME NEW r \in Reqs PROVE Account(r)
  <2>1. Awaited = {} /\ r \notin Pooled /\ r \notin submitted
    BY <1>3 DEF Awaited, Pooled
  <2>2. Fresh(args, r, task[r], req[r], kvLen[r], FALSE)
    BY <1>1, NewTaskFacts DEF Fresh
  <2>3. (r \in Awaited) = FALSE
    BY <2>1
  <2> QED
    BY <2>1, <2>2, <2>3 DEF Account, Standing
<1> QED
  BY <1>4, <1>5, <1>6, <1>7 DEF IInv

\* Outside of update no task of the pool has stopped.
LEMMA NoneStopped ==
  ASSUME IInv, pc # "update", NEW r \in Pooled
  PROVE  /\ r \in Reqs /\ task[r].status # "Stopped"
         /\ Going(args, r, task[r], req[r], kvLen[r], r \in Awaited)
<1>1. r \in Reqs
  BY DEF IInv, QueuedOnce, EngineTypes
<1> QED
  BY <1>1 DEF IInv, Account, Standing

\* Steps that only pick what runs leave the accounts alone.
LEMMA SameAccounts ==
  ASSUME IInv, pc # "update",
         UNCHANGED <<args, submitted, pending, idList, task, req, kvLen, results>>
  PROVE  /\ \A r \in Reqs : Account(r)'
         /\ QueuedOnce' /\ OneResult' /\ (UsedBlocks <= NumBlocks)'
<1>1. Pooled' = Pooled /\ Awaited' = Awaited
  BY DEF Pooled, Awaited, Elems
<1>2. ASSUME NEW r \in Reqs PROVE Account(r)'
  <2>1. Account(r)
    BY DEF IInv
  <2>2. r \in Pooled => task[r].status # "Stopped"
    BY NoneStopped
  <2> QED
    BY <1>1, <2>1, <2>2 DEF Account, Standing
<1>3. QueuedOnce' /\ OneResult' /\ (UsedBlocks <= NumBlocks)'
  BY DEF IInv, QueuedOnce, OneResult, UsedBlocks, NumBlocks, Pooled, NoRepeat, Elems, PagesOf
<1> QED
  BY <1>2, <1>3

\* Sending what waits while the rest stays.
LEMMA SentAccounts ==
  ASSUME IInv, pc # "update",
         UNCHANGED <<args, submitted, pending, idList, task, kvLen>>,
         req' = EmittedReqs(req, results), results' = Popped(results)
  PROVE  /\ \A r \in Reqs : Account(r)'
         /\ QueuedOnce' /\ OneResult' /\ (UsedBlocks <= NumBlocks)'
         /\ results' = <<>> /\ req' \in [Reqs -> Requests]
<1>1. results' = <<>> /\ req' \in [Reqs -> Requests] /\ \A r \in Reqs : Standing(r, req'[r], FALSE)
  BY Emission
<1>2. Pooled' = Pooled
  BY DEF Pooled, Elems
<1>3. Awaited' = {} /\ Len(results') = 0
  BY <1>1 DEF Awaited
<1>4. ASSUME NEW r \in Reqs PROVE Account(r)'
  <2>1. Standing(r, req'[r], FALSE)
    BY <1>1
  <2>2. r \in Pooled => task[r].status # "Stopped"
    BY NoneStopped
  <2>3. Standing(r, req[r], FALSE)'
    BY <1>2, <2>1, <2>2 DEF Standing
  <2>4. (r \in Awaited)' = FALSE
    BY <1>3
  <2> QED
    BY <1>3, <2>3, <2>4 DEF Account
<1>5. QueuedOnce' /\ (UsedBlocks <= NumBlocks)'
  BY DEF IInv, QueuedOnce, UsedBlocks, NumBlocks, Pooled, NoRepeat, Elems, PagesOf
<1>6. OneResult'
  BY <1>1, <1>3 DEF OneResult
<1> QED
  BY <1>1, <1>4, <1>5, <1>6

\* The HTTP thread creates a request.
LEMMA SubmitStep ==
  ASSUME IInv, NEW r \in Reqs, Submit(r)
  PROVE  IInv'
<1> USE DEF Submit
<1>1. /\ r \notin submitted /\ submitted' = submitted \cup {r} /\ pending' = Append(pending, r)
      /\ UNCHANGED <<args, idList, task, req, kvLen, threshold, results, order, batch, pc>>
  OBVIOUS
<1>2. /\ pending \in Seq(Reqs) /\ submitted \in SUBSET Reqs /\ QueuedOnce
  BY DEF IInv, EngineTypes
<1>3. r \notin Elems(pending) /\ r \notin Pooled
  BY <1>1, <1>2 DEF QueuedOnce
<1>4. /\ pending' \in Seq(Reqs) /\ Elems(pending)' = Elems(pending) \cup {r}
      /\ NoRepeat(pending)'
  <2>1. /\ Append(pending, r) \in Seq(Reqs) /\ Elems(Append(pending, r)) = Elems(pending) \cup {r}
        /\ NoRepeat(pending) /\ r \notin Elems(pending) => NoRepeat(Append(pending, r))
    BY <1>2, ElemsOfAppend
  <2> QED
    BY <1>1, <1>2, <1>3, <2>1 DEF QueuedOnce, Elems, NoRepeat
<1>5. Pooled' = Pooled /\ Awaited' = Awaited
  BY DEF Pooled, Awaited, Elems
<1>6. EngineTypes'
  BY <1>1, <1>2, <1>4 DEF IInv, EngineTypes
<1>7. QueuedOnce'
  <2>1. NoRepeat(idList)'
    BY <1>1, <1>2 DEF QueuedOnce, NoRepeat
  <2> QED
    BY <1>1, <1>2, <1>3, <1>4, <1>5, <2>1 DEF QueuedOnce
<1>8. OneResult' /\ (UsedBlocks <= NumBlocks)'
  BY <1>1 DEF IInv, OneResult, UsedBlocks, NumBlocks, PagesOf
<1>9. Scheduled'
  BY <1>1, <1>5 DEF IInv, Scheduled, OfType, NoRepeat, Elems
<1>10. ASSUME NEW s \in Reqs PROVE Account(s)'
  <2>1. Account(s)
    BY DEF IInv
  <2>2. Elems(batch)' = Elems(batch)
    BY DEF Elems
  <2>3. CASE s = r
    BY <1>1, <1>3, <1>4, <1>5, <2>1, <2>3 DEF Account, Standing
  <2>4. CASE s # r
    <3>1. s \in submitted' \ Elems(pending)' <=> s \in submitted \ Elems(pending)
      BY <1>1, <1>4, <2>4
    <3> QED
      BY <1>1, <1>5, <2>1, <2>2, <3>1 DEF Account, Standing
  <2> QED
    BY <2>3, <2>4
<1> QED
  BY <1>6, <1>7, <1>8, <1>9, <1>10 DEF IInv

\* A turn of process_queue: the queue moves into the pool, or what waits is sent.
LEMMA ProcessQueueStep ==
  ASSUME IInv, ProcessQueue
  PROVE  IInv'
<1>1. /\ pc = "loop" /\ idList' = idList \o pending /\ pending' = <<>>
      /\ UNCHANGED <<args, submitted, task, kvLen, threshold, order, batch>>
  BY DEF ProcessQueue
<1>2. EngineTypes /\ QueuedOnce
  BY DEF IInv
<1>3. CASE idList' = <<>> /\ results # <<>> /\ req' = EmittedReqs(req, results)
           /\ results' = Popped(results) /\ UNCHANGED pc
  <2>1. idList = <<>> /\ pending = <<>>
    <3>1. idList \in Seq(Reqs) /\ pending \in Seq(Reqs)
      BY <1>2 DEF EngineTypes
    <3>2. idList \o pending = <<>>
      BY <1>1, <1>3
    <3>3. idList \o pending = <<>> <=> (idList = <<>> /\ pending = <<>>)
      BY <3>1, ConcatEqualIffEmpty
    <3> QED
      BY <3>2, <3>3
  <2>2. UNCHANGED <<args, submitted, pending, idList, task, kvLen>> /\ pc # "update"
    BY <1>1, <1>3, <2>1
  <2>3. /\ \A r \in Reqs : Account(r)'
        /\ QueuedOnce' /\ OneResult' /\ (UsedBlocks <= NumBlocks)'
        /\ results' = <<>> /\ req' \in [Reqs -> Requests]
    BY <1>3, <2>2, SentAccounts
  <2>4. EngineTypes'
    <3>1. <<>> \in Seq(Batches)
      BY EmptySeq
    <3> QED
      BY <1>1, <1>2, <1>3, <2>2, <2>3, <3>1 DEF EngineTypes
  <2>5. Scheduled'
    BY <1>1, <1>3 DEF Scheduled
  <2> QED
    BY <2>3, <2>4, <2>5 DEF IInv
<1>4. CASE pc' = "schedule" /\ UNCHANGED <<req, results>>
  <2>1. /\ idList' \in Seq(Reqs) /\ Pooled' = Pooled \cup Elems(pending) /\ NoRepeat(idList)'
    <3>1. /\ idList \in Seq(Reqs) /\ pending \in Seq(Reqs)
          /\ NoRepeat(idList) /\ NoRepeat(pending) /\ Elems(idList) \cap Elems(pending) = {}
      BY <1>2 DEF EngineTypes, QueuedOnce, Pooled
    <3>2. /\ idList \o pending \in Seq(Reqs)
          /\ Elems(idList \o pending) = Elems(idList) \cup Elems(pending)
          /\ NoRepeat(idList \o pending)
      BY <3>1, ElemsOfConcat
    <3> QED
      BY <1>1, <3>2 DEF Pooled, Elems, NoRepeat
  <2>2. Elems(pending)' = {} /\ <<>> \in Seq(Reqs) /\ NoRepeat(pending)'
    <3>1. pending' = <<>> /\ DOMAIN <<>> = {}
      BY <1>1
    <3> QED
      BY <3>1, EmptySeq DEF Elems, NoRepeat
  <2>3. Awaited' = Awaited
    BY <1>4 DEF Awaited
  <2>4. EngineTypes'
    BY <1>1, <1>2, <1>4, <2>1, <2>2 DEF EngineTypes, Places
  <2>5. QueuedOnce'
    BY <1>1, <1>2, <2>1, <2>2 DEF QueuedOnce
  <2>6. OneResult' /\ (UsedBlocks <= NumBlocks)'
    BY <1>1, <1>4 DEF IInv, OneResult, UsedBlocks, NumBlocks, PagesOf
  <2>7. Scheduled'
    BY <1>4 DEF Scheduled
  <2>8. ASSUME NEW r \in Reqs PROVE Account(r)'
    <3>1. Account(r)
      BY DEF IInv
    <3> DEFINE w == r \in Awaited
    <3>2. CASE r \in Pooled
      <4>1. task[r].status # "Stopped" /\ Going(args, r, task[r], req[r], kvLen[r], w)
        BY <1>1, <3>2, NoneStopped
      <4> QED
        BY <1>1, <1>4, <2>1, <2>3, <3>1, <3>2, <4>1 DEF Account, Standing
    <3>3. CASE r \in Elems(pending)
      <4>1. r \notin Pooled
        BY <1>2, <3>3 DEF QueuedOnce
      <4>2. Fresh(args, r, task[r], req[r], kvLen[r], w)
        BY <3>1, <3>3, <4>1 DEF Account, Standing
      <4>3. Going(args, r, task[r], req[r], kvLen[r], w) /\ task[r].status # "Stopped"
        <5>1. args \in Configs /\ w \in BOOLEAN
          BY <1>2 DEF EngineTypes
        <5> HIDE DEF w
        <5> QED
          BY <4>2, <5>1, FreshFacts
      <4> QED
        BY <1>1, <1>4, <2>1, <2>3, <3>1, <3>3, <4>3 DEF Account, Standing
    <3>4. CASE r \notin Pooled /\ r \notin Elems(pending)
      BY <1>1, <1>4, <2>1, <2>2, <2>3, <3>1, <3>4 DEF Account, Standing
    <3> QED
      BY <3>2, <3>3, <3>4
  <2> QED
    BY <2>4, <2>5, <2>6, <2>7, <2>8 DEF IInv
<1> QED
  BY <1>3, <1>4 DEF ProcessQueue

\* schedule sorts the pool.
LEMMA SortStep ==
  ASSUME IInv, Sort
  PROVE  IInv'
<1>1. /\ pc = "schedule" /\ pc' = "chunk"
      /\ UNCHANGED <<args, submitted, pending, idList, task, req, kvLen, threshold, results, batch>>
  BY DEF Sort
<1>2. PICK p \in Sorted("Prefill"), d \in Sorted("Decode") : order' = [prefill |-> p, decode |-> d]
  BY DEF Sort
<1> DEFINE Of(type) == {r \in Pooled : task[r].status # "Stopped" /\ task[r].type = type}
<1>3. p \in Listings(Of("Prefill")) /\ d \in Listings(Of("Decode"))
  BY DEF Sorted
<1>4. Pooled \in SUBSET Reqs
  BY DEF IInv, QueuedOnce, EngineTypes
<1>5. /\ p \in Seq(Reqs) /\ Elems(p) = Of("Prefill")
      /\ d \in Seq(Reqs) /\ Elems(d) = Of("Decode") /\ NoRepeat(d)
  <2>1. Of("Prefill") \in SUBSET Reqs /\ Of("Decode") \in SUBSET Reqs
    BY <1>4
  <2> HIDE DEF Of
  <2> QED
    BY <1>3, <2>1, ListingFacts
<1>6. order'.prefill = p /\ order'.decode = d
  BY <1>2
<1>7. /\ \A r \in Reqs : Account(r)'
      /\ QueuedOnce' /\ OneResult' /\ (UsedBlocks <= NumBlocks)'
  BY <1>1, SameAccounts
<1>8. EngineTypes'
  BY <1>1, <1>2, <1>5 DEF IInv, EngineTypes, Places
<1>9. Scheduled'
  <2>1. \A r \in Elems(p) : r \in Pooled /\ task[r].type = "Prefill"
    BY <1>5
  <2>2. \A r \in Elems(d) : r \in Pooled /\ task[r].type = "Decode"
    BY <1>5
  <2>3. Pooled' = Pooled /\ task' = task
    BY <1>1 DEF Pooled, Elems
  <2>4. OfType(order.prefill, "Prefill")' /\ OfType(order.decode, "Decode")'
    BY <1>6, <2>1, <2>2, <2>3 DEF OfType, Elems
  <2>5. NoRepeat(order.decode)'
    BY <1>5, <1>6 DEF NoRepeat
  <2> QED
    BY <1>1, <2>4, <2>5 DEF Scheduled
<1> QED
  BY <1>7, <1>8, <1>9 DEF IInv

\* The tokens left to the tasks before one are a number.
LEMMA RemainingIsNatural ==
  ASSUME order.prefill \in Seq(Reqs), task \in [Reqs -> Tasks], NEW i \in DOMAIN order.prefill
  PROVE  RemainingBefore(i) \in Nat
<1> DEFINE P(j) == {j} \X (task[order.prefill[j]].consumed + 1 .. PrefixTokensLen(task[order.prefill[j]]))
           T == {P(j) : j \in 1 .. i - 1}
<1>1. i \in Nat /\ \A j \in 1 .. i - 1 : order.prefill[j] \in Reqs
  <2>1. i \in 1 .. Len(order.prefill) /\ Len(order.prefill) \in Nat
    BY LenProperties
  <2>2. \A j \in 1 .. Len(order.prefill) : order.prefill[j] \in Reqs
    BY ElementOfSeq
  <2> QED
    BY <2>1, <2>2
<1>2. \A j \in 1 .. i - 1 : IsFiniteSet(P(j))
  <2> TAKE j \in 1 .. i - 1
  <2> DEFINE t == task[order.prefill[j]]
  <2>1. t \in Tasks
    BY <1>1
  <2> HIDE DEF t
  <2>2. t.consumed + 1 \in Int /\ PrefixTokensLen(t) \in Int
    <3>1. t.prefix \in Int /\ t.consumed \in Int
      BY <2>1, TaskFields
    <3> QED
      BY <3>1 DEF PrefixTokensLen
  <2>3. IsFiniteSet(t.consumed + 1 .. PrefixTokensLen(t))
    BY <2>2, FS_Interval
  <2>4. IsFiniteSet({j})
    BY FS_Singleton
  <2> QED
    BY <2>3, <2>4, FS_Product DEF t
<1> HIDE DEF P
<1>3. IsFiniteSet(T)
  <2> DEFINE f == [j \in 1 .. i - 1 |-> P(j)]
  <2>1. f \in Surjection(1 .. i - 1, T)
    BY DEF Surjection
  <2>2. IsFiniteSet(1 .. i - 1)
    BY <1>1, FS_Interval
  <2> HIDE DEF f, T
  <2> QED
    BY <2>1, <2>2, FS_Surjection
<1>4. \A X \in T : IsFiniteSet(X)
  BY <1>2
<1>5. IsFiniteSet(UNION T)
  BY <1>3, <1>4, FS_UNION
<1>6. RemainingBefore(i) = Cardinality(UNION T)
  BY DEF RemainingBefore, P
<1> QED
  BY <1>5, <1>6, FS_CardinalityType

\* The candidates of a chunked prefill are the first of those to prefill.
LEMMA CandidateFacts ==
  ASSUME order.prefill \in Seq(Reqs)
  PROVE  /\ ChunkCandidates \in Seq(Reqs)
         /\ DOMAIN ChunkCandidates \subseteq DOMAIN order.prefill
         /\ Elems(ChunkCandidates) \subseteq Elems(order.prefill)
<1> DEFINE K == {i \in DOMAIN order.prefill : RemainingBefore(i) < args.chunk}
           c == SubSeq(order.prefill, 1, Cardinality(K))
<1>1. c \in Seq(Reqs) /\ Len(c) <= Len(order.prefill) /\ Elems(c) \subseteq Elems(order.prefill)
  <2>1. K \in SUBSET DOMAIN order.prefill
    OBVIOUS
  <2> HIDE DEF K
  <2> QED
    BY <2>1, CountedPrefix
<1>2. DOMAIN c \subseteq DOMAIN order.prefill
  <2> HIDE DEF c
  <2>1. /\ DOMAIN c = 1 .. Len(c) /\ Len(c) \in Nat
        /\ DOMAIN order.prefill = 1 .. Len(order.prefill) /\ Len(order.prefill) \in Nat
    BY <1>1, LenProperties
  <2> QED
    BY <1>1, <2>1
<1> HIDE DEF c
<1>3. ChunkCandidates = order.prefill \/ ChunkCandidates = c
  BY DEF ChunkCandidates, c
<1> QED
  BY <1>1, <1>2, <1>3

\* Chunk sizes are given to the candidates.
LEMMA ChunkStep ==
  ASSUME IInv, Chunk
  PROVE  IInv'
<1> DEFINE ids == ChunkCandidates
           chunkOf(i) == Smaller(PrefixTokensLen(task[ids[i]]) - task[ids[i]].consumed,
                                 args.chunk - RemainingBefore(i))
           size(r) == chunkOf(CHOOSE i \in DOMAIN ids : ids[i] = r)
<1>1. /\ pc = "chunk" /\ pc' = "select"
      /\ UNCHANGED <<args, submitted, pending, idList, req, kvLen, threshold, results, order>>
  BY DEF Chunk
<1>2. EngineTypes /\ Scheduled /\ args.chunk \in Nat
  BY ArgsFacts DEF IInv, EngineTypes
<1>3. /\ order.prefill \in Seq(Reqs) /\ order.decode \in Seq(Reqs) /\ task \in [Reqs -> Tasks]
      /\ args \in Configs
  BY <1>2 DEF EngineTypes
<1>4. ids \in Seq(Reqs) /\ DOMAIN ids \subseteq DOMAIN order.prefill /\ Elems(ids) \subseteq Elems(order.prefill)
  BY <1>3, CandidateFacts
<1>5. \A i \in DOMAIN ids : chunkOf(i) \in Int
  <2> TAKE i \in DOMAIN ids
  <2>1. ids[i] \in Reqs
    BY <1>4, LenProperties, ElementOfSeq
  <2>2. RemainingBefore(i) \in Nat
    BY <1>3, <1>4, RemainingIsNatural
  <2> DEFINE t == task[ids[i]]
  <2>3. t \in Tasks
    BY <1>3, <2>1
  <2> HIDE DEF t
  <2>4. PrefixTokensLen(t) \in Int /\ t.consumed \in Int
    BY <2>3, TaskFields DEF PrefixTokensLen
  <2>5. PrefixTokensLen(t) - t.consumed \in Int /\ args.chunk - RemainingBefore(i) \in Int
    BY <1>2, <2>2, <2>4
  <2> QED
    BY <2>5 DEF Smaller, t
<1>6. \A r \in Reqs : InSeq(r, ids) => size(r) \in Int
  <2> HIDE DEF chunkOf, ids
  <2> TAKE r \in Reqs
  <2> QED
    BY <1>5 DEF InSeq
<1>7. /\ batch' \in Seq(Reqs) /\ Elems(batch)' \subseteq Elems(order.prefill)
      /\ task' \in [Reqs -> Tasks]
      /\ \A r \in Reqs : \/ task'[r] = task[r]
                         \/ args.chunk # NoChunk /\ \E n \in Int : task'[r] = [task[r] EXCEPT !.chunk = n]
  <2>1. CASE PrefillTurn
    <3>1. batch' = ids /\ task' = [r \in Reqs |-> IF args.chunk = NoChunk \/ ~InSeq(r, ids) THEN task[r]
                                                  ELSE [task[r] EXCEPT !.chunk = size(r)]]
      BY <2>1 DEF Chunk
    <3> HIDE DEF ids, size
    <3>2. Elems(batch)' \subseteq Elems(order.prefill)
      BY <1>4, <3>1 DEF Elems
    <3>3. \A r \in Reqs : \/ task'[r] = task[r]
                          \/ args.chunk # NoChunk /\ \E n \in Int : task'[r] = [task[r] EXCEPT !.chunk = n]
      BY <1>6, <3>1
    <3>4. \A r \in Reqs : task'[r] \in Tasks
      <4> TAKE r \in Reqs
      <4>1. task[r] \in Tasks
        BY <1>3
      <4>2. \A n \in Int : [task[r] EXCEPT !.chunk = n] \in Tasks
        BY <4>1 DEF Tasks
      <4> QED
        BY <3>3, <4>1, <4>2
    <3> QED
      BY <1>4, <3>1, <3>2, <3>3, <3>4
  <2>2. CASE ~PrefillTurn
    <3>1. batch' = <<>> /\ task' = task
      BY <2>2 DEF Chunk
    <3>2. Elems(batch)' = {} /\ <<>> \in Seq(Reqs)
      BY <3>1, EmptySeq DEF Elems
    <3> QED
      BY <1>3, <3>1, <3>2
  <2> QED
    BY <2>1, <2>2
<1>8. \A r \in Reqs : /\ task'[r].type = task[r].type /\ task'[r].status = task[r].status
                      /\ task'[r].prefix = task[r].prefix /\ task'[r].consumed = task[r].consumed
                      /\ task'[r].next = task[r].next /\ task'[r].numNew = task[r].numNew
                      /\ task'[r].sync = task[r].sync /\ task'[r].gen = task[r].gen
                      /\ args.chunk = NoChunk => task'[r] = task[r]
  <2> TAKE r \in Reqs
  <2>1. task[r] \in Tasks
    BY <1>3
  <2> QED
    BY <1>7, <2>1 DEF Tasks
<1> HIDE DEF ids, chunkOf, size
<1>9. Pooled' = Pooled /\ Awaited' = Awaited
  BY <1>1 DEF Pooled, Awaited, Elems
<1>10. EngineTypes'
  BY <1>1, <1>2, <1>7 DEF EngineTypes, Places
<1>11. QueuedOnce' /\ OneResult' /\ (UsedBlocks <= NumBlocks)'
  BY <1>1 DEF IInv, QueuedOnce, OneResult, UsedBlocks, NumBlocks, Pooled, NoRepeat, Elems, PagesOf
<1>12. Scheduled'
  <2>1. \A r \in Elems(order.prefill) : r \in Pooled /\ r \in Reqs /\ task[r].type = "Prefill"
    BY <1>1, <1>2 DEF Scheduled, OfType, EngineTypes, QueuedOnce, IInv
  <2>2. \A r \in Elems(order.decode) : r \in Pooled /\ r \in Reqs /\ task[r].type = "Decode"
    BY <1>1, <1>2 DEF Scheduled, OfType, EngineTypes, QueuedOnce, IInv
  <2>3. order' = order /\ Elems(order.prefill)' = Elems(order.prefill) /\ Elems(order.decode)' = Elems(order.decode)
    BY <1>1 DEF Elems
  <2>4. OfType(order.prefill, "Prefill")' /\ OfType(order.decode, "Decode")' /\ OfType(batch, "Prefill")'
    BY <1>7, <1>8, <1>9, <2>1, <2>2, <2>3 DEF OfType
  <2>5. NoRepeat(order.decode)'
    BY <1>1, <1>2 DEF Scheduled, NoRepeat
  <2> QED
    BY <1>1, <2>4, <2>5 DEF Scheduled
<1>13. ASSUME NEW r \in Reqs PROVE Account(r)'
  <2> DEFINE w == r \in Awaited
  <2>1. Account(r)
    BY DEF IInv
  <2>2. r \in Pooled => Going(args, r, task'[r], req[r], kvLen[r], w) /\ task'[r].status # "Stopped"
    <3> SUFFICES ASSUME r \in Pooled PROVE Going(args, r, task'[r], req[r], kvLen[r], w) /\ task'[r].status # "Stopped"
      OBVIOUS
    <3>1. Going(args, r, task[r], req[r], kvLen[r], w) /\ task[r].status # "Stopped"
      BY <1>1, NoneStopped
    <3> HIDE DEF w
    <3> QED
      BY <1>8, <3>1 DEF Going, Tallied, Cached, Newest
  <2>3. r \notin Pooled => task'[r] = task[r]
    <3>1. CASE PrefillTurn /\ r \notin Pooled
      <4>1. r \notin Elems(order.prefill)
        BY <1>1, <1>2, <3>1 DEF Scheduled, OfType
      <4>2. ~InSeq(r, ids)
        BY <1>4, <4>1 DEF InSeq, Elems
      <4> QED
        BY <3>1, <4>2 DEF Chunk, ids
    <3>2. CASE ~PrefillTurn
      BY <3>2 DEF Chunk
    <3> QED
      BY <3>1, <3>2
  <2> QED
    BY <1>1, <1>9, <2>1, <2>2, <2>3 DEF Account, Standing, Elems
<1> QED
  BY <1>10, <1>11, <1>12, <1>13 DEF IInv

\* A batch of prompts that fit.
LEMMA SchedulePrefillStep ==
  ASSUME IInv, SchedulePrefill
  PROVE  IInv'
<1>1. /\ pc = "select" /\ pc' = "step" /\ order' = NoOrder /\ batch' = Prefix(PrefillTasks, NumTasks)
      /\ UNCHANGED <<args, submitted, pending, idList, task, req, kvLen, threshold, results>>
  BY DEF SchedulePrefill
<1>2. batch \in Seq(Reqs) /\ OfType(batch, "Prefill")
  BY <1>1 DEF IInv, EngineTypes, Scheduled
<1>3. PrefillTasks \in Seq(Reqs) /\ Elems(PrefillTasks) \subseteq Elems(batch)
  <2> DEFINE target == [r \in Reqs |-> task[r].consumed + NextReqTokensLen(task[r])]
             fits(n) == UsedBlocks + Lacking(Elems(SubSeq(batch, 1, n)), target) <= threshold
             K == {n \in DOMAIN batch : fits(n)}
  <2>1. PrefillTasks = SubSeq(batch, 1, Cardinality(K))
    BY DEF PrefillTasks
  <2>2. K \in SUBSET DOMAIN batch
    OBVIOUS
  <2> HIDE DEF K
  <2> QED
    BY <1>2, <2>1, <2>2, CountedPrefix
<1>4. batch' \in Seq(Reqs) /\ \A x \in Elems(batch)' : x \in Elems(PrefillTasks)
  <2>1. NumTasks \in Int
    BY NumTasksAssumption
  <2> DEFINE s == SubSeq(PrefillTasks, 1, Smaller(NumTasks, Len(PrefillTasks)))
  <2>2. s \in Seq(Reqs) /\ \A x \in Elems(s) : \E i \in DOMAIN PrefillTasks : i <= NumTasks /\ PrefillTasks[i] = x
    BY <1>3, <2>1, ElemsOfSubSeq
  <2>3. batch' = s
    BY <1>1 DEF Prefix
  <2>4. Elems(batch)' = Elems(s)
    BY <2>3 DEF Elems
  <2> HIDE DEF s
  <2> QED
    BY <2>2, <2>3, <2>4 DEF Elems
<1>5. EngineTypes'
  <2>1. <<>> \in Seq(Reqs)
    BY EmptySeq
  <2> QED
    BY <1>1, <1>4, <2>1 DEF IInv, EngineTypes, Places, NoOrder
<1>6. Scheduled'
  <2>1. \A x \in Elems(batch)' : x \in Pooled /\ task[x].type = "Prefill"
    BY <1>2, <1>3, <1>4 DEF OfType
  <2>2. Pooled' = Pooled /\ task' = task
    BY <1>1 DEF Pooled, Elems
  <2>3. OfType(batch, "Prefill")'
    BY <2>1, <2>2 DEF OfType
  <2> QED
    BY <1>1, <2>3 DEF Scheduled
<1>7. /\ \A r \in Reqs : Account(r)'
      /\ QueuedOnce' /\ OneResult' /\ (UsedBlocks <= NumBlocks)'
  BY <1>1, SameAccounts
<1> QED
  BY <1>5, <1>6, <1>7 DEF IInv

\* Exceptions that change nothing else.
LEMMA CrashStep ==
  ASSUME IInv, PrefillTooLarge \/ StepUnderrun
  PROVE  IInv'
<1>1. /\ pc # "update" /\ pc' = "crashed"
      /\ UNCHANGED <<args, submitted, pending, idList, task, req, kvLen, threshold, results, order, batch>>
  BY DEF PrefillTooLarge, StepUnderrun, Crash
<1>2. EngineTypes' /\ Scheduled'
  BY <1>1 DEF IInv, EngineTypes, Places, Scheduled
<1> QED
  BY <1>1, <1>2, SameAccounts DEF IInv

\* Eviction: the accounts of tasks that start over, and the pages they give back.
LEMMA EvictionFacts ==
  ASSUME IInv, pc = "select", NEW e \in Int, e <= Len(order.decode), EvictLast(e),
         UNCHANGED <<args, submitted, pending, idList, req, results>>
  PROVE  /\ \A r \in Reqs : Account(r)'
         /\ QueuedOnce' /\ OneResult' /\ (UsedBlocks <= NumBlocks)'
         /\ task' \in [Reqs -> Tasks] /\ kvLen' \in [Reqs -> Int]
         /\ \A i \in DOMAIN order.decode : i <= Len(order.decode) - e => task'[order.decode[i]] = task[order.decode[i]]
<1> DEFINE gone == {order.decode[i] : i \in Len(order.decode) - e + 1 .. Len(order.decode)}
<1>1. /\ task' = [r \in Reqs |-> IF r \in gone THEN Evicted(task[r]) ELSE task[r]]
      /\ kvLen' = [r \in Reqs |-> IF r \in gone THEN 0 ELSE kvLen[r]]
  BY DEF EvictLast
<1>2. /\ EngineTypes /\ order.decode \in Seq(Reqs) /\ task \in [Reqs -> Tasks]
      /\ kvLen \in [Reqs -> Int] /\ args \in Configs /\ NumBlocks \in Nat
  BY ArgsFacts DEF IInv, EngineTypes
<1>3. OfType(order.decode, "Decode") /\ NoRepeat(order.decode)
  BY DEF IInv, Scheduled
<1>4. DOMAIN order.decode = 1 .. Len(order.decode) /\ Len(order.decode) \in Nat
  BY <1>2, LenProperties
<1>5. \A i \in DOMAIN order.decode : order.decode[i] \in Reqs
  BY <1>2, <1>4, ElementOfSeq
<1>6. ASSUME NEW r \in gone, r \in Reqs, r \in Pooled, NEW w
      PROVE  /\ Evicted(task[r]) \in Tasks /\ Evicted(task[r]).status # "Stopped"
             /\ Going(args, r, task[r], req[r], kvLen[r], w) => Going(args, r, Evicted(task[r]), req[r], 0, w)
  <2> DEFINE t == task[r]
             t2 == Evicted(t)
  <2>1. t \in Tasks /\ NoToken \in Token /\ NoChunk \in Int
    BY <1>2, <1>6 DEF NoToken, Token, NoChunk
  <2>2. t.status # "Stopped"
    BY <1>6, NoneStopped
  <2> HIDE DEF t
  <2>3. t2 = [t EXCEPT !.next = NoToken, !.type = "Prefill", !.chunk = NoChunk, !.consumed = 0]
    BY DEF Evicted
  <2> HIDE DEF t2
  <2>4. t2 \in Tasks
    <3> DEFINE d == [t EXCEPT !.next = NoToken, !.type = "Prefill"]
    <3>1. d \in Tasks
      BY <2>1 DEF Tasks
    <3> DEFINE D(n, c) == [d EXCEPT !.chunk = n, !.consumed = c]
    <3>2. t2 = D(NoChunk, 0)
      BY <2>3
    <3> HIDE DEF d
    <3>3. \A n, c \in Int : D(n, c) \in Tasks
      BY <3>1 DEF Tasks
    <3> HIDE DEF D
    <3> QED
      BY <2>1, <3>2, <3>3
  <2>5. /\ t2.next = NoToken /\ t2.type = "Prefill" /\ t2.chunk = NoChunk /\ t2.consumed = 0
        /\ t2.prefix = t.prefix /\ t2.numNew = t.numNew /\ t2.status = t.status
        /\ t2.sync = t.sync /\ t2.gen = t.gen
    BY <2>1, <2>3 DEF Tasks
  <2>6. ASSUME Going(args, r, t, req[r], kvLen[r], w)
        PROVE  Going(args, r, t2, req[r], 0, w)
    <3>1. Tallied(args, r, t2, req[r], w)
      BY <2>5, <2>6 DEF Going, Tallied
    <3>2. Cached(args, t2, 0)
      BY <2>5 DEF Cached
    <3>3. Newest(args, t2)
      BY <2>5, <2>6 DEF Going, Newest, NoToken
    <3> QED
      BY <2>5, <2>6, <3>1, <3>2, <3>3 DEF Going
  <2> QED
    BY <2>2, <2>4, <2>5, <2>6 DEF t, t2
<1>7. \A r \in gone : r \in Pooled /\ r \in Reqs
  <2> SUFFICES ASSUME NEW i \in Len(order.decode) - e + 1 .. Len(order.decode)
               PROVE  order.decode[i] \in Pooled /\ order.decode[i] \in Reqs
    OBVIOUS
  <2>1. i \in DOMAIN order.decode
    BY <1>4
  <2> QED
    BY <1>3, <1>5, <2>1 DEF OfType, Elems
<1> HIDE DEF gone
<1>8. task' \in [Reqs -> Tasks]
  BY <1>1, <1>2, <1>6, <1>7
<1>9. kvLen' \in [Reqs -> Int]
  BY <1>1, <1>2
<1>10. (UsedBlocks <= NumBlocks)'
  <2>1. UsedBlocks <= NumBlocks
    BY DEF IInv
  <2>2. \A r \in Reqs : kvLen'[r] \in {0, kvLen[r]}
    BY <1>1
  <2>3. Cardinality(PagesOf(Reqs, kvLen')) <= NumBlocks
    BY <1>2, <1>9, <2>1, <2>2, PagesGiven
  <2> QED
    BY <2>3 DEF UsedBlocks, NumBlocks, PagesOf
<1>11. QueuedOnce' /\ OneResult' /\ Pooled' = Pooled /\ Awaited' = Awaited
  BY DEF IInv, QueuedOnce, OneResult, Pooled, Awaited, NoRepeat, Elems
<1>12. ASSUME NEW i \in DOMAIN order.decode, i <= Len(order.decode) - e
       PROVE  task'[order.decode[i]] = task[order.decode[i]]
  <2>1. order.decode[i] \notin gone
    <3> SUFFICES ASSUME NEW j \in Len(order.decode) - e + 1 .. Len(order.decode),
                        order.decode[i] = order.decode[j]
                 PROVE  FALSE
      BY DEF gone
    <3>1. j \in DOMAIN order.decode
      BY <1>4
    <3>2. i = j
      BY <1>3, <3>1 DEF NoRepeat
    <3> QED
      BY <1>4, <1>12, <3>2
  <2> QED
    BY <1>1, <1>5, <2>1
<1>13. ASSUME NEW r \in Reqs PROVE Account(r)'
  <2> DEFINE w == r \in Awaited
  <2>1. Account(r)
    BY DEF IInv
  <2>2. CASE r \in gone
    <3>1. r \in Pooled /\ Going(args, r, task[r], req[r], kvLen[r], w)
      BY <1>7, <2>2, NoneStopped
    <3>2. Going(args, r, task'[r], req[r], kvLen'[r], w) /\ task'[r].status # "Stopped"
      <4>1. task'[r] = Evicted(task[r]) /\ kvLen'[r] = 0
        BY <1>1, <2>2
      <4> HIDE DEF w
      <4>2. /\ Evicted(task[r]).status # "Stopped"
            /\ Going(args, r, Evicted(task[r]), req[r], 0, w)
        BY <1>6, <2>2, <3>1
      <4> QED
        BY <4>1, <4>2
    <3> QED
      BY <1>11, <2>1, <3>1, <3>2 DEF Account, Standing
  <2>3. CASE r \notin gone
    <3>1. task'[r] = task[r] /\ kvLen'[r] = kvLen[r]
      BY <1>1, <2>3
    <3>2. r \in Pooled => task[r].status # "Stopped"
      BY NoneStopped
    <3> QED
      BY <1>11, <2>1, <3>1, <3>2 DEF Account, Standing, Elems
  <2> QED
    BY <2>2, <2>3
<1> QED
  BY <1>8, <1>9, <1>10, <1>11, <1>12, <1>13

\* A batch of decode tasks, after the evictions that make room for it.
LEMMA ScheduleDecodeStep ==
  ASSUME IInv, ScheduleDecode
  PROVE  IInv'
<1>1. /\ pc = "select" /\ pc' = "step" /\ order' = NoOrder
      /\ UNCHANGED <<args, submitted, pending, idList, req, results>>
  BY DEF ScheduleDecode, DecodeTurn
<1>2. PICK e \in 0 .. Larger(1, Len(order.decode)) - 1 :
        /\ EvictLast(e)
        /\ batch' = Prefix(SubSeq(order.decode, 1, Len(order.decode) - e), NumTasks)
  BY DEF ScheduleDecode
<1>3. order.decode \in Seq(Reqs) /\ OfType(order.decode, "Decode")
  BY <1>1 DEF IInv, EngineTypes, Scheduled
<1>4. Len(order.decode) \in Nat /\ DOMAIN order.decode = 1 .. Len(order.decode)
  BY <1>3, LenProperties
<1>5. e \in Int /\ e >= 0 /\ e <= Len(order.decode)
  BY <1>2, <1>4 DEF Larger
<1>6. /\ \A r \in Reqs : Account(r)'
      /\ QueuedOnce' /\ OneResult' /\ (UsedBlocks <= NumBlocks)'
      /\ task' \in [Reqs -> Tasks] /\ kvLen' \in [Reqs -> Int]
      /\ \A i \in DOMAIN order.decode : i <= Len(order.decode) - e => task'[order.decode[i]] = task[order.decode[i]]
  BY <1>1, <1>2, <1>5, EvictionFacts
<1> DEFINE n == Len(order.decode) - e
           kept == SubSeq(order.decode, 1, n)
           s == SubSeq(kept, 1, Smaller(NumTasks, Len(kept)))
<1>7. n \in Int /\ Smaller(n, Len(order.decode)) = n
  BY <1>4, <1>5 DEF Smaller
<1>8. kept \in Seq(Reqs) /\ \A x \in Elems(kept) : \E i \in DOMAIN order.decode : i <= n /\ order.decode[i] = x
  <2> HIDE DEF n
  <2>1. /\ SubSeq(order.decode, 1, Smaller(n, Len(order.decode))) \in Seq(Reqs)
        /\ \A x \in Elems(SubSeq(order.decode, 1, Smaller(n, Len(order.decode)))) :
             \E i \in DOMAIN order.decode : i <= n /\ order.decode[i] = x
    BY <1>3, <1>7, ElemsOfSubSeq
  <2> QED
    BY <1>7, <2>1
<1> HIDE DEF kept
<1>9. s \in Seq(Reqs) /\ \A x \in Elems(s) : \E i \in DOMAIN kept : i <= NumTasks /\ kept[i] = x
  BY <1>8, NumTasksAssumption, ElemsOfSubSeq
<1>10. batch' = s
  BY <1>2 DEF Prefix, kept
<1> HIDE DEF s
<1>11. ASSUME NEW x \in Elems(batch)'
       PROVE  x \in Pooled' /\ task'[x].type = "Decode"
  <2>1. x \in Elems(kept)
    BY <1>9, <1>10, <1>11 DEF Elems
  <2>2. PICK i \in DOMAIN order.decode : i <= n /\ order.decode[i] = x
    BY <1>8, <2>1
  <2>3. x \in Pooled /\ task[x].type = "Decode" /\ task'[x] = task[x]
    BY <1>3, <1>6, <2>2 DEF OfType, Elems
  <2>4. Pooled' = Pooled
    BY <1>1 DEF Pooled, Elems
  <2> QED
    BY <2>3, <2>4
<1>12. EngineTypes'
  <2>1. <<>> \in Seq(Reqs)
    BY EmptySeq
  <2> QED
    BY <1>1, <1>6, <1>9, <1>10, <2>1 DEF IInv, EngineTypes, Places, NoOrder
<1>13. Scheduled'
  BY <1>1, <1>11 DEF Scheduled, OfType
<1> QED
  BY <1>6, <1>12, <1>13 DEF IInv

\* Evictions that did not help, and the exception.
LEMMA DecodeTooLargeStep ==
  ASSUME IInv, DecodeTooLarge
  PROVE  IInv'
<1>1. /\ pc = "select" /\ pc' = "crashed" /\ EvictLast(Len(order.decode) - 1)
      /\ UNCHANGED <<args, submitted, pending, idList, req, results, order, batch>>
  BY DEF DecodeTooLarge, DecodeTurn, Crash
<1>2. order.decode \in Seq(Reqs)
  BY DEF IInv, EngineTypes
<1>3. Len(order.decode) - 1 \in Int /\ Len(order.decode) - 1 <= Len(order.decode)
  BY <1>2, LenProperties
<1>4. /\ \A r \in Reqs : Account(r)'
      /\ QueuedOnce' /\ OneResult' /\ (UsedBlocks <= NumBlocks)'
      /\ task' \in [Reqs -> Tasks] /\ kvLen' \in [Reqs -> Int]
  BY <1>1, <1>3, EvictionFacts
<1>5. EngineTypes'
  BY <1>1, <1>4 DEF IInv, EngineTypes, Places
<1>6. Scheduled'
  BY <1>1 DEF Scheduled
<1> QED
  BY <1>4, <1>5, <1>6 DEF IInv

\* What becomes of the tasks t and the requests q of a batch, request by request: those of
\* it with a token, the others, and the rest; b is its result.
Synced(t, q, all, some, tok, T, Q, b) ==
  /\ T = [r \in Reqs |-> T[r]] /\ Q = [r \in Reqs |-> Q[r]]
  /\ \A r \in some : /\ T[r] = TokenTaken(r, t[r], tok[r])
                     /\ Q[r] = TokenCounted(t[r], q[r], tok[r])
                     /\ r \in DOMAIN b /\ b[r] = tok[r]
  /\ \A r \in all \ some : /\ T[r] = PassedTask(r, t[r]) /\ Q[r] = PassedReq(t[r], q[r])
                           /\ t[r].next = NoToken => r \notin DOMAIN b
  /\ \A r \in Reqs \ all : T[r] = t[r] /\ Q[r] = q[r] /\ r \notin DOMAIN b
  /\ b \in Batches /\ DOMAIN b \subseteq all

\* batch_update_status does that.
LEMMA SyncedFacts ==
  ASSUME NEW t \in [Reqs -> Tasks], NEW q \in [Reqs -> Requests], NEW all \in SUBSET Reqs,
         NEW some \in SUBSET all, NEW tok \in [some -> Token],
         \A r \in some : tok[r] # NoToken
  PROVE  Synced(t, q, all, some, tok, SyncedTasks(t, all, tok), SyncedReqs(q, t, all, tok),
                BatchResult(t, all, tok))
<1> DEFINE T == SyncedTasks(t, all, tok)
           Q == SyncedReqs(q, t, all, tok)
           b == BatchResult(t, all, tok)
           new == Recorded(t, tok)
<1>1. DOMAIN tok = some
  OBVIOUS
<1>2. /\ \A r \in some : new[r] = UpdateResponseNoSync(t[r], tok[r])
      /\ \A r \in Reqs \ some : new[r] = t[r]
  BY <1>1 DEF Recorded
<1>3. \A r \in some : new[r].next = tok[r]
  <2> TAKE r \in some
  <2>1. t[r] \in Tasks
    OBVIOUS
  <2> QED
    BY <1>2, <2>1 DEF UpdateResponseNoSync, Tasks
<1>4. \A r \in Reqs : new[r].next \in Token
  <2> TAKE r \in Reqs
  <2>1. t[r].next \in Token
    BY TaskFields
  <2> QED
    BY <1>2, <1>3, <2>1
<1>5. T = [r \in Reqs |-> T[r]] /\ Q = [r \in Reqs |-> Q[r]]
  BY DEF SyncedTasks, SyncedReqs
<1>6. ASSUME NEW r \in some
      PROVE  /\ T[r] = TokenTaken(r, t[r], tok[r])
             /\ Q[r] = TokenCounted(t[r], q[r], tok[r])
  <2>1. r \in all /\ r \in Reqs /\ r \in DOMAIN tok
    BY <1>1
  <2>2. T[r] = [UpdateDecodeStatus(r, UpdatePrefix(new[r])) EXCEPT !.gen = NoToken]
    BY <2>1 DEF SyncedTasks
  <2>3. new[r] = UpdateResponseNoSync(t[r], tok[r])
    BY <1>2
  <2> DEFINE reason == StopReason(UpdatePrefix(new[r]))
  <2>4. Q[r] = [q[r] EXCEPT !.remain = q[r].remain + 1,
                            !.finish = IF reason = "none" THEN q[r].finish ELSE reason]
    BY <2>1 DEF SyncedReqs
  <2> QED
    BY <2>2, <2>3, <2>4 DEF TokenTaken, TokenCounted, Updated
<1>7. ASSUME NEW r \in all \ some
      PROVE  T[r] = PassedTask(r, t[r]) /\ Q[r] = PassedReq(t[r], q[r])
  <2>1. r \in all /\ r \in Reqs /\ r \notin DOMAIN tok /\ new[r] = t[r]
    BY <1>1, <1>2
  <2>2. T[r] = [UpdateDecodeStatus(r, UpdatePrefix(new[r])) EXCEPT !.gen = @]
    BY <2>1 DEF SyncedTasks
  <2> DEFINE reason == StopReason(UpdatePrefix(new[r]))
  <2>3. Q[r] = [q[r] EXCEPT !.remain = @, !.finish = IF reason = "none" THEN @ ELSE reason]
    BY <2>1 DEF SyncedReqs
  <2> QED
    BY <2>1, <2>2, <2>3 DEF PassedTask, PassedReq
<1>8. \A r \in Reqs \ all : T[r] = t[r] /\ Q[r] = q[r]
  BY DEF SyncedTasks, SyncedReqs
<1>9. b = [r \in {s \in all : new[s].next # NoToken} |-> new[r].next]
  BY DEF BatchResult
<1> HIDE DEF T, Q, b, new
<1>10. b \in Batches /\ DOMAIN b \subseteq all
  <2> DEFINE D == {s \in all : new[s].next # NoToken}
  <2>1. D \in SUBSET Reqs /\ \A r \in D : new[r].next \in Token
    BY <1>4
  <2>2. b = [r \in D |-> new[r].next] /\ D \subseteq all
    BY <1>9
  <2> HIDE DEF D
  <2>3. b \in [D -> Token] /\ DOMAIN b = D
    BY <2>1, <2>2
  <2> QED
    BY <2>1, <2>2, <2>3 DEF Batches
<1>11. \A r \in some : r \in DOMAIN b /\ b[r] = tok[r]
  BY <1>3, <1>9
<1>12. \A r \in all \ some : t[r].next = NoToken => r \notin DOMAIN b
  BY <1>2, <1>9
<1>13. \A r \in Reqs \ all : r \notin DOMAIN b
  BY <1>9
<1> QED
  BY <1>5, <1>6, <1>7, <1>8, <1>10, <1>11, <1>12, <1>13 DEF Synced, T, Q, b

\* What the accounts of a batch are after its step.
Ran(r) ==
  /\ r \in Awaited => Waits(args, r, req[r], results[1][r])
  /\ IF task[r].status = "Stopped"
     THEN Ended(args, r, task[r], req[r], r \in Awaited)
     ELSE Going(args, r, task[r], req[r], kvLen[r], r \in Awaited)

\* A step of a batch concerns its requests only, and those before it whose token it sends.
LEMMA Stepped ==
  ASSUME IInv, pc = "step", pc' = "update",
         UNCHANGED <<args, submitted, pending, idList, threshold, order, batch>>,
         task' \in [Reqs -> Tasks], req' \in [Reqs -> Requests], kvLen' \in [Reqs -> Int],
         results' \in Seq(Batches), OneResult', Awaited' \subseteq Elems(batch),
         (UsedBlocks <= NumBlocks)',
         \A r \in Elems(batch) : Ran(r)',
         \A r \in Reqs \ Elems(batch) :
           task'[r] = task[r] /\ kvLen'[r] = kvLen[r] /\ req'[r] = EmittedReqs(req, results)[r]
  PROVE  IInv'
<1>1. \A r \in Elems(batch) : r \in Pooled /\ r \in Reqs
  BY DEF IInv, Scheduled, OfType, QueuedOnce, EngineTypes
<1>2. Pooled' = Pooled /\ Elems(batch)' = Elems(batch) /\ Elems(pending)' = Elems(pending)
  BY DEF Pooled, Elems
<1>3. EngineTypes'
  BY DEF IInv, EngineTypes, Places
<1>4. QueuedOnce'
  BY DEF IInv, QueuedOnce, Pooled, NoRepeat, Elems
<1>5. Scheduled'
  BY <1>1, <1>2 DEF Scheduled
<1>6. ASSUME NEW r \in Reqs PROVE Account(r)'
  <2>1. CASE r \in Elems(batch)
    BY <1>1, <1>2, <2>1 DEF Ran, Account, Standing
  <2>2. CASE r \notin Elems(batch)
    <3>1. Standing(r, req'[r], FALSE)
      BY <2>2, Emission
    <3>2. (r \in Awaited)' = FALSE
      BY <2>2
    <3>3. r \in Pooled => task[r].status # "Stopped"
      BY NoneStopped
    <3>4. task'[r] = task[r] /\ kvLen'[r] = kvLen[r]
      BY <2>2
    <3>5. Standing(r, req[r], FALSE)'
      BY <1>2, <3>1, <3>3, <3>4 DEF Standing
    <3> QED
      BY <3>2, <3>5 DEF Account
  <2> QED
    BY <2>1, <2>2
<1> QED
  BY <1>3, <1>4, <1>5, <1>6 DEF IInv

\* A step without a batch only sends what waits.
LEMMA StepEmptyStep ==
  ASSUME IInv, StepEmpty
  PROVE  IInv'
<1>1. /\ pc = "step" /\ pc' = "update" /\ batch = <<>>
      /\ req' = EmittedReqs(req, results) /\ results' = Popped(results)
      /\ UNCHANGED <<args, submitted, pending, idList, task, kvLen, threshold, order, batch>>
  BY DEF StepEmpty
<1>2. /\ \A r \in Reqs : Account(r)'
      /\ QueuedOnce' /\ OneResult' /\ (UsedBlocks <= NumBlocks)'
      /\ results' = <<>> /\ req' \in [Reqs -> Requests]
  BY <1>1, SentAccounts
<1>3. Awaited' = {} /\ Elems(batch) = {} /\ results' \in Seq(Batches)
  <2>1. DOMAIN results' = {} /\ DOMAIN batch = {}
    BY <1>1, <1>2
  <2>2. <<>> \in Seq(Batches)
    BY EmptySeq
  <2> QED
    BY <1>2, <2>1, <2>2 DEF Awaited, Elems
<1>4. task' \in [Reqs -> Tasks] /\ kvLen' \in [Reqs -> Int]
  BY <1>1 DEF IInv, EngineTypes
<1> QED
  BY <1>1, <1>2, <1>3, <1>4, Stepped

\* The batch before its step, what waits having been sent.
LEMMA BatchFacts ==
  ASSUME IInv, pc = "step", NEW type, Stepping(type)
  PROVE  /\ batch \in Seq(Reqs) /\ Elems(batch) \in SUBSET Reqs
         /\ EmittedReqs(req, results) \in [Reqs -> Requests] /\ Popped(results) = <<>>
         /\ \A r \in Elems(batch) :
              /\ task[r] \in Tasks /\ task[r].type = type /\ task[r].status # "Stopped"
              /\ Going(args, r, task[r], EmittedReqs(req, results)[r], kvLen[r], FALSE)
<1>1. batch \in Seq(Reqs) /\ task \in [Reqs -> Tasks]
  BY DEF IInv, EngineTypes
<1>2. Head(batch) \in Elems(batch) /\ task[Head(batch)].type = type
  <2>1. batch # <<>> /\ DOMAIN batch = 1 .. Len(batch) /\ Len(batch) \in Nat
    BY <1>1, LenProperties DEF Stepping
  <2>2. Len(batch) # 0
    BY <1>1, <2>1, EmptySeq
  <2>3. 1 \in DOMAIN batch /\ Head(batch) = batch[1]
    BY <2>1, <2>2
  <2> QED
    BY <2>3 DEF Stepping, Elems
<1>3. \A r \in Elems(batch) : r \in Pooled /\ task[r].type = type
  BY <1>2 DEF IInv, Scheduled, OfType
<1>4. \A r \in Elems(batch) : r \in Reqs /\ task[r].status # "Stopped"
  BY <1>3, NoneStopped
<1>5. /\ EmittedReqs(req, results) \in [Reqs -> Requests] /\ Popped(results) = <<>>
      /\ \A r \in Reqs : Standing(r, EmittedReqs(req, results)[r], FALSE)
  BY Emission
<1>6. \A r \in Elems(batch) : Going(args, r, task[r], EmittedReqs(req, results)[r], kvLen[r], FALSE)
  BY <1>3, <1>4, <1>5 DEF Standing
<1>7. \A r \in Elems(batch) : task[r] \in Tasks
  BY <1>1, <1>4
<1> QED
  BY <1>1, <1>3, <1>4, <1>5, <1>6, <1>7

\* One batch of tokens waits in the end.
LEMMA OneBatch ==
  ASSUME NEW b \in Batches, results' = Append(<<>>, b), ~args.overlap, args' = args
  PROVE  /\ results' \in Seq(Batches) /\ OneResult' /\ Awaited' = DOMAIN b /\ results'[1] = b
<1>1. <<>> \in Seq(Batches) /\ Len(<<>>) = 0
  BY EmptySeq
<1>2. results' \in Seq(Batches) /\ Len(results') = 1 /\ results'[1] = b
  BY <1>1, AppendProperties
<1>3. DOMAIN results' = {1}
  BY <1>2, LenProperties
<1>4. Awaited' = DOMAIN b
  BY <1>2, <1>3 DEF Awaited
<1> QED
  BY <1>2, <1>4 DEF OneResult

\* None does.
LEMMA NoBatch ==
  ASSUME results' = <<>>
  PROVE  results' \in Seq(Batches) /\ OneResult' /\ Awaited' = {}
<1>1. <<>> \in Seq(Batches) /\ Len(<<>>) = 0 /\ DOMAIN <<>> = {}
  BY EmptySeq
<1> QED
  BY <1>1 DEF OneResult, Awaited

\* A request after a synchronised token: it goes on with one more token, or has ended.
LEMMA TokenRan ==
  ASSUME args' = args, args \in Configs, NEW r \in Reqs, NEW t \in Tasks, NEW u \in Requests, NEW tok \in Token,
         ~args.overlap, Due(args, r, t, u), tok.pos = t.numNew + 1,
         r \in Awaited', results'[1][r] = tok,
         task'[r] = TokenTaken(r, t, tok), req'[r] = TokenCounted(t, u, tok), kvLen'[r] = t.prefix
  PROVE  task'[r] \in Tasks /\ req'[r] \in Requests /\ Ran(r)'
<1> DEFINE t3 == TokenTaken(r, t, tok)
           u3 == TokenCounted(t, u, tok)
<1>1. Taken(args, r, t, u, tok, t3, u3)
  BY TokenTakenFacts
<1>2. t.numNew \in Nat /\ t.prefix \in Int
  BY TaskFields
<1> HIDE DEF t3, u3
<1>3. t3.status = "Stopped" => Ended(args, r, t3, u3, TRUE)
  BY <1>1 DEF Ended, Taken
<1>4. ASSUME t3.status # "Stopped"
      PROVE  Going(args, r, t3, u3, t.prefix, TRUE)
  <2>1. Cached(args, t3, t.prefix)
    BY <1>1, <1>2 DEF Cached, Taken
  <2>2. Newest(args, t3)
    BY <1>1, <1>2, <1>4 DEF Newest, Taken
  <2>3. args.chunk = NoChunk => t3.chunk = NoChunk
    BY <1>1 DEF Due, Taken
  <2> QED
    BY <1>1, <1>4, <2>1, <2>2, <2>3 DEF Going, Taken
<1>5. (r \in Awaited)' = TRUE
  OBVIOUS
<1>6. task'[r] = t3 /\ req'[r] = u3
  BY DEF t3, u3
<1> QED
  BY <1>1, <1>3, <1>4, <1>5, <1>6 DEF Ran, Taken

\* The arguments of Consumed for a prompt of the batch.
PromptAhead(r) ==
  /\ task[r] \in Tasks /\ task[r].type = "Prefill" /\ task[r].status # "Stopped"
  /\ Going(args, r, task[r], EmittedReqs(req, results)[r], kvLen[r], FALSE)

\* With overlap, a prompt whose last part has run has its first token on the GPU; in the
\* middle of the prompt there is none.
LEMMA PromptRan ==
  ASSUME args' = args, args \in Configs, NEW r \in Reqs, NEW u \in Requests,
         PromptAhead(r), u = EmittedReqs(req, results)[r],
         r \notin Awaited', req'[r] = u, kvLen'[r] = kvLen[r] + NextReqTokensLen(task[r]),
         kvLen[r] \in Int,
         IF HasOutput(task[r])
         THEN /\ args.overlap
              /\ \E g \in Token : /\ g.pos = task[r].prefix - args.promptLen[r] + 1
                                  /\ task'[r] = [ConsumeReqTokens(task[r]) EXCEPT !.gen = g]
         ELSE task'[r] = ConsumeReqTokens(task[r])
  PROVE  task'[r] \in Tasks /\ Ran(r)'
<1> DEFINE t == task[r]
           t2 == ConsumeReqTokens(t)
           k == kvLen[r]
           k2 == k + NextReqTokensLen(t)
<1>1. /\ t \in Tasks /\ t.type = "Prefill" /\ t.status # "Stopped" /\ Going(args, r, t, u, k, FALSE)
  BY DEF PromptAhead
<1>2. args.promptLen[r] \in Nat
  BY ArgsFacts
<1> DEFINE out == HasOutput(t)
<1>3. kvLen'[r] = k2 /\ (out <=> HasOutput(t)) /\ k \in Int
  OBVIOUS
<1>4. /\ ~out => task'[r] = t2
      /\ out => /\ args.overlap
                /\ \E g \in Token : /\ g.pos = t.prefix - args.promptLen[r] + 1
                                    /\ task'[r] = [t2 EXCEPT !.gen = g]
  OBVIOUS
<1>5. (r \in Awaited)' = FALSE
  OBVIOUS
<1> HIDE DEF t, k, out
<1>6. /\ t2 \in Tasks /\ k2 \in Int
      /\ HasOutput(t) <=> LastChunk(t)
      /\ /\ t2.prefix = t.prefix /\ t2.numNew = t.numNew /\ t2.next = t.next
         /\ t2.status = t.status /\ t2.sync = t.sync /\ t2.gen = t.gen
         /\ t2.chunk = NoChunk
      /\ LastChunk(t) => t2.type = "Decode" /\ k2 = t.prefix
      /\ ~LastChunk(t) => t2.type = "Prefill" /\ Going(args, r, t2, u, k2, FALSE)
                          /\ args.chunk # NoChunk
  BY <1>1, <1>3, Consumed
<1> HIDE DEF t2, k2
<1>7. CASE ~out
  <2>1. Going(args, r, task'[r], req'[r], kvLen'[r], FALSE) /\ task'[r].status # "Stopped" /\ task'[r] \in Tasks
    BY <1>1, <1>3, <1>4, <1>6, <1>7
  <2> QED
    BY <1>5, <2>1 DEF Ran
<1>8. CASE out
  <2>1. PICK g \in Token : g.pos = t.prefix - args.promptLen[r] + 1 /\ task'[r] = [t2 EXCEPT !.gen = g]
    BY <1>4, <1>8
  <2> DEFINE t3 == task'[r]
  <2>2. /\ t3 \in Tasks /\ t3.prefix = t2.prefix /\ t3.numNew = t2.numNew /\ t3.next = t2.next
        /\ t3.status = t2.status /\ t3.sync = t2.sync /\ t3.gen = g /\ t3.chunk = t2.chunk
        /\ t3.type = t2.type /\ t3.consumed = t2.consumed
    <3> HIDE DEF t3
    <3>1. t3 = [t2 EXCEPT !.gen = g]
      BY <2>1 DEF t3
    <3> QED
      BY <1>6, <2>1, <3>1 DEF Tasks
  <2> HIDE DEF t3
  <2>3. args.overlap /\ LastChunk(t)
    BY <1>3, <1>4, <1>6, <1>8
  <2>4. Tallied(args, r, t3, u, FALSE)
    BY <1>1, <1>6, <2>2 DEF Going, Tallied
  <2>5. Cached(args, t3, k2)
    BY <1>6, <2>2, <2>3 DEF Cached
  <2>6. Newest(args, t3)
    <3>1. t.prefix = args.promptLen[r] + t.numNew /\ t.numNew \in Nat /\ t.prefix \in Int
      BY <1>1, TaskFields DEF Going, Tallied
    <3> QED
      BY <1>2, <1>6, <2>1, <2>2, <2>3, <3>1 DEF Newest
  <2>7. Going(args, r, t3, u, k2, FALSE)
    BY <1>1, <1>6, <2>2, <2>4, <2>5, <2>6 DEF Going
  <2>8. t3.status # "Stopped"
    BY <1>1, <1>6, <2>2
  <2> QED
    BY <1>3, <1>5, <2>2, <2>7, <2>8 DEF Ran, t3
<1> QED
  BY <1>7, <1>8

\* Without overlap, a prompt whose last part has run has its first token synchronised.
LEMMA PromptSynced ==
  ASSUME args' = args, args \in Configs, NEW r \in Reqs, NEW u \in Requests, NEW tok \in Token,
         PromptAhead(r), u = EmittedReqs(req, results)[r], HasOutput(task[r]), ~args.overlap,
         tok.pos = task[r].prefix - args.promptLen[r] + 1,
         r \in Awaited', results'[1][r] = tok,
         kvLen'[r] = kvLen[r] + NextReqTokensLen(task[r]), kvLen[r] \in Int,
         task'[r] = TokenTaken(r, ConsumeReqTokens(task[r]), tok),
         req'[r] = TokenCounted(ConsumeReqTokens(task[r]), u, tok)
  PROVE  task'[r] \in Tasks /\ req'[r] \in Requests /\ Ran(r)'
<1> DEFINE t == task[r]
           t2 == ConsumeReqTokens(t)
           k == kvLen[r]
           k2 == k + NextReqTokensLen(t)
<1>1. /\ t \in Tasks /\ t.type = "Prefill" /\ t.status # "Stopped" /\ Going(args, r, t, u, k, FALSE)
  BY DEF PromptAhead
<1>2. args.promptLen[r] \in Nat
  BY ArgsFacts
<1>3. kvLen'[r] = k2 /\ HasOutput(t) /\ k \in Int /\ tok.pos = t.prefix - args.promptLen[r] + 1
  OBVIOUS
<1>4. task'[r] = TokenTaken(r, t2, tok) /\ req'[r] = TokenCounted(t2, u, tok)
  OBVIOUS
<1> HIDE DEF t, k
<1>5. /\ t2 \in Tasks /\ k2 \in Int
      /\ HasOutput(t) <=> LastChunk(t)
      /\ /\ t2.prefix = t.prefix /\ t2.numNew = t.numNew /\ t2.next = t.next
         /\ t2.status = t.status /\ t2.sync = t.sync /\ t2.gen = t.gen
         /\ t2.chunk = NoChunk
      /\ LastChunk(t) => t2.type = "Decode" /\ k2 = t.prefix
      /\ ~LastChunk(t) => t2.type = "Prefill" /\ Going(args, r, t2, u, k2, FALSE)
                          /\ args.chunk # NoChunk
  BY <1>1, <1>3, Consumed
<1> HIDE DEF t2, k2
<1>6. t2.type = "Decode" /\ k2 = t2.prefix
  BY <1>3, <1>5
<1>7. t.prefix = args.promptLen[r] + t.numNew /\ t.numNew \in Nat /\ t.prefix \in Int
  BY <1>1, TaskFields DEF Going, Tallied
<1>8. tok.pos = t2.numNew + 1
  BY <1>2, <1>3, <1>5, <1>7
<1>9. Tallied(args, r, t2, u, FALSE)
  BY <1>1, <1>5 DEF Going, Tallied
<1>10. Due(args, r, t2, u)
  BY <1>1, <1>5, <1>6, <1>9 DEF Going, Due
<1>11. kvLen'[r] = t2.prefix
  BY <1>3, <1>6
<1> QED
  BY <1>4, <1>5, <1>8, <1>10, <1>11, TokenRan

\* Without overlap, a prompt in the middle is looked at when another of the batch ends.
LEMMA PromptPassed ==
  ASSUME args' = args, args \in Configs, NEW r \in Reqs, NEW u \in Requests,
         PromptAhead(r), u = EmittedReqs(req, results)[r], ~HasOutput(task[r]), ~args.overlap,
         r \notin Awaited',
         kvLen'[r] = kvLen[r] + NextReqTokensLen(task[r]), kvLen[r] \in Int,
         task'[r] = PassedTask(r, ConsumeReqTokens(task[r])),
         req'[r] = PassedReq(ConsumeReqTokens(task[r]), u)
  PROVE  task'[r] \in Tasks /\ req'[r] \in Requests /\ Ran(r)'
<1> DEFINE t == task[r]
           t2 == ConsumeReqTokens(t)
           k == kvLen[r]
           k2 == k + NextReqTokensLen(t)
<1>1. /\ t \in Tasks /\ t.type = "Prefill" /\ t.status # "Stopped" /\ Going(args, r, t, u, k, FALSE)
  BY DEF PromptAhead
<1>2. kvLen'[r] = k2 /\ ~HasOutput(t) /\ k \in Int
  OBVIOUS
<1>3. task'[r] = PassedTask(r, t2) /\ req'[r] = PassedReq(t2, u)
  OBVIOUS
<1>4. (r \in Awaited)' = FALSE
  OBVIOUS
<1> HIDE DEF t, k
<1>5. /\ t2 \in Tasks /\ k2 \in Int
      /\ HasOutput(t) <=> LastChunk(t)
      /\ t2.status = t.status
      /\ ~LastChunk(t) => t2.type = "Prefill" /\ Going(args, r, t2, u, k2, FALSE)
                          /\ args.chunk # NoChunk
  BY <1>1, <1>2, Consumed
<1> HIDE DEF t2, k2
<1>6. t2.type = "Prefill" /\ t2.status # "Stopped" /\ Going(args, r, t2, u, k2, FALSE) /\ args.chunk # NoChunk
  BY <1>1, <1>2, <1>5
<1> DEFINE t3 == task'[r]
           u3 == req'[r]
<1>7. /\ t3 \in Tasks /\ u3 \in Requests
      /\ t3.status = "Stopped" => Ended(args, r, t3, u3, FALSE)
      /\ t3.status # "Stopped" => Going(args, r, t3, u3, k2, FALSE)
  <2>1. /\ PassedTask(r, t2) \in Tasks /\ PassedReq(t2, u) \in Requests
        /\ PassedTask(r, t2).status = "Stopped" =>
             Ended(args, r, PassedTask(r, t2), PassedReq(t2, u), FALSE)
        /\ PassedTask(r, t2).status # "Stopped" =>
             Going(args, r, PassedTask(r, t2), PassedReq(t2, u), k2, FALSE)
    BY <1>5, <1>6, PassedOver
  <2> QED
    BY <1>3, <2>1
<1> QED
  BY <1>2, <1>4, <1>7 DEF Ran

\* The pages a step takes.
LEMMA StepPages ==
  ASSUME IInv, args' = args, NEW S \in SUBSET Reqs, NEW len \in [Reqs -> Int],
         \A r \in Reqs \ S : len[r] = kvLen[r], Allocates(S, len), kvLen' = len
  PROVE  (UsedBlocks <= NumBlocks)'
<1>1. kvLen \in [Reqs -> Int] /\ UsedBlocks <= NumBlocks /\ NumBlocks \in Nat
  BY ArgsFacts DEF IInv, EngineTypes
<1>2. Cardinality(PagesOf(Reqs, len)) <= NumBlocks
  BY <1>1, PagesTaken
<1> QED
  BY <1>2 DEF UsedBlocks, NumBlocks, PagesOf

\* A prefill step.
LEMMA StepPrefillStep ==
  ASSUME IInv, StepPrefill
  PROVE  IInv'
<1> DEFINE B == Elems(batch)
           q == EmittedReqs(req, results)
           len == [r \in Reqs |-> IF r \in B THEN kvLen[r] + NextReqTokensLen(task[r]) ELSE kvLen[r]]
           outputs == {r \in B : HasOutput(task[r])}
           consumed == [r \in Reqs |-> IF r \in B THEN ConsumeReqTokens(task[r]) ELSE task[r]]
           at == [r \in Reqs |-> task[r].prefix - PromptLen[r] + 1]
<1>1. /\ Stepping("Prefill") /\ pc = "step" /\ pc' = "update" /\ Allocates(B, len) /\ kvLen' = len
      /\ UNCHANGED <<args, submitted, pending, idList, threshold, order, batch>>
  BY DEF StepPrefill, Stepping
<1>2. PICK tok \in Sampled(outputs, at) :
        IF args.overlap
        THEN /\ task' = [r \in Reqs |-> IF r \in outputs THEN [consumed[r] EXCEPT !.gen = tok[r]]
                                                         ELSE consumed[r]]
             /\ req' = q
             /\ results' = Popped(results)
        ELSE IF outputs = {}
        THEN /\ task' = consumed
             /\ req' = q
             /\ results' = Popped(results)
        ELSE /\ task' = SyncedTasks(consumed, B, tok)
             /\ req' = SyncedReqs(q, consumed, B, tok)
             /\ results' = Append(Popped(results), BatchResult(consumed, B, tok))
  BY DEF StepPrefill
<1>3. /\ B \in SUBSET Reqs /\ q \in [Reqs -> Requests] /\ Popped(results) = <<>>
      /\ \A r \in B : /\ task[r] \in Tasks /\ task[r].type = "Prefill" /\ task[r].status # "Stopped"
                      /\ Going(args, r, task[r], q[r], kvLen[r], FALSE)
  <2> HIDE DEF B, q
  <2> QED
    BY <1>1, BatchFacts DEF B, q
<1>4. /\ args \in Configs /\ task \in [Reqs -> Tasks] /\ kvLen \in [Reqs -> Int]
      /\ args.overlap \in BOOLEAN
  BY ArgsFacts DEF IInv, EngineTypes
<1>5. \A r \in Reqs : at[r] = task[r].prefix - args.promptLen[r] + 1
  BY DEF PromptLen
<1>6. /\ tok \in [outputs -> Token]
      /\ \A r \in outputs : tok[r].pos = task[r].prefix - args.promptLen[r] + 1 /\ tok[r] # NoToken
  <2>1. PICK E \in SUBSET (outputs \cap StopWithEos) :
          tok = [r \in outputs |-> [pos |-> at[r], eos |-> r \in E]]
    BY <1>2 DEF Sampled
  <2>2. \A r \in outputs : at[r] \in Nat /\ at[r] > 0
    <3> TAKE r \in outputs
    <3>1. r \in B /\ r \in Reqs
      BY <1>3
    <3>2. task[r].prefix = args.promptLen[r] + task[r].numNew
      BY <1>3, <3>1 DEF Going, Tallied
    <3>3. task[r].numNew \in Nat /\ args.promptLen[r] \in Nat
      BY <1>3, <1>4, <3>1, TaskFields, ArgsFacts
    <3>4. at[r] = task[r].numNew + 1
      BY <1>5, <3>1, <3>2, <3>3
    <3> HIDE DEF at
    <3> QED
      BY <3>3, <3>4
  <2> HIDE DEF outputs, at
  <2>3. \A r \in outputs : [pos |-> at[r], eos |-> r \in E] \in Token
    BY <2>2 DEF Token
  <2>4. \A r \in outputs : tok[r] = [pos |-> at[r], eos |-> r \in E]
    BY <2>1
  <2>5. tok \in [outputs -> Token]
    BY <2>1, <2>3
  <2>6. \A r \in outputs : tok[r].pos = at[r] /\ tok[r] # NoToken
    <3> TAKE r \in outputs
    <3>1. at[r] \in Nat /\ at[r] > 0
      BY <2>2
    <3>2. at[r] # 0
      BY <3>1
    <3>3. tok[r].pos = at[r]
      <4> DEFINE e == r \in E
      <4>1. tok[r] = [pos |-> at[r], eos |-> e]
        BY <2>4
      <4> HIDE DEF e
      <4> QED
        BY <4>1
    <3>4. tok[r].pos # NoToken.pos
      BY <3>2, <3>3 DEF NoToken
    <3> QED
      BY <3>3, <3>4
  <2>7. outputs \subseteq Reqs
    BY <1>3 DEF outputs
  <2> QED
    BY <1>5, <2>5, <2>6, <2>7
<1>7. \A r \in B : NextReqTokensLen(task[r]) \in Int
  <2> TAKE r \in B
  <2> DEFINE t == task[r]
  <2>1. t \in Tasks
    BY <1>3
  <2> HIDE DEF t
  <2>2. t.prefix \in Int /\ t.consumed \in Int /\ t.chunk \in Int
    BY <2>1, TaskFields
  <2> QED
    BY <2>2 DEF NextReqTokensLen, PrefixTokensLen, t
<1>8. len \in [Reqs -> Int] /\ \A r \in Reqs \ B : len[r] = kvLen[r]
  BY <1>3, <1>4, <1>7
<1>9. (UsedBlocks <= NumBlocks)'
  <2> HIDE DEF len, B
  <2> QED
    BY <1>1, <1>3, <1>8, StepPages
<1>10. \A r \in B : PromptAhead(r)
  BY <1>3 DEF PromptAhead
<1>11. \A r \in B : consumed[r] = ConsumeReqTokens(task[r]) /\ kvLen'[r] = kvLen[r] + NextReqTokensLen(task[r])
  BY <1>1, <1>3
<1>12. \A r \in Reqs \ B : consumed[r] = task[r] /\ kvLen'[r] = kvLen[r]
  BY <1>1
<1>13. outputs \subseteq B /\ \A r \in B : r \in outputs <=> HasOutput(task[r])
  OBVIOUS
<1>14. \A r \in Reqs : q[r] \in Requests /\ kvLen[r] \in Int
  BY <1>3, <1>4
<1>15. consumed = [r \in Reqs |-> consumed[r]]
  OBVIOUS
<1> HIDE DEF len, consumed, outputs, at
<1>16. CASE args.overlap \/ outputs = {}
  <2>1. /\ req' = q /\ results' = <<>>
        /\ task' = [r \in Reqs |-> IF r \in outputs THEN [consumed[r] EXCEPT !.gen = tok[r]]
                                                    ELSE consumed[r]]
    <3>1. CASE args.overlap
      BY <1>2, <1>3, <3>1
    <3>2. CASE ~args.overlap /\ outputs = {}
      BY <1>2, <1>3, <1>15, <3>2
    <3> QED
      BY <1>16, <3>1, <3>2
  <2>2. results' \in Seq(Batches) /\ OneResult' /\ Awaited' = {}
    BY <2>1, NoBatch
  <2>3. ASSUME NEW r \in B
        PROVE  task'[r] \in Tasks /\ Ran(r)'
    <3>1. r \in Reqs /\ r \notin Awaited' /\ req'[r] = q[r] /\ q[r] \in Requests
      BY <1>3, <1>14, <2>1, <2>2
    <3>2. PromptAhead(r) /\ kvLen[r] \in Int
      BY <1>10, <1>14, <3>1
    <3>3. IF HasOutput(task[r])
          THEN /\ args.overlap
               /\ \E g \in Token : /\ g.pos = task[r].prefix - args.promptLen[r] + 1
                                   /\ task'[r] = [ConsumeReqTokens(task[r]) EXCEPT !.gen = g]
          ELSE task'[r] = ConsumeReqTokens(task[r])
      <4>1. CASE HasOutput(task[r])
        <5>1. r \in outputs
          BY <1>13, <4>1
        <5>2. tok[r] \in Token /\ tok[r].pos = task[r].prefix - args.promptLen[r] + 1
          BY <1>6, <5>1
        <5>3. task'[r] = [ConsumeReqTokens(task[r]) EXCEPT !.gen = tok[r]]
          BY <1>11, <2>1, <3>1, <5>1
        <5>4. args.overlap
          BY <1>16, <5>1
        <5> QED
          BY <4>1, <5>2, <5>3, <5>4
      <4>2. CASE ~HasOutput(task[r])
        <5>1. r \notin outputs
          BY <1>13, <4>2
        <5> QED
          BY <1>11, <2>1, <3>1, <4>2, <5>1
      <4> QED
        BY <4>1, <4>2
    <3>4. kvLen'[r] = kvLen[r] + NextReqTokensLen(task[r]) /\ args' = args
      BY <1>1, <1>11
    <3> HIDE DEF q, B
    <3> QED
      BY <1>4, <3>1, <3>2, <3>3, <3>4, PromptRan DEF q
  <2>4. \A r \in Reqs \ B : task'[r] = task[r] /\ kvLen'[r] = kvLen[r] /\ req'[r] = q[r]
    BY <1>12, <1>13, <2>1
  <2>5. task' \in [Reqs -> Tasks]
    <3>1. \A r \in Reqs : task'[r] \in Tasks
      BY <1>4, <2>3, <2>4
    <3> QED
      BY <2>1, <3>1
  <2>6. req' \in [Reqs -> Requests] /\ kvLen' \in [Reqs -> Int]
    BY <1>1, <1>3, <1>8, <2>1
  <2>7. \A r \in B : Ran(r)'
    BY <2>3
  <2>8. Awaited' \subseteq B
    BY <2>2
  <2> QED
    BY <1>1, <1>9, <2>2, <2>4, <2>5, <2>6, <2>7, <2>8, Stepped
<1>17. CASE ~args.overlap /\ outputs # {}
  <2> DEFINE b == BatchResult(consumed, B, tok)
  <2>1. /\ task' = SyncedTasks(consumed, B, tok)
        /\ req' = SyncedReqs(q, consumed, B, tok)
        /\ results' = Append(<<>>, b)
    BY <1>2, <1>3, <1>17
  <2>2. consumed \in [Reqs -> Tasks]
    <3>1. ASSUME NEW r \in B PROVE consumed[r] \in Tasks
      <4>1. r \in Reqs /\ args.chunk \in Nat /\ kvLen[r] \in Int
        BY <1>3, <1>4, ArgsFacts
      <4>2. ConsumeReqTokens(task[r]) \in Tasks
        <5> HIDE DEF q
        <5> QED
          BY <1>3, <1>4, <1>14, <4>1, Consumed
      <4> QED
        BY <1>11, <4>2
    <3>2. \A r \in Reqs : consumed[r] \in Tasks
      BY <1>4, <1>12, <3>1
    <3> QED
      BY <1>15, <3>2
  <2>3. outputs \in SUBSET B /\ \A r \in outputs : tok[r] # NoToken
    BY <1>6, <1>13
  <2> HIDE DEF q, B, b
  <2>4. Synced(consumed, q, B, outputs, tok, task', req', b)
    <3>1. Synced(consumed, q, B, outputs, tok, SyncedTasks(consumed, B, tok),
                 SyncedReqs(q, consumed, B, tok), BatchResult(consumed, B, tok))
      BY <1>3, <1>6, <2>2, <2>3, SyncedFacts
    <3> QED
      BY <2>1, <3>1 DEF b
  <2>5. results' \in Seq(Batches) /\ OneResult' /\ Awaited' = DOMAIN b /\ results'[1] = b
    BY <1>1, <1>17, <2>1, <2>4, OneBatch DEF Synced
  <2>6. ASSUME NEW r \in B
        PROVE  task'[r] \in Tasks /\ req'[r] \in Requests /\ Ran(r)'
    <3>1. r \in Reqs /\ PromptAhead(r) /\ kvLen[r] \in Int /\ q[r] \in Requests
      BY <1>3, <1>10, <1>14
    <3>2. kvLen'[r] = kvLen[r] + NextReqTokensLen(task[r]) /\ args' = args
      BY <1>1, <1>11
    <3>3. CASE r \in outputs
      <4>1. /\ tok[r] \in Token /\ tok[r].pos = task[r].prefix - args.promptLen[r] + 1
            /\ HasOutput(task[r]) /\ r \in Awaited' /\ results'[1][r] = tok[r]
        BY <1>6, <1>13, <2>4, <2>5, <3>3 DEF Synced
      <4>2. /\ task'[r] = TokenTaken(r, ConsumeReqTokens(task[r]), tok[r])
            /\ req'[r] = TokenCounted(ConsumeReqTokens(task[r]), q[r], tok[r])
        BY <1>11, <2>4, <3>3 DEF Synced
      <4>3. task'[r] \in Tasks /\ req'[r] \in Requests /\ Ran(r)'
        BY <1>4, <1>17, <3>1, <3>2, <4>1, <4>2, PromptSynced DEF q
      <4> QED
        BY <4>3
    <3>4. CASE r \notin outputs
      <4>1. ~HasOutput(task[r])
        BY <1>13, <3>4
      <4>2. /\ task'[r] = PassedTask(r, ConsumeReqTokens(task[r]))
            /\ req'[r] = PassedReq(ConsumeReqTokens(task[r]), q[r])
        BY <1>11, <2>4, <3>4 DEF Synced
      <4>3. r \notin Awaited'
        <5>1. ConsumeReqTokens(task[r]).next = task[r].next
          BY <1>3, <1>4, <3>1, Consumed
        <5>2. task[r].next = NoToken
          BY <1>3, <1>17 DEF Going, Newest
        <5> QED
          BY <1>11, <2>4, <2>5, <3>4, <5>1, <5>2 DEF Synced
      <4> QED
        BY <1>4, <1>17, <3>1, <3>2, <4>1, <4>2, <4>3, PromptPassed DEF q
    <3> QED
      BY <3>3, <3>4
  <2>7. \A r \in Reqs \ B : task'[r] = task[r] /\ kvLen'[r] = kvLen[r] /\ req'[r] = q[r]
    BY <1>12, <2>4 DEF Synced
  <2>8. task' \in [Reqs -> Tasks] /\ req' \in [Reqs -> Requests]
    <3>1. \A r \in Reqs : task'[r] \in Tasks /\ req'[r] \in Requests
      BY <1>3, <1>4, <2>6, <2>7
    <3> QED
      BY <2>4, <3>1 DEF Synced
  <2>9. kvLen' \in [Reqs -> Int] /\ Awaited' \subseteq B /\ \A r \in B : Ran(r)'
    BY <1>1, <1>8, <2>4, <2>5, <2>6 DEF Synced
  <2> QED
    BY <1>1, <1>9, <2>5, <2>7, <2>8, <2>9, Stepped DEF B, q
<1> QED
  BY <1>4, <1>16, <1>17

\* Sampled tokens are tokens, at the places asked for.
LEMMA SampledFacts ==
  ASSUME NEW S \in SUBSET Reqs, NEW at, \A r \in S : at[r] \in Nat \ {0}, NEW tok \in Sampled(S, at)
  PROVE  tok \in [S -> Token] /\ \A r \in S : tok[r].pos = at[r] /\ tok[r] # NoToken
<1>1. PICK E \in SUBSET (S \cap StopWithEos) : tok = [r \in S |-> [pos |-> at[r], eos |-> r \in E]]
  BY DEF Sampled
<1>2. ASSUME NEW r \in S
      PROVE  tok[r] \in Token /\ tok[r].pos = at[r] /\ tok[r] # NoToken
  <2> DEFINE e == r \in E
  <2>1. tok[r] = [pos |-> at[r], eos |-> e]
    BY <1>1
  <2>2. e \in BOOLEAN /\ at[r] \in Nat /\ at[r] # 0
    OBVIOUS
  <2> HIDE DEF e
  <2>3. tok[r] \in Token /\ tok[r].pos = at[r]
    BY <2>1, <2>2 DEF Token
  <2>4. NoToken.pos = 0
    BY DEF NoToken
  <2> QED
    BY <2>2, <2>3, <2>4
<1>3. tok = [r \in S |-> tok[r]]
  BY <1>1
<1> QED
  BY <1>2, <1>3

\* A decode step without overlap.
LEMMA StepDecodeStep ==
  ASSUME IInv, StepDecode
  PROVE  IInv'
<1> DEFINE B == Elems(batch)
           q == EmittedReqs(req, results)
           len == [r \in Reqs |-> IF r \in B THEN kvLen[r] + 1 ELSE kvLen[r]]
           ran == [r \in Reqs |-> IF r \in B THEN [task[r] EXCEPT !.sync = FALSE] ELSE task[r]]
           at == [r \in Reqs |-> task[r].next.pos + 1]
<1>1. /\ Stepping("Decode") /\ pc = "step" /\ pc' = "update" /\ Allocates(B, len) /\ kvLen' = len
      /\ ~args.overlap
      /\ UNCHANGED <<args, submitted, pending, idList, threshold, order, batch>>
  BY DEF StepDecode, Stepping
<1>2. PICK tok \in Sampled(B, at) :
        /\ task' = SyncedTasks(ran, B, tok)
        /\ req' = SyncedReqs(q, ran, B, tok)
        /\ results' = Append(Popped(results), BatchResult(ran, B, tok))
  BY DEF StepDecode
<1>3. /\ B \in SUBSET Reqs /\ q \in [Reqs -> Requests] /\ Popped(results) = <<>>
      /\ \A r \in B : /\ task[r] \in Tasks /\ task[r].type = "Decode" /\ task[r].status # "Stopped"
                      /\ Going(args, r, task[r], q[r], kvLen[r], FALSE)
  <2> HIDE DEF B, q
  <2> QED
    BY <1>1, BatchFacts DEF B, q
<1>4. args \in Configs /\ task \in [Reqs -> Tasks] /\ kvLen \in [Reqs -> Int]
  BY DEF IInv, EngineTypes
<1>5. ASSUME NEW r \in B
      PROVE  /\ ran[r] \in Tasks /\ Due(args, r, ran[r], q[r]) /\ ran[r].numNew = task[r].numNew
             /\ ran[r].prefix = kvLen[r] + 1
             /\ at[r] = task[r].numNew + 1
  <2> DEFINE t == task[r]
             t2 == ran[r]
             u == q[r]
             k == kvLen[r]
  <2>1. t2 = [t EXCEPT !.sync = FALSE]
    BY <1>3
  <2>2. t \in Tasks /\ t.type = "Decode" /\ t.status # "Stopped" /\ Going(args, r, t, u, k, FALSE)
    BY <1>3
  <2>3. at[r] = t.next.pos + 1 /\ k \in Int
    BY <1>3, <1>4
  <2> HIDE DEF t, t2, u, k, at
  <2>4. /\ t2 \in Tasks /\ t2.type = t.type /\ t2.prefix = t.prefix /\ t2.numNew = t.numNew
        /\ t2.status = t.status /\ t2.chunk = t.chunk
    BY <2>1, <2>2 DEF Tasks
  <2>5. Tallied(args, r, t2, u, FALSE)
    BY <2>2, <2>4 DEF Going, Tallied
  <2>6. Due(args, r, t2, u)
    BY <2>2, <2>4, <2>5 DEF Going, Due
  <2>7. t.next.pos = t.numNew /\ k = t.prefix - 1 /\ t.prefix \in Int
    BY <1>1, <2>2, TaskFields DEF Going, Newest, Cached
  <2>8. t2.prefix = k + 1 /\ at[r] = t.numNew + 1
    BY <2>3, <2>4, <2>7
  <2> QED
    BY <2>4, <2>6, <2>8 DEF t, t2, u, k
<1>6. /\ tok \in [B -> Token]
      /\ \A r \in B : tok[r].pos = task[r].numNew + 1 /\ tok[r] # NoToken
  <2>1. \A r \in B : at[r] = task[r].numNew + 1 /\ at[r] \in Nat \ {0}
    <3> TAKE r \in B
    <3>1. at[r] = task[r].numNew + 1
      BY <1>5
    <3>2. task[r].numNew \in Nat
      BY <1>3, TaskFields
    <3> HIDE DEF at
    <3> QED
      BY <3>1, <3>2
  <2> HIDE DEF at, B
  <2>2. tok \in [B -> Token] /\ \A r \in B : tok[r].pos = at[r] /\ tok[r] # NoToken
    BY <1>2, <1>3, <2>1, SampledFacts
  <2> QED
    BY <2>1, <2>2
<1>7. len \in [Reqs -> Int] /\ \A r \in Reqs \ B : len[r] = kvLen[r]
  BY <1>3, <1>4
<1>8. (UsedBlocks <= NumBlocks)'
  <2> HIDE DEF len, B
  <2> QED
    BY <1>1, <1>3, <1>7, StepPages
<1>9. /\ \A r \in B : kvLen'[r] = kvLen[r] + 1
      /\ \A r \in Reqs \ B : kvLen'[r] = kvLen[r] /\ ran[r] = task[r]
  BY <1>1, <1>3
<1>10. ran \in [Reqs -> Tasks]
  BY <1>4, <1>5
<1> DEFINE b == BatchResult(ran, B, tok)
<1> HIDE DEF len, ran, at, B, q, b
<1>11. results' = Append(<<>>, b)
  BY <1>2, <1>3 DEF b
<1>12. Synced(ran, q, B, B, tok, task', req', b)
  <2>1. Synced(ran, q, B, B, tok, SyncedTasks(ran, B, tok), SyncedReqs(q, ran, B, tok),
               BatchResult(ran, B, tok))
    BY <1>3, <1>6, <1>10, SyncedFacts
  <2> QED
    BY <1>2, <2>1 DEF b
<1>13. results' \in Seq(Batches) /\ OneResult' /\ Awaited' = DOMAIN b /\ results'[1] = b
  BY <1>1, <1>11, <1>12, OneBatch DEF Synced
<1>14. ASSUME NEW r \in B
       PROVE  task'[r] \in Tasks /\ req'[r] \in Requests /\ Ran(r)'
  <2>1. r \in Reqs /\ q[r] \in Requests /\ ran[r] \in Tasks /\ Due(args, r, ran[r], q[r])
    BY <1>3, <1>5
  <2>2. tok[r] \in Token /\ tok[r].pos = ran[r].numNew + 1
    BY <1>5, <1>6
  <2>3. r \in Awaited' /\ results'[1][r] = tok[r]
    BY <1>12, <1>13 DEF Synced
  <2>4. task'[r] = TokenTaken(r, ran[r], tok[r]) /\ req'[r] = TokenCounted(ran[r], q[r], tok[r])
    BY <1>12 DEF Synced
  <2>5. kvLen'[r] = ran[r].prefix
    BY <1>5, <1>9
  <2> QED
    BY <1>1, <1>4, <2>1, <2>2, <2>3, <2>4, <2>5, TokenRan
<1>15. \A r \in Reqs \ B : task'[r] = task[r] /\ kvLen'[r] = kvLen[r] /\ req'[r] = q[r]
  BY <1>9, <1>12 DEF Synced
<1>16. task' \in [Reqs -> Tasks] /\ req' \in [Reqs -> Requests]
  <2>1. \A r \in Reqs : task'[r] \in Tasks /\ req'[r] \in Requests
    BY <1>3, <1>4, <1>14, <1>15
  <2> QED
    BY <1>12, <2>1 DEF Synced
<1>17. kvLen' \in [Reqs -> Int] /\ Awaited' \subseteq B /\ \A r \in B : Ran(r)'
  BY <1>1, <1>7, <1>12, <1>13, <1>14 DEF Synced
<1> QED
  BY <1>1, <1>8, <1>13, <1>15, <1>16, <1>17, Stepped DEF B, q

\* The token of task t that waited on the GPU is taken, and unless the task is at its limit
\* another sampled.
Refilled(r, t, k) ==
  IF t.status = "Normal"
  THEN /\ kvLen'[r] = k + 1
       /\ \E g \in Token : /\ g.pos = TokenTaken(r, t, t.gen).next.pos + 1
                           /\ task'[r] = [TokenTaken(r, t, t.gen) EXCEPT !.sync = FALSE, !.gen = g]
  ELSE task'[r] = TokenTaken(r, t, t.gen)

\* A request that decodes with overlap: the token of the step before is synchronised and
\* sent, and if the task was short of its limit the next is on the GPU.
LEMMA OverlapRan ==
  ASSUME args' = args, args \in Configs, NEW r \in Reqs, NEW t \in Tasks, NEW u \in Requests, args.overlap,
         NEW k \in Int, t.type = "Decode", t.status # "Stopped", Going(args, r, t, u, k, FALSE),
         r \notin Awaited', req'[r] = AddData(TokenCounted(t, u, t.gen), t.gen),
         Refilled(r, t, k)
  PROVE  task'[r] \in Tasks /\ req'[r] \in Requests /\ Ran(r)'
<1> DEFINE tok == t.gen
           t3 == TokenTaken(r, t, tok)
           u3 == TokenCounted(t, u, tok)
           u4 == AddData(u3, tok)
           t4 == task'[r]
<1>1. tok \in Token /\ t.numNew \in Nat /\ t.prefix \in Int /\ t.status \in {"Normal", "WillStopLength"}
  BY TaskFields
<1>2. Due(args, r, t, u)
  BY DEF Going, Due
<1>3. tok.pos = t.numNew + 1 /\ k = t.prefix
  BY DEF Going, Newest, Cached
<1>4. (r \in Awaited)' = FALSE
  OBVIOUS
<1>5. /\ t.status = "Normal" => \E g \in Token : /\ g.pos = t3.next.pos + 1
                                                 /\ t4 = [t3 EXCEPT !.sync = FALSE, !.gen = g]
      /\ t.status # "Normal" => t4 = t3
  BY DEF Refilled
<1>6. t.status = "Normal" => kvLen'[r] = k + 1
  BY DEF Refilled
<1>7. req'[r] = u4
  OBVIOUS
<1> HIDE DEF tok, t3, u3, t4
<1>8. Taken(args, r, t, u, tok, t3, u3)
  BY <1>1, <1>2, <1>3, TokenTakenFacts DEF t3, u3
<1>9. t3 \in Tasks /\ u3 \in Requests /\ Waits(args, r, u3, tok) /\ t3.type = "Decode"
  BY <1>8 DEF Taken
<1>10. u4 \in Requests
  BY <1>1, <1>9, AddDataFacts
<1> HIDE DEF u4
<1>11. /\ t4 \in Tasks /\ t4.type = t3.type /\ t4.prefix = t3.prefix /\ t4.numNew = t3.numNew
       /\ t4.status = t3.status /\ t4.chunk = t3.chunk
       /\ t.status = "Normal" => t4.gen.pos = t3.next.pos + 1
  <2>1. CASE t.status = "Normal"
    <3>1. PICK g \in Token : g.pos = t3.next.pos + 1 /\ t4 = [t3 EXCEPT !.sync = FALSE, !.gen = g]
      BY <1>5, <2>1
    <3> QED
      BY <1>9, <3>1 DEF Tasks
  <2>2. CASE t.status # "Normal"
    BY <1>5, <1>9, <2>2
  <2> QED
    BY <2>1, <2>2
<1>12. Tallied(args, r, t4, u3, TRUE)
  BY <1>8, <1>11 DEF Taken, Tallied
<1>13. CASE t4.status = "Stopped"
  <2>1. Ended(args, r, t4, u3, TRUE)
    BY <1>8, <1>11, <1>12, <1>13 DEF Taken, Ended
  <2>2. Ended(args, r, t4, u4, FALSE)
    BY <1>1, <1>9, <1>11, <2>1, Delivered DEF u4
  <2> QED
    BY <1>4, <1>10, <1>11, <1>13, <1>7, <2>2 DEF Ran, t4
<1>14. CASE t4.status # "Stopped"
  <2>1. t.status = "Normal"
    BY <1>1, <1>8, <1>11, <1>14 DEF Taken
  <2>2. kvLen'[r] = k + 1 /\ k + 1 \in Int
    BY <1>6, <2>1
  <2>3. Cached(args, t4, k + 1)
    BY <1>3, <1>8, <1>9, <1>11 DEF Cached, Taken
  <2>4. Newest(args, t4)
    <3>1. t3.next = tok /\ t3.numNew = t.numNew + 1
      BY <1>8 DEF Taken
    <3>2. t4.gen.pos = t4.numNew + 1
      BY <1>3, <1>11, <2>1, <3>1
    <3> QED
      BY <3>2 DEF Newest
  <2>5. args.chunk = NoChunk => t4.chunk = NoChunk
    BY <1>2, <1>8, <1>11 DEF Due, Taken
  <2>6. Going(args, r, t4, u3, k + 1, TRUE)
    BY <1>8, <1>11, <1>12, <1>14, <2>3, <2>4, <2>5 DEF Going, Taken
  <2>7. Going(args, r, t4, u4, k + 1, FALSE)
    BY <1>1, <1>9, <1>11, <2>2, <2>6, Delivered DEF u4
  <2> QED
    BY <1>4, <1>10, <1>11, <1>14, <1>7, <2>2, <2>7 DEF Ran, t4
<1> QED
  BY <1>13, <1>14

\* The stream of r is left alone, or handed a token that waited.
KeptStream(r) == req'[r].out = req[r].out /\ req'[r].closed = req[r].closed

Handed(r) ==
  \E u \in Requests, tok \in Token :
    /\ u.out = req[r].out /\ u.closed = req[r].closed
    /\ Waits(args, r, u, tok)
    /\ req'[r].out = AddData(u, tok).out /\ req'[r].closed = AddData(u, tok).closed

\* A decode step with overlap, which hands out the tokens of the step before.
LEMMA StepDecodeOverlapStep ==
  ASSUME IInv, StepDecodeOverlap
  PROVE  IInv' /\ \A r \in Reqs : KeptStream(r) \/ Handed(r)
<1> DEFINE B == Elems(batch)
           R == Running
           last == [r \in B |-> task[r].gen]
           synced == SyncedTasks(task, B, last)
           S == SyncedReqs(req, task, B, last)
           b == BatchResult(task, B, last)
           len == [r \in Reqs |-> IF r \in R THEN kvLen[r] + 1 ELSE kvLen[r]]
           at == [r \in Reqs |-> synced[r].next.pos + 1]
           pushed == Append(results, b)
<1>1. /\ Stepping("Decode") /\ pc = "step" /\ pc' = "update" /\ Allocates(R, len) /\ kvLen' = len
      /\ args.overlap
      /\ UNCHANGED <<args, submitted, pending, idList, threshold, order, batch>>
      /\ req' = EmittedReqs(S, pushed) /\ results' = Popped(pushed)
  BY DEF StepDecodeOverlap, Stepping
<1>2. PICK tok \in Sampled(R, at) :
        task' = [r \in Reqs |-> IF r \in R THEN [synced[r] EXCEPT !.sync = FALSE, !.gen = tok[r]]
                                           ELSE synced[r]]
  BY DEF StepDecodeOverlap
<1>3. /\ args \in Configs /\ task \in [Reqs -> Tasks] /\ kvLen \in [Reqs -> Int]
      /\ req \in [Reqs -> Requests] /\ results = <<>>
  BY <1>1 DEF IInv, EngineTypes, OneResult
<1>4. EmittedReqs(req, results) = req
  BY <1>3 DEF EmittedReqs
<1>5. /\ B \in SUBSET Reqs
      /\ \A r \in B : /\ task[r] \in Tasks /\ task[r].type = "Decode" /\ task[r].status # "Stopped"
                      /\ Going(args, r, task[r], req[r], kvLen[r], FALSE)
  <2> HIDE DEF B
  <2> QED
    BY <1>1, <1>4, BatchFacts DEF B
<1>6. \A r \in B : r \in R <=> task[r].status = "Normal"
  BY <1>1 DEF Running, HasModelRun
<1>7. R \subseteq B
  BY DEF Running
<1>8. \A r \in B : task[r].gen.pos = task[r].numNew + 1 /\ task[r].numNew \in Nat /\ task[r].gen \in Token
  BY <1>1, <1>5, TaskFields DEF Going, Newest
<1>9. last \in [B -> Token] /\ \A r \in B : last[r] = task[r].gen /\ last[r] # NoToken
  <2>1. \A r \in B : task[r].gen.pos # NoToken.pos
    <3> TAKE r \in B
    <3>1. task[r].gen.pos = task[r].numNew + 1 /\ task[r].numNew \in Nat
      BY <1>8
    <3>2. NoToken.pos = 0
      BY DEF NoToken
    <3> QED
      BY <3>1, <3>2
  <2> QED
    BY <1>8, <2>1
<1>10. len \in [Reqs -> Int] /\ \A r \in Reqs \ R : len[r] = kvLen[r]
  BY <1>3
<1>11. R \in SUBSET Reqs
  BY <1>5, <1>7
<1>12. (UsedBlocks <= NumBlocks)'
  <2> HIDE DEF len, R
  <2> QED
    BY <1>1, <1>10, <1>11, StepPages
<1>13. /\ \A r \in R : kvLen'[r] = kvLen[r] + 1
       /\ \A r \in Reqs \ R : kvLen'[r] = kvLen[r]
  BY <1>1, <1>11
<1>14. \A r \in Reqs : at[r] = synced[r].next.pos + 1
  BY DEF at
<1> HIDE DEF B, R, last, len, b, S, synced, at
<1>15. Synced(task, req, B, B, last, synced, S, b)
  BY <1>3, <1>5, <1>9, SyncedFacts DEF synced, S, b
<1>16. /\ Popped(pushed) = <<>>
       /\ EmittedReqs(S, pushed) = [r \in Reqs |-> IF r \in DOMAIN b THEN AddData(S[r], b[r]) ELSE S[r]]
  <2>1. b \in Batches /\ <<>> \in Seq(Batches) /\ Len(<<>>) = 0
    BY <1>15, EmptySeq DEF Synced
  <2>2. pushed \in Seq(Batches) /\ Len(pushed) = 1 /\ pushed[1] = b
    BY <1>3, <2>1, AppendProperties
  <2>3. pushed # <<>> /\ Head(pushed) = b /\ Tail(pushed) = <<>>
    <3> HIDE DEF pushed
    <3>1. pushed # <<>>
      <4>1. Len(pushed) # Len(<<>>)
        BY <2>1, <2>2
      <4> QED
        BY <4>1
    <3>2. Tail(pushed) \in Seq(Batches) /\ Len(Tail(pushed)) = 0
      BY <2>2, <3>1, HeadTailProperties
    <3>3. Tail(pushed) = <<>>
      BY <3>2, EmptySeq
    <3> QED
      BY <2>2, <3>1, <3>3
  <2> HIDE DEF pushed
  <2> QED
    BY <2>3 DEF Popped, EmittedReqs
<1>17. results' \in Seq(Batches) /\ OneResult' /\ Awaited' = {}
  BY <1>1, <1>16, NoBatch
<1>18. /\ \A r \in B : req'[r] = AddData(TokenCounted(task[r], req[r], task[r].gen), task[r].gen)
       /\ \A r \in Reqs \ B : req'[r] = req[r]
       /\ req' = [r \in Reqs |-> req'[r]]
  <2>1. req' = [r \in Reqs |-> IF r \in DOMAIN b THEN AddData(S[r], b[r]) ELSE S[r]]
    BY <1>1, <1>16
  <2>2. \A r \in B : /\ r \in DOMAIN b /\ b[r] = task[r].gen
                     /\ S[r] = TokenCounted(task[r], req[r], task[r].gen)
    BY <1>9, <1>15 DEF Synced
  <2>3. \A r \in Reqs \ B : S[r] = req[r] /\ r \notin DOMAIN b
    BY <1>15 DEF Synced
  <2> QED
    BY <1>5, <2>1, <2>2, <2>3
<1>19. /\ \A r \in B : synced[r] = TokenTaken(r, task[r], task[r].gen)
       /\ \A r \in Reqs \ B : synced[r] = task[r]
  BY <1>9, <1>15 DEF Synced
<1>20. ASSUME NEW r \in B PROVE synced[r].next = task[r].gen /\ Handed(r)
  <2> DEFINE u3 == TokenCounted(task[r], req[r], task[r].gen)
  <2>1. r \in Reqs /\ Due(args, r, task[r], req[r]) /\ req[r] \in Requests
    BY <1>3, <1>5 DEF Going, Due
  <2>2. Taken(args, r, task[r], req[r], task[r].gen, TokenTaken(r, task[r], task[r].gen), u3)
    BY <1>3, <1>5, <1>8, <2>1, TokenTakenFacts
  <2>3. synced[r].next = task[r].gen
    BY <1>19, <2>2 DEF Taken
  <2>4. req'[r] = AddData(u3, task[r].gen)
    BY <1>18
  <2> HIDE DEF u3
  <2>5. u3 \in Requests /\ u3.out = req[r].out /\ ~u3.closed /\ Waits(args, r, u3, task[r].gen)
    BY <2>2 DEF Taken
  <2>6. u3.closed = req[r].closed
    <3>1. u3.closed = FALSE
      BY <2>5 DEF Requests
    <3>2. req[r].closed = FALSE
      BY <2>1 DEF Requests, Due
    <3> QED
      BY <3>1, <3>2
  <2>7. Handed(r)
    BY <1>8, <2>4, <2>5, <2>6 DEF Handed
  <2> QED
    BY <2>3, <2>7
<1>21. tok \in [R -> Token] /\ \A r \in R : tok[r].pos = synced[r].next.pos + 1
  <2>1. \A r \in R : at[r] = synced[r].next.pos + 1
    BY <1>11, <1>14
  <2>2. \A r \in R : at[r] \in Nat \ {0}
    BY <1>7, <1>8, <1>20, <2>1
  <2>3. tok \in Sampled(R, at)
    BY <1>2
  <2>4. tok \in [R -> Token] /\ \A r \in R : tok[r].pos = at[r] /\ tok[r] # NoToken
    BY <1>11, <2>2, <2>3, SampledFacts
  <2> QED
    BY <2>1, <2>4
<1>22. ASSUME NEW r \in B
       PROVE  task'[r] \in Tasks /\ req'[r] \in Requests /\ Ran(r)'
  <2>1. /\ r \in Reqs /\ task[r] \in Tasks /\ req[r] \in Requests /\ kvLen[r] \in Int
        /\ task[r].type = "Decode" /\ task[r].status # "Stopped"
        /\ Going(args, r, task[r], req[r], kvLen[r], FALSE) /\ r \notin Awaited'
        /\ req'[r] = AddData(TokenCounted(task[r], req[r], task[r].gen), task[r].gen)
    BY <1>3, <1>5, <1>17, <1>18
  <2>2. Refilled(r, task[r], kvLen[r])
    <3>1. CASE r \in R
      <4>1. /\ tok[r] \in Token
            /\ tok[r].pos = TokenTaken(r, task[r], task[r].gen).next.pos + 1
        BY <1>19, <1>21, <3>1
      <4>2. task'[r] = [TokenTaken(r, task[r], task[r].gen) EXCEPT !.sync = FALSE, !.gen = tok[r]]
        BY <1>2, <1>19, <2>1, <3>1
      <4>3. kvLen'[r] = kvLen[r] + 1
        BY <1>13, <3>1
      <4>4. task[r].status = "Normal"
        BY <1>6, <3>1
      <4> QED
        BY <4>1, <4>2, <4>3, <4>4 DEF Refilled
    <3>2. CASE r \notin R
      <4>1. task[r].status # "Normal" /\ task'[r] = TokenTaken(r, task[r], task[r].gen)
        BY <1>2, <1>6, <1>19, <2>1, <3>2
      <4> QED
        BY <4>1 DEF Refilled
    <3> QED
      BY <3>1, <3>2
  <2> QED
    BY <1>1, <1>3, <2>1, <2>2, OverlapRan
<1>23. \A r \in Reqs \ B : task'[r] = task[r] /\ kvLen'[r] = kvLen[r] /\ req'[r] = req[r]
  BY <1>2, <1>7, <1>13, <1>18, <1>19
<1>24. task' \in [Reqs -> Tasks] /\ req' \in [Reqs -> Requests]
  <2>1. \A r \in Reqs : task'[r] \in Tasks /\ req'[r] \in Requests
    BY <1>3, <1>22, <1>23
  <2>2. task' = [r \in Reqs |-> task'[r]]
    BY <1>2
  <2> QED
    BY <1>18, <2>1, <2>2
<1>25. kvLen' \in [Reqs -> Int] /\ Awaited' \subseteq B /\ \A r \in B : Ran(r)'
  BY <1>1, <1>10, <1>17, <1>22
<1>26. IInv'
  BY <1>1, <1>4, <1>12, <1>17, <1>23, <1>24, <1>25, Stepped DEF B
<1> QED
  BY <1>20, <1>23, <1>26 DEF KeptStream

\* What has stopped leaves the pool.
LEMMA UpdateStep ==
  ASSUME IInv, Update
  PROVE  IInv'
<1>1. /\ pc = "update" /\ pc' = "loop" /\ batch' = <<>> /\ idList' \in Remaining
      /\ task' = [r \in Reqs |-> IF r \in Removed THEN NewTask(r) ELSE task[r]]
      /\ kvLen' = [r \in Reqs |-> IF r \in RemovedDecode THEN 0 ELSE kvLen[r]]
      /\ UNCHANGED <<args, submitted, pending, req, results, order>>
  BY DEF Update
<1>2. /\ EngineTypes /\ QueuedOnce /\ Elems(batch) \subseteq Pooled
      /\ args \in Configs /\ task \in [Reqs -> Tasks] /\ kvLen \in [Reqs -> Int]
  BY <1>1 DEF IInv, Scheduled, EngineTypes
<1>3. Pooled \in SUBSET Reqs /\ Pooled \subseteq submitted /\ Pooled \cap Elems(pending) = {}
  BY <1>2 DEF QueuedOnce, EngineTypes
<1>4. Removed \subseteq Pooled /\ RemovedDecode \subseteq Removed
  BY <1>2 DEF Removed, RemovedDecode
<1>5. idList' \in Seq(Reqs) /\ Pooled' = Pooled \ Removed /\ NoRepeat(idList)'
  <2>1. idList' \in Listings(Pooled \ Removed)
    BY <1>1 DEF Remaining
  <2>2. Pooled \ Removed \in SUBSET Reqs
    BY <1>3
  <2> DEFINE s == idList'
  <2>3. s \in Seq(Reqs) /\ Elems(s) = Pooled \ Removed /\ NoRepeat(s)
    <3> HIDE DEF s
    <3> QED
      BY <2>1, <2>2, ListingFacts DEF s
  <2> QED
    BY <2>3 DEF Pooled, Elems, NoRepeat
<1>6. Awaited' = Awaited /\ Elems(pending)' = Elems(pending)
  BY <1>1 DEF Awaited, Elems
<1>7. task' \in [Reqs -> Tasks] /\ kvLen' \in [Reqs -> Int]
  BY <1>1, <1>2, NewTaskFacts
<1>8. EngineTypes'
  <2>1. <<>> \in Seq(Reqs)
    BY EmptySeq
  <2> QED
    BY <1>1, <1>2, <1>5, <1>7, <2>1 DEF EngineTypes, Places
<1>9. QueuedOnce'
  <2>1. NoRepeat(pending)'
    BY <1>1, <1>2 DEF QueuedOnce, NoRepeat
  <2> QED
    BY <1>1, <1>2, <1>5, <1>6, <2>1 DEF QueuedOnce
<1>10. OneResult' /\ Scheduled'
  BY <1>1 DEF IInv, OneResult, Scheduled
<1>11. (UsedBlocks <= NumBlocks)'
  <2>1. UsedBlocks <= NumBlocks /\ NumBlocks \in Nat
    BY <1>2, ArgsFacts DEF IInv
  <2>2. \A r \in Reqs : kvLen'[r] \in {0, kvLen[r]}
    BY <1>1
  <2>3. Cardinality(PagesOf(Reqs, kvLen')) <= NumBlocks
    BY <1>2, <1>7, <2>1, <2>2, PagesGiven
  <2> QED
    BY <1>1, <2>3 DEF UsedBlocks, NumBlocks, PagesOf
<1>12. ASSUME NEW r \in Reqs PROVE Account(r)'
  <2> DEFINE w == r \in Awaited
  <2>1. Account(r)
    BY DEF IInv
  <2>2. CASE r \in Removed
    <3>1. r \in Pooled /\ task[r].status = "Stopped" /\ r \in submitted \ Elems(pending)
      BY <1>3, <1>4, <2>2 DEF Removed
    <3>2. Ended(args, r, task[r], req[r], w)
      BY <2>1, <3>1 DEF Account, Standing
    <3>3. Whole(args) => r \in RemovedDecode
      BY <2>2, <3>2 DEF Ended, RemovedDecode
    <3>4. Left(args, req[r], kvLen'[r], w)
      BY <1>1, <3>2, <3>3 DEF Ended, Left
    <3> HIDE DEF w
    <3>5. r \notin Pooled' /\ r \in submitted' \ Elems(pending)'
      BY <1>1, <1>5, <1>6, <2>2, <3>1
    <3> QED
      BY <1>1, <1>6, <2>1, <3>4, <3>5 DEF Account, Standing, w
  <2>3. CASE r \in Pooled \ Removed
    <3>1. task[r].status # "Stopped"
      BY <2>1, <2>3 DEF Account, Standing, Removed
    <3>2. Going(args, r, task[r], req[r], kvLen[r], w)
      BY <2>1, <2>3, <3>1 DEF Account, Standing
    <3>3. task'[r] = task[r] /\ kvLen'[r] = kvLen[r] /\ r \in Pooled'
      BY <1>1, <1>4, <1>5, <2>3
    <3> QED
      BY <1>1, <1>6, <2>1, <3>1, <3>2, <3>3 DEF Account, Standing
  <2>4. CASE r \notin Pooled
    <3>1. task'[r] = task[r] /\ kvLen'[r] = kvLen[r] /\ r \notin Pooled'
      BY <1>1, <1>4, <1>5, <2>4
    <3> QED
      BY <1>1, <1>6, <2>1, <2>4, <3>1 DEF Account, Standing
  <2> QED
    BY <2>2, <2>3, <2>4
<1> QED
  BY <1>8, <1>9, <1>10, <1>11, <1>12 DEF IInv

\* Nothing happens.
LEMMA StutteringStep ==
  ASSUME IInv, UNCHANGED vars
  PROVE  IInv'
<1>1. Pooled' = Pooled /\ Awaited' = Awaited /\ Elems(pending)' = Elems(pending) /\ Elems(batch)' = Elems(batch)
  BY DEF vars, Pooled, Awaited, Elems
<1>2. ASSUME NEW r \in Reqs PROVE Account(r)'
  <2>1. Account(r)
    BY DEF IInv
  <2> QED
    BY <1>1, <2>1 DEF Account, Standing, vars
<1>3. EngineTypes'
  BY DEF IInv, EngineTypes, vars
<1>4. QueuedOnce' /\ OneResult' /\ (UsedBlocks <= NumBlocks)'
  BY <1>1 DEF IInv, QueuedOnce, OneResult, UsedBlocks, NumBlocks, NoRepeat, PagesOf, vars
<1>5. Scheduled'
  BY <1>1 DEF IInv, Scheduled, OfType, NoRepeat, Elems, vars
<1> QED
  BY <1>2, <1>3, <1>4, <1>5 DEF IInv

\* Every step keeps the accounts.
LEMMA NextIInv == IInv /\ [Next]_vars => IInv'
<1> SUFFICES ASSUME IInv, [Next]_vars PROVE IInv'
  OBVIOUS
<1>1. CASE \E r \in Reqs : Submit(r)
  BY <1>1, SubmitStep
<1>2. CASE ProcessQueue
  BY <1>2, ProcessQueueStep
<1>3. CASE Sort
  BY <1>3, SortStep
<1>4. CASE Chunk
  BY <1>4, ChunkStep
<1>5. CASE SchedulePrefill
  BY <1>5, SchedulePrefillStep
<1>6. CASE PrefillTooLarge \/ StepUnderrun
  BY <1>6, CrashStep
<1>7. CASE ScheduleDecode
  BY <1>7, ScheduleDecodeStep
<1>8. CASE DecodeTooLarge
  BY <1>8, DecodeTooLargeStep
<1>9. CASE StepPrefill
  BY <1>9, StepPrefillStep
<1>10. CASE StepDecode
  BY <1>10, StepDecodeStep
<1>11. CASE StepDecodeOverlap
  BY <1>11, StepDecodeOverlapStep
<1>12. CASE StepEmpty
  BY <1>12, StepEmptyStep
<1>13. CASE Update
  BY <1>13, UpdateStep
<1>14. CASE UNCHANGED vars
  BY <1>14, StutteringStep
<1> QED
  BY <1>1, <1>2, <1>3, <1>4, <1>5, <1>6, <1>7, <1>8, <1>9, <1>10, <1>11, <1>12, <1>13, <1>14
  DEF Next, Worker

\* The account of every request is in order in every state.
THEOREM Inductive == Spec => []IInv
<1> QED
  BY InitIInv, NextIInv, PTL DEF Spec

-----------------------------------------------------------------------------
(* What the accounts say *)

\* The tokens on the way to a stream are one or none.
LEMMA InFlightFacts ==
  ASSUME IInv, NEW r \in Reqs
  PROVE  InFlight(r) = OneIf(r \in Awaited)
<1>1. results \in Seq(Batches) /\ Len(results) <= 1
  BY DEF IInv, EngineTypes, OneResult
<1>2. DOMAIN results = 1 .. Len(results) /\ Len(results) \in Nat
  BY <1>1, LenProperties
<1> DEFINE K == {i \in DOMAIN results : r \in DOMAIN results[i]}
<1>3. CASE r \in Awaited
  <2>1. PICK i \in DOMAIN results : r \in DOMAIN results[i]
    BY <1>3 DEF Awaited
  <2>2. \A j \in DOMAIN results : j = i
    BY <1>1, <1>2
  <2>3. K = {i}
    BY <2>1, <2>2
  <2>4. Cardinality(K) = 1
    BY <2>3, FS_Singleton
  <2> QED
    BY <1>3, <2>4 DEF InFlight, OneIf
<1>4. CASE r \notin Awaited
  <2>1. K = {}
    BY <1>4 DEF Awaited
  <2>2. Cardinality(K) = 0
    BY <2>1, FS_EmptySet
  <2> QED
    BY <1>4, <2>2 DEF InFlight, OneIf
<1> QED
  BY <1>3, <1>4

\* No token is lost or counted twice between the sampler and the stream, for any
\* requests, page size, chunk size and evictions, with overlap and without.
THEOREM NoTokenLost == Spec => []TokensAccounted
<1>1. IInv => TokensAccounted
  <2> SUFFICES ASSUME IInv, NEW r \in Pooled
               PROVE  /\ task[r].prefix = PromptLen[r] + task[r].numNew
                      /\ task[r].numNew = Len(req[r].out) + InFlight(r)
                      /\ req[r].remain = InFlight(r)
    BY DEF TokensAccounted
  <2>1. r \in Reqs /\ Account(r)
    BY DEF IInv, QueuedOnce, EngineTypes
  <2>2. Tallied(args, r, task[r], req[r], r \in Awaited)
    BY <2>1 DEF Account, Standing, Ended, Going
  <2>3. InFlight(r) = OneIf(r \in Awaited)
    BY <2>1, InFlightFacts
  <2> QED
    BY <2>2, <2>3 DEF Tallied, PromptLen
<1> QED
  BY <1>1, Inductive, PTL

\* Between two steps the cache of a request in the pool holds what the next step does
\* not feed.
THEOREM CacheInStep == Spec => []CacheMatchesTask
<1>1. IInv => CacheMatchesTask
  <2> SUFFICES ASSUME IInv, pc \notin {"update", "crashed"}, NEW r \in Pooled
               PROVE  kvLen[r] = CASE task[r].type = "Prefill" -> task[r].consumed
                                   [] task[r].type = "Decode" /\ args.overlap -> task[r].prefix
                                   [] task[r].type = "Decode" /\ ~args.overlap -> task[r].prefix - 1
    BY DEF CacheMatchesTask
  <2>1. r \in Reqs /\ Going(args, r, task[r], req[r], kvLen[r], r \in Awaited)
    BY NoneStopped
  <2>2. kvLen[r] = IF task[r].type = "Prefill" THEN task[r].consumed
                   ELSE IF args.overlap THEN task[r].prefix ELSE task[r].prefix - 1
    BY <2>1 DEF Going, Cached
  <2>3. task[r].type \in {"Prefill", "Decode"}
    BY <2>1, TaskFields DEF IInv, EngineTypes
  <2>4. CASE task[r].type = "Prefill"
    BY <2>2, <2>4
  <2>5. CASE task[r].type = "Decode" /\ args.overlap
    BY <2>2, <2>5
  <2>6. CASE task[r].type = "Decode" /\ ~args.overlap
    BY <2>2, <2>6
  <2> QED
    BY <2>3, <2>4, <2>5, <2>6
<1> QED
  BY <1>1, Inductive, PTL

\* Unless batches without overlap have chunks: every page is of a request in the pool.
THEOREM PagesComeBack ==
  ASSUME \A g \in Configs : Whole(g)
  PROVE  Spec => []PagesOfPool
<1>1. IInv => PagesOfPool
  <2> SUFFICES ASSUME IInv PROVE PagesOfPool
    OBVIOUS
  <2>1. Whole(args)
    BY DEF IInv, EngineTypes
  <2>2. ASSUME NEW r \in Reqs, r \notin Pooled
        PROVE  kvLen[r] = 0
    <3>1. Account(r)
      BY DEF IInv
    <3> QED
      BY <2>1, <2>2, <3>1 DEF Account, Standing, Left, Fresh
  <2> QED
    BY <2>2 DEF PagesOfPool, IInv
<1> QED
  BY <1>1, Inductive, PTL

\* A request that is queued or in the pool is there once.
LEMMA HeldOnce ==
  ASSUME IInv, NEW r \in Pooled \cup Elems(pending)
  PROVE  LET held == idList \o pending IN Cardinality({i \in DOMAIN held : held[i] = r}) = 1
<1> DEFINE held == idList \o pending
           K == {i \in DOMAIN held : held[i] = r}
<1>1. /\ idList \in Seq(Reqs) /\ pending \in Seq(Reqs)
      /\ NoRepeat(idList) /\ NoRepeat(pending) /\ Elems(idList) \cap Elems(pending) = {}
  BY DEF IInv, EngineTypes, QueuedOnce, Pooled
<1>2. Elems(held) = Pooled \cup Elems(pending) /\ NoRepeat(held)
  BY <1>1, ElemsOfConcat DEF Pooled
<1> HIDE DEF held
<1>3. PICK i \in DOMAIN held : held[i] = r
  BY <1>2 DEF Elems
<1>4. K = {i}
  BY <1>2, <1>3 DEF NoRepeat
<1>5. Cardinality(K) = 1
  BY <1>4, FS_Singleton
<1> QED
  BY <1>5 DEF held

\* Unless batches without overlap have chunks: a request whose stream is open is queued or
\* in the pool, once, or its last token is on the way.
THEOREM NoneAbandoned ==
  ASSUME \A g \in Configs : Whole(g)
  PROVE  Spec => []NoAbandonedStream
<1>1. IInv => NoAbandonedStream
  <2> SUFFICES ASSUME IInv, NEW r \in submitted
               PROVE  \/ req[r].closed
                      \/ LET held == idList \o pending
                         IN  Cardinality({i \in DOMAIN held : held[i] = r}) = 1
                      \/ InFlight(r) = 1 /\ req[r].finish # "none"
    BY DEF NoAbandonedStream
  <2>1. Whole(args)
    BY DEF IInv, EngineTypes
  <2>2. CASE r \in Pooled \cup Elems(pending)
    BY <2>2, HeldOnce
  <2>3. CASE r \notin Pooled \cup Elems(pending)
    <3>1. r \in Reqs /\ Account(r)
      BY DEF IInv, EngineTypes
    <3>2. Left(args, req[r], kvLen[r], r \in Awaited)
      BY <2>3, <3>1 DEF Account, Standing
    <3>3. req[r].closed \/ (r \in Awaited /\ req[r].finish # "none")
      BY <2>1, <3>2 DEF Left
    <3>4. InFlight(r) = OneIf(r \in Awaited)
      BY <3>1, InFlightFacts
    <3> QED
      BY <3>3, <3>4 DEF OneIf
  <2> QED
    BY <2>2, <2>3
<1> QED
  BY <1>1, Inductive, PTL

-----------------------------------------------------------------------------
(* The streams *)

\* What handing over a token does to a stream, with the limit announced.
LEMMA HandedFacts ==
  ASSUME args \in Configs, NEW r \in Reqs, Announced(args, r), req[r] \in Requests, req'[r] \in Requests, Handed(r)
  PROVE  LET n == Len(req[r].out) + 1
         IN  /\ ~req[r].closed /\ Len(req[r].out) < args.maxNew[r]
             /\ \E e \in BOOLEAN :
                  /\ req'[r].out = Append(req[r].out, [pos |-> n, eos |-> e])
                  /\ req'[r].closed = (e \/ n = args.maxNew[r])
<1>1. PICK u \in Requests, tok \in Token :
        /\ u.out = req[r].out /\ u.closed = req[r].closed
        /\ Waits(args, r, u, tok)
        /\ req'[r].out = AddData(u, tok).out /\ req'[r].closed = AddData(u, tok).closed
  BY DEF Handed
<1> DEFINE n == Len(req[r].out) + 1
<1>2. Len(req[r].out) \in Nat /\ args.maxNew[r] \in Nat
  BY LenProperties, ArgsFacts DEF Requests
<1>3. /\ AddData(u, tok).out = Append(u.out, tok)
      /\ AddData(u, tok).closed <=> u.closed \/ (u.finish # "none" /\ u.remain = 1)
  BY AddDataFacts
<1>4. /\ ~u.closed /\ u.remain = 1 /\ tok.pos = n /\ n <= args.maxNew[r]
      /\ u.finish # "none" <=> tok.eos \/ n = args.maxNew[r]
  BY <1>1 DEF Waits
<1>5. tok = [pos |-> n, eos |-> tok.eos] /\ tok.eos \in BOOLEAN
  BY <1>4 DEF Token
<1>6. req'[r].out = Append(req[r].out, [pos |-> n, eos |-> tok.eos])
  <2> HIDE DEF n
  <2>1. req'[r].out = Append(req[r].out, tok)
    BY <1>1, <1>3
  <2> QED
    BY <1>5, <2>1
<1>7. req'[r].closed \in BOOLEAN
  BY DEF Requests
<1>8. req'[r].closed <=> (tok.eos \/ n = args.maxNew[r])
  BY <1>1, <1>3, <1>4
<1>9. req'[r].closed = (tok.eos \/ n = args.maxNew[r])
  BY <1>7, <1>8
<1>10. ~req[r].closed /\ Len(req[r].out) < args.maxNew[r]
  BY <1>1, <1>2, <1>4
<1> QED
  BY <1>5, <1>6, <1>9, <1>10

\* A step that leaves streams alone or hands them a token is one of TokenStreams.
LEMMA StreamsStep ==
  ASSUME args \in Configs, args' = args, \A r \in Reqs : Announced(args, r),
         req \in [Reqs -> Requests], req' \in [Reqs -> Requests],
         \A r \in Reqs : KeptStream(r) \/ Handed(r)
  PROVE  Streams!StreamsNext
<1> DEFINE S == {r \in Reqs : Handed(r) /\ ~KeptStream(r)}
           n(r) == Len(req[r].out) + 1
           E == {r \in S : req'[r].out = Append(req[r].out, [pos |-> n(r), eos |-> TRUE])}
           st(r) == [out |-> req[r].out, closed |-> req[r].closed, limit |-> MaxNew[r]]
           st2(r) == [out |-> req'[r].out, closed |-> req'[r].closed, limit |-> MaxNew'[r]]
           next(r) == [out |-> Append(req[r].out, [pos |-> n(r), eos |-> r \in E]),
                       closed |-> r \in E \/ n(r) = MaxNew[r],
                       limit |-> MaxNew[r]]
<1>1. MaxNew' = MaxNew /\ MaxNew = args.maxNew
  BY DEF MaxNew
<1>2. ASSUME NEW r \in Reqs, r \notin S
      PROVE  st2(r) = st(r)
  BY <1>1, <1>2 DEF KeptStream
<1>3. ASSUME NEW r \in S
      PROVE  /\ ~req[r].closed /\ Len(req[r].out) < MaxNew[r]
             /\ st2(r) = next(r)
  <2>1. /\ ~req[r].closed /\ Len(req[r].out) < args.maxNew[r]
        /\ \E e \in BOOLEAN :
             /\ req'[r].out = Append(req[r].out, [pos |-> n(r), eos |-> e])
             /\ req'[r].closed = (e \/ n(r) = args.maxNew[r])
    BY HandedFacts
  <2>2. PICK e \in BOOLEAN :
             /\ req'[r].out = Append(req[r].out, [pos |-> n(r), eos |-> e])
             /\ req'[r].closed = (e \/ n(r) = args.maxNew[r])
    BY <2>1
  <2>3. (r \in E) = e
    <3>1. e => r \in E
      <4> SUFFICES ASSUME e PROVE r \in E
        OBVIOUS
      <4>1. e = TRUE
        OBVIOUS
      <4> HIDE DEF n, S
      <4> QED
        BY <2>2, <4>1
    <3>2. r \in E => e
      <4> SUFFICES ASSUME r \in E, ~e PROVE FALSE
        OBVIOUS
      <4> DEFINE a(b) == [pos |-> n(r), eos |-> b]
                 o == req[r].out
      <4>1. e = FALSE
        OBVIOUS
      <4>2. Append(o, a(TRUE)) = Append(o, a(FALSE))
        <5> HIDE DEF n
        <5> QED
          BY <2>2, <4>1
      <4>3. o \in Seq(Token) /\ a(TRUE) \in Token /\ a(FALSE) \in Token
        <5>1. n(r) \in Nat
          BY LenProperties DEF Requests
        <5> HIDE DEF n
        <5> QED
          BY <5>1 DEF Token, Requests
      <4>4. /\ Append(o, a(TRUE))[Len(o) + 1] = a(TRUE)
            /\ Append(o, a(FALSE))[Len(o) + 1] = a(FALSE)
        <5> HIDE DEF o, a
        <5>1. \A x \in Token : Append(o, x)[Len(o) + 1] = x
          BY <4>3, AppendProperties
        <5> QED
          BY <4>3, <5>1
      <4>5. a(TRUE) = a(FALSE)
        <5> HIDE DEF o, a
        <5> QED
          BY <4>2, <4>4
      <4>6. a(TRUE).eos = a(FALSE).eos
        <5> HIDE DEF a
        <5> QED
          BY <4>5
      <4> QED
        BY <4>6
    <3>3. e \in BOOLEAN /\ (r \in E) \in BOOLEAN
      OBVIOUS
    <3> HIDE DEF E
    <3> QED
      BY <3>1, <3>2, <3>3
  <2> HIDE DEF E, n
  <2> QED
    BY <1>1, <2>1, <2>2, <2>3
<1>4. S \in SUBSET Reqs /\ E \in SUBSET S
  OBVIOUS
<1>5. PICK X \in SUBSET Reqs : X = S
  BY <1>4
<1>6. PICK Y \in SUBSET X : Y = E
  BY <1>4, <1>5
<1>7. Streams!Deliver(X, Y)
  <2> HIDE DEF S, E
  <2> QED
    BY <1>2, <1>3, <1>4, <1>5, <1>6 DEF Streams!Deliver
<1> QED
  BY <1>7 DEF Streams!StreamsNext

\* Sending what waits, whatever else becomes of the request, hands tokens to streams.
LEMMA EmittedHands ==
  ASSUME IInv, NEW r \in Reqs,
         req'[r].out = EmittedReqs(req, results)[r].out,
         req'[r].closed = EmittedReqs(req, results)[r].closed
  PROVE  KeptStream(r) \/ Handed(r)
<1>1. results \in Seq(Batches) /\ Len(results) <= 1 /\ req \in [Reqs -> Requests]
  BY DEF IInv, EngineTypes, OneResult
<1>2. EmittedReqs(req, results)[r] = IF r \in Awaited THEN AddData(req[r], results[1][r]) ELSE req[r]
  BY <1>1, AwaitedFacts DEF EmittedReqs
<1>3. CASE r \in Awaited
  <2>1. results[1][r] \in Token /\ req[r] \in Requests /\ Waits(args, r, req[r], results[1][r])
    BY <1>1, <1>3, AwaitedFacts DEF IInv, Account
  <2>2. /\ req'[r].out = AddData(req[r], results[1][r]).out
        /\ req'[r].closed = AddData(req[r], results[1][r]).closed
    BY <1>2, <1>3
  <2> QED
    BY <2>1, <2>2 DEF Handed
<1>4. CASE r \notin Awaited
  BY <1>2, <1>4 DEF KeptStream
<1> QED
  BY <1>3, <1>4

\* Synchronising tokens leaves streams alone.
LEMMA SyncedStreams ==
  ASSUME NEW q \in [Reqs -> Requests], NEW t, NEW all, NEW tok, NEW r \in Reqs
  PROVE  /\ SyncedReqs(q, t, all, tok)[r].out = q[r].out
         /\ SyncedReqs(q, t, all, tok)[r].closed = q[r].closed
<1> DEFINE u == q[r]
           Q == SyncedReqs(q, t, all, tok)[r]
<1>1. Q = u \/ \E m, f : Q = [u EXCEPT !.remain = m, !.finish = f]
  BY DEF SyncedReqs
<1>2. u \in Requests
  OBVIOUS
<1> HIDE DEF u, Q
<1>3. Q.out = u.out /\ Q.closed = u.closed
  BY <1>1, <1>2 DEF Requests
<1> QED
  BY <1>3 DEF u, Q

\* Every step leaves streams alone or hands them tokens.
LEMMA StepHands ==
  ASSUME IInv, [Next]_vars
  PROVE  args' = args /\ \A r \in Reqs : KeptStream(r) \/ Handed(r)
<1> DEFINE q == EmittedReqs(req, results)
           Sends == args' = args /\ \A r \in Reqs : KeptStream(r) \/ Handed(r)
<1>1. q \in [Reqs -> Requests]
  BY Emission
<1>2. CASE UNCHANGED <<args, req>>
  BY <1>2 DEF KeptStream
<1>3. ASSUME UNCHANGED args, req' = q PROVE Sends
  BY <1>3, EmittedHands
<1>4. ASSUME UNCHANGED args, NEW t, NEW all, NEW tok, req' = SyncedReqs(q, t, all, tok) PROVE Sends
  <2> SUFFICES ASSUME NEW r \in Reqs PROVE KeptStream(r) \/ Handed(r)
    BY <1>4
  <2>1. req'[r].out = q[r].out /\ req'[r].closed = q[r].closed
    <3> HIDE DEF q
    <3> QED
      BY <1>1, <1>4, SyncedStreams
  <2> QED
    BY <2>1, EmittedHands
<1>5. CASE StepPrefill
  <2>1. /\ UNCHANGED args
        /\ req' = q \/ \E t, all, tok : req' = SyncedReqs(q, t, all, tok)
    BY <1>5 DEF StepPrefill
  <2> HIDE DEF Sends, q
  <2> QED
    BY <1>3, <1>4, <2>1 DEF Sends
<1>6. CASE StepDecode
  <2>1. UNCHANGED args /\ \E t, all, tok : req' = SyncedReqs(q, t, all, tok)
    BY <1>6 DEF StepDecode
  <2> HIDE DEF Sends, q
  <2> QED
    BY <1>4, <2>1 DEF Sends
<1>7. CASE StepDecodeOverlap
  BY <1>7, StepDecodeOverlapStep DEF StepDecodeOverlap
<1>8. CASE StepEmpty
  BY <1>3, <1>8 DEF StepEmpty
<1>9. CASE ProcessQueue
  BY <1>2, <1>3, <1>9 DEF ProcessQueue
<1>10. CASE \/ Sort \/ Chunk \/ SchedulePrefill \/ PrefillTooLarge \/ ScheduleDecode \/ DecodeTooLarge
            \/ StepUnderrun \/ Update \/ (\E r \in Reqs : Submit(r)) \/ UNCHANGED vars
  BY <1>2, <1>10
  DEF Sort, Chunk, SchedulePrefill, PrefillTooLarge, ScheduleDecode, DecodeTooLarge,
      StepUnderrun, Update, Submit, vars
<1> QED
  BY <1>5, <1>6, <1>7, <1>8, <1>9, <1>10 DEF Next, Worker

\* For limits of two tokens or more, the engine implements the promise to the HTTP side:
\* tokens in order, none lost or repeated, and the stream closed by the one that ends the
\* answer.
THEOREM Implementation ==
  ASSUME \A g \in Configs, r \in Reqs : Announced(g, r)
  PROVE  Spec => ImplementsStreams
<1>1. Init => Streams!StreamsInit
  <2> SUFFICES ASSUME Init PROVE Streams!StreamsInit
    OBVIOUS
  <2>1. args \in Configs /\ req = [r \in Reqs |-> NewReq]
    BY DEF Init
  <2>2. \A r \in Reqs : MaxNew[r] \in Nat \ {0}
    BY <2>1, ArgsFacts
  <2>3. \A r \in Reqs : req[r].out = <<>> /\ req[r].closed = FALSE
    BY <2>1 DEF NewReq
  <2> QED
    BY <2>2, <2>3 DEF Streams!StreamsInit
<1>2. IInv /\ IInv' /\ [Next]_vars
      => [Streams!StreamsNext]_[r \in Reqs |-> [out |-> req[r].out, closed |-> req[r].closed, limit |-> MaxNew[r]]]
  <2> SUFFICES ASSUME IInv, IInv', [Next]_vars PROVE Streams!StreamsNext
    OBVIOUS
  <2>1. args \in Configs /\ req \in [Reqs -> Requests] /\ req' \in [Reqs -> Requests]
    BY DEF IInv, EngineTypes
  <2>2. args' = args /\ \A r \in Reqs : KeptStream(r) \/ Handed(r)
    BY StepHands
  <2> QED
    BY <2>1, <2>2, StreamsStep
<1> QED
  BY <1>1, <1>2, Inductive, PTL DEF Spec, ImplementsStreams, Streams!StreamsSpec

-----------------------------------------------------------------------------
(***************************************************************************)
(* The budget.  The scheduler budgets pages from the tasks' tokens and the *)
(* allocator takes them for the cached ones.  Beside the accounts above,   *)
(* the invariant here says that what a step is going to take has been      *)
(* found free, that no request outgrows its prompt and its limit, and that *)
(* whatever holds pages when nothing else can run is a candidate for       *)
(* eviction.                                                               *)
(***************************************************************************)

\* A live task has room for a token below its limit, or is announced to be at it.
Within(g, r, t) ==
  t.status # "Stopped" => /\ t.numNew <= g.maxNew[r]
                          /\ t.status = "Normal" => t.numNew < g.maxNew[r]

Cap == [r \in Reqs |-> PromptLen[r] + MaxNew[r]]

\* The tokens the scheduler expects in the cache after the step, and of whom.
Plans ==
  [r \in Reqs |-> IF task[r].type = "Prefill" THEN task[r].consumed + NextReqTokensLen(task[r])
                                              ELSE PrefixTokensLen(task[r])]

Runners == {r \in Elems(batch) : task[r].type = "Prefill" \/ HasModelRun(task[r])}

\* Each request keeps to its bounds.
Bounded ==
  /\ threshold \in 1 .. NumBlocks
  /\ \A r \in Reqs : Within(args, r, task[r]) /\ kvLen[r] <= Cap[r]
  /\ args.chunk = NoChunk => \A r \in Reqs : task[r].type = "Prefill" => task[r].consumed = 0

\* Every decode task is up for eviction, and a prompt for prefill.
Candidates ==
  /\ pc \in {"chunk", "select"} =>
       \A r \in Pooled : task[r].type = "Decode" => r \in Elems(order.decode)
  /\ pc = "select" /\ PrefillTurn => batch # <<>>

Budgeted == pc = "step" => Allocates(Runners, Plans)

BInv ==
  /\ Bounded
  /\ Candidates
  /\ Budgeted
  /\ NeverCrashes

-----------------------------------------------------------------------------
(* Pages of bounded requests *)

\* More tokens never need fewer pages.
LEMMA HeldMonotone ==
  ASSUME NEW m \in Int, NEW n \in Int, m <= n
  PROVE  Held(m) \in Int /\ Held(n) \in Int /\ Held(m) <= Held(n)
<1>1. \A x, y \in Int : x <= y => x \div BlockSize <= y \div BlockSize
  BY BlockSizeAssumption, SMTT(30)
<1>2. m + BlockSize - 1 \in Int /\ n + BlockSize - 1 \in Int /\ m + BlockSize - 1 <= n + BlockSize - 1
  BY BlockSizeAssumption
<1>3. Held(m) \in Int /\ Held(n) \in Int
  BY BlockSizeAssumption DEF Held
<1> QED
  BY <1>1, <1>2, <1>3 DEF Held

\* One more token needs a page only when the last one is full.
LEMMA HeldWithin ==
  ASSUME NEW n \in Int, n % BlockSize # 0
  PROVE  Held(n + 1) = Held(n)
<1> DEFINE q == n \div BlockSize
           m == n % BlockSize
<1>1. BlockSize \in Int /\ BlockSize > 0
  BY BlockSizeAssumption
<1>2. q \in Int /\ m \in Int /\ n = BlockSize * q + m /\ 0 < m /\ m < BlockSize
  BY <1>1, SMTT(30)
<1> HIDE DEF q, m
<1>3. \A x \in Int : BlockSize * (q + 1) <= x /\ x < BlockSize * (q + 2) => x \div BlockSize = q + 1
  BY <1>1, <1>2, SMTT(30)
<1>4. BlockSize * (q + 1) = BlockSize * q + BlockSize /\ BlockSize * (q + 2) = BlockSize * q + 2 * BlockSize
      /\ BlockSize * q \in Int
  BY <1>1, <1>2, SMTT(30)
<1>5. (n + BlockSize - 1) \div BlockSize = q + 1
  <2>1. /\ n + BlockSize - 1 \in Int
        /\ BlockSize * (q + 1) <= n + BlockSize - 1 /\ n + BlockSize - 1 < BlockSize * (q + 2)
    BY <1>1, <1>2, <1>4
  <2> QED
    BY <1>3, <2>1
<1>6. (n + 1 + BlockSize - 1) \div BlockSize = q + 1
  <2>1. /\ n + 1 + BlockSize - 1 \in Int
        /\ BlockSize * (q + 1) <= n + 1 + BlockSize - 1 /\ n + 1 + BlockSize - 1 < BlockSize * (q + 2)
    BY <1>1, <1>2, <1>4
  <2> QED
    BY <1>3, <2>1
<1> QED
  BY <1>5, <1>6 DEF Held

\* Requests have the pages of fewer requests with fewer tokens.
LEMMA PagesMonotone ==
  ASSUME NEW S \in SUBSET Reqs, NEW T \in SUBSET Reqs, S \subseteq T,
         NEW len \in [Reqs -> Int], NEW max \in [Reqs -> Int], \A r \in S : len[r] <= max[r]
  PROVE  PagesOf(S, len) \subseteq PagesOf(T, max)
<1> SUFFICES ASSUME NEW r \in S, NEW x \in {r} \X (1 .. Held(len[r]))
             PROVE  x \in {r} \X (1 .. Held(max[r]))
  BY DEF PagesOf
<1>1. Held(len[r]) \in Int /\ Held(max[r]) \in Int /\ Held(len[r]) <= Held(max[r])
  <2>1. len[r] \in Int /\ max[r] \in Int /\ len[r] <= max[r]
    OBVIOUS
  <2> QED
    BY <2>1, HeldMonotone
<1>2. x[2] \in 1 .. Held(max[r])
  BY <1>1
<1> QED
  BY <1>2

\* Fewer requests that are to have the same pages lack no more.
LEMMA LackingMonotone ==
  ASSUME NEW T \in SUBSET Reqs, NEW S \in SUBSET T,
         NEW len \in [Reqs -> Int], NEW max \in [Reqs -> Int], kvLen \in [Reqs -> Int],
         \A r \in S : Held(len[r]) = Held(max[r])
  PROVE  Lacking(S, len) \in Nat /\ Lacking(T, max) \in Nat /\ Lacking(S, len) <= Lacking(T, max)
<1> DEFINE A == PagesOf(S, len) \ PagesOf(S, kvLen)
           B == PagesOf(T, max) \ PagesOf(T, kvLen)
<1>1. IsFiniteSet(PagesOf(S, len)) /\ IsFiniteSet(PagesOf(T, max))
  BY PagesFinite
<1>2. IsFiniteSet(A) /\ IsFiniteSet(B)
  BY <1>1, FS_Difference
<1>3. A \subseteq B
  BY DEF PagesOf
<1>4. Cardinality(A) \in Nat /\ Cardinality(B) \in Nat /\ Cardinality(A) <= Cardinality(B)
  <2> HIDE DEF A, B
  <2> QED
    BY <1>2, <1>3, FS_CardinalityType, FS_Subset
<1> QED
  BY <1>4 DEF Lacking

\* Where the requests of T fit the cache together, those of S among them find room for
\* what they lack, in what is free and in what G holds, if nobody else holds a page.
LEMMA Room ==
  ASSUME NEW T \in SUBSET Reqs, NEW S \in SUBSET T, NEW G \in SUBSET Reqs,
         NEW len \in [Reqs -> Int], kvLen \in [Reqs -> Int], Cap \in [Reqs -> Int],
         \A r \in S : len[r] <= Cap[r], \A r \in T : kvLen[r] <= Cap[r],
         \A r \in Reqs : r \notin T /\ r \notin G => kvLen[r] = 0,
         NumBlocks \in Nat, Capacity(T) <= NumBlocks
  PROVE  /\ Lacking(S, len) \in Nat /\ UsedBlocks \in Nat /\ Cardinality(PagesOf(G, kvLen)) \in Nat
         /\ Lacking(S, len) <= (NumBlocks - UsedBlocks) + Cardinality(PagesOf(G, kvLen))
<1> DEFINE new == PagesOf(S, len) \ PagesOf(S, kvLen)
           held == PagesOf(T, kvLen)
           given == PagesOf(G, kvLen)
           max == PagesOf(T, Cap)
           used == PagesOf(Reqs, kvLen)
<1>1. /\ IsFiniteSet(PagesOf(S, len)) /\ IsFiniteSet(held) /\ IsFiniteSet(given)
      /\ IsFiniteSet(max) /\ IsFiniteSet(used)
  <2>1. S \in SUBSET Reqs
    OBVIOUS
  <2> QED
    BY <2>1, PagesFinite
<1>2. IsFiniteSet(new)
  BY <1>1, FS_Difference
<1>3. new \cup held \subseteq max
  <2>1. PagesOf(S, len) \subseteq max
    BY PagesMonotone
  <2>2. held \subseteq max
    BY PagesMonotone
  <2> QED
    BY <2>1, <2>2
<1>4. new \cap held = {}
  BY DEF PagesOf
<1>5. used \subseteq held \cup given
  <2> SUFFICES ASSUME NEW r \in Reqs, NEW x \in {r} \X (1 .. Held(kvLen[r]))
               PROVE  r \in T \/ r \in G
    BY DEF PagesOf
  <2>1. Held(0) = 0
    BY BlockSizeAssumption DEF Held
  <2>2. kvLen[r] # 0
    <3> SUFFICES ASSUME kvLen[r] = 0 PROVE FALSE
      OBVIOUS
    <3>1. x[2] \in 1 .. 0
      BY <2>1
    <3> QED
      BY <3>1
  <2> QED
    BY <2>2
<1>6. Capacity(T) = Cardinality(max)
  BY DEF Capacity, Cap
<1>7. Lacking(S, len) = Cardinality(new) /\ UsedBlocks = Cardinality(used)
  BY DEF Lacking, UsedBlocks
<1> HIDE DEF new, held, given, max, used
<1>8. /\ IsFiniteSet(new \cup held) /\ Cardinality(new \cup held) = Cardinality(new) + Cardinality(held) - Cardinality(new \cap held)
      /\ IsFiniteSet(held \cup given) /\ Cardinality(held \cup given) = Cardinality(held) + Cardinality(given) - Cardinality(held \cap given)
      /\ IsFiniteSet(held \cap given) /\ Cardinality(new \cap held) = 0
  BY <1>1, <1>2, <1>4, FS_Union, FS_Intersection, FS_EmptySet
<1>9. /\ Cardinality(new) \in Nat /\ Cardinality(held) \in Nat /\ Cardinality(given) \in Nat
      /\ Cardinality(used) \in Nat /\ Cardinality(max) \in Nat /\ Cardinality(held \cap given) \in Nat
  BY <1>1, <1>2, <1>8, FS_CardinalityType
<1>10. Cardinality(new \cup held) <= Cardinality(max) /\ Cardinality(used) <= Cardinality(held \cup given)
  BY <1>1, <1>3, <1>5, <1>8, FS_Subset
<1> DEFINE cn == Cardinality(new)  ch == Cardinality(held)  cg == Cardinality(given)
           cu == Cardinality(used)  cm == Cardinality(max)
<1>11. /\ cn \in Nat /\ ch \in Nat /\ cg \in Nat /\ cu \in Nat /\ cm \in Nat
       /\ cn + ch <= cm /\ cu <= ch + cg /\ cm <= NumBlocks
  BY <1>6, <1>8, <1>9, <1>10
<1>12. Lacking(S, len) = cn /\ UsedBlocks = cu /\ Cardinality(PagesOf(G, kvLen)) = cg
  BY <1>7 DEF given
<1> HIDE DEF cn, ch, cg, cu, cm
<1> QED
  BY <1>11, <1>12

\* On a load that is to be served, each request fits the cache.
LEMMA EachCapacity ==
  ASSUME args \in Configs, Servable, NEW r \in Reqs, Cap \in [Reqs -> Int]
  PROVE  Capacity({r}) <= NumBlocks
<1>1. CASE AllFit
  <2>1. PagesOf({r}, Cap) \subseteq PagesOf(Reqs, Cap)
    BY DEF PagesOf
  <2>2. IsFiniteSet(PagesOf(Reqs, Cap)) /\ IsFiniteSet(PagesOf({r}, Cap))
    BY PagesFinite
  <2>3. Cardinality(PagesOf({r}, Cap)) <= Cardinality(PagesOf(Reqs, Cap))
    BY <2>1, <2>2, FS_Subset
  <2>4. Cardinality(PagesOf({r}, Cap)) \in Nat /\ Cardinality(PagesOf(Reqs, Cap)) \in Nat /\ NumBlocks \in Nat
    BY <2>2, FS_CardinalityType, ArgsFacts
  <2> QED
    BY <1>1, <2>3, <2>4 DEF AllFit, Capacity, Cap
<1>2. CASE ~AllFit
  BY <1>2 DEF Servable
<1> QED
  BY <1>1, <1>2

-----------------------------------------------------------------------------
(* One request *)

\* A task's tokens and those it is going to have stay within its bounds.
LEMMA PlanFacts ==
  ASSUME IInv, NEW r \in Pooled, pc # "update", Within(args, r, task[r])
  PROVE  /\ r \in Reqs /\ Cap \in [Reqs -> Int]
         /\ task[r].status \in {"Normal", "WillStopLength"} /\ kvLen[r] \in Int
         /\ task[r].prefix \in Int /\ task[r].consumed \in Int
         /\ task[r].prefix <= Cap[r]
         /\ task[r].status = "Normal" => task[r].prefix + 1 <= Cap[r]
         /\ task[r].type = "Prefill" =>
              /\ kvLen[r] = task[r].consumed /\ PrefixTokensLen(task[r]) = task[r].prefix
              /\ NextReqTokensLen(task[r]) \in Int
              /\ task[r].consumed + NextReqTokensLen(task[r]) <= task[r].prefix
         /\ task[r].type = "Decode" /\ ~args.overlap =>
              task[r].sync /\ kvLen[r] + 1 = task[r].prefix /\ PrefixTokensLen(task[r]) = task[r].prefix
         /\ task[r].type = "Decode" /\ args.overlap =>
              /\ kvLen[r] = task[r].prefix
              /\ task[r].sync => PrefixTokensLen(task[r]) = task[r].prefix
              /\ ~task[r].sync => PrefixTokensLen(task[r]) = task[r].prefix + 1
<1> DEFINE t == task[r]
<1>1. /\ r \in Reqs /\ t.status # "Stopped" /\ Going(args, r, t, req[r], kvLen[r], r \in Awaited)
  BY NoneStopped
<1>2. task[r] \in Tasks /\ kvLen[r] \in Int /\ args \in Configs
  BY <1>1 DEF IInv, EngineTypes
<1>3. /\ args.promptLen[r] \in Nat /\ args.maxNew[r] \in Nat /\ Cap[r] = args.promptLen[r] + args.maxNew[r]
      /\ Cap \in [Reqs -> Int]
  BY <1>1, <1>2, ArgsFacts DEF Cap
<1>4. /\ t.type \in {"Prefill", "Decode"} /\ t.prefix \in Int /\ t.consumed \in Int /\ t.chunk \in Int
      /\ t.numNew \in Nat /\ t.status \in {"Normal", "WillStopLength", "Stopped"} /\ t.sync \in BOOLEAN
  BY <1>2, TaskFields
<1>5. Within(args, r, t)
  OBVIOUS
<1> HIDE DEF t
<1>6. t.prefix = args.promptLen[r] + t.numNew
  BY <1>1 DEF Going, Tallied
<1>7. t.prefix <= Cap[r] /\ (t.status = "Normal" => t.prefix + 1 <= Cap[r])
  BY <1>1, <1>3, <1>4, <1>5, <1>6 DEF Within
<1>8. ASSUME t.type = "Prefill"
      PROVE  /\ kvLen[r] = t.consumed /\ PrefixTokensLen(t) = t.prefix
             /\ NextReqTokensLen(t) \in Int
             /\ t.consumed + NextReqTokensLen(t) <= t.prefix
  <2>1. kvLen[r] = t.consumed /\ PrefixTokensLen(t) = t.prefix
    BY <1>1, <1>8 DEF Going, Cached, PrefixTokensLen
  <2>2. CASE LastChunk(t)
    BY <1>4, <2>1, <2>2 DEF NextReqTokensLen
  <2>3. CASE ~LastChunk(t)
    BY <1>4, <2>1, <2>3 DEF NextReqTokensLen, LastChunk
  <2> QED
    BY <2>1, <2>2, <2>3
<1>9. t.type = "Decode" /\ ~args.overlap =>
        t.sync /\ kvLen[r] + 1 = t.prefix /\ PrefixTokensLen(t) = t.prefix
  BY <1>1, <1>4 DEF Going, Cached, Newest, PrefixTokensLen
<1>10. t.type = "Decode" /\ args.overlap =>
         /\ kvLen[r] = t.prefix
         /\ t.sync => PrefixTokensLen(t) = t.prefix
         /\ ~t.sync => PrefixTokensLen(t) = t.prefix + 1
  BY <1>1, <1>4 DEF Going, Cached, PrefixTokensLen
<1> QED
  BY <1>1, <1>2, <1>3, <1>4, <1>7, <1>8, <1>9, <1>10 DEF t

\* The fields of a record with those of a task.
Fields == {"type", "prefix", "consumed", "chunk", "next", "numNew", "status", "sync", "gen"}

\* update_decode_status announces the limit in time, and stops at it.
LEMMA StatusKept ==
  ASSUME args \in Configs, NEW r \in Reqs, NEW t, DOMAIN t = Fields, t = [f \in Fields |-> t[f]],
         t.numNew \in Nat, t.status \in {"Normal", "WillStopLength", "Stopped"},
         t.status = "Normal" => t.numNew <= args.maxNew[r]
  PROVE  LET d == UpdateDecodeStatus(r, t)
         IN  /\ Within(args, r, d) /\ d.type = t.type /\ d.consumed = t.consumed
             /\ DOMAIN d = Fields /\ d = [f \in Fields |-> d[f]]
<1>1. args.maxNew[r] \in Nat /\ MaxNew = args.maxNew
  BY ArgsFacts
<1> DEFINE d == UpdateDecodeStatus(r, t)
<1>2. CASE t.status = "Stopped"
  BY <1>2 DEF UpdateDecodeStatus, Within
<1>3. CASE t.status # "Stopped" /\ StopReason(t) # "none"
  <2>1. d = [t EXCEPT !.status = "Stopped"]
    BY <1>3 DEF UpdateDecodeStatus
  <2>2. /\ d.status = "Stopped" /\ d.type = t.type /\ d.consumed = t.consumed
        /\ DOMAIN d = Fields /\ d = [f \in Fields |-> d[f]]
    BY <2>1 DEF Fields
  <2> HIDE DEF d
  <2> QED
    BY <2>2 DEF Within, d
<1>4. CASE t.status # "Stopped" /\ StopReason(t) = "none" /\ t.numNew + 1 >= args.maxNew[r]
  <2>1. d = [t EXCEPT !.status = "WillStopLength"]
    BY <1>1, <1>4 DEF UpdateDecodeStatus
  <2>2. /\ d.status = "WillStopLength" /\ d.type = t.type /\ d.consumed = t.consumed
        /\ d.numNew = t.numNew
        /\ DOMAIN d = Fields /\ d = [f \in Fields |-> d[f]]
    BY <2>1 DEF Fields
  <2>3. t.status = "Normal"
    BY <1>4 DEF StopReason
  <2> HIDE DEF d
  <2> QED
    BY <2>2, <2>3 DEF Within, d
<1>5. CASE t.status # "Stopped" /\ StopReason(t) = "none" /\ ~(t.numNew + 1 >= args.maxNew[r])
  <2>1. d = t
    BY <1>1, <1>5 DEF UpdateDecodeStatus
  <2>2. t.status = "Normal" /\ t.numNew < args.maxNew[r]
    BY <1>1, <1>5 DEF StopReason
  <2> QED
    BY <2>1, <2>2 DEF Within
<1> QED
  BY <1>2, <1>3, <1>4, <1>5

\* What matters of a task here.
TaskLike(t) ==
  /\ t.numNew \in Nat /\ t.status \in {"Normal", "WillStopLength", "Stopped"}
  /\ DOMAIN t = Fields /\ t = [f \in Fields |-> t[f]]

\* A task is a record with the fields.
LEMMA TaskRecord ==
  ASSUME NEW t \in Tasks
  PROVE  DOMAIN t = Fields /\ t = [f \in Fields |-> t[f]]
BY DEF Tasks, Fields

\* Task x has become s.
Continued(g, r, x, s) ==
  /\ Within(g, r, s) /\ s.type = x.type /\ s.consumed = x.consumed
  /\ DOMAIN s = Fields /\ s = [f \in Fields |-> s[f]]

\* Synchronising a batch keeps a task within its limit.
LEMMA WithinSynced ==
  ASSUME args \in Configs, NEW t, NEW all, NEW tok, NEW r \in Reqs,
         Within(args, r, t[r]), TaskLike(t[r])
  PROVE  Continued(args, r, t[r], SyncedTasks(t, all, tok)[r])
<1> DEFINE x == t[r]
           y == Recorded(t, tok)[r]
           z == UpdatePrefix(y)
           d == UpdateDecodeStatus(r, z)
           s == SyncedTasks(t, all, tok)[r]
           g == IF r \in DOMAIN tok THEN NoToken ELSE d.gen
<1>1. /\ x.numNew \in Nat /\ x.status \in {"Normal", "WillStopLength", "Stopped"}
      /\ DOMAIN x = Fields /\ x = [f \in Fields |-> x[f]]
      /\ args.maxNew[r] \in Nat
  BY ArgsFacts DEF TaskLike
<1>2. y = x \/ y = [x EXCEPT !.next = tok[r], !.numNew = x.numNew + 1, !.sync = FALSE]
  BY DEF Recorded, UpdateResponseNoSync
<1>3. Within(args, r, x)
  OBVIOUS
<1>4. s = IF r \in all THEN [d EXCEPT !.gen = g] ELSE x
  BY DEF SyncedTasks
<1> HIDE DEF x, y, s, g
<1>5. /\ y.numNew \in {x.numNew, x.numNew + 1} /\ y.status = x.status /\ y.type = x.type
      /\ y.consumed = x.consumed /\ DOMAIN y = Fields /\ y = [f \in Fields |-> y[f]]
  BY <1>1, <1>2 DEF Fields
<1>6. z = y \/ z = [y EXCEPT !.prefix = IF y.type = "Decode" THEN y.prefix + 1 ELSE y.prefix, !.sync = TRUE]
  BY DEF UpdatePrefix
<1> HIDE DEF z
<1>7. /\ z.numNew = y.numNew /\ z.status = y.status /\ z.type = y.type /\ z.consumed = y.consumed
      /\ DOMAIN z = Fields /\ z = [f \in Fields |-> z[f]]
  BY <1>5, <1>6 DEF Fields
<1>8. z.numNew \in Nat /\ (z.status = "Normal" => z.numNew <= args.maxNew[r])
  BY <1>1, <1>3, <1>5, <1>7 DEF Within
<1>9. /\ Within(args, r, d) /\ d.type = z.type /\ d.consumed = z.consumed
      /\ DOMAIN d = Fields /\ d = [f \in Fields |-> d[f]]
  BY <1>1, <1>5, <1>7, <1>8, StatusKept
<1> HIDE DEF d
<1>10. CASE r \in all
  <2>1. /\ s.numNew = d.numNew /\ s.status = d.status /\ s.type = d.type /\ s.consumed = d.consumed
        /\ DOMAIN s = Fields /\ s = [f \in Fields |-> s[f]]
    BY <1>4, <1>9, <1>10 DEF Fields
  <2> QED
    BY <1>5, <1>7, <1>9, <1>10, <2>1 DEF Continued, Within, x, s
<1>11. CASE r \notin all
  BY <1>1, <1>3, <1>4, <1>11 DEF Continued, x, s
<1> QED
  BY <1>10, <1>11

\* So does consuming a part of the prompt, and without chunks it is all of it.
LEMMA WithinConsumed ==
  ASSUME NEW r \in Reqs, NEW t \in Tasks, Within(args, r, t)
  PROVE  LET c == ConsumeReqTokens(t)
         IN  /\ Within(args, r, c) /\ (t.chunk = NoChunk => c.type = "Decode")
             /\ c.numNew = t.numNew /\ c.status = t.status
             /\ DOMAIN c = Fields /\ c = [f \in Fields |-> c[f]]
<1> DEFINE c == ConsumeReqTokens(t)
<1>1. DOMAIN t = Fields /\ t = [f \in Fields |-> t[f]]
  BY TaskRecord
<1>2. \/ c = [t EXCEPT !.consumed = PrefixTokensLen(t), !.type = "Decode", !.chunk = NoChunk]
      \/ ~LastChunk(t) /\ c = [t EXCEPT !.consumed = t.consumed + t.chunk, !.chunk = NoChunk]
  BY DEF ConsumeReqTokens
<1>3. t.chunk = NoChunk => LastChunk(t)
  BY DEF LastChunk
<1> HIDE DEF c
<1>4. /\ c.numNew = t.numNew /\ c.status = t.status /\ (t.chunk = NoChunk => c.type = "Decode")
      /\ DOMAIN c = Fields /\ c = [f \in Fields |-> c[f]]
  BY <1>1, <1>2, <1>3 DEF Fields
<1> QED
  BY <1>4 DEF Within, c

-----------------------------------------------------------------------------
(* Scheduling *)

\* A set that has the numbers before each of its own has the number of them.
LEMMA CountedDown ==
  ASSUME NEW n \in Nat, NEW K \in SUBSET (1 .. n), \A j \in K, i \in 1 .. n : i <= j => i \in K
  PROVE  Cardinality(K) \in Nat /\ Cardinality(K) <= n /\ (K # {} => Cardinality(K) \in K)
<1>1. \A m \in Nat : IsFiniteSet(1 .. m) /\ Cardinality(1 .. m) = m
  <2> TAKE m \in Nat
  <2>1. IsFiniteSet(1 .. m) /\ Cardinality(1 .. m) = IF 1 > m THEN 0 ELSE m - 1 + 1
    BY FS_Interval
  <2> QED
    BY <2>1
<1>2. IsFiniteSet(K) /\ Cardinality(K) <= n
  <2>1. IsFiniteSet(1 .. n) /\ Cardinality(1 .. n) = n
    BY <1>1
  <2> QED
    BY <2>1, FS_Subset
<1>3. Cardinality(K) \in Nat
  BY <1>2, FS_CardinalityType
<1>4. ASSUME K # {}
      PROVE  Cardinality(K) \in K
  <2> DEFINE c == Cardinality(K)
  <2>1. c # 0
    BY <1>2, <1>4, FS_EmptySet
  <2>2. c \in 1 .. n
    BY <1>2, <1>3, <2>1
  <2>3. SUFFICES ASSUME c \notin K PROVE FALSE
    OBVIOUS
  <2>4. K \subseteq 1 .. c - 1
    <3> SUFFICES ASSUME NEW j \in K PROVE j \in 1 .. c - 1
      OBVIOUS
    <3>1. j \in 1 .. n
      OBVIOUS
    <3>2. ~(c <= j)
      BY <2>2, <2>3
    <3> QED
      BY <2>2, <3>1, <3>2
  <2>5. c - 1 \in Nat
    BY <1>3, <2>1
  <2> HIDE DEF c
  <2>6. Cardinality(K) <= c - 1
    <3> DEFINE D == 1 .. c - 1
    <3>1. IsFiniteSet(D) /\ Cardinality(D) = c - 1
      BY <1>1, <2>5
    <3>2. K \in SUBSET D
      BY <2>4
    <3> HIDE DEF D
    <3> QED
      BY <3>1, <3>2, FS_Subset
  <2> QED
    BY <1>3, <2>6 DEF c
<1> QED
  BY <1>2, <1>3, <1>4

\* The first n of a queue.
LEMMA FirstOnes ==
  ASSUME NEW s \in Seq(Reqs), NEW n \in Nat, n <= Len(s)
  PROVE  /\ SubSeq(s, 1, n) \in Seq(Reqs) /\ Len(SubSeq(s, 1, n)) = n
         /\ Elems(SubSeq(s, 1, n)) = {s[i] : i \in 1 .. n}
         /\ Elems(SubSeq(s, 1, n)) \in SUBSET Reqs
<1>1. \A i \in 1 .. n : s[i] \in Reqs
  BY LenProperties, ElementOfSeq
<1>2. /\ SubSeq(s, 1, n) \in Seq(Reqs)
      /\ Len(SubSeq(s, 1, n)) = IF 1 <= n THEN n - 1 + 1 ELSE 0
      /\ \A i \in 1 .. n - 1 + 1 : SubSeq(s, 1, n)[i] = s[1 + i - 1]
  BY <1>1, SubSeqProperties
<1>3. Len(SubSeq(s, 1, n)) = n /\ \A i \in 1 .. n : SubSeq(s, 1, n)[i] = s[i]
  BY <1>2
<1>4. DOMAIN SubSeq(s, 1, n) = 1 .. n
  BY <1>2, <1>3, LenProperties
<1>5. Elems(SubSeq(s, 1, n)) = {s[i] : i \in 1 .. n}
  BY <1>3, <1>4 DEF Elems
<1> QED
  BY <1>1, <1>2, <1>3, <1>5

Target == [r \in Reqs |-> task[r].consumed + NextReqTokensLen(task[r])]

\* What a task is to reach is a number.
LEMMA TargetFacts ==
  ASSUME task \in [Reqs -> Tasks]
  PROVE  Target \in [Reqs -> Int]
<1> SUFFICES ASSUME NEW r \in Reqs PROVE task[r].consumed + NextReqTokensLen(task[r]) \in Int
  BY DEF Target
<1> DEFINE t == task[r]
<1>1. t.prefix \in Int /\ t.consumed \in Int /\ t.chunk \in Int
  BY TaskFields
<1> HIDE DEF t
<1>2. t.consumed + NextReqTokensLen(t) \in Int
  BY <1>1 DEF NextReqTokensLen, PrefixTokensLen
<1> QED
  BY <1>2 DEF t

\* The prompts that are picked fit the threshold together, and if the first of the
\* candidates fits some are.
LEMMA PickedPrompts ==
  ASSUME IInv, threshold \in Nat
  PROVE  /\ PrefillTasks \in Seq(Reqs) /\ Elems(PrefillTasks) \subseteq Elems(batch)
         /\ PrefillTasks # <<>> => UsedBlocks + Lacking(Elems(PrefillTasks), Target) <= threshold
         /\ batch # <<>> /\ UsedBlocks + Lacking({batch[1]}, Target) <= threshold => PrefillTasks # <<>>
<1> DEFINE first(n) == Elems(SubSeq(batch, 1, n))
           fits(n) == UsedBlocks + Lacking(first(n), Target) <= threshold
           K == {n \in DOMAIN batch : fits(n)}
           c == Cardinality(K)
<1>1. /\ batch \in Seq(Reqs) /\ task \in [Reqs -> Tasks] /\ kvLen \in [Reqs -> Int]
      /\ Len(batch) \in Nat /\ DOMAIN batch = 1 .. Len(batch)
  BY LenProperties DEF IInv, EngineTypes
<1>2. Target \in [Reqs -> Int]
  BY <1>1, TargetFacts
<1>3. \A n \in DOMAIN batch : first(n) = {batch[i] : i \in 1 .. n} /\ first(n) \in SUBSET Reqs
  BY <1>1, FirstOnes
<1>4. PrefillTasks = SubSeq(batch, 1, c)
  BY DEF PrefillTasks, Target
<1>5. UsedBlocks \in Nat
  BY <1>1, PagesFinite, FS_CardinalityType DEF UsedBlocks
<1> HIDE DEF first
<1>6. ASSUME NEW j \in K, NEW i \in 1 .. Len(batch), i <= j
      PROVE  i \in K
  <2>1. first(i) \subseteq first(j) /\ first(j) \in SUBSET Reqs /\ j \in DOMAIN batch
    <3>1. 1 .. i \subseteq 1 .. j
      BY <1>1, <1>6
    <3> QED
      BY <1>1, <1>3, <3>1
  <2>2. /\ Lacking(first(i), Target) \in Nat /\ Lacking(first(j), Target) \in Nat
        /\ Lacking(first(i), Target) <= Lacking(first(j), Target)
    BY <1>1, <1>2, <2>1, LackingMonotone
  <2>3. fits(j)
    OBVIOUS
  <2>4. fits(i)
    BY <1>5, <2>2, <2>3
  <2> QED
    BY <1>1, <1>6, <2>4
<1>7. c \in Nat /\ c <= Len(batch) /\ (K # {} => c \in K)
  <2>1. K \in SUBSET (1 .. Len(batch))
    BY <1>1
  <2> HIDE DEF K
  <2> QED
    BY <1>1, <1>6, <2>1, CountedDown
<1> HIDE DEF c
<1>8. PrefillTasks \in Seq(Reqs) /\ Len(PrefillTasks) = c /\ Elems(PrefillTasks) = {batch[i] : i \in 1 .. c}
  BY <1>1, <1>4, <1>7, FirstOnes
<1>9. Elems(PrefillTasks) \subseteq Elems(batch)
  <2>1. 1 .. c \subseteq DOMAIN batch
    BY <1>1, <1>7
  <2>2. {batch[i] : i \in 1 .. c} \subseteq {batch[i] : i \in DOMAIN batch}
    BY <2>1
  <2> QED
    BY <1>8, <2>2 DEF Elems
<1>10. ASSUME PrefillTasks # <<>>
       PROVE  UsedBlocks + Lacking(Elems(PrefillTasks), Target) <= threshold
  <2>1. c # 0
    BY <1>8, <1>10, EmptySeq
  <2>2. K # {}
    BY <2>1, FS_EmptySet DEF c
  <2>3. fits(c) /\ c \in DOMAIN batch
    BY <1>7, <2>2
  <2>4. first(c) = Elems(PrefillTasks)
    BY <1>3, <1>8, <2>3
  <2> QED
    BY <2>3, <2>4
<1>11. ASSUME batch # <<>>, UsedBlocks + Lacking({batch[1]}, Target) <= threshold
       PROVE  PrefillTasks # <<>>
  <2>1. 1 \in DOMAIN batch
    <3>1. Len(batch) # 0
      BY <1>1, <1>11, EmptySeq
    <3> QED
      BY <1>1, <3>1
  <2>2. first(1) = {batch[1]}
    <3>1. first(1) = {batch[i] : i \in 1 .. 1}
      BY <1>3, <2>1
    <3> QED
      BY <3>1
  <2>3. fits(1)
    BY <1>11, <2>2
  <2>4. 1 \in K
    BY <2>1, <2>3
  <2>5. K # {}
    BY <2>4
  <2>6. c \in 1 .. Len(batch)
    BY <1>1, <1>7, <2>5
  <2>7. Len(PrefillTasks) # Len(<<>>)
    BY <1>8, <2>6, EmptySeq
  <2> QED
    BY <2>7
<1> QED
  BY <1>8, <1>9, <1>10, <1>11

-----------------------------------------------------------------------------
(* The bounds of each request *)

\* The first state.
LEMMA InitBInv == Init => BInv
<1> SUFFICES ASSUME Init PROVE BInv
  OBVIOUS
<1>1. /\ args \in Configs /\ pc = "loop" /\ threshold = NumBlocks
      /\ task = [r \in Reqs |-> NewTask(r)] /\ kvLen = [r \in Reqs |-> 0]
  BY DEF Init
<1>2. NumBlocks \in Nat /\ NumBlocks > 0
  BY <1>1, ConfigsAssumption DEF NumBlocks
<1>3. ASSUME NEW r \in Reqs
      PROVE  Within(args, r, task[r]) /\ kvLen[r] <= Cap[r] /\ task[r].consumed = 0
  <2>1. args.promptLen[r] \in Nat /\ args.maxNew[r] \in Nat /\ args.maxNew[r] > 0
    BY <1>1, ArgsFacts
  <2>2. Cap[r] = args.promptLen[r] + args.maxNew[r]
    BY <1>1, ArgsFacts DEF Cap
  <2>3. task[r].numNew = 0 /\ task[r].consumed = 0
    BY <1>1 DEF NewTask
  <2> QED
    BY <1>1, <2>1, <2>2, <2>3 DEF Within
<1>4. Bounded
  BY <1>1, <1>2, <1>3 DEF Bounded
<1> QED
  BY <1>1, <1>4 DEF BInv, Candidates, Budgeted, NeverCrashes

\* Steps that touch neither tasks nor cache keep the bounds.
LEMMA SameBounds ==
  ASSUME Bounded, UNCHANGED <<args, task, kvLen, threshold>>
  PROVE  Bounded'
BY DEF Bounded, Within, Cap, PromptLen, MaxNew, NumBlocks

\* A step keeps the bounds if it does for each request.
LEMMA EachBounded ==
  ASSUME Bounded, UNCHANGED <<args, threshold>>,
         \A r \in Reqs : /\ Within(args, r, task'[r]) /\ kvLen'[r] <= Cap[r]
                         /\ args.chunk = NoChunk /\ task'[r].type = "Prefill" => task'[r].consumed = 0
  PROVE  Bounded'
BY DEF Bounded, Within, Cap, PromptLen, MaxNew, NumBlocks

\* Chunk sizes do not matter to the bounds.
LEMMA ChunkBounded ==
  ASSUME IInv, Bounded, Chunk
  PROVE  /\ Bounded'
         /\ \A r \in Reqs : task'[r].type = task[r].type
<1>1. task \in [Reqs -> Tasks] /\ UNCHANGED <<args, kvLen, threshold>>
  BY DEF IInv, EngineTypes, Chunk
<1>2. ASSUME NEW r \in Reqs
      PROVE  /\ task'[r].type = task[r].type /\ task'[r].status = task[r].status
             /\ task'[r].numNew = task[r].numNew /\ task'[r].consumed = task[r].consumed
  <2> DEFINE t == task[r]
             t2 == task'[r]
  <2>1. t2 = t \/ \E n : t2 = [t EXCEPT !.chunk = n]
    BY DEF Chunk
  <2>2. DOMAIN t = Fields /\ t = [f \in Fields |-> t[f]]
    BY <1>1, TaskRecord
  <2> HIDE DEF t, t2
  <2>3. t2.type = t.type /\ t2.status = t.status /\ t2.numNew = t.numNew /\ t2.consumed = t.consumed
    BY <2>1, <2>2 DEF Fields
  <2> QED
    BY <2>3 DEF t, t2
<1>3. \A r \in Reqs : /\ Within(args, r, task'[r]) /\ kvLen'[r] <= Cap[r]
                      /\ args.chunk = NoChunk /\ task'[r].type = "Prefill" => task'[r].consumed = 0
  BY <1>1, <1>2 DEF Bounded, Within
<1> QED
  BY <1>1, <1>2, <1>3, EachBounded

\* The capacity of a request is a number that its prompt alone does not use up.
LEMMA CapFacts ==
  ASSUME args \in Configs
  PROVE  Cap \in [Reqs -> Int] /\ \A r \in Reqs : 0 <= Cap[r]
BY ArgsFacts DEF Cap

\* Evicted tasks start over within their bounds, and the threshold stays positive.
LEMMA EvictionBounded ==
  ASSUME IInv, Bounded, args' = args, NEW e, EvictLast(e)
  PROVE  Bounded'
<1> DEFINE gone == {order.decode[i] : i \in Len(order.decode) - e + 1 .. Len(order.decode)}
<1>1. /\ task' = [r \in Reqs |-> IF r \in gone THEN Evicted(task[r]) ELSE task[r]]
      /\ kvLen' = [r \in Reqs |-> IF r \in gone THEN 0 ELSE kvLen[r]]
      /\ \E h \in 0 .. threshold : threshold' = Larger(1, h)
  BY DEF EvictLast
<1> HIDE DEF gone
<1>2. task \in [Reqs -> Tasks] /\ args \in Configs /\ NumBlocks \in Nat /\ kvLen \in [Reqs -> Int]
  BY ArgsFacts DEF IInv, EngineTypes
<1>3. ASSUME NEW r \in Reqs
      PROVE  /\ Within(args, r, task'[r]) /\ kvLen'[r] <= Cap[r]
             /\ args.chunk = NoChunk /\ task'[r].type = "Prefill" => task'[r].consumed = 0
  <2>1. Within(args, r, task[r]) /\ kvLen[r] <= Cap[r] /\ 0 <= Cap[r]
        /\ (args.chunk = NoChunk /\ task[r].type = "Prefill" => task[r].consumed = 0)
    BY <1>2, CapFacts DEF Bounded
  <2> DEFINE t == task[r]
             v == Evicted(t)
  <2>2. v = [t EXCEPT !.next = NoToken, !.type = "Prefill", !.chunk = NoChunk, !.consumed = 0]
    BY DEF Evicted
  <2>3. DOMAIN t = Fields /\ t = [f \in Fields |-> t[f]]
    BY <1>2, TaskRecord
  <2> HIDE DEF t, v
  <2>4. v.status = t.status /\ v.numNew = t.numNew /\ v.consumed = 0
    BY <2>2, <2>3 DEF Fields
  <2>5. Within(args, r, v)
    BY <2>1, <2>4 DEF Within, t
  <2> QED
    BY <1>1, <2>1, <2>4, <2>5 DEF v, t
<1>4. threshold' \in 1 .. NumBlocks
  BY <1>1, <1>2 DEF Larger, Bounded
<1> QED
  BY <1>3, <1>4 DEF Bounded, Within, Cap, PromptLen, MaxNew, NumBlocks

\* Finished tasks become new ones.
LEMMA UpdateBounded ==
  ASSUME IInv, Bounded, Update
  PROVE  Bounded'
<1>1. /\ task' = [r \in Reqs |-> IF r \in Removed THEN NewTask(r) ELSE task[r]]
      /\ kvLen' = [r \in Reqs |-> IF r \in RemovedDecode THEN 0 ELSE kvLen[r]]
      /\ threshold' = IF RemovedDecode # {} THEN NumBlocks ELSE threshold
      /\ args' = args
  BY DEF Update
<1>2. args \in Configs /\ NumBlocks \in Nat
  BY ArgsFacts DEF IInv, EngineTypes
<1>3. ASSUME NEW r \in Reqs
      PROVE  /\ Within(args, r, task'[r]) /\ kvLen'[r] <= Cap[r]
             /\ args.chunk = NoChunk /\ task'[r].type = "Prefill" => task'[r].consumed = 0
  <2>1. Within(args, r, task[r]) /\ kvLen[r] <= Cap[r] /\ 0 <= Cap[r]
        /\ (args.chunk = NoChunk /\ task[r].type = "Prefill" => task[r].consumed = 0)
    BY <1>2, CapFacts DEF Bounded
  <2>2. args.maxNew[r] \in Nat /\ args.maxNew[r] > 0
    BY <1>2, ArgsFacts
  <2>3. NewTask(r).numNew = 0 /\ NewTask(r).consumed = 0
    BY DEF NewTask
  <2>4. Within(args, r, NewTask(r))
    BY <2>2, <2>3 DEF Within
  <2> QED
    BY <1>1, <2>1, <2>3, <2>4
<1>4. threshold' \in 1 .. NumBlocks
  BY <1>1, <1>2 DEF Bounded
<1> QED
  BY <1>1, <1>3, <1>4 DEF Bounded, Within, Cap, PromptLen, MaxNew, NumBlocks

\* A step that runs what Stepping says has a batch of that type from the pool.
LEMMA BatchOfType ==
  ASSUME IInv, NEW type, Stepping(type)
  PROVE  \A r \in Elems(batch) : r \in Pooled /\ r \in Reqs /\ task[r].type = type /\ task[r].status # "Stopped"
<1>1. pc = "step"
  BY DEF Stepping
<1>2. \A r \in Elems(batch) : /\ r \in Reqs /\ task[r].type = type /\ task[r].status # "Stopped"
  BY <1>1, BatchFacts
<1>3. \A r \in Elems(batch) : r \in Pooled
  BY <1>1 DEF IInv, Scheduled, OfType
<1> QED
  BY <1>2, <1>3

\* Prompts grow into the cache by what is left of them at most.
LEMMA StepPrefillBounded ==
  ASSUME IInv, Bounded, StepPrefill
  PROVE  Bounded'
<1> DEFINE B == Elems(batch)
           outputs == {r \in B : HasOutput(task[r])}
           consumed == [r \in Reqs |-> IF r \in B THEN ConsumeReqTokens(task[r]) ELSE task[r]]
<1>1. /\ Stepping("Prefill") /\ pc = "step" /\ UNCHANGED <<args, threshold>>
      /\ kvLen' = [r \in Reqs |-> IF r \in B THEN kvLen[r] + NextReqTokensLen(task[r]) ELSE kvLen[r]]
  BY DEF StepPrefill, Stepping
<1>2. \E tok : \/ task' = [r \in Reqs |-> IF r \in outputs THEN [consumed[r] EXCEPT !.gen = tok[r]]
                                                            ELSE consumed[r]]
               \/ task' = consumed
               \/ task' = SyncedTasks(consumed, B, tok)
  BY DEF StepPrefill
<1>3. args \in Configs /\ task \in [Reqs -> Tasks] /\ kvLen \in [Reqs -> Int]
  BY DEF IInv, EngineTypes
<1>4. \A r \in B : r \in Pooled /\ r \in Reqs /\ task[r].type = "Prefill" /\ task[r].status # "Stopped"
  BY <1>1, BatchOfType
<1>5. ASSUME NEW r \in Reqs
      PROVE  /\ Within(args, r, consumed[r])
             /\ args.chunk = NoChunk /\ consumed[r].type = "Prefill" => consumed[r].consumed = 0
             /\ consumed[r].numNew \in Nat
             /\ consumed[r].status \in {"Normal", "WillStopLength", "Stopped"}
             /\ DOMAIN consumed[r] = Fields /\ consumed[r] = [f \in Fields |-> consumed[r][f]]
  <2> DEFINE t == task[r]
             c == consumed[r]
  <2>1. t \in Tasks /\ t.numNew \in Nat /\ t.status \in {"Normal", "WillStopLength", "Stopped"}
        /\ DOMAIN t = Fields /\ t = [f \in Fields |-> t[f]]
    <3>1. task[r] \in Tasks
      BY <1>3
    <3> QED
      BY <3>1, TaskFields, TaskRecord
  <2>2. Within(args, r, t) /\ (args.chunk = NoChunk /\ t.type = "Prefill" => t.consumed = 0)
    BY DEF Bounded
  <2>3. CASE r \in B
    <3>1. args.chunk = NoChunk => t.chunk = NoChunk
      BY <1>1, <1>4, <2>3, NoneStopped DEF Going
    <3>2. c = ConsumeReqTokens(t)
      BY <2>3
    <3> HIDE DEF t, c
    <3>3. /\ Within(args, r, c) /\ (t.chunk = NoChunk => c.type = "Decode")
          /\ c.numNew = t.numNew /\ c.status = t.status
          /\ DOMAIN c = Fields /\ c = [f \in Fields |-> c[f]]
      BY <2>1, <2>2, <3>2, WithinConsumed
    <3>4. /\ Within(args, r, c) /\ c.numNew \in Nat /\ c.status \in {"Normal", "WillStopLength", "Stopped"}
          /\ DOMAIN c = Fields /\ c = [f \in Fields |-> c[f]]
          /\ (args.chunk = NoChunk /\ c.type = "Prefill" => c.consumed = 0)
      BY <2>1, <3>1, <3>3
    <3> QED
      BY <3>4 DEF c
  <2>4. CASE r \notin B
    <3>1. c = t
      BY <2>4
    <3> QED
      BY <2>1, <2>2, <3>1
  <2> QED
    BY <2>3, <2>4
<1>6. ASSUME NEW r \in Reqs
      PROVE  kvLen'[r] <= Cap[r]
  <2>1. kvLen[r] <= Cap[r] /\ Within(args, r, task[r])
    BY DEF Bounded
  <2>2. CASE r \in B
    <3>1. kvLen'[r] = kvLen[r] + NextReqTokensLen(task[r])
      BY <1>1, <2>2
    <3>2. /\ task[r].prefix \in Int /\ task[r].consumed \in Int /\ Cap \in [Reqs -> Int]
          /\ task[r].prefix <= Cap[r] /\ kvLen[r] = task[r].consumed
          /\ NextReqTokensLen(task[r]) \in Int
          /\ task[r].consumed + NextReqTokensLen(task[r]) <= task[r].prefix
      BY <1>1, <1>4, <2>1, <2>2, PlanFacts
    <3> QED
      BY <3>1, <3>2
  <2>3. CASE r \notin B
    BY <1>1, <2>1, <2>3
  <2> QED
    BY <2>2, <2>3
<1> HIDE DEF B, outputs, consumed
<1>7. ASSUME NEW r \in Reqs
      PROVE  /\ Within(args, r, task'[r])
             /\ args.chunk = NoChunk /\ task'[r].type = "Prefill" => task'[r].consumed = 0
  <2> DEFINE c == consumed[r]
             t2 == task'[r]
  <2>1. /\ Within(args, r, c)
        /\ args.chunk = NoChunk /\ c.type = "Prefill" => c.consumed = 0
        /\ c.numNew \in Nat
        /\ c.status \in {"Normal", "WillStopLength", "Stopped"}
        /\ DOMAIN c = Fields /\ c = [f \in Fields |-> c[f]]
    BY <1>5
  <2>2. PICK tok : \/ task' = [i \in Reqs |-> IF i \in outputs THEN [consumed[i] EXCEPT !.gen = tok[i]]
                                                                ELSE consumed[i]]
                   \/ task' = consumed
                   \/ task' = SyncedTasks(consumed, B, tok)
    BY <1>2
  <2>3. t2 = c \/ t2 = [c EXCEPT !.gen = tok[r]] \/ t2 = SyncedTasks(consumed, B, tok)[r]
    BY <2>2
  <2> DEFINE s == SyncedTasks(consumed, B, tok)[r]
  <2>4. Within(args, r, s) /\ s.type = c.type /\ s.consumed = c.consumed
    <3>1. Within(args, r, c) /\ TaskLike(c)
      BY <2>1 DEF TaskLike
    <3>2. Continued(args, r, consumed[r], SyncedTasks(consumed, B, tok)[r])
      BY <1>3, <3>1, WithinSynced
    <3> QED
      BY <3>2 DEF Continued
  <2> HIDE DEF c, t2, s
  <2>5. t2 = c \/ t2 = [c EXCEPT !.gen = tok[r]] \/ t2 = s
    BY <2>3 DEF s
  <2>6. t2.type = c.type /\ t2.consumed = c.consumed /\ Within(args, r, t2)
    <3>1. CASE t2 = [c EXCEPT !.gen = tok[r]]
      <4>1. t2.type = c.type /\ t2.consumed = c.consumed /\ t2.status = c.status /\ t2.numNew = c.numNew
        BY <2>1, <3>1 DEF Fields
      <4> QED
        BY <2>1, <4>1 DEF Within
    <3> QED
      BY <2>1, <2>4, <2>5, <3>1
  <2> QED
    BY <2>1, <2>6 DEF t2
<1> QED
  BY <1>1, <1>6, <1>7, EachBounded

\* Requests that decode have room for a token more.
LEMMA StepDecodeBounded ==
  ASSUME IInv, Bounded, StepDecode
  PROVE  Bounded'
<1> DEFINE B == Elems(batch)
           ran == [r \in Reqs |-> IF r \in B THEN [task[r] EXCEPT !.sync = FALSE] ELSE task[r]]
<1>1. /\ Stepping("Decode") /\ pc = "step" /\ UNCHANGED <<args, threshold>> /\ ~args.overlap
      /\ kvLen' = [r \in Reqs |-> IF r \in B THEN kvLen[r] + 1 ELSE kvLen[r]]
  BY DEF StepDecode, Stepping
<1>2. PICK tok : task' = SyncedTasks(ran, B, tok)
  BY DEF StepDecode
<1>3. args \in Configs /\ task \in [Reqs -> Tasks] /\ kvLen \in [Reqs -> Int]
  BY DEF IInv, EngineTypes
<1>4. \A r \in B : r \in Pooled /\ r \in Reqs /\ task[r].type = "Decode" /\ task[r].status # "Stopped"
  BY <1>1, BatchOfType
<1>5. ASSUME NEW r \in Reqs
      PROVE  kvLen'[r] <= Cap[r]
  <2>1. kvLen[r] <= Cap[r] /\ Within(args, r, task[r])
    BY DEF Bounded
  <2>2. CASE r \in B
    <3>1. task[r].prefix <= Cap[r] /\ kvLen[r] + 1 = task[r].prefix
      BY <1>1, <1>4, <2>1, <2>2, PlanFacts
    <3> QED
      BY <1>1, <2>2, <3>1
  <2>3. CASE r \notin B
    BY <1>1, <2>1, <2>3
  <2> QED
    BY <2>2, <2>3
<1>6. \A r \in Reqs : ran[r] = task[r] \/ ran[r] = [task[r] EXCEPT !.sync = FALSE]
  OBVIOUS
<1> HIDE DEF B, ran
<1>7. ASSUME NEW r \in Reqs
      PROVE  /\ Within(args, r, task'[r])
             /\ args.chunk = NoChunk /\ task'[r].type = "Prefill" => task'[r].consumed = 0
  <2> DEFINE t == task[r]
             c == ran[r]
             s == SyncedTasks(ran, B, tok)[r]
  <2>1. t \in Tasks /\ t.numNew \in Nat /\ t.status \in {"Normal", "WillStopLength", "Stopped"}
        /\ DOMAIN t = Fields /\ t = [f \in Fields |-> t[f]]
    <3>1. task[r] \in Tasks
      BY <1>3
    <3> QED
      BY <3>1, TaskFields, TaskRecord
  <2>2. Within(args, r, t) /\ (args.chunk = NoChunk /\ t.type = "Prefill" => t.consumed = 0)
    BY DEF Bounded
  <2>3. c = t \/ c = [t EXCEPT !.sync = FALSE]
    BY <1>6
  <2> HIDE DEF t, c
  <2>4. /\ c.numNew = t.numNew /\ c.status = t.status /\ c.type = t.type /\ c.consumed = t.consumed
        /\ DOMAIN c = Fields /\ c = [f \in Fields |-> c[f]]
    BY <2>1, <2>3 DEF Fields
  <2>5. Within(args, r, c) /\ c.numNew \in Nat /\ c.status \in {"Normal", "WillStopLength", "Stopped"}
    BY <2>1, <2>2, <2>4 DEF Within
  <2>6. Within(args, r, s) /\ s.type = c.type /\ s.consumed = c.consumed
    <3>1. Within(args, r, ran[r]) /\ TaskLike(ran[r])
      BY <2>4, <2>5 DEF TaskLike, c
    <3>2. Continued(args, r, ran[r], SyncedTasks(ran, B, tok)[r])
      BY <1>3, <3>1, WithinSynced
    <3> QED
      BY <3>2 DEF Continued, c
  <2> HIDE DEF s
  <2>7. task'[r] = s
    BY <1>2 DEF s
  <2> QED
    BY <2>2, <2>4, <2>6, <2>7
<1> QED
  BY <1>1, <1>5, <1>7, EachBounded

\* With overlap only those that are short of their limit take a token more.
LEMMA StepDecodeOverlapBounded ==
  ASSUME IInv, Bounded, StepDecodeOverlap
  PROVE  Bounded'
<1> DEFINE B == Elems(batch)
           R == Running
           last == [r \in B |-> task[r].gen]
           synced == SyncedTasks(task, B, last)
<1>1. /\ Stepping("Decode") /\ pc = "step" /\ UNCHANGED <<args, threshold>> /\ args.overlap
      /\ kvLen' = [r \in Reqs |-> IF r \in R THEN kvLen[r] + 1 ELSE kvLen[r]]
  BY DEF StepDecodeOverlap, Stepping
<1>2. PICK tok : task' = [r \in Reqs |-> IF r \in R
                                         THEN [synced[r] EXCEPT !.sync = FALSE, !.gen = tok[r]]
                                         ELSE synced[r]]
  BY DEF StepDecodeOverlap
<1>3. args \in Configs /\ task \in [Reqs -> Tasks] /\ kvLen \in [Reqs -> Int]
  BY DEF IInv, EngineTypes
<1>4. \A r \in R : r \in Pooled /\ r \in Reqs /\ task[r].type = "Decode" /\ task[r].status = "Normal"
  <2>1. \A r \in B : r \in Pooled /\ r \in Reqs /\ task[r].type = "Decode"
    BY <1>1, BatchOfType
  <2> QED
    BY <1>1, <2>1 DEF Running, HasModelRun
<1>5. ASSUME NEW r \in Reqs
      PROVE  kvLen'[r] <= Cap[r]
  <2>1. kvLen[r] <= Cap[r] /\ Within(args, r, task[r])
    BY DEF Bounded
  <2>2. CASE r \in R
    <3>1. task[r].prefix + 1 <= Cap[r] /\ kvLen[r] = task[r].prefix
      BY <1>1, <1>4, <2>1, <2>2, PlanFacts
    <3> QED
      BY <1>1, <2>2, <3>1
  <2>3. CASE r \notin R
    BY <1>1, <2>1, <2>3
  <2> QED
    BY <2>2, <2>3
<1> HIDE DEF B, R, last
<1>6. ASSUME NEW r \in Reqs
      PROVE  /\ Within(args, r, task'[r])
             /\ args.chunk = NoChunk /\ task'[r].type = "Prefill" => task'[r].consumed = 0
  <2> DEFINE t == task[r]
             s == synced[r]
             t2 == task'[r]
  <2>1. t \in Tasks /\ t.numNew \in Nat /\ t.status \in {"Normal", "WillStopLength", "Stopped"}
        /\ DOMAIN t = Fields /\ t = [f \in Fields |-> t[f]]
    <3>1. task[r] \in Tasks
      BY <1>3
    <3> QED
      BY <3>1, TaskFields, TaskRecord
  <2>2. Within(args, r, t) /\ (args.chunk = NoChunk /\ t.type = "Prefill" => t.consumed = 0)
    BY DEF Bounded
  <2>3. /\ Within(args, r, s) /\ s.type = t.type /\ s.consumed = t.consumed
        /\ DOMAIN s = Fields /\ s = [f \in Fields |-> s[f]]
    <3>1. Within(args, r, task[r]) /\ TaskLike(task[r])
      BY <2>1, <2>2 DEF TaskLike
    <3>2. Continued(args, r, task[r], SyncedTasks(task, B, last)[r])
      BY <1>3, <3>1, WithinSynced
    <3> QED
      BY <3>2 DEF Continued
  <2>4. t2 = s \/ t2 = [s EXCEPT !.sync = FALSE, !.gen = tok[r]]
    BY <1>2
  <2> HIDE DEF t, s, t2
  <2>5. t2.type = s.type /\ t2.consumed = s.consumed /\ t2.status = s.status /\ t2.numNew = s.numNew
    BY <2>3, <2>4 DEF Fields
  <2>6. Within(args, r, t2)
    BY <2>3, <2>5 DEF Within
  <2> QED
    BY <2>2, <2>3, <2>5, <2>6 DEF t2
<1> QED
  BY <1>1, <1>5, <1>6, EachBounded

-----------------------------------------------------------------------------
(* What a step takes *)

\* Where nothing is scheduled or stepped, the bounds are all there is.
LEMMA OnlyBounds ==
  ASSUME Bounded', pc' \in {"loop", "schedule", "update"}
  PROVE  BInv'
BY DEF BInv, Candidates, Budgeted, NeverCrashes

\* The HTTP thread does not interfere.
LEMMA SameBudget ==
  ASSUME BInv, UNCHANGED <<args, idList, task, kvLen, threshold, order, batch, pc>>
  PROVE  BInv'
<1>1. Bounded'
  BY SameBounds DEF BInv
<1>2. Pooled' = Pooled /\ Elems(order.decode)' = Elems(order.decode) /\ Elems(batch)' = Elems(batch)
  BY DEF Pooled, Elems
<1>3. PrefillTurn' <=> PrefillTurn
  BY DEF PrefillTurn, Before, IndexOf
<1>4. Candidates'
  BY <1>2, <1>3 DEF BInv, Candidates
<1>5. Plans' = Plans
  BY DEF Plans, NextReqTokensLen, LastChunk, PrefixTokensLen
<1>6. Runners' = Runners /\ Running' = Running
  BY <1>2 DEF Runners, Running, HasModelRun
<1>7. (\A S, len : Lacking(S, len)' = Lacking(S, len)) /\ UsedBlocks' = UsedBlocks /\ NumBlocks' = NumBlocks
  BY DEF Lacking, PagesOf, UsedBlocks, NumBlocks
<1>8. Budgeted'
  BY <1>5, <1>6, <1>7 DEF BInv, Budgeted, Allocates
<1>9. (AllFit' <=> AllFit) /\ (Servable' <=> Servable) /\ (Unbudgeted' <=> Unbudgeted)
  BY <1>6 DEF AllFit, Servable, Unbudgeted, Capacity, PagesOf, PromptLen, MaxNew, NumBlocks
<1>10. NeverCrashes'
  BY <1>9 DEF BInv, NeverCrashes
<1> QED
  BY <1>1, <1>4, <1>8, <1>10 DEF BInv

\* The decode tasks that are sorted are all of them.
LEMMA SortBudget ==
  ASSUME IInv, BInv, Sort
  PROVE  BInv'
<1>1. /\ pc = "schedule" /\ pc' = "chunk"
      /\ UNCHANGED <<args, submitted, pending, idList, task, req, kvLen, threshold, results, batch>>
  BY DEF Sort
<1>2. PICK d \in Sorted("Decode") : order'.decode = d
  BY DEF Sort
<1> DEFINE S == {r \in Pooled : task[r].status # "Stopped" /\ task[r].type = "Decode"}
<1>3. d \in Listings(S)
  BY DEF Sorted
<1>4. Pooled \in SUBSET Reqs
  BY DEF IInv, QueuedOnce, EngineTypes
<1>5. Elems(d) = S
  BY <1>3, <1>4, ListingFacts
<1>6. \A r \in Pooled : task[r].status # "Stopped"
  BY <1>1, NoneStopped
<1>7. Pooled' = Pooled /\ task' = task /\ Elems(order.decode)' = S
  BY <1>1, <1>2, <1>5 DEF Pooled, Elems
<1>8. Candidates'
  BY <1>1, <1>6, <1>7 DEF Candidates
<1>9. Bounded'
  BY <1>1, SameBounds DEF BInv
<1> QED
  BY <1>1, <1>8, <1>9 DEF BInv, Budgeted, NeverCrashes

\* The first prompt is always a candidate.
LEMMA ChunkBudget ==
  ASSUME IInv, BInv, Chunk
  PROVE  BInv'
<1>1. /\ pc = "chunk" /\ pc' = "select"
      /\ UNCHANGED <<args, submitted, pending, idList, req, kvLen, threshold, results, order>>
      /\ PrefillTurn => batch' = ChunkCandidates
  BY DEF Chunk
<1>2. Bounded' /\ \A r \in Reqs : task'[r].type = task[r].type
  BY ChunkBounded DEF BInv
<1>3. /\ order.prefill \in Seq(Reqs) /\ order.decode \in Seq(Reqs) /\ args.chunk \in Nat
      /\ Pooled \in SUBSET Reqs
  BY ArgsFacts DEF IInv, EngineTypes, QueuedOnce
<1>4. \A r \in Pooled' : task'[r].type = "Decode" => r \in Elems(order.decode)'
  <2>1. Pooled' = Pooled /\ Elems(order.decode)' = Elems(order.decode)
    BY <1>1 DEF Pooled, Elems
  <2> QED
    BY <1>1, <1>2, <1>3, <2>1 DEF BInv, Candidates
<1>5. PrefillTurn' => PrefillTurn
  <2> SUFFICES ASSUME PrefillTurn' PROVE PrefillTurn
    OBVIOUS
  <2>1. order.prefill # <<>>
    BY <1>1 DEF PrefillTurn
  <2>2. ASSUME order.decode # <<>>
        PROVE  Before(Head(order.prefill), Head(order.decode))
    <3>1. PICK p, d : p = Head(order.prefill) /\ d = Head(order.decode)
      OBVIOUS
    <3>2. p \in Reqs /\ d \in Reqs
      BY <1>3, <2>1, <2>2, <3>1, HeadTailProperties
    <3>3. task'[p].type = task[p].type /\ task'[d].type = task[d].type
      BY <1>2, <3>2
    <3>4. Before(Head(order.prefill), Head(order.decode))'
      BY <1>1, <2>2 DEF PrefillTurn
    <3>5. Before(p, d)'
      BY <1>1, <3>1, <3>4
    <3>6. IndexOf(p)' = IndexOf(p) /\ IndexOf(d)' = IndexOf(d)
      BY <1>1 DEF IndexOf
    <3>7. Before(p, d)
      BY <3>3, <3>5, <3>6 DEF Before
    <3> QED
      BY <3>1, <3>7
  <2> QED
    BY <2>1, <2>2 DEF PrefillTurn
<1>6. ASSUME PrefillTurn PROVE batch' # <<>>
  <2>1. order.prefill # <<>> /\ batch' = ChunkCandidates
    BY <1>1, <1>6 DEF PrefillTurn
  <2>2. CASE args.chunk = NoChunk
    BY <2>1, <2>2 DEF ChunkCandidates
  <2>3. CASE args.chunk # NoChunk
    <3> DEFINE K == {i \in DOMAIN order.prefill : RemainingBefore(i) < args.chunk}
               c == Cardinality(K)
    <3>1. DOMAIN order.prefill = 1 .. Len(order.prefill) /\ Len(order.prefill) \in Nat
      BY <1>3, LenProperties
    <3>2. 1 \in DOMAIN order.prefill
      <4>1. Len(order.prefill) # 0
        BY <1>3, <2>1, EmptySeq
      <4> QED
        BY <3>1, <4>1
    <3>3. RemainingBefore(1) = 0
      <4>1. 1 .. 1 - 1 = {}
        OBVIOUS
      <4>2. RemainingBefore(1) = Cardinality({})
        BY <4>1 DEF RemainingBefore
      <4> QED
        BY <4>2, FS_EmptySet
    <3>4. 1 \in K
      BY <1>3, <2>3, <3>2, <3>3 DEF NoChunk
    <3>5. IsFiniteSet(DOMAIN order.prefill) /\ Cardinality(DOMAIN order.prefill) = Len(order.prefill)
      <4>1. /\ IsFiniteSet(1 .. Len(order.prefill))
            /\ Cardinality(1 .. Len(order.prefill)) = IF 1 > Len(order.prefill) THEN 0 ELSE Len(order.prefill) - 1 + 1
        BY <3>1, FS_Interval
      <4> QED
        BY <3>1, <4>1
    <3>6. c \in Nat /\ c <= Len(order.prefill) /\ c # 0
      <4>1. K \in SUBSET DOMAIN order.prefill /\ K # {}
        BY <3>4
      <4> HIDE DEF K
      <4>2. IsFiniteSet(K) /\ c <= Len(order.prefill)
        BY <3>5, <4>1, FS_Subset
      <4> QED
        BY <4>1, <4>2, FS_CardinalityType, FS_EmptySet
    <3>7. ChunkCandidates = SubSeq(order.prefill, 1, c)
      BY <2>3 DEF ChunkCandidates
    <3> HIDE DEF c
    <3>8. Len(ChunkCandidates) = c
      BY <1>3, <3>6, <3>7, FirstOnes
    <3> QED
      BY <2>1, <3>6, <3>8, EmptySeq
  <2> QED
    BY <2>2, <2>3
<1>7. Candidates'
  BY <1>1, <1>4, <1>5, <1>6 DEF Candidates
<1> QED
  BY <1>1, <1>2, <1>7 DEF BInv, Budgeted, NeverCrashes

\* The plans are numbers.
LEMMA PlansFacts ==
  ASSUME task \in [Reqs -> Tasks]
  PROVE  Plans \in [Reqs -> Int] /\ [r \in Reqs |-> PrefixTokensLen(task[r])] \in [Reqs -> Int]
<1>1. ASSUME NEW r \in Reqs
      PROVE  task[r].consumed + NextReqTokensLen(task[r]) \in Int /\ PrefixTokensLen(task[r]) \in Int
  <2> DEFINE t == task[r]
  <2>1. t.prefix \in Int /\ t.consumed \in Int /\ t.chunk \in Int
    BY TaskFields
  <2> HIDE DEF t
  <2>2. t.consumed + NextReqTokensLen(t) \in Int /\ PrefixTokensLen(t) \in Int
    BY <2>1 DEF NextReqTokensLen, PrefixTokensLen
  <2> QED
    BY <2>2 DEF t
<1> QED
  BY <1>1 DEF Plans

\* Prompts are batched when the pages they lack are free.
LEMMA SchedulePrefillBudget ==
  ASSUME IInv, BInv, SchedulePrefill
  PROVE  BInv'
<1>1. /\ pc = "select" /\ pc' = "step" /\ batch' = Prefix(PrefillTasks, NumTasks)
      /\ UNCHANGED <<args, submitted, pending, idList, task, req, kvLen, threshold, results>>
      /\ PrefillTasks # <<>>
  BY DEF SchedulePrefill
<1>2. /\ task \in [Reqs -> Tasks] /\ kvLen \in [Reqs -> Int] /\ NumBlocks \in Nat
      /\ OfType(batch, "Prefill") /\ Pooled \in SUBSET Reqs
  BY <1>1, ArgsFacts DEF IInv, EngineTypes, Scheduled, QueuedOnce
<1>3. threshold \in 1 .. NumBlocks
  BY DEF BInv, Bounded
<1>4. /\ PrefillTasks \in Seq(Reqs) /\ Elems(PrefillTasks) \subseteq Elems(batch)
      /\ UsedBlocks + Lacking(Elems(PrefillTasks), Target) <= threshold
  <2>1. threshold \in Nat
    BY <1>2, <1>3
  <2> QED
    BY <1>1, <2>1, PickedPrompts
<1>5. PICK S : S = Runners'
  OBVIOUS
<1>6. S \subseteq Elems(PrefillTasks)
  <2>1. \A x \in Elems(Prefix(PrefillTasks, NumTasks)) : \E i \in DOMAIN PrefillTasks : PrefillTasks[i] = x
    <3> DEFINE s == SubSeq(PrefillTasks, 1, Smaller(NumTasks, Len(PrefillTasks)))
    <3>1. \A x \in Elems(s) : \E i \in DOMAIN PrefillTasks : i <= NumTasks /\ PrefillTasks[i] = x
      BY <1>4, NumTasksAssumption, ElemsOfSubSeq
    <3>2. Prefix(PrefillTasks, NumTasks) = s
      BY DEF Prefix
    <3> HIDE DEF s
    <3> QED
      BY <3>1, <3>2
  <2>2. Elems(batch)' = Elems(Prefix(PrefillTasks, NumTasks))
    BY <1>1 DEF Elems
  <2>3. S \subseteq Elems(batch)'
    BY <1>5 DEF Runners
  <2> QED
    BY <2>1, <2>2, <2>3 DEF Elems
<1>7. \A r \in Elems(batch) : r \in Reqs /\ Plans[r] = Target[r]
  BY <1>2 DEF OfType, Plans, Target
<1>8. Elems(PrefillTasks) \in SUBSET Reqs /\ S \in SUBSET Elems(PrefillTasks)
  BY <1>4, <1>6, <1>7
<1>9. /\ Lacking(S, Plans) \in Nat /\ Lacking(Elems(PrefillTasks), Target) \in Nat
      /\ Lacking(S, Plans) <= Lacking(Elems(PrefillTasks), Target)
  <2>1. Plans \in [Reqs -> Int] /\ Target \in [Reqs -> Int]
    BY <1>2, PlansFacts, TargetFacts
  <2>2. \A r \in S : Held(Plans[r]) = Held(Target[r])
    BY <1>4, <1>6, <1>7
  <2> QED
    BY <1>2, <1>8, <2>1, <2>2, LackingMonotone
<1>10. UsedBlocks \in Nat
  BY <1>2, PagesFinite, FS_CardinalityType DEF UsedBlocks
<1>11. Lacking(S, Plans) <= NumBlocks - UsedBlocks
  BY <1>2, <1>3, <1>4, <1>9, <1>10
<1>12. Budgeted'
  <2>1. Plans' = Plans
    BY <1>1 DEF Plans, NextReqTokensLen, LastChunk, PrefixTokensLen
  <2>2. Lacking(S, Plans)' = Lacking(S, Plans) /\ UsedBlocks' = UsedBlocks /\ NumBlocks' = NumBlocks
    BY <1>1, <2>1 DEF Lacking, PagesOf, UsedBlocks, NumBlocks
  <2>3. Allocates(S, Plans)'
    BY <1>11, <2>2 DEF Allocates
  <2>4. Allocates(Runners, Plans)'
    BY <1>5, <2>3
  <2> QED
    BY <2>4 DEF Budgeted
<1>13. Bounded'
  BY <1>1, SameBounds DEF BInv
<1> QED
  BY <1>1, <1>12, <1>13 DEF BInv, Candidates, NeverCrashes

\* The first candidate fits a cache that is empty.
LEMMA FirstPromptFits ==
  ASSUME IInv, BInv, pc = "select", PrefillTurn, Servable, threshold = NumBlocks, UsedBlocks = 0
  PROVE  PrefillTasks # <<>>
<1>1. /\ args \in Configs /\ task \in [Reqs -> Tasks] /\ kvLen \in [Reqs -> Int] /\ NumBlocks \in Nat
      /\ OfType(batch, "Prefill") /\ Pooled \in SUBSET Reqs /\ batch \in Seq(Reqs) /\ batch # <<>>
  BY ArgsFacts DEF IInv, EngineTypes, Scheduled, QueuedOnce, BInv, Candidates
<1>2. batch[1] \in Elems(batch)
  <2>1. Len(batch) \in Nat /\ DOMAIN batch = 1 .. Len(batch) /\ Len(batch) # 0
    BY <1>1, LenProperties, EmptySeq
  <2>2. 1 \in DOMAIN batch
    BY <2>1
  <2> QED
    BY <2>2 DEF Elems
<1> DEFINE b == batch[1]
<1>3. b \in Pooled /\ b \in Reqs /\ task[b].type = "Prefill"
  BY <1>1, <1>2 DEF OfType
<1> HIDE DEF b
<1>4. Cap \in [Reqs -> Int] /\ Target \in [Reqs -> Int] /\ Target[b] <= Cap[b] /\ kvLen[b] <= Cap[b]
  <2>1. Within(args, b, task[b]) /\ kvLen[b] <= Cap[b]
    BY <1>3 DEF BInv, Bounded
  <2>2. /\ task[b].prefix \in Int /\ Cap \in [Reqs -> Int] /\ task[b].prefix <= Cap[b]
        /\ task[b].consumed + NextReqTokensLen(task[b]) <= task[b].prefix
    BY <1>3, <2>1, PlanFacts
  <2>3. Target \in [Reqs -> Int] /\ Target[b] = task[b].consumed + NextReqTokensLen(task[b])
    BY <1>1, <1>3, TargetFacts DEF Target
  <2>4. Target[b] \in Int /\ Cap[b] \in Int
    BY <1>3, <2>2, <2>3
  <2> QED
    BY <2>1, <2>2, <2>3, <2>4
<1>5. /\ Lacking({b}, Target) \in Nat /\ UsedBlocks \in Nat /\ Cardinality(PagesOf(Reqs, kvLen)) \in Nat
      /\ Lacking({b}, Target) <= (NumBlocks - UsedBlocks) + Cardinality(PagesOf(Reqs, kvLen))
  <2>1. Capacity({b}) <= NumBlocks
    BY <1>1, <1>3, <1>4, EachCapacity
  <2>2. {b} \in SUBSET Reqs /\ {b} \in SUBSET {b} /\ Reqs \in SUBSET Reqs
    BY <1>3
  <2>3. /\ \A r \in {b} : Target[r] <= Cap[r]
        /\ \A r \in {b} : kvLen[r] <= Cap[r]
    BY <1>4
  <2> QED
    BY <1>1, <1>4, <2>1, <2>2, <2>3, Room
<1>6. UsedBlocks + Lacking({b}, Target) <= threshold
  BY <1>1, <1>5 DEF UsedBlocks
<1>7. threshold \in Nat
  BY <1>1
<1> QED
  BY <1>1, <1>6, <1>7, PickedPrompts DEF b

\* The decode tasks of the order, those that an eviction of the last e spares, and the rest.
Spared(e) == {order.decode[i] : i \in 1 .. Len(order.decode) - e}
Evictees(e) == {order.decode[i] : i \in Len(order.decode) - e + 1 .. Len(order.decode)}

\* They are different.
LEMMA SparedFacts ==
  ASSUME IInv, pc = "select", NEW e \in Nat, e <= Len(order.decode)
  PROVE  /\ Len(order.decode) \in Nat /\ Elems(order.decode) \in SUBSET Reqs
         /\ \A r \in Elems(order.decode) : r \in Pooled /\ r \in Reqs /\ task[r].type = "Decode"
         /\ Spared(e) \subseteq Elems(order.decode) /\ Evictees(e) \subseteq Elems(order.decode)
         /\ Elems(order.decode) \ Spared(e) = Evictees(e)
<1>1. /\ order.decode \in Seq(Reqs) /\ OfType(order.decode, "Decode") /\ NoRepeat(order.decode)
      /\ Pooled \in SUBSET Reqs
  BY DEF IInv, EngineTypes, Scheduled, QueuedOnce
<1>2. DOMAIN order.decode = 1 .. Len(order.decode) /\ Len(order.decode) \in Nat
  BY <1>1, LenProperties
<1>3. \A r \in Elems(order.decode) : r \in Pooled /\ r \in Reqs /\ task[r].type = "Decode"
  BY <1>1 DEF OfType
<1>4. /\ 1 .. Len(order.decode) - e \subseteq DOMAIN order.decode
      /\ Len(order.decode) - e + 1 .. Len(order.decode) \subseteq DOMAIN order.decode
      /\ \A i \in DOMAIN order.decode : i \in 1 .. Len(order.decode) - e \/ i \in Len(order.decode) - e + 1 .. Len(order.decode)
      /\ \A i \in 1 .. Len(order.decode) - e, j \in Len(order.decode) - e + 1 .. Len(order.decode) : i # j
  BY <1>2
<1>5. Spared(e) \subseteq Elems(order.decode) /\ Evictees(e) \subseteq Elems(order.decode)
  BY <1>4 DEF Spared, Evictees, Elems
<1>6. Elems(order.decode) \subseteq Spared(e) \cup Evictees(e)
  BY <1>4 DEF Spared, Evictees, Elems
<1>7. Spared(e) \cap Evictees(e) = {}
  <2> SUFFICES ASSUME NEW i \in 1 .. Len(order.decode) - e,
                      NEW j \in Len(order.decode) - e + 1 .. Len(order.decode),
                      order.decode[i] = order.decode[j]
               PROVE  FALSE
    BY DEF Spared, Evictees
  <2>1. i \in DOMAIN order.decode /\ j \in DOMAIN order.decode /\ i # j
    BY <1>4
  <2> QED
    BY <1>1, <2>1 DEF NoRepeat
<1>8. Elems(order.decode) \ Spared(e) = Evictees(e)
  BY <1>5, <1>6, <1>7
<1> QED
  BY <1>2, <1>3, <1>5, <1>8

\* The tokens of a task that is going to run stay within its bounds.
LEMMA PrefixWithin ==
  ASSUME IInv, BInv, pc = "select", NEW r \in Elems(order.decode), HasModelRun(task[r])
  PROVE  PrefixTokensLen(task[r]) <= Cap[r]
<1>1. r \in Pooled /\ r \in Reqs /\ task[r].type = "Decode" /\ task \in [Reqs -> Tasks]
  BY DEF IInv, EngineTypes, Scheduled, QueuedOnce, OfType
<1>2. Within(args, r, task[r])
  BY <1>1 DEF BInv, Bounded
<1>3. task[r].sync \in BOOLEAN /\ args.overlap \in BOOLEAN
  <2>1. task[r] \in Tasks /\ args \in Configs
    BY <1>1 DEF IInv, EngineTypes
  <2> QED
    BY <2>1, TaskFields, ArgsFacts
<1>4. /\ task[r].prefix \in Int /\ Cap \in [Reqs -> Int] /\ task[r].prefix <= Cap[r]
      /\ task[r].status = "Normal" => task[r].prefix + 1 <= Cap[r]
      /\ ~args.overlap => PrefixTokensLen(task[r]) = task[r].prefix
      /\ args.overlap => PrefixTokensLen(task[r]) \in {task[r].prefix, task[r].prefix + 1}
  BY <1>1, <1>2, <1>3, PlanFacts
<1>5. args.overlap => task[r].status = "Normal"
  BY DEF HasModelRun
<1> QED
  BY <1>3, <1>4, <1>5

\* Whoever is not in the order of decode holds no page if prompts have no chunks.
LEMMA OnlyDecodeHolds ==
  ASSUME IInv, BInv, pc = "select", args.chunk = NoChunk,
         NEW r \in Reqs, r \notin Elems(order.decode)
  PROVE  kvLen[r] = 0
<1>1. Account(r) /\ Whole(args)
  BY DEF IInv, Whole
<1>2. CASE r \notin Pooled
  BY <1>1, <1>2 DEF Account, Standing, Left, Fresh
<1>3. CASE r \in Pooled
  <2>1. task[r].type = "Prefill"
    <3>1. task[r].type # "Decode"
      BY <1>3 DEF BInv, Candidates
    <3>2. task[r] \in Tasks
      BY DEF IInv, EngineTypes
    <3> QED
      BY <3>1, <3>2, TaskFields
  <2>2. task[r].consumed = 0 /\ Within(args, r, task[r])
    BY <2>1 DEF BInv, Bounded
  <2>3. kvLen[r] = task[r].consumed
    BY <1>3, <2>1, <2>2, PlanFacts
  <2> QED
    BY <2>2, <2>3
<1> QED
  BY <1>2, <1>3

\* Evicting all decode tasks but one makes room for it, and none need be evicted where all
\* requests fit.
LEMMA DecodeFits ==
  ASSUME IInv, BInv, pc = "select", Servable
  PROVE  \E e \in 0 .. Larger(1, Len(order.decode)) - 1 : HasEnoughBlock(e)
<1> DEFINE n == Len(order.decode)
           len == [r \in Reqs |-> PrefixTokensLen(task[r])]
           Runs(e) == {r \in Spared(e) : HasModelRun(task[r])}
<1>1. /\ args \in Configs /\ task \in [Reqs -> Tasks] /\ kvLen \in [Reqs -> Int] /\ NumBlocks \in Nat
      /\ order.decode \in Seq(Reqs) /\ n \in Nat
  BY ArgsFacts, LenProperties DEF IInv, EngineTypes
<1>2. len \in [Reqs -> Int] /\ Cap \in [Reqs -> Int]
  BY <1>1, PlansFacts, CapFacts
<1>3. \A r \in Reqs : kvLen[r] <= Cap[r]
  BY DEF BInv, Bounded
<1>4. ASSUME NEW e \in Nat, e <= n, NEW T \in SUBSET Reqs, Runs(e) \subseteq T,
             Capacity(T) <= NumBlocks,
             \A r \in Reqs : r \notin T /\ r \notin Evictees(e) => kvLen[r] = 0
      PROVE  HasEnoughBlock(e)
  <2>1. /\ Spared(e) \subseteq Elems(order.decode) /\ Evictees(e) \subseteq Elems(order.decode)
        /\ Elems(order.decode) \ Spared(e) = Evictees(e) /\ Elems(order.decode) \in SUBSET Reqs
    BY <1>4, SparedFacts
  <2>2. Runs(e) \in SUBSET T /\ Evictees(e) \in SUBSET Reqs
    BY <1>4, <2>1
  <2>3. \A r \in Runs(e) : len[r] <= Cap[r]
    <3> TAKE r \in Runs(e)
    <3>1. r \in Elems(order.decode) /\ r \in Reqs /\ HasModelRun(task[r])
      BY <2>1
    <3>2. PrefixTokensLen(task[r]) <= Cap[r]
      BY <3>1, PrefixWithin
    <3> QED
      BY <3>1, <3>2
  <2>4. \A r \in T : kvLen[r] <= Cap[r]
    BY <1>3
  <2> HIDE DEF len, Runs, n
  <2>5. Lacking(Runs(e), len) <= (NumBlocks - UsedBlocks) + Cardinality(PagesOf(Evictees(e), kvLen))
    BY <1>1, <1>2, <1>4, <2>2, <2>3, <2>4, Room
  <2>6. HasEnoughBlock(e) <=>
          Lacking(Runs(e), len) <= (NumBlocks - UsedBlocks) + Cardinality(PagesOf(Elems(order.decode) \ Spared(e), kvLen))
    BY DEF HasEnoughBlock, Runs, len, Spared
  <2> QED
    BY <2>1, <2>5, <2>6
<1>5. CASE n = 0
  <2>1. Runs(0) = {}
    <3>1. 1 .. n - 0 = {}
      BY <1>5
    <3> QED
      BY <3>1 DEF Spared
  <2>2. Capacity({}) <= NumBlocks
    <3>1. Capacity({}) = Cardinality({})
      BY DEF Capacity, PagesOf
    <3> QED
      BY <1>1, <3>1, FS_EmptySet
  <2>3. Lacking(Runs(0), len) = 0
    <3>1. PagesOf({}, len) \ PagesOf({}, kvLen) = {}
      BY DEF PagesOf
    <3> HIDE DEF len, Runs
    <3> QED
      BY <2>1, <3>1, FS_EmptySet DEF Lacking
  <2>4. HasEnoughBlock(0)
    <3> DEFINE G == Elems(order.decode) \ Spared(0)
    <3>1. G \in SUBSET Reqs
      BY <1>1, <1>5, SparedFacts
    <3>2. IsFiniteSet(PagesOf(G, kvLen)) /\ IsFiniteSet(PagesOf(Reqs, kvLen))
      <4> HIDE DEF G
      <4> QED
        BY <1>1, <3>1, PagesFinite
    <3>3. Cardinality(PagesOf(G, kvLen)) \in Nat /\ UsedBlocks \in Nat
      BY <3>2, FS_CardinalityType DEF UsedBlocks
    <3>4. UsedBlocks <= NumBlocks
      BY DEF IInv
    <3> HIDE DEF G, len, Runs, n
    <3>5. HasEnoughBlock(0) <=> Lacking(Runs(0), len) <= (NumBlocks - UsedBlocks) + Cardinality(PagesOf(G, kvLen))
      BY DEF HasEnoughBlock, Runs, len, Spared, G
    <3> QED
      BY <1>1, <2>3, <3>3, <3>4, <3>5
  <2> QED
    BY <1>5, <2>4 DEF Larger
<1>6. CASE n # 0 /\ AllFit
  <2>1. Spared(0) \in SUBSET Reqs
    BY <1>1, SparedFacts
  <2>2. HasEnoughBlock(0)
    BY <1>1, <1>4, <1>6, <2>1 DEF AllFit
  <2> QED
    BY <1>1, <1>6, <2>2 DEF Larger
<1>7. CASE n # 0 /\ ~AllFit
  <2> DEFINE q == order.decode[1]
             e == n - 1
  <2>1. args.chunk = NoChunk /\ e \in Nat /\ e <= n
    BY <1>1, <1>7 DEF Servable
  <2>2. Spared(e) = {q}
    <3>1. 1 .. n - e = {1}
      BY <1>1
    <3> QED
      BY <3>1 DEF Spared
  <2>3. /\ Elems(order.decode) \ Spared(e) = Evictees(e) /\ Spared(e) \subseteq Elems(order.decode)
        /\ Elems(order.decode) \in SUBSET Reqs
    <3> HIDE DEF e
    <3> QED
      BY <1>1, <2>1, SparedFacts
  <2>4. q \in Reqs
    BY <2>2, <2>3
  <2> HIDE DEF q, e, n
  <2>5. Capacity({q}) <= NumBlocks
    BY <1>1, <1>2, <2>4, EachCapacity
  <2>6. ASSUME NEW r \in Reqs, r \notin {q}, r \notin Evictees(e)
        PROVE  kvLen[r] = 0
    <3>1. r \notin Elems(order.decode)
      BY <2>2, <2>3, <2>6
    <3> QED
      BY <2>1, <3>1, OnlyDecodeHolds
  <2>7. {q} \in SUBSET Reqs /\ Runs(e) \subseteq {q}
    BY <2>2, <2>4
  <2>8. HasEnoughBlock(e)
    BY <1>4, <2>1, <2>5, <2>6, <2>7
  <2>9. e \in 0 .. Larger(1, n) - 1
    BY <1>1, <1>7, <2>1 DEF e, Larger
  <2> QED
    BY <2>8, <2>9 DEF n
<1> QED
  BY <1>5, <1>6, <1>7

\* A page in use belongs to a request that keeps its own or is one of those evicted.
LEMMA PagesReleased ==
  ASSUME kvLen \in [Reqs -> Int], NEW G \in SUBSET Reqs, NEW len,
         len = [r \in Reqs |-> IF r \in G THEN 0 ELSE kvLen[r]]
  PROVE  /\ UsedBlocks \in Nat /\ Cardinality(PagesOf(Reqs, len)) \in Nat
         /\ Cardinality(PagesOf(G, kvLen)) \in Nat
         /\ Cardinality(PagesOf(Reqs, len)) + Cardinality(PagesOf(G, kvLen)) <= UsedBlocks
<1> DEFINE kept == PagesOf(Reqs, len)
           given == PagesOf(G, kvLen)
           used == PagesOf(Reqs, kvLen)
<1>1. len \in [Reqs -> Int] /\ IsFiniteSet(kept) /\ IsFiniteSet(given) /\ IsFiniteSet(used)
  <2>1. len \in [Reqs -> Int]
    OBVIOUS
  <2> QED
    BY <2>1, PagesFinite
<1>2. \A r \in G : {r} \X (1 .. Held(len[r])) = {}
  <2> TAKE r \in G
  <2>1. Held(0) = 0
    BY BlockSizeAssumption DEF Held
  <2>2. len[r] = 0
    OBVIOUS
  <2>3. 1 .. Held(len[r]) = {}
    BY <2>1, <2>2
  <2> QED
    BY <2>3
<1>3. \A r \in Reqs \ G : len[r] = kvLen[r]
  OBVIOUS
<1>4. kept \cup given \subseteq used
  BY <1>2, <1>3 DEF PagesOf
<1>5. kept \cap given = {}
  BY <1>2, <1>3 DEF PagesOf
<1>6. UsedBlocks = Cardinality(used)
  BY DEF UsedBlocks
<1> HIDE DEF kept, given, used
<1>7. /\ IsFiniteSet(kept \cup given)
      /\ Cardinality(kept \cup given) = Cardinality(kept) + Cardinality(given) - Cardinality(kept \cap given)
  BY <1>1, FS_Union
<1>8. Cardinality(kept \cap given) = 0 /\ Cardinality(kept \cup given) <= Cardinality(used)
  BY <1>1, <1>4, <1>5, FS_EmptySet, FS_Subset
<1>9. Cardinality(kept) \in Nat /\ Cardinality(given) \in Nat /\ Cardinality(used) \in Nat
  BY <1>1, FS_CardinalityType
<1> QED
  BY <1>6, <1>7, <1>8, <1>9 DEF kept, given

\* Decode tasks are batched when what they lack is free once the last ones are evicted.
LEMMA ScheduleDecodeBudget ==
  ASSUME IInv, BInv, ScheduleDecode
  PROVE  BInv'
<1>1. /\ pc = "select" /\ pc' = "step"
      /\ UNCHANGED <<args, submitted, pending, idList, req, results>>
  BY DEF ScheduleDecode, DecodeTurn
<1>2. PICK e \in 0 .. Larger(1, Len(order.decode)) - 1 :
        /\ HasEnoughBlock(e)
        /\ EvictLast(e)
        /\ batch' = Prefix(SubSeq(order.decode, 1, Len(order.decode) - e), NumTasks)
  BY DEF ScheduleDecode
<1>3. /\ task \in [Reqs -> Tasks] /\ kvLen \in [Reqs -> Int] /\ NumBlocks \in Nat
      /\ order.decode \in Seq(Reqs) /\ Len(order.decode) \in Nat
  BY ArgsFacts, LenProperties DEF IInv, EngineTypes
<1>4. e \in Nat /\ e <= Len(order.decode)
  BY <1>2, <1>3 DEF Larger
<1>5. /\ Elems(order.decode) \in SUBSET Reqs
      /\ \A r \in Elems(order.decode) : r \in Pooled /\ r \in Reqs /\ task[r].type = "Decode"
      /\ Spared(e) \subseteq Elems(order.decode) /\ Evictees(e) \subseteq Elems(order.decode)
      /\ Elems(order.decode) \ Spared(e) = Evictees(e)
  BY <1>1, <1>4, SparedFacts
<1>6. /\ task' = [r \in Reqs |-> IF r \in Evictees(e) THEN Evicted(task[r]) ELSE task[r]]
      /\ kvLen' = [r \in Reqs |-> IF r \in Evictees(e) THEN 0 ELSE kvLen[r]]
  BY <1>2 DEF EvictLast, Evictees
<1> DEFINE len == [r \in Reqs |-> PrefixTokensLen(task[r])]
           K == {r \in Spared(e) : HasModelRun(task[r])}
<1>7. Lacking(K, len) <= (NumBlocks - UsedBlocks) + Cardinality(PagesOf(Evictees(e), kvLen))
  <2>1. Lacking(K, len) <= (NumBlocks - UsedBlocks) + Cardinality(PagesOf(Elems(order.decode) \ Spared(e), kvLen))
    BY <1>2 DEF HasEnoughBlock, Spared
  <2> QED
    BY <1>5, <2>1
<1>8. Elems(batch)' \subseteq Spared(e)
  <2> DEFINE n == Len(order.decode) - e
             kept == SubSeq(order.decode, 1, n)
             s == SubSeq(kept, 1, Smaller(NumTasks, Len(kept)))
  <2>1. n \in Nat /\ n <= Len(order.decode)
    BY <1>3, <1>4
  <2>2. kept \in Seq(Reqs) /\ Elems(kept) = {order.decode[i] : i \in 1 .. n}
    <3> HIDE DEF n
    <3> QED
      BY <1>3, <2>1, FirstOnes
  <2>3. Elems(kept) = Spared(e)
    BY <2>2 DEF Spared
  <2> HIDE DEF kept
  <2>4. \A x \in Elems(s) : \E i \in DOMAIN kept : i <= NumTasks /\ kept[i] = x
    BY <2>2, NumTasksAssumption, ElemsOfSubSeq
  <2>5. batch' = s
    BY <1>2 DEF Prefix, kept
  <2>6. Elems(batch)' = Elems(s)
    BY <2>5 DEF Elems
  <2> HIDE DEF s
  <2> QED
    BY <2>3, <2>4, <2>6 DEF Elems
<1>9. \A r \in Spared(e) : /\ r \in Reqs /\ task'[r] = task[r] /\ kvLen'[r] = kvLen[r]
                           /\ task[r].type = "Decode"
  <2>1. \A r \in Spared(e) : r \notin Evictees(e) /\ r \in Reqs /\ task[r].type = "Decode"
    BY <1>5
  <2> QED
    BY <1>6, <2>1
<1>10. PICK S : S = Runners'
  OBVIOUS
<1>11. S \subseteq K
  <2> SUFFICES ASSUME NEW r \in S PROVE r \in K
    OBVIOUS
  <2>1. r \in Elems(batch)' /\ (task'[r].type = "Prefill" \/ HasModelRun(task[r])')
    <3>1. r \in Runners'
      BY <1>10
    <3> QED
      BY <3>1 DEF Runners
  <2>2. r \in Spared(e) /\ task'[r] = task[r] /\ task[r].type = "Decode"
    BY <1>8, <1>9, <2>1
  <2>3. HasModelRun(task[r])' = HasModelRun(task[r])
    BY <1>1, <2>2 DEF HasModelRun
  <2> QED
    BY <2>1, <2>2, <2>3
<1>12. PICK plan, cached : plan = Plans' /\ cached = kvLen'
  OBVIOUS
<1>13. \A r \in S : /\ r \in Spared(e) /\ r \in Reqs /\ cached[r] = kvLen[r] /\ plan[r] = len[r]
  <2> TAKE r \in S
  <2>1. r \in Spared(e) /\ r \in Reqs /\ task'[r] = task[r] /\ kvLen'[r] = kvLen[r] /\ task[r].type = "Decode"
    BY <1>9, <1>11
  <2>2. Plans'[r] = PrefixTokensLen(task[r])
    BY <2>1 DEF Plans, PrefixTokensLen
  <2> QED
    BY <1>12, <2>1, <2>2
<1>14. K \in SUBSET Reqs /\ S \in SUBSET K
  BY <1>9, <1>11
<1>15. len \in [Reqs -> Int]
  BY <1>3, PlansFacts
<1> HIDE DEF len, K
<1>16. Lacking(S, len) \in Nat /\ Lacking(K, len) \in Nat /\ Lacking(S, len) <= Lacking(K, len)
  BY <1>3, <1>14, <1>15, LackingMonotone
<1>17. Lacking(Runners, Plans)' = Lacking(S, len)
  <2>1. PagesOf(S, plan) = PagesOf(S, len) /\ PagesOf(S, cached) = PagesOf(S, kvLen)
    BY <1>13 DEF PagesOf
  <2>2. Lacking(Runners, Plans)' = Cardinality(PagesOf(S, plan) \ PagesOf(S, cached))
    BY <1>10, <1>12 DEF Lacking, PagesOf
  <2> QED
    BY <2>1, <2>2 DEF Lacking
<1>18. /\ UsedBlocks \in Nat /\ UsedBlocks' \in Nat /\ Cardinality(PagesOf(Evictees(e), kvLen)) \in Nat
       /\ UsedBlocks' + Cardinality(PagesOf(Evictees(e), kvLen)) <= UsedBlocks
  <2>1. Evictees(e) \in SUBSET Reqs
    BY <1>5
  <2>2. cached = [r \in Reqs |-> IF r \in Evictees(e) THEN 0 ELSE kvLen[r]]
    BY <1>6, <1>12
  <2>3. UsedBlocks' = Cardinality(PagesOf(Reqs, cached))
    BY <1>12 DEF UsedBlocks, PagesOf
  <2> QED
    BY <1>3, <2>1, <2>2, <2>3, PagesReleased
<1>19. NumBlocks' = NumBlocks
  BY <1>1 DEF NumBlocks
<1>20. Budgeted'
  <2>1. Lacking(S, len) <= NumBlocks - UsedBlocks'
    BY <1>3, <1>7, <1>16, <1>18
  <2>2. Allocates(Runners, Plans)'
    BY <1>17, <1>19, <2>1 DEF Allocates
  <2> QED
    BY <2>2 DEF Budgeted
<1>21. Bounded'
  BY <1>1, <1>2, EvictionBounded DEF BInv
<1> QED
  BY <1>1, <1>20, <1>21 DEF BInv, Candidates, NeverCrashes

-----------------------------------------------------------------------------
(* Crashes *)

\* What is affordable does not change.
LEMMA SameLoad ==
  ASSUME args' = args
  PROVE  (AllFit' <=> AllFit) /\ (Servable' <=> Servable)
BY DEF AllFit, Servable, Capacity, PagesOf, PromptLen, MaxNew, NumBlocks

\* No prompt is too large.
LEMMA PrefillTooLargeBudget ==
  ASSUME IInv, BInv, PrefillTooLarge
  PROVE  BInv'
<1>1. /\ pc = "select" /\ pc' = "crashed" /\ PrefillTurn
      /\ PrefillTasks = <<>> /\ threshold = NumBlocks /\ UsedBlocks = 0
      /\ UNCHANGED <<args, submitted, pending, idList, task, req, kvLen, threshold, results, order, batch>>
  BY DEF PrefillTooLarge, Crash
<1>2. Bounded'
  BY <1>1, SameBounds DEF BInv
<1>3. ~Servable'
  BY <1>1, FirstPromptFits, SameLoad
<1> QED
  BY <1>1, <1>2, <1>3 DEF BInv, Candidates, Budgeted, NeverCrashes

\* Nor are the tokens to decode.
LEMMA DecodeTooLargeBudget ==
  ASSUME IInv, BInv, DecodeTooLarge
  PROVE  BInv'
<1>1. /\ pc = "select" /\ pc' = "crashed"
      /\ \A e \in 0 .. Larger(1, Len(order.decode)) - 1 : ~HasEnoughBlock(e)
      /\ UNCHANGED <<args, submitted, pending, idList, req, results, order, batch>>
  BY DEF DecodeTooLarge, DecodeTurn, Crash
<1>2. Bounded'
  <2>1. EvictLast(Len(order.decode) - 1)
    BY DEF DecodeTooLarge
  <2> QED
    BY <1>1, <2>1, EvictionBounded DEF BInv
<1>3. ~Servable'
  BY <1>1, DecodeFits, SameLoad
<1> QED
  BY <1>1, <1>2, <1>3 DEF BInv, Candidates, Budgeted, NeverCrashes

\* A prefill step takes the pages that were planned.
LEMMA PrefillAffords ==
  ASSUME IInv, BInv, Stepping("Prefill"), NEW grown,
         grown = [r \in Reqs |-> kvLen[r] + NextReqTokensLen(task[r])]
  PROVE  Allocates(Elems(batch), grown)
<1>1. \A r \in Elems(batch) : r \in Pooled /\ r \in Reqs /\ task[r].type = "Prefill"
  BY BatchOfType
<1>2. \A r \in Elems(batch) : r \in Reqs /\ grown[r] = Plans[r]
  <2> TAKE r \in Elems(batch)
  <2>1. r \in Pooled /\ r \in Reqs /\ task[r].type = "Prefill" /\ Within(args, r, task[r])
    BY <1>1 DEF BInv, Bounded
  <2>2. kvLen[r] = task[r].consumed
    BY <2>1, PlanFacts DEF Stepping
  <2> QED
    BY <2>1, <2>2 DEF Plans
<1>3. Runners = Elems(batch)
  BY <1>1 DEF Runners
<1>4. PagesOf(Elems(batch), grown) = PagesOf(Elems(batch), Plans)
  BY <1>2 DEF PagesOf
<1>5. Allocates(Elems(batch), Plans)
  BY <1>3 DEF BInv, Budgeted, Stepping
<1> QED
  BY <1>4, <1>5 DEF Allocates, Lacking

\* A decode step takes those that were planned, but where a token of the prefill still to be
\* synchronised begins a page.
LEMMA DecodeAffords ==
  ASSUME IInv, BInv, Stepping("Decode"), NEW grown,
         grown = [r \in Reqs |-> kvLen[r] + 1], args.overlap => ~Unbudgeted
  PROVE  Allocates(Running, grown)
<1>1. \A r \in Elems(batch) : /\ r \in Pooled /\ r \in Reqs /\ task[r].type = "Decode"
                              /\ task[r].status # "Stopped"
  BY BatchOfType
<1>2. /\ args \in Configs /\ task \in [Reqs -> Tasks] /\ kvLen \in [Reqs -> Int] /\ NumBlocks \in Nat
  BY ArgsFacts DEF IInv, EngineTypes
<1>3. Runners = Running
  BY <1>1 DEF Runners, Running
<1>4. grown \in [Reqs -> Int] /\ Plans \in [Reqs -> Int] /\ Running \in SUBSET Reqs
  BY <1>1, <1>2, PlansFacts DEF Running
<1>5. \A r \in Running : Held(grown[r]) = Held(Plans[r])
  <2> TAKE r \in Running
  <2>1. /\ r \in Pooled /\ r \in Reqs /\ task[r].type = "Decode" /\ Within(args, r, task[r])
        /\ kvLen[r] \in Int
    BY <1>1, <1>2 DEF Running, BInv, Bounded
  <2>2. Plans[r] = PrefixTokensLen(task[r]) /\ grown[r] = kvLen[r] + 1
    BY <2>1 DEF Plans
  <2>3. pc = "step"
    BY DEF Stepping
  <2>4. CASE ~args.overlap
    BY <2>1, <2>2, <2>3, <2>4, PlanFacts
  <2>5. CASE args.overlap /\ ~task[r].sync
    BY <2>1, <2>2, <2>3, <2>5, PlanFacts
  <2>6. CASE args.overlap /\ task[r].sync
    <3>1. kvLen[r] = task[r].prefix /\ PrefixTokensLen(task[r]) = task[r].prefix
      BY <2>1, <2>3, <2>6, PlanFacts
    <3>2. kvLen[r] % BlockSize # 0
      BY <2>1, <2>6 DEF Unbudgeted
    <3> QED
      BY <2>1, <2>2, <3>1, <3>2, HeldWithin
  <2>7. args.overlap \in BOOLEAN /\ task[r].sync \in BOOLEAN
    BY <1>2, <2>1, ArgsFacts, TaskFields
  <2> QED
    BY <2>4, <2>5, <2>6, <2>7
<1>6. /\ Lacking(Running, grown) \in Nat /\ Lacking(Running, Plans) \in Nat
      /\ Lacking(Running, grown) <= Lacking(Running, Plans)
  <2>1. Running \in SUBSET Running
    OBVIOUS
  <2> HIDE DEF Plans
  <2> QED
    BY <1>2, <1>4, <1>5, <2>1, LackingMonotone
<1>7. Lacking(Running, Plans) <= NumBlocks - UsedBlocks
  BY <1>3 DEF BInv, Budgeted, Stepping, Allocates
<1>8. UsedBlocks \in Nat
  BY <1>2, PagesFinite, FS_CardinalityType DEF UsedBlocks
<1> QED
  BY <1>2, <1>6, <1>7, <1>8 DEF Allocates

\* Where all requests fit together, so does any decode step.
LEMMA AllFitAffords ==
  ASSUME IInv, BInv, Stepping("Decode"), args.overlap, AllFit, NEW grown,
         grown = [r \in Reqs |-> kvLen[r] + 1]
  PROVE  Allocates(Running, grown)
<1>1. /\ args \in Configs /\ kvLen \in [Reqs -> Int] /\ NumBlocks \in Nat /\ Cap \in [Reqs -> Int]
  BY ArgsFacts, CapFacts DEF IInv, EngineTypes
<1>2. \A r \in Running : r \in Pooled /\ r \in Reqs /\ task[r].type = "Decode" /\ task[r].status = "Normal"
  BY BatchOfType DEF Running, HasModelRun
<1>3. grown \in [Reqs -> Int] /\ Running \in SUBSET Reqs
  BY <1>1, <1>2
<1>4. \A r \in Running : grown[r] <= Cap[r]
  <2> TAKE r \in Running
  <2>1. /\ r \in Pooled /\ r \in Reqs /\ task[r].type = "Decode" /\ task[r].status = "Normal"
        /\ Within(args, r, task[r]) /\ pc = "step"
    BY <1>2 DEF BInv, Bounded, Stepping
  <2>2. kvLen[r] = task[r].prefix /\ task[r].prefix + 1 <= Cap[r]
    BY <2>1, PlanFacts
  <2> QED
    BY <2>1, <2>2
<1>5. \A r \in Reqs : kvLen[r] <= Cap[r]
  BY DEF BInv, Bounded
<1>6. Lacking(Running, grown) <= (NumBlocks - UsedBlocks) + Cardinality(PagesOf({}, kvLen))
  <2>1. Reqs \in SUBSET Reqs /\ {} \in SUBSET Reqs /\ Capacity(Reqs) <= NumBlocks
    BY DEF AllFit
  <2> QED
    BY <1>1, <1>3, <1>4, <1>5, <2>1, Room
<1>7. Cardinality(PagesOf({}, kvLen)) = 0
  <2>1. PagesOf({}, kvLen) = {}
    BY DEF PagesOf
  <2> QED
    BY <2>1, FS_EmptySet
<1>8. UsedBlocks \in Nat
  BY <1>1, PagesFinite, FS_CardinalityType DEF UsedBlocks
<1>9. Lacking(Running, grown) <= NumBlocks - UsedBlocks
  BY <1>1, <1>6, <1>7, <1>8
<1> QED
  BY <1>9 DEF Allocates

\* A step finds its pages, unless the scheduler has not counted one.
LEMMA OnlyUnbudgeted ==
  ASSUME IInv, BInv, pc = "step", Underrun
  PROVE  Unbudgeted /\ ~AllFit
<1> DEFINE R == IF Stepping("Decode") /\ args.overlap THEN Running ELSE Elems(batch)
           grown == [r \in Reqs |-> kvLen[r] + IF Stepping("Decode") THEN 1
                                               ELSE NextReqTokensLen(task[r])]
<1>1. ~Allocates(R, grown)
  BY DEF Underrun
<1>2. /\ args \in Configs /\ kvLen \in [Reqs -> Int] /\ NumBlocks \in Nat /\ batch \in Seq(Reqs)
      /\ task \in [Reqs -> Tasks]
  BY ArgsFacts DEF IInv, EngineTypes
<1>3. CASE batch = <<>>
  <2>1. ~Stepping("Decode") /\ Elems(batch) = {}
    BY <1>3 DEF Stepping, Elems
  <2>2. R = {}
    BY <2>1
  <2>3. PagesOf({}, grown) \ PagesOf({}, kvLen) = {}
    BY DEF PagesOf
  <2> HIDE DEF grown, R
  <2>4. Lacking(R, grown) = 0
    BY <2>2, <2>3, FS_EmptySet DEF Lacking
  <2>5. UsedBlocks <= NumBlocks /\ UsedBlocks \in Nat
    BY <1>2, PagesFinite, FS_CardinalityType DEF UsedBlocks, IInv
  <2> QED
    BY <1>1, <1>2, <2>4, <2>5 DEF Allocates
<1>4. CASE Stepping("Prefill")
  <2>1. ~Stepping("Decode")
    BY <1>4 DEF Stepping
  <2>2. R = Elems(batch) /\ grown = [r \in Reqs |-> kvLen[r] + NextReqTokensLen(task[r])]
    BY <2>1
  <2> HIDE DEF R, grown
  <2> QED
    BY <1>1, <1>4, <2>2, PrefillAffords
<1>5. CASE Stepping("Decode")
  <2>1. grown = [r \in Reqs |-> kvLen[r] + 1]
    BY <1>5
  <2>2. R = Running
    <3>1. ~args.overlap => Running = Elems(batch)
      BY <1>5, BatchOfType DEF Running, HasModelRun
    <3> QED
      BY <1>5, <3>1
  <2> HIDE DEF R, grown
  <2>3. args.overlap /\ Unbudgeted
    BY <1>1, <1>5, <2>1, <2>2, DecodeAffords
  <2>4. ~AllFit
    BY <1>1, <1>5, <2>1, <2>2, <2>3, AllFitAffords
  <2> QED
    BY <2>3, <2>4
<1>6. batch # <<>> => Stepping("Prefill") \/ Stepping("Decode")
  <2> SUFFICES ASSUME batch # <<>> PROVE Stepping("Prefill") \/ Stepping("Decode")
    OBVIOUS
  <2>1. Head(batch) \in Reqs
    BY <1>2
  <2>2. task[Head(batch)] \in Tasks
    BY <1>2, <2>1
  <2> QED
    BY <2>2, TaskFields DEF Stepping
<1> QED
  BY <1>3, <1>4, <1>5, <1>6

\* The crash of a step that does not is such a one.
LEMMA StepUnderrunBudget ==
  ASSUME IInv, BInv, StepUnderrun
  PROVE  BInv'
<1>1. /\ pc = "step" /\ pc' = "crashed" /\ Underrun
      /\ UNCHANGED <<args, submitted, pending, idList, task, req, kvLen, threshold, results, order, batch>>
  BY DEF StepUnderrun, Crash
<1>2. Bounded'
  BY <1>1, SameBounds DEF BInv
<1>3. Unbudgeted /\ ~AllFit
  BY <1>1, OnlyUnbudgeted
<1>4. Running' = Running
  BY <1>1 DEF Running, HasModelRun, Elems
<1>5. Unbudgeted' /\ ~AllFit'
  BY <1>1, <1>3, <1>4, SameLoad DEF Unbudgeted
<1> QED
  BY <1>1, <1>2, <1>5 DEF BInv, Candidates, Budgeted, NeverCrashes

-----------------------------------------------------------------------------
(* The invariant *)

\* Every step keeps it.
LEMMA NextBInv == IInv /\ BInv /\ [Next]_vars => BInv'
<1> SUFFICES ASSUME IInv, BInv, [Next]_vars PROVE BInv'
  OBVIOUS
<1>1. CASE \E r \in Reqs : Submit(r)
  BY <1>1, SameBudget DEF Submit
<1>2. CASE ProcessQueue
  <2>1. UNCHANGED <<args, task, kvLen, threshold>> /\ pc' \in {"loop", "schedule"}
    BY <1>2 DEF ProcessQueue
  <2> QED
    BY <2>1, SameBounds, OnlyBounds DEF BInv
<1>3. CASE Sort
  BY <1>3, SortBudget
<1>4. CASE Chunk
  BY <1>4, ChunkBudget
<1>5. CASE SchedulePrefill
  BY <1>5, SchedulePrefillBudget
<1>6. CASE PrefillTooLarge
  BY <1>6, PrefillTooLargeBudget
<1>7. CASE ScheduleDecode
  BY <1>7, ScheduleDecodeBudget
<1>8. CASE DecodeTooLarge
  BY <1>8, DecodeTooLargeBudget
<1>9. CASE StepPrefill
  <2>1. pc' = "update"
    BY <1>9 DEF StepPrefill
  <2> QED
    BY <1>9, <2>1, StepPrefillBounded, OnlyBounds DEF BInv
<1>10. CASE StepDecode
  <2>1. pc' = "update"
    BY <1>10 DEF StepDecode
  <2> QED
    BY <1>10, <2>1, StepDecodeBounded, OnlyBounds DEF BInv
<1>11. CASE StepDecodeOverlap
  <2>1. pc' = "update"
    BY <1>11 DEF StepDecodeOverlap
  <2> QED
    BY <1>11, <2>1, StepDecodeOverlapBounded, OnlyBounds DEF BInv
<1>12. CASE StepUnderrun
  BY <1>12, StepUnderrunBudget
<1>13. CASE StepEmpty
  <2>1. UNCHANGED <<args, task, kvLen, threshold>> /\ pc' = "update"
    BY <1>13 DEF StepEmpty
  <2> QED
    BY <2>1, SameBounds, OnlyBounds DEF BInv
<1>14. CASE Update
  <2>1. pc' = "loop"
    BY <1>14 DEF Update
  <2> QED
    BY <1>14, <2>1, UpdateBounded, OnlyBounds DEF BInv
<1>15. CASE UNCHANGED vars
  BY <1>15, SameBudget DEF vars
<1> QED
  BY <1>1, <1>2, <1>3, <1>4, <1>5, <1>6, <1>7, <1>8, <1>9, <1>10, <1>11, <1>12, <1>13, <1>14, <1>15
     DEF Next, Worker

\* The requests keep to their bounds, what holds pages is up for eviction, and a step that
\* is about to run has its pages: what the scheduler (chitu/scheduler.py) counts in tokens
\* of tasks is what PagedKVCache (chitu/cache_manager.py) is going to take.
THEOREM BudgetInductive == Spec => [](IInv /\ BInv)
<1>1. Init => IInv /\ BInv
  BY InitIInv, InitBInv
<1>2. IInv /\ BInv /\ [Next]_vars => (IInv /\ BInv)'
  BY NextIInv, NextBInv
<1> QED
  BY <1>1, <1>2, PTL DEF Spec

\* On a load it is to cope with, whatever it is, the worker thread ends with no exception
\* but for want of the page of a token that the prefill before it has only just sampled.
THEOREM Affordable == Spec => []NeverCrashes
<1>1. IInv /\ BInv => NeverCrashes
  BY DEF BInv
<1> QED
  BY <1>1, BudgetInductive, PTL
=============================================================================
