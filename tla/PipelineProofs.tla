--------------------------- MODULE PipelineProofs ---------------------------
(***************************************************************************)
(* What holds of a pipeline of any number of stages, for any requests and  *)
(* arguments: slot groups count what has yet to come back, and every stage *)
(* keeps the tasks and caches of the stage before, as far as the messages  *)
(* on their way to it tell.                                                *)
(***************************************************************************)
EXTENDS Pipeline, FiniteSetTheorems, SequenceTheorems, WellFoundedInduction, TLAPS

-----------------------------------------------------------------------------
(* The inductive invariant *)

Types == {"Prefill", "Decode"}

\* A sequence of whatever it holds.
IsSeq(s) == s \in Seq(ToSet(s))

IsTask(t) ==
  /\ t = [type |-> t.type, len |-> t.len, consumed |-> t.consumed, next |-> t.next,
          numNew |-> t.numNew, status |-> t.status, waiting |-> t.waiting, group |-> t.group]
  /\ t.type \in Types /\ t.len \in Nat \ {0} /\ t.consumed \in Nat
  /\ t.waiting \in BOOLEAN /\ t.group \in Groups \cup {NoGroup}

MainTypes ==
  /\ args \in Configs
  /\ submitted \in SUBSET Reqs
  /\ idList \in Seq(Reqs) /\ IsInjective(idList) /\ ToSet(idList) \subseteq submitted
  /\ task = [r \in Reqs |-> task[r]] /\ \A r \in Reqs : IsTask(task[r])
  /\ freeGroups \in Seq(Groups) /\ IsInjective(freeGroups)
  /\ waitingOf \in [Groups -> SUBSET Reqs]
  /\ pc \in {"schedule", "step", "poll", "update", "crashed"}
  /\ at \in Nat \ {0}

\* A batch that is awaited, or whose results are there.
IsEntry(e) ==
  /\ e.tasks \in Seq(Reqs) /\ e.outputs \in Seq(Reqs)
  /\ ToSet(e.tasks) \subseteq submitted /\ ToSet(e.outputs) \subseteq ToSet(e.tasks)
  /\ \A r \in ToSet(e.outputs) : task[r].type = "Decode"

UnderWay ==
  /\ IsSeq(ongoing) /\ IsSeq(unwaited)
  /\ \A i \in DOMAIN ongoing : /\ IsEntry(ongoing[i])
                               /\ \A r \in ToSet(ongoing[i].tasks) : task[r].waiting
  /\ \A i, j \in DOMAIN ongoing : i # j =>
       ToSet(ongoing[i].tasks) \cap ToSet(ongoing[j].tasks) = {}
  /\ \A i \in DOMAIN unwaited : IsEntry(unwaited[i])

\* The batch of this turn.
BatchFits ==
  /\ batch.ids \in Seq(Reqs) /\ ToSet(batch.ids) \subseteq submitted
  /\ pc = "schedule" => batch = NoBatch /\ unwaited = <<>>
  /\ pc = "step" =>
       /\ IsInjective(batch.ids)
       /\ \A r \in ToSet(batch.ids) : /\ r \in ToSet(idList)
                                      /\ ~task[r].waiting
       /\ batch.kind = "Prefill" => \A r \in ToSet(batch.ids) :
            /\ task[r].type = "Prefill"
            /\ batch.take[r] \in Nat \ {0}
            /\ task[r].consumed + batch.take[r] <= task[r].len
       /\ batch.kind = "Decode" => \A r \in ToSet(batch.ids) : task[r].type = "Decode"

\* The tasks a group awaits are those that wait and those that update is to look at.
Accounts ==
  /\ pc # "crashed" => \A g \in Groups :
       /\ waitingOf[g] = {r \in Reqs : task[r].group = g /\ (task[r].waiting \/ r \in Updated)}
       /\ g \in ToSet(freeGroups) => waitingOf[g] = {}
  /\ pc = "schedule" => \A g \in Groups : waitingOf[g] = {} => g \in ToSet(freeGroups)

-----------------------------------------------------------------------------
(* What a rank knows of each request, and what a message makes of it *)

States == [Reqs -> [type : {"none"} \cup Types, len : Nat, kv : Nat]]

IsMessage(m) ==
  /\ m = [kind |-> m.kind, items |-> m.items]
  /\ m.kind \in {"Prefill", "Decode", "EndTask"}
  /\ m.items = [i \in DOMAIN m.items |-> m.items[i]]
  /\ \A i \in DOMAIN m.items : m.items[i].r \in Reqs
  /\ \A i, j \in DOMAIN m.items : m.items[i].r = m.items[j].r => i = j
  /\ m.kind = "Prefill" => \A i \in DOMAIN m.items :
       LET item == m.items[i]
       IN  /\ item = [r |-> item.r, len |-> item.len, from |-> item.from, take |-> item.take]
           /\ item.len \in Nat \ {0} /\ item.from \in Nat /\ item.take \in Nat \ {0}
  /\ m.kind = "Decode" => \A i \in DOMAIN m.items : m.items[i].take = 1

Blank == [type |-> "none", len |-> 0, kv |-> 0]

Fed(kind, item, t) ==
  CASE kind = "Prefill" ->
         [type |-> IF item.from + item.take >= item.len THEN "Decode" ELSE "Prefill",
          len |-> item.len, kv |-> t.kv + item.take]
    [] kind = "Decode" -> [type |-> t.type, len |-> t.len, kv |-> t.kv + item.take]
    [] kind = "EndTask" -> Blank

After(s, m) ==
  [r \in Reqs |-> IF r \in Listed(m.items) THEN Fed(m.kind, ItemOf(m.items, r), s[r]) ELSE s[r]]

\* A rank in this state takes the message for what it is.
Fits(s, m) ==
  \A r \in Listed(m.items) :
    /\ m.kind = "Prefill" => LET item == ItemOf(m.items, r)
                             IN  IF item.from = 0 THEN s[r].type = "none"
                                 ELSE s[r].type = "Prefill" /\ s[r].len = item.len
    /\ m.kind = "Decode" => s[r].type = "Decode"

\* The messages of q lead a rank from state a to state z: through the states h.
Through(q, h) ==
  /\ h \in [0 .. Len(q) -> States]
  /\ \A j \in 1 .. Len(q) : IsMessage(q[j]) /\ Fits(h[j - 1], q[j]) /\ h[j] = After(h[j - 1], q[j])

Leads(q, a, z) == IsSeq(q) /\ \E h : Through(q, h) /\ h[0] = a /\ h[Len(q)] = z

Copies == {NoCopy} \cup [type : Types, len : Nat, consumed : Nat]

Local(n) ==
  [r \in Reqs |-> [type |-> copy[n][r].type, len |-> copy[n][r].len, kv |-> kv[n][r]]]

\* Rank 0 means request r to be in state t.
InStep(r, t) ==
  /\ t.kv = kv[Main][r]
  /\ r \notin submitted => t = Blank /\ task[r].type = "Prefill" /\ task[r].consumed = 0
  /\ r \in ToSet(idList) /\ task[r].type = "Prefill" =>
       /\ task[r].consumed = t.kv /\ task[r].consumed < task[r].len
       /\ IF task[r].consumed = 0 THEN t.type = "none"
          ELSE t.type = "Prefill" /\ t.len = task[r].len
  /\ r \in ToSet(idList) /\ task[r].type = "Decode" => t.type = "Decode"

StageTypes ==
  /\ copy \in [Others -> [Reqs -> Copies]]
  /\ kv \in [Nodes -> [Reqs -> Nat]]
  /\ meta = [n \in Others |-> meta[n]]

Agree ==
  /\ \E z \in States : Leads(meta[1], Local(1), z) /\ \A r \in Reqs : InStep(r, z[r])
  /\ \A n \in Others : n > 1 => Leads(meta[n], Local(n), Local(n - 1))

IInv == MainTypes /\ UnderWay /\ BatchFits /\ Accounts /\ StageTypes /\ Agree

-----------------------------------------------------------------------------
(* Recursion over an interval, and what is built by it *)

\* Every set of naturals has a least element.
LEMMA LeastNatural ==
  ASSUME NEW S \in SUBSET Nat, S # {}
  PROVE  \E n \in S : \A m \in S : n <= m
<1> DEFINE R == OpToRel(<, Nat)
<1>1. IsWellFoundedOn(R, Nat)
  BY NatLessThanWellFounded, Zenon
<1>2. \A m, n \in Nat : <<m, n>> \in R <=> m < n
  BY DEF OpToRel
<1> HIDE DEF R
<1>3. PICK n \in S : \A m \in S : ~(<<m, n>> \in R)
  BY <1>1, WFMin
<1>4. \A m \in S : ~(m < n)
  BY <1>2, <1>3
<1> QED
  BY <1>4

\* f is what F makes of base, step by step, up to n.
Steps(f, n, V, F, base) ==
  /\ f \in [0 .. n -> V]
  /\ f[0] = base
  /\ \A i \in 1 .. n : f[i] = F[<<i, f[i - 1]>>]

\* One step more.
LEMMA StepMore ==
  ASSUME NEW n \in Nat, NEW k \in Nat, k < n, NEW V, NEW base \in V, NEW F \in [(1 .. n) \X V -> V],
         NEW f, Steps(f, k, V, F, base)
  PROVE  \E g : Steps(g, k + 1, V, F, base)
<1> DEFINE g == [i \in 0 .. k + 1 |-> IF i = k + 1 THEN F[<<k + 1, f[k]>>] ELSE f[i]]
<1>1. f \in [0 .. k -> V] /\ f[0] = base /\ \A i \in 1 .. k : f[i] = F[<<i, f[i - 1]>>]
  BY DEF Steps
<1>2. k \in 0 .. k /\ k + 1 \in 1 .. n
  OBVIOUS
<1>3. F[<<k + 1, f[k]>>] \in V
  <2>1. f[k] \in V
    BY <1>1, <1>2
  <2> QED
    BY <1>2, <2>1
<1>4. \A i \in 0 .. k : i # k + 1 /\ i \in 0 .. k + 1 /\ f[i] \in V
  BY <1>1
<1>5. g \in [0 .. k + 1 -> V]
  <2>1. \A i \in 0 .. k + 1 : i = k + 1 \/ i \in 0 .. k
    OBVIOUS
  <2> QED
    BY <1>3, <1>4, <2>1
<1>6. g[0] = base
  BY <1>1, <1>4
<1>7. ASSUME NEW i \in 1 .. k + 1 PROVE g[i] = F[<<i, g[i - 1]>>]
  <2>1. i - 1 \in 0 .. k /\ g[i - 1] = f[i - 1]
    BY <1>4
  <2>2. CASE i = k + 1
    <3>1. k + 1 \in 0 .. k + 1 /\ g[k + 1] = F[<<k + 1, f[k]>>]
      OBVIOUS
    <3>2. g[i - 1] = f[k]
      BY <2>1, <2>2
    <3> HIDE DEF g
    <3> QED
      BY <2>2, <3>1, <3>2
  <2>3. CASE i \in 1 .. k
    BY <1>1, <1>4, <2>1, <2>3
  <2> QED
    BY <2>2, <2>3
<1> HIDE DEF g
<1> QED
  BY <1>5, <1>6, <1>7 DEF Steps

\* There is what F makes of base, for any number of steps.
LEMMA StepsExist ==
  ASSUME NEW n \in Nat, NEW V, NEW base \in V, NEW F \in [(1 .. n) \X V -> V]
  PROVE  \E f : Steps(f, n, V, F, base)
<1> DEFINE Bad == {k \in 0 .. n : ~ \E f : Steps(f, k, V, F, base)}
<1>1. Bad = {}
  <2> SUFFICES ASSUME Bad # {} PROVE FALSE
    OBVIOUS
  <2>1. Bad \in SUBSET Nat
    OBVIOUS
  <2>2. PICK k \in Bad : \A m \in Bad : k <= m
    <3> HIDE DEF Bad
    <3> QED
      BY <2>1, LeastNatural
  <2>3. k \in 0 .. n /\ ~ \E f : Steps(f, k, V, F, base)
    OBVIOUS
  <2>4. k # 0
    <3> SUFFICES ASSUME k = 0 PROVE FALSE
      OBVIOUS
    <3> DEFINE f == [i \in 0 .. 0 |-> base]
    <3>1. f \in [0 .. 0 -> V] /\ f[0] = base /\ \A i \in 1 .. 0 : FALSE
      OBVIOUS
    <3>2. Steps(f, 0, V, F, base)
      BY <3>1 DEF Steps
    <3> QED
      BY <2>3, <3>2
  <2>5. k - 1 \in 0 .. n /\ k - 1 < k /\ k - 1 < n /\ k - 1 \in Nat /\ (k - 1) + 1 = k
    BY <2>3, <2>4
  <2>6. k - 1 \notin Bad
    <3> HIDE DEF Bad
    <3> QED
      BY <2>2, <2>3, <2>5
  <2>7. PICK f : Steps(f, k - 1, V, F, base)
    BY <2>5, <2>6
  <2>8. \E g : Steps(g, (k - 1) + 1, V, F, base)
    BY <2>5, <2>7, StepMore
  <2> QED
    BY <2>3, <2>5, <2>8
<1>2. n \in 0 .. n
  OBVIOUS
<1> QED
  BY <1>1, <1>2

\* What holds of the first state and is kept by every step holds of all: P[i] says it of i.
LEMMA EachStep ==
  ASSUME NEW n \in Nat, NEW P, P[0], \A i \in 1 .. n : P[i - 1] => P[i]
  PROVE  \A i \in 0 .. n : P[i]
<1> DEFINE Bad == {k \in 0 .. n : ~P[k]}
<1> SUFFICES ASSUME Bad # {} PROVE FALSE
  OBVIOUS
<1>1. Bad \in SUBSET Nat
  OBVIOUS
<1>2. PICK k \in Bad : \A m \in Bad : k <= m
  <2> HIDE DEF Bad
  <2> QED
    BY <1>1, LeastNatural
<1>3. k \in 0 .. n /\ ~P[k] /\ k # 0
  OBVIOUS
<1>4. k \in 1 .. n /\ k - 1 \in 0 .. n /\ k - 1 < k
  BY <1>3
<1>5. k - 1 \notin Bad
  <2> HIDE DEF Bad
  <2> QED
    BY <1>2, <1>3, <1>4
<1> QED
  BY <1>3, <1>4, <1>5

-----------------------------------------------------------------------------
(* Sequences *)

\* The elements of a sequence with one more.
LEMMA AppendFacts ==
  ASSUME NEW T, NEW s \in Seq(T), NEW e \in T
  PROVE  /\ Append(s, e) \in Seq(T) /\ ToSet(Append(s, e)) = ToSet(s) \cup {e}
         /\ DOMAIN s = 1 .. Len(s) /\ Len(s) \in Nat
         /\ DOMAIN Append(s, e) = 1 .. Len(s) + 1 /\ Len(Append(s, e)) = Len(s) + 1
         /\ \A i \in 1 .. Len(s) : Append(s, e)[i] = s[i]
         /\ Append(s, e)[Len(s) + 1] = e
         /\ IsInjective(s) /\ e \notin ToSet(s) => IsInjective(Append(s, e))
<1>1. /\ Append(s, e) \in Seq(T) /\ Len(Append(s, e)) = Len(s) + 1
      /\ \A i \in 1 .. Len(s) : Append(s, e)[i] = s[i]
      /\ Append(s, e)[Len(s) + 1] = e
  BY AppendProperties
<1>2. DOMAIN s = 1 .. Len(s) /\ DOMAIN Append(s, e) = 1 .. Len(s) + 1 /\ Len(s) \in Nat
  BY <1>1, LenProperties
<1>3. \A i \in DOMAIN Append(s, e) : \/ i \in DOMAIN s /\ Append(s, e)[i] = s[i]
                                     \/ i = Len(s) + 1 /\ Append(s, e)[i] = e
  BY <1>1, <1>2
<1>4. \A i \in DOMAIN s : i \in DOMAIN Append(s, e) /\ i # Len(s) + 1 /\ Append(s, e)[i] = s[i]
  BY <1>1, <1>2
<1>5. Len(s) + 1 \in DOMAIN Append(s, e)
  BY <1>2
<1>6. ToSet(Append(s, e)) = ToSet(s) \cup {e}
  BY <1>1, <1>3, <1>4, <1>5 DEF ToSet
<1>7. ASSUME IsInjective(s), e \notin ToSet(s) PROVE IsInjective(Append(s, e))
  BY <1>3, <1>7 DEF IsInjective, ToSet
<1> QED
  BY <1>1, <1>2, <1>6, <1>7

\* The states of the loop that filters.
FilterStep(s, S, T) == [p \in (1 .. Len(s)) \X Seq(T) |->
                          IF s[p[1]] \in S THEN Append(p[2], s[p[1]]) ELSE p[2]]

LEMMA FilterSteps ==
  ASSUME NEW T, NEW s \in Seq(T), NEW S
  PROVE  \E f : Steps(f, Len(s), Seq(T), FilterStep(s, S, T), <<>>) /\ Filtered(s, S) = f[Len(s)]
<1> DEFINE F == FilterStep(s, S, T)
           Eqn(f) == f = [i \in 0 .. Len(s) |-> IF i = 0 THEN <<>>
                                               ELSE IF s[i] \in S THEN Append(f[i - 1], s[i])
                                               ELSE f[i - 1]]
<1>1. Len(s) \in Nat /\ DOMAIN s = 1 .. Len(s) /\ \A i \in 1 .. Len(s) : s[i] \in T
  BY LenProperties, ElementOfSeq
<1>2. \A i \in 1 .. Len(s), v \in Seq(T) :
        /\ F[<<i, v>>] = IF s[i] \in S THEN Append(v, s[i]) ELSE v
        /\ F[<<i, v>>] \in Seq(T)
  <2> TAKE i \in 1 .. Len(s), v \in Seq(T)
  <2>1. F[<<i, v>>] = IF s[i] \in S THEN Append(v, s[i]) ELSE v
    BY DEF FilterStep
  <2>2. Append(v, s[i]) \in Seq(T)
    BY <1>1, AppendProperties
  <2> HIDE DEF F
  <2> QED
    BY <2>1, <2>2
<1>3. F \in [(1 .. Len(s)) \X Seq(T) -> Seq(T)]
  <2>1. \A p \in (1 .. Len(s)) \X Seq(T) : p = <<p[1], p[2]>> /\ p[1] \in 1 .. Len(s) /\ p[2] \in Seq(T)
    OBVIOUS
  <2>2. \A p \in (1 .. Len(s)) \X Seq(T) : F[p] \in Seq(T)
    <3> HIDE DEF F
    <3> QED
      BY <1>2, <2>1
  <2>3. F = [p \in (1 .. Len(s)) \X Seq(T) |-> F[p]]
    BY DEF FilterStep
  <2> HIDE DEF F
  <2> QED
    BY <2>2, <2>3
<1>4. <<>> \in Seq(T)
  BY EmptySeq
<1>5. PICK f : Steps(f, Len(s), Seq(T), F, <<>>)
  <2> HIDE DEF F
  <2> QED
    BY <1>1, <1>3, <1>4, StepsExist
<1> HIDE DEF F
<1>6. Eqn(f)
  <2>1. f \in [0 .. Len(s) -> Seq(T)] /\ f[0] = <<>> /\ \A i \in 1 .. Len(s) : f[i] = F[<<i, f[i - 1]>>]
    BY <1>5 DEF Steps
  <2>2. \A i \in 1 .. Len(s) : f[i - 1] \in Seq(T)
    <3>1. \A i \in 1 .. Len(s) : i - 1 \in 0 .. Len(s)
      BY <1>1
    <3> QED
      BY <2>1, <3>1
  <2>3. \A i \in 1 .. Len(s) : f[i] = IF s[i] \in S THEN Append(f[i - 1], s[i]) ELSE f[i - 1]
    BY <1>2, <2>1, <2>2
  <2>4. \A i \in 0 .. Len(s) : i = 0 \/ (i # 0 /\ i \in 1 .. Len(s))
    BY <1>1
  <2>5. \A i \in 0 .. Len(s) : f[i] = IF i = 0 THEN <<>> ELSE IF s[i] \in S THEN Append(f[i - 1], s[i]) ELSE f[i - 1]
    BY <2>1, <2>3, <2>4
  <2>6. f = [i \in 0 .. Len(s) |-> f[i]]
    BY <2>1
  <2> QED
    BY <2>5, <2>6
<1> DEFINE kept == CHOOSE g : Eqn(g)
<1>7. Eqn(kept)
  <2> HIDE DEF Eqn
  <2> QED
    BY <1>6
<1>8. Filtered(s, S) = kept[Len(s)]
  BY DEF Filtered
<1> HIDE DEF kept
<1>9. kept \in [0 .. Len(s) -> Seq(T)] /\ kept[0] = <<>>
  <2> DEFINE P == [i \in 0 .. Len(s) |-> kept[i] \in Seq(T)]
  <2>1. kept[0] = <<>>
    BY <1>1, <1>7
  <2>2. P[0]
    <3>1. 0 \in 0 .. Len(s) /\ kept[0] \in Seq(T)
      BY <1>1, <1>4, <2>1
    <3> QED
      BY <3>1
  <2>3. ASSUME NEW i \in 1 .. Len(s), P[i - 1] PROVE P[i]
    <3>1. i \in 0 .. Len(s) /\ i # 0 /\ i - 1 \in 0 .. Len(s)
      BY <1>1
    <3>2. kept[i - 1] \in Seq(T)
      BY <2>3, <3>1
    <3>3. kept[i] = IF s[i] \in S THEN Append(kept[i - 1], s[i]) ELSE kept[i - 1]
      BY <1>7, <3>1
    <3>4. Append(kept[i - 1], s[i]) \in Seq(T)
      BY <1>1, <3>2, AppendProperties
    <3>5. kept[i] \in Seq(T)
      BY <3>2, <3>3, <3>4
    <3> QED
      BY <3>1, <3>5
  <2>4. \A i \in 0 .. Len(s) : P[i]
    <3> HIDE DEF P
    <3> QED
      BY <1>1, <2>2, <2>3, EachStep
  <2>5. \A i \in 0 .. Len(s) : kept[i] \in Seq(T)
    BY <2>4
  <2>6. kept = [i \in 0 .. Len(s) |-> kept[i]]
    BY <1>7
  <2> HIDE DEF P
  <2> QED
    BY <2>1, <2>5, <2>6
<1>10. \A i \in 1 .. Len(s) : kept[i] = F[<<i, kept[i - 1]>>]
  <2> TAKE i \in 1 .. Len(s)
  <2>1. i \in 0 .. Len(s) /\ i # 0 /\ i - 1 \in 0 .. Len(s)
    BY <1>1
  <2>2. kept[i - 1] \in Seq(T)
    BY <1>9, <2>1
  <2>3. kept[i] = IF s[i] \in S THEN Append(kept[i - 1], s[i]) ELSE kept[i - 1]
    BY <1>7, <2>1
  <2> QED
    BY <1>2, <2>2, <2>3
<1>11. Steps(kept, Len(s), Seq(T), F, <<>>)
  BY <1>9, <1>10 DEF Steps
<1> QED
  BY <1>8, <1>11 DEF F

\* What a filter keeps.
LEMMA FilteredFacts ==
  ASSUME NEW T, NEW s \in Seq(T), NEW S
  PROVE  /\ Filtered(s, S) \in Seq(T)
         /\ ToSet(Filtered(s, S)) = {x \in ToSet(s) : x \in S}
         /\ IsInjective(s) => IsInjective(Filtered(s, S))
<1>1. PICK f : Steps(f, Len(s), Seq(T), FilterStep(s, S, T), <<>>) /\ Filtered(s, S) = f[Len(s)]
  BY FilterSteps
<1>2. Len(s) \in Nat /\ DOMAIN s = 1 .. Len(s) /\ \A i \in 1 .. Len(s) : s[i] \in T
  BY LenProperties, ElementOfSeq
<1>3. f \in [0 .. Len(s) -> Seq(T)] /\ f[0] = <<>>
  BY <1>1 DEF Steps
<1>4. \A i \in 1 .. Len(s) : /\ i - 1 \in 0 .. Len(s) /\ f[i - 1] \in Seq(T)
                             /\ f[i] = IF s[i] \in S THEN Append(f[i - 1], s[i]) ELSE f[i - 1]
  <2> TAKE i \in 1 .. Len(s)
  <2>1. i - 1 \in 0 .. Len(s) /\ f[i - 1] \in Seq(T)
    <3>1. i - 1 \in 0 .. Len(s)
      BY <1>2
    <3> QED
      BY <1>3, <3>1
  <2>2. f[i] = FilterStep(s, S, T)[<<i, f[i - 1]>>]
    BY <1>1 DEF Steps
  <2>3. f[i] = IF s[i] \in S THEN Append(f[i - 1], s[i]) ELSE f[i - 1]
    BY <2>1, <2>2 DEF FilterStep
  <2> QED
    BY <2>1, <2>3
<1> DEFINE Chosen(i) == {s[j] : j \in {k \in 1 .. i : s[k] \in S}}
           P == [i \in 0 .. Len(s) |-> /\ ToSet(f[i]) = Chosen(i)
                                       /\ IsInjective(s) => IsInjective(f[i])]
<1>5. P[0]
  <2>1. 0 \in 0 .. Len(s)
    BY <1>2
  <2>2. ToSet(f[0]) = {} /\ IsInjective(f[0])
    BY <1>3 DEF ToSet, IsInjective
  <2>3. Chosen(0) = {}
    OBVIOUS
  <2> HIDE DEF Chosen
  <2> QED
    BY <2>1, <2>2, <2>3
<1>6. ASSUME NEW i \in 1 .. Len(s), P[i - 1] PROVE P[i]
  <2>1. i \in 0 .. Len(s) /\ i - 1 \in 0 .. Len(s) /\ f[i - 1] \in Seq(T)
    BY <1>2, <1>4
  <2>2. ToSet(f[i - 1]) = Chosen(i - 1) /\ (IsInjective(s) => IsInjective(f[i - 1]))
    <3> HIDE DEF Chosen
    <3> QED
      BY <1>6, <2>1
  <2>3. \A k : k \in 1 .. i <=> k \in 1 .. i - 1 \/ k = i
    BY <1>2
  <2>4. CASE s[i] \in S
    <3>1. f[i] = Append(f[i - 1], s[i])
      BY <1>4, <2>4
    <3>2. Chosen(i) = Chosen(i - 1) \cup {s[i]}
      BY <2>3, <2>4
    <3>3. ToSet(f[i]) = Chosen(i)
      <4> HIDE DEF Chosen
      <4> QED
        BY <1>2, <2>1, <2>2, <3>1, <3>2, AppendFacts
    <3>4. ASSUME IsInjective(s) PROVE s[i] \notin Chosen(i - 1)
      <4>1. \A k \in 1 .. i - 1 : k \in DOMAIN s /\ i \in DOMAIN s /\ k # i
        BY <1>2
      <4> QED
        BY <3>4, <4>1 DEF IsInjective
    <3>5. IsInjective(s) => IsInjective(f[i])
      <4> HIDE DEF Chosen
      <4> QED
        BY <1>2, <2>1, <2>2, <3>1, <3>4, AppendFacts
    <3> HIDE DEF Chosen
    <3> QED
      BY <2>1, <3>3, <3>5
  <2>5. CASE s[i] \notin S
    <3>1. f[i] = f[i - 1]
      BY <1>4, <2>5
    <3>2. Chosen(i) = Chosen(i - 1)
      BY <2>3, <2>5
    <3> HIDE DEF Chosen
    <3> QED
      BY <2>1, <2>2, <3>1, <3>2
  <2> QED
    BY <2>4, <2>5
<1>7. \A i \in 0 .. Len(s) : P[i]
  <2> HIDE DEF P
  <2> QED
    BY <1>2, <1>5, <1>6, EachStep
<1>8. Len(s) \in 0 .. Len(s)
  BY <1>2
<1>9. ToSet(f[Len(s)]) = Chosen(Len(s)) /\ (IsInjective(s) => IsInjective(f[Len(s)]))
  <2> HIDE DEF Chosen
  <2> QED
    BY <1>7, <1>8
<1>10. Chosen(Len(s)) = {x \in ToSet(s) : x \in S}
  BY <1>2 DEF ToSet
<1>11. f[Len(s)] \in Seq(T)
  BY <1>3, <1>8
<1> HIDE DEF Chosen
<1> QED
  BY <1>1, <1>9, <1>10, <1>11

\* The elements of two sequences one after the other.
LEMMA ConcatFacts ==
  ASSUME NEW T, NEW s \in Seq(T), NEW t \in Seq(T)
  PROVE  /\ s \o t \in Seq(T)
         /\ ToSet(s \o t) = ToSet(s) \cup ToSet(t)
         /\ IsInjective(s) /\ IsInjective(t) /\ ToSet(s) \cap ToSet(t) = {} => IsInjective(s \o t)
<1>1. /\ s \o t \in Seq(T) /\ Len(s \o t) = Len(s) + Len(t)
      /\ \A i \in 1 .. Len(s) + Len(t) :
           (s \o t)[i] = IF i <= Len(s) THEN s[i] ELSE t[i - Len(s)]
  BY ConcatProperties
<1>2. /\ DOMAIN s = 1 .. Len(s) /\ DOMAIN t = 1 .. Len(t) /\ DOMAIN (s \o t) = 1 .. Len(s) + Len(t)
      /\ Len(s) \in Nat /\ Len(t) \in Nat
  BY <1>1, LenProperties
<1>3. ToSet(s \o t) = ToSet(s) \cup ToSet(t)
  <2>1. \A x : x \in ToSet(s \o t) => x \in ToSet(s) \cup ToSet(t)
    BY <1>1, <1>2 DEF ToSet
  <2>2. \A x : x \in ToSet(s) => x \in ToSet(s \o t)
    <3>1. \A i \in DOMAIN s : i \in DOMAIN (s \o t) /\ (s \o t)[i] = s[i]
      BY <1>1, <1>2
    <3> QED
      BY <3>1 DEF ToSet
  <2>3. \A x : x \in ToSet(t) => x \in ToSet(s \o t)
    <3>1. \A i \in DOMAIN t : i + Len(s) \in DOMAIN (s \o t) /\ (s \o t)[i + Len(s)] = t[i]
      BY <1>1, <1>2
    <3> QED
      BY <3>1 DEF ToSet
  <2> QED
    BY <2>1, <2>2, <2>3
<1>4. ASSUME IsInjective(s), IsInjective(t), ToSet(s) \cap ToSet(t) = {}
      PROVE  IsInjective(s \o t)
  <2> SUFFICES ASSUME NEW i \in 1 .. Len(s) + Len(t), NEW j \in 1 .. Len(s) + Len(t),
                      (s \o t)[i] = (s \o t)[j]
               PROVE  i = j
    BY <1>2 DEF IsInjective
  <2>1. CASE i <= Len(s) /\ j <= Len(s)
    BY <1>1, <1>2, <1>4, <2>1 DEF IsInjective
  <2>2. CASE i > Len(s) /\ j > Len(s)
    <3>1. t[i - Len(s)] = t[j - Len(s)]
      BY <1>1, <1>2, <2>2
    <3>2. i - Len(s) \in DOMAIN t /\ j - Len(s) \in DOMAIN t
      BY <1>2, <2>2
    <3>3. i - Len(s) = j - Len(s)
      BY <1>4, <3>1, <3>2 DEF IsInjective
    <3> QED
      BY <1>2, <3>3
  <2>3. ASSUME NEW m \in 1 .. Len(s) + Len(t), NEW n \in 1 .. Len(s) + Len(t),
               m <= Len(s), n > Len(s), (s \o t)[m] = (s \o t)[n]
        PROVE  FALSE
    <3>1. s[m] = t[n - Len(s)] /\ m \in DOMAIN s /\ n - Len(s) \in DOMAIN t
      BY <1>1, <1>2, <2>3
    <3> QED
      BY <1>4, <3>1 DEF ToSet
  <2> QED
    BY <1>2, <2>1, <2>2, <2>3
<1> QED
  BY <1>1, <1>3, <1>4

\* The beginning of a sequence.
LEMMA UpToFacts ==
  ASSUME NEW T, NEW s \in Seq(T), NEW n \in Nat
  PROVE  /\ UpTo(s, n) \in Seq(T) /\ ToSet(UpTo(s, n)) \subseteq ToSet(s)
         /\ DOMAIN UpTo(s, n) \subseteq DOMAIN s
         /\ \A i \in DOMAIN UpTo(s, n) : i <= n /\ UpTo(s, n)[i] = s[i]
         /\ IsInjective(s) => IsInjective(UpTo(s, n))
<1> DEFINE m == Smaller(n, Len(s))
<1>1. m \in Nat /\ m <= Len(s) /\ m <= n /\ Len(s) \in Nat /\ DOMAIN s = 1 .. Len(s)
  BY LenProperties DEF Smaller
<1>2. \A i \in 1 .. m : s[i] \in T
  BY <1>1, ElementOfSeq
<1>3. UpTo(s, n) = SubSeq(s, 1, m)
  BY DEF UpTo
<1> HIDE DEF m
<1>4. /\ UpTo(s, n) \in Seq(T)
      /\ Len(UpTo(s, n)) = IF 1 <= m THEN m - 1 + 1 ELSE 0
      /\ \A i \in 1 .. m - 1 + 1 : UpTo(s, n)[i] = s[1 + i - 1]
  BY <1>1, <1>2, <1>3, SubSeqProperties
<1>5. DOMAIN UpTo(s, n) = 1 .. m
  <2>1. DOMAIN UpTo(s, n) = 1 .. Len(UpTo(s, n))
    BY <1>4, LenProperties
  <2>2. Len(UpTo(s, n)) = m
    BY <1>1, <1>4
  <2> QED
    BY <2>1, <2>2
<1>6. \A i \in 1 .. m : i <= n /\ i \in DOMAIN s /\ UpTo(s, n)[i] = s[i]
  BY <1>1, <1>4
<1>7. ToSet(UpTo(s, n)) \subseteq ToSet(s)
  BY <1>5, <1>6 DEF ToSet
<1>8. IsInjective(s) => IsInjective(UpTo(s, n))
  BY <1>5, <1>6 DEF IsInjective
<1> QED
  BY <1>4, <1>5, <1>6, <1>7, <1>8

\* A sequence of what it holds, with one more.
LEMMA IsSeqAppend ==
  ASSUME NEW s, IsSeq(s), NEW e
  PROVE  /\ IsSeq(Append(s, e)) /\ ToSet(Append(s, e)) = ToSet(s) \cup {e}
         /\ DOMAIN s = 1 .. Len(s) /\ Len(s) \in Nat
         /\ DOMAIN Append(s, e) = 1 .. Len(s) + 1 /\ Len(Append(s, e)) = Len(s) + 1
         /\ \A i \in 1 .. Len(s) : Append(s, e)[i] = s[i]
         /\ Append(s, e)[Len(s) + 1] = e
<1> DEFINE T == ToSet(s) \cup {e}
<1>1. s \in Seq(T) /\ e \in T
  BY SeqMonotonic DEF IsSeq
<1>2. /\ Append(s, e) \in Seq(T) /\ ToSet(Append(s, e)) = ToSet(s) \cup {e}
      /\ DOMAIN s = 1 .. Len(s) /\ Len(s) \in Nat
      /\ DOMAIN Append(s, e) = 1 .. Len(s) + 1 /\ Len(Append(s, e)) = Len(s) + 1
      /\ \A i \in 1 .. Len(s) : Append(s, e)[i] = s[i]
      /\ Append(s, e)[Len(s) + 1] = e
  <2> HIDE DEF T
  <2> QED
    BY <1>1, AppendFacts
<1> QED
  BY <1>2 DEF IsSeq

LEMMA IsSeqConcat ==
  ASSUME NEW s, NEW t, IsSeq(s), IsSeq(t)
  PROVE  /\ IsSeq(s \o t) /\ ToSet(s \o t) = ToSet(s) \cup ToSet(t)
         /\ Len(s) \in Nat /\ Len(t) \in Nat /\ Len(s \o t) = Len(s) + Len(t)
         /\ DOMAIN s = 1 .. Len(s) /\ DOMAIN t = 1 .. Len(t)
         /\ \A i \in 1 .. Len(s) + Len(t) :
              (s \o t)[i] = IF i <= Len(s) THEN s[i] ELSE t[i - Len(s)]
<1> DEFINE T == ToSet(s) \cup ToSet(t)
<1>1. s \in Seq(T) /\ t \in Seq(T)
  BY SeqMonotonic DEF IsSeq
<1> HIDE DEF T
<1>2. s \o t \in Seq(T) /\ ToSet(s \o t) = ToSet(s) \cup ToSet(t)
  BY <1>1, ConcatFacts
<1>3. /\ Len(s \o t) = Len(s) + Len(t)
      /\ \A i \in 1 .. Len(s) + Len(t) :
           (s \o t)[i] = IF i <= Len(s) THEN s[i] ELSE t[i - Len(s)]
  BY <1>1, ConcatProperties
<1>4. Len(s) \in Nat /\ Len(t) \in Nat /\ DOMAIN s = 1 .. Len(s) /\ DOMAIN t = 1 .. Len(t)
  BY <1>1, LenProperties
<1> QED
  BY <1>2, <1>3, <1>4 DEF IsSeq, T

LEMMA IsSeqTail ==
  ASSUME NEW s, IsSeq(s), s # <<>>
  PROVE  /\ IsSeq(Tail(s)) /\ Len(s) \in Nat \ {0} /\ Len(Tail(s)) = Len(s) - 1
         /\ Head(s) = s[1] /\ DOMAIN s = 1 .. Len(s)
         /\ \A i \in 1 .. Len(s) - 1 : Tail(s)[i] = s[i + 1]
<1> DEFINE T == ToSet(s)
<1>1. s \in Seq(T)
  BY DEF IsSeq
<1> HIDE DEF T
<1>2. /\ Tail(s) \in Seq(T) /\ Len(Tail(s)) = Len(s) - 1
      /\ \A i \in 1 .. Len(Tail(s)) : Tail(s)[i] = s[i + 1]
  BY <1>1, HeadTailProperties
<1>3. Len(s) \in Nat \ {0}
  BY <1>1, EmptySeq
<1>4. DOMAIN s = 1 .. Len(s) /\ DOMAIN Tail(s) = 1 .. Len(Tail(s))
  BY <1>1, <1>2, LenProperties
<1>5. Tail(s) \in Seq(ToSet(Tail(s)))
  <2>1. Tail(s) \in [1 .. Len(Tail(s)) -> ToSet(Tail(s))]
    <3>1. Tail(s) \in [1 .. Len(Tail(s)) -> T]
      BY <1>2, LenProperties
    <3>2. \A i \in 1 .. Len(Tail(s)) : Tail(s)[i] \in ToSet(Tail(s))
      BY <1>4 DEF ToSet
    <3> QED
      BY <3>1, <3>2
  <2>2. Len(Tail(s)) \in Nat
    BY <1>2, <1>3
  <2> QED
    BY <2>1, <2>2, SeqDef
<1>6. Head(s) = s[1]
  OBVIOUS
<1> QED
  BY <1>2, <1>3, <1>4, <1>5, <1>6 DEF IsSeq

\* A sequence without its i-th element.
LEMMA RemoveAtFacts ==
  ASSUME NEW s, IsSeq(s), NEW i \in DOMAIN s
  PROVE  /\ IsSeq(RemoveAt(s, i)) /\ DOMAIN s = 1 .. Len(s) /\ Len(s) \in Nat
         /\ DOMAIN RemoveAt(s, i) = 1 .. Len(s) - 1
         /\ \A j \in 1 .. Len(s) - 1 : RemoveAt(s, i)[j] = IF j < i THEN s[j] ELSE s[j + 1]
<1> DEFINE T == ToSet(s)
           a == SubSeq(s, 1, i - 1)
           b == SubSeq(s, i + 1, Len(s))
<1>1. s \in Seq(T) /\ Len(s) \in Nat /\ DOMAIN s = 1 .. Len(s)
  BY LenProperties DEF IsSeq
<1> HIDE DEF T
<1>2. i \in 1 .. Len(s) /\ \A j \in 1 .. Len(s) : s[j] \in T
  BY <1>1, ElementOfSeq
<1>3. /\ a \in Seq(T) /\ Len(a) = IF 1 <= i - 1 THEN i - 1 - 1 + 1 ELSE 0
      /\ \A j \in 1 .. i - 1 - 1 + 1 : a[j] = s[1 + j - 1]
  <2>1. i - 1 \in Int /\ \A j \in 1 .. i - 1 : s[j] \in T
    BY <1>1, <1>2
  <2> QED
    BY <2>1, SubSeqProperties
<1>4. /\ b \in Seq(T) /\ Len(b) = IF i + 1 <= Len(s) THEN Len(s) - (i + 1) + 1 ELSE 0
      /\ \A j \in 1 .. Len(s) - (i + 1) + 1 : b[j] = s[i + 1 + j - 1]
  <2>1. i + 1 \in Int /\ Len(s) \in Int /\ \A j \in i + 1 .. Len(s) : s[j] \in T
    BY <1>1, <1>2
  <2> QED
    BY <2>1, SubSeqProperties, SMTT(30)
<1> HIDE DEF a, b
<1>5. /\ a \o b \in Seq(T) /\ Len(a \o b) = Len(a) + Len(b)
      /\ \A j \in 1 .. Len(a) + Len(b) : (a \o b)[j] = IF j <= Len(a) THEN a[j] ELSE b[j - Len(a)]
  BY <1>3, <1>4, ConcatProperties
<1>6. Len(a) = i - 1 /\ Len(b) = Len(s) - i
  BY <1>1, <1>2, <1>3, <1>4
<1>7. \A j \in 1 .. Len(s) - 1 : (a \o b)[j] = IF j < i THEN s[j] ELSE s[j + 1]
  <2> TAKE j \in 1 .. Len(s) - 1
  <2>1. (a \o b)[j] = IF j <= i - 1 THEN a[j] ELSE b[j - (i - 1)]
    BY <1>1, <1>2, <1>5, <1>6, SMTT(30)
  <2>2. CASE j < i
    <3>1. j <= i - 1 /\ j \in 1 .. i - 1 - 1 + 1 /\ 1 + j - 1 = j
      BY <1>2, <2>2
    <3> QED
      BY <1>3, <2>1, <2>2, <3>1
  <2>3. CASE ~(j < i)
    <3> DEFINE k == j - (i - 1)
    <3>1. ~(j <= i - 1) /\ k \in 1 .. Len(s) - (i + 1) + 1 /\ i + 1 + k - 1 = j + 1
      BY <1>1, <1>2, <2>3
    <3> HIDE DEF k
    <3>2. b[k] = s[j + 1]
      BY <1>4, <3>1
    <3> QED
      BY <2>1, <2>3, <3>1, <3>2 DEF k
  <2> QED
    BY <2>2, <2>3
<1>8. RemoveAt(s, i) = a \o b
  BY DEF RemoveAt, a, b
<1>9. DOMAIN (a \o b) = 1 .. Len(s) - 1 /\ a \o b \in [1 .. Len(s) - 1 -> T]
  <2>1. Len(a \o b) = Len(s) - 1
    BY <1>1, <1>2, <1>5, <1>6
  <2> QED
    BY <1>5, <2>1, LenProperties
<1>10. a \o b \in Seq(ToSet(a \o b))
  <2>1. Len(s) - 1 \in Nat
    BY <1>1, <1>2
  <2>2. a \o b \in [1 .. Len(s) - 1 -> ToSet(a \o b)]
    BY <1>9 DEF ToSet
  <2> QED
    BY <2>1, <2>2, SeqDef
<1> QED
  BY <1>1, <1>7, <1>8, <1>9, <1>10 DEF IsSeq

-----------------------------------------------------------------------------
(* Messages *)

\* A message has one item for each request it lists.
LEMMA ItemFacts ==
  ASSUME NEW m, IsMessage(m), NEW i \in DOMAIN m.items
  PROVE  m.items[i].r \in Listed(m.items) /\ ItemOf(m.items, m.items[i].r) = m.items[i]
<1> DEFINE r == m.items[i].r
           Is(x) == x \in ToSet(m.items) /\ x.r = r
<1>1. Is(m.items[i])
  BY DEF ToSet
<1>2. \A x : Is(x) => x = m.items[i]
  BY DEF IsMessage, ToSet
<1>3. ItemOf(m.items, r) = CHOOSE x : Is(x)
  BY DEF ItemOf
<1>4. Is(CHOOSE x : Is(x))
  <2> HIDE DEF Is
  <2> QED
    BY <1>1
<1>5. ItemOf(m.items, r) = m.items[i]
  <2> HIDE DEF Is, r
  <2> QED
    BY <1>2, <1>3, <1>4
<1> QED
  BY <1>5 DEF Listed

\* What a message lists.
LEMMA ListedFacts ==
  ASSUME NEW m, IsMessage(m), NEW r \in Listed(m.items)
  PROVE  /\ r \in Reqs /\ ItemOf(m.items, r).r = r
         /\ m.kind = "Prefill" =>
              LET item == ItemOf(m.items, r)
              IN  item.len \in Nat \ {0} /\ item.from \in Nat /\ item.take \in Nat \ {0}
         /\ m.kind = "Decode" => ItemOf(m.items, r).take = 1
<1>1. PICK i \in DOMAIN m.items : r = m.items[i].r
  BY DEF Listed
<1>2. ItemOf(m.items, r) = m.items[i]
  BY <1>1, ItemFacts
<1> DEFINE item == m.items[i]
<1>3. item.r \in Reqs
  BY DEF IsMessage
<1>4. m.kind = "Prefill" => item.len \in Nat \ {0} /\ item.from \in Nat /\ item.take \in Nat \ {0}
  BY DEF IsMessage
<1>5. m.kind = "Decode" => item.take = 1
  BY DEF IsMessage
<1> HIDE DEF item
<1> QED
  BY <1>1, <1>2, <1>3, <1>4, <1>5 DEF item

\* A message leads from a state to a state.
LEMMA AfterType ==
  ASSUME NEW s \in States, NEW m, IsMessage(m)
  PROVE  After(s, m) \in States
<1> SUFFICES ASSUME NEW r \in Reqs, r \in Listed(m.items)
             PROVE  Fed(m.kind, ItemOf(m.items, r), s[r]) \in [type : {"none"} \cup Types, len : Nat, kv : Nat]
  BY DEF After, States
<1> DEFINE item == ItemOf(m.items, r)
           t == s[r]
<1>1. t.type \in {"none"} \cup Types /\ t.len \in Nat /\ t.kv \in Nat
  BY DEF States
<1>2. m.kind \in {"Prefill", "Decode", "EndTask"}
  BY DEF IsMessage
<1>3. /\ m.kind = "Prefill" => item.len \in Nat \ {0} /\ item.from \in Nat /\ item.take \in Nat \ {0}
      /\ m.kind = "Decode" => item.take = 1
  BY ListedFacts
<1> HIDE DEF item, t
<1> SUFFICES Fed(m.kind, item, t) \in [type : {"none"} \cup Types, len : Nat, kv : Nat]
  BY DEF item, t
<1>4. CASE m.kind = "Prefill"
  BY <1>1, <1>3, <1>4 DEF Fed, Types
<1>5. CASE m.kind = "Decode"
  BY <1>1, <1>3, <1>5 DEF Fed, Types
<1>6. CASE m.kind = "EndTask"
  BY <1>6 DEF Fed, Types, Blank
<1> QED
  BY <1>2, <1>4, <1>5, <1>6

\* No message changes nothing.
LEMMA LeadsNowhere ==
  ASSUME NEW a \in States
  PROVE  Leads(<<>>, a, a)
<1> DEFINE h == [j \in 0 .. 0 |-> a]
<1>1. h \in [0 .. 0 -> States] /\ h[0] = a /\ Len(<<>>) = 0 /\ \A j \in 1 .. 0 : FALSE
  OBVIOUS
<1>2. IsSeq(<<>>)
  BY EmptySeq DEF IsSeq
<1> QED
  BY <1>1, <1>2 DEF Leads, Through

\* Where the messages lead.
LEMMA LeadsTypes ==
  ASSUME NEW q, NEW a, NEW z, Leads(q, a, z)
  PROVE  a \in States /\ z \in States
<1>1. PICK h : Through(q, h) /\ h[0] = a /\ h[Len(q)] = z
  BY DEF Leads
<1>2. Len(q) \in Nat
  BY LenProperties DEF Leads, IsSeq
<1> QED
  BY <1>1, <1>2 DEF Through

\* One message more at the end.
LEMMA LeadsAppend ==
  ASSUME NEW q, NEW a, NEW z, Leads(q, a, z), NEW m, IsMessage(m), Fits(z, m)
  PROVE  Leads(Append(q, m), a, After(z, m))
<1>1. PICK h : Through(q, h) /\ h[0] = a /\ h[Len(q)] = z
  BY DEF Leads
<1> DEFINE n == Len(q)
           p == Append(q, m)
           g == [j \in 0 .. n + 1 |-> IF j = n + 1 THEN After(z, m) ELSE h[j]]
<1>2. /\ IsSeq(p) /\ n \in Nat /\ Len(p) = n + 1
      /\ \A i \in 1 .. n : p[i] = q[i]
      /\ p[n + 1] = m
  BY IsSeqAppend DEF Leads
<1>3. /\ h \in [0 .. n -> States]
      /\ \A j \in 1 .. n : IsMessage(q[j]) /\ Fits(h[j - 1], q[j]) /\ h[j] = After(h[j - 1], q[j])
  BY <1>1 DEF Through
<1>4. z \in States /\ After(z, m) \in States
  BY LeadsTypes, AfterType
<1> HIDE DEF n, p
<1>5. \A j \in 0 .. n + 1 : j = n + 1 \/ (j # n + 1 /\ j \in 0 .. n)
  BY <1>2
<1>6. g \in [0 .. n + 1 -> States]
  BY <1>3, <1>4, <1>5
<1>7. g[0] = a /\ g[n + 1] = After(z, m) /\ g[n] = z
  BY <1>1, <1>2 DEF n
<1>8. ASSUME NEW j \in 1 .. n + 1
      PROVE  IsMessage(p[j]) /\ Fits(g[j - 1], p[j]) /\ g[j] = After(g[j - 1], p[j])
  <2>1. CASE j = n + 1
    <3>1. j - 1 = n
      BY <1>2, <2>1
    <3> HIDE DEF g
    <3> QED
      BY <1>2, <1>7, <2>1, <3>1
  <2>2. CASE j \in 1 .. n
    <3>1. j - 1 \in 0 .. n /\ j \in 0 .. n /\ j # n + 1 /\ j - 1 # n + 1 /\ j - 1 \in 0 .. n + 1 /\ j \in 0 .. n + 1
      BY <1>2, <2>2
    <3>2. g[j] = h[j] /\ g[j - 1] = h[j - 1] /\ p[j] = q[j]
      BY <1>2, <2>2, <3>1
    <3> HIDE DEF g
    <3> QED
      BY <1>3, <2>2, <3>2
  <2> QED
    BY <1>2, <2>1, <2>2
<1> HIDE DEF g
<1>9. Through(p, g)
  BY <1>2, <1>6, <1>8 DEF Through
<1> QED
  BY <1>2, <1>7, <1>9 DEF Leads, p

\* The first message is taken.
LEMMA LeadsTail ==
  ASSUME NEW q, NEW a, NEW z, Leads(q, a, z), q # <<>>
  PROVE  /\ IsMessage(Head(q)) /\ Fits(a, Head(q))
         /\ Leads(Tail(q), After(a, Head(q)), z)
<1>1. PICK h : Through(q, h) /\ h[0] = a /\ h[Len(q)] = z
  BY DEF Leads
<1> DEFINE n == Len(q) - 1
           p == Tail(q)
           g == [j \in 0 .. n |-> h[j + 1]]
<1>2. /\ IsSeq(p) /\ Len(q) \in Nat \ {0} /\ Len(p) = n
      /\ Head(q) = q[1]
      /\ \A i \in 1 .. n : p[i] = q[i + 1]
  BY IsSeqTail DEF Leads
<1>3. n \in Nat /\ Len(q) = n + 1
  BY <1>2
<1>4. /\ h \in [0 .. n + 1 -> States]
      /\ \A j \in 1 .. n + 1 : IsMessage(q[j]) /\ Fits(h[j - 1], q[j]) /\ h[j] = After(h[j - 1], q[j])
  BY <1>1, <1>3 DEF Through
<1> HIDE DEF n, p
<1>5. IsMessage(q[1]) /\ Fits(a, q[1]) /\ h[1] = After(a, q[1])
  <2>1. 1 \in 1 .. n + 1 /\ 1 - 1 = 0
    BY <1>3
  <2> QED
    BY <1>1, <1>4, <2>1
<1>6. \A j \in 0 .. n : j + 1 \in 0 .. n + 1 /\ h[j + 1] \in States
  BY <1>3, <1>4
<1>7. g \in [0 .. n -> States] /\ g[0] = h[1] /\ g[n] = z
  BY <1>1, <1>3, <1>6
<1>8. ASSUME NEW j \in 1 .. n
      PROVE  IsMessage(p[j]) /\ Fits(g[j - 1], p[j]) /\ g[j] = After(g[j - 1], p[j])
  <2>1. /\ j - 1 \in 0 .. n /\ j \in 0 .. n /\ j + 1 \in 1 .. n + 1
        /\ (j - 1) + 1 = j /\ (j + 1) - 1 = j
    BY <1>3
  <2>2. g[j] = h[j + 1] /\ g[j - 1] = h[j] /\ p[j] = q[j + 1]
    BY <1>2, <2>1
  <2>3. IsMessage(q[j + 1]) /\ Fits(h[j], q[j + 1]) /\ h[j + 1] = After(h[j], q[j + 1])
    BY <1>4, <2>1
  <2> HIDE DEF g
  <2> QED
    BY <2>2, <2>3
<1> HIDE DEF g
<1>9. Through(p, g)
  BY <1>2, <1>7, <1>8 DEF Through
<1> QED
  BY <1>2, <1>5, <1>7, <1>9 DEF Leads, p

\* What the cache of a rank will hold.
LEMMA KvAheadIs ==
  ASSUME NEW n \in Others, NEW z, Leads(meta[n], Local(n), z), NEW r \in Reqs
  PROVE  KvAhead(n, r) = z[r].kv
<1> DEFINE q == meta[n]
           a == Local(n)
           Added(j) == ItemOf(q[j].items, r).take
           Eqn(f) == f = [j \in 0 .. Len(q) |->
                            IF j = 0 THEN kv[n][r]
                            ELSE IF r \notin Listed(q[j].items) THEN f[j - 1]
                            ELSE IF q[j].kind = "EndTask" THEN 0
                            ELSE f[j - 1] + ItemOf(q[j].items, r).take]
<1>1. PICK h : Through(q, h) /\ h[0] = a /\ h[Len(q)] = z
  BY DEF Leads
<1>2. Len(q) \in Nat
  BY LenProperties DEF Leads, IsSeq
<1>3. /\ h \in [0 .. Len(q) -> States]
      /\ \A j \in 1 .. Len(q) : IsMessage(q[j]) /\ h[j] = After(h[j - 1], q[j])
  BY <1>1 DEF Through
<1>4. h[0][r].kv = kv[n][r]
  BY <1>1 DEF Local
<1>5. KvAhead(n, r) = (CHOOSE f : Eqn(f))[Len(q)]
  BY DEF KvAhead
<1> HIDE DEF q, a
<1>6. \A j \in 1 .. Len(q) :
        h[j][r].kv = IF r \notin Listed(q[j].items) THEN h[j - 1][r].kv
                     ELSE IF q[j].kind = "EndTask" THEN 0
                     ELSE h[j - 1][r].kv + ItemOf(q[j].items, r).take
  <2> TAKE j \in 1 .. Len(q)
  <2>1. h[j][r] = IF r \in Listed(q[j].items) THEN Fed(q[j].kind, ItemOf(q[j].items, r), h[j - 1][r])
                                             ELSE h[j - 1][r]
    BY <1>3 DEF After
  <2>2. q[j].kind \in {"Prefill", "Decode", "EndTask"}
    BY <1>3 DEF IsMessage
  <2> QED
    BY <2>1, <2>2 DEF Fed, Blank
<1> DEFINE k == [j \in 0 .. Len(q) |-> h[j][r].kv]
<1>7. Eqn(k)
  <2>1. \A j \in 0 .. Len(q) : j = 0 \/ (j # 0 /\ j \in 1 .. Len(q) /\ j - 1 \in 0 .. Len(q))
    BY <1>2
  <2>2. \A j \in 0 .. Len(q) :
          k[j] = IF j = 0 THEN kv[n][r]
                 ELSE IF r \notin Listed(q[j].items) THEN k[j - 1]
                 ELSE IF q[j].kind = "EndTask" THEN 0
                 ELSE k[j - 1] + ItemOf(q[j].items, r).take
    BY <1>4, <1>6, <2>1
  <2>3. k = [j \in 0 .. Len(q) |-> k[j]]
    OBVIOUS
  <2> HIDE DEF k
  <2> QED
    BY <2>2, <2>3
<1>8. Eqn(CHOOSE f : Eqn(f))
  <2> HIDE DEF Eqn, k
  <2> QED
    BY <1>7
<1> DEFINE f == CHOOSE g : Eqn(g)
<1>9. Eqn(f)
  BY <1>8
<1> HIDE DEF f
<1>10. \A j \in 0 .. Len(q) : f[j] = k[j]
  <2> DEFINE P == [j \in 0 .. Len(q) |-> f[j] = k[j]]
  <2>1. P[0]
    <3>1. 0 \in 0 .. Len(q)
      BY <1>2
    <3>2. f[0] = kv[n][r] /\ k[0] = kv[n][r]
      BY <1>7, <1>9, <3>1
    <3> HIDE DEF k
    <3> QED
      BY <3>1, <3>2
  <2>2. ASSUME NEW j \in 1 .. Len(q), P[j - 1] PROVE P[j]
    <3>1. j \in 0 .. Len(q) /\ j # 0 /\ j - 1 \in 0 .. Len(q)
      BY <1>2
    <3> HIDE DEF k
    <3>2. f[j - 1] = k[j - 1]
      BY <2>2, <3>1
    <3>3. f[j] = k[j]
      BY <1>7, <1>9, <3>1, <3>2
    <3> QED
      BY <3>1, <3>3
  <2>3. \A j \in 0 .. Len(q) : P[j]
    <3> HIDE DEF P
    <3> QED
      BY <1>2, <2>1, <2>2, EachStep
  <2> HIDE DEF k
  <2> QED
    BY <2>3
<1>11. f[Len(q)] = z[r].kv
  <2>1. Len(q) \in 0 .. Len(q)
    BY <1>2
  <2>2. f[Len(q)] = k[Len(q)] /\ k[Len(q)] = h[Len(q)][r].kv
    BY <1>10, <2>1
  <2> QED
    BY <1>1, <2>2
<1> QED
  BY <1>5, <1>11 DEF f

\* The requests of S are forgotten.
Emptied(s, S) == [r \in Reqs |-> IF r \in S THEN Blank ELSE s[r]]

EndMessage(ids) == [kind |-> "EndTask", items |-> EndTasks(ids)]

\* A message that ends tasks, each once.
LEMMA EndFacts ==
  ASSUME NEW ids \in Seq(Reqs), IsInjective(ids), NEW s \in States
  PROVE  /\ IsMessage(EndMessage(ids)) /\ Fits(s, EndMessage(ids))
         /\ After(s, EndMessage(ids)) = Emptied(s, ToSet(ids))
<1> DEFINE m == EndMessage(ids)
<1>1. m.kind = "EndTask" /\ m.items = [i \in DOMAIN ids |-> [r |-> ids[i]]] /\ m = [kind |-> m.kind, items |-> m.items]
  BY DEF EndMessage, EndTasks, Mapped
<1>2. \A i \in DOMAIN ids : ids[i] \in Reqs
  BY LenProperties, ElementOfSeq
<1>3. IsMessage(m)
  <2> HIDE DEF m
  <2>1. \A i \in DOMAIN ids : m.items[i].r = ids[i]
    BY <1>1
  <2>2. DOMAIN m.items = DOMAIN ids /\ m.items = [i \in DOMAIN m.items |-> m.items[i]]
    BY <1>1
  <2>3. \A i, j \in DOMAIN ids : ids[i] = ids[j] => i = j
    BY DEF IsInjective
  <2> QED
    BY <1>1, <1>2, <2>1, <2>2, <2>3 DEF IsMessage
<1>4. Listed(m.items) = ToSet(ids)
  <2> HIDE DEF m
  <2> QED
    BY <1>1 DEF Listed, ToSet
<1> HIDE DEF m
<1>5. Fits(s, m)
  BY <1>1 DEF Fits
<1>6. After(s, m) = Emptied(s, ToSet(ids))
  <2>1. \A r : Fed("EndTask", ItemOf(m.items, r), s[r]) = Blank
    BY DEF Fed
  <2> QED
    BY <1>1, <1>4, <2>1 DEF After, Emptied
<1> QED
  BY <1>3, <1>5, <1>6 DEF m

\* The messages of evict_decode_task, one for each task.
Ends(gone) == Mapped(EndTasks(gone), LAMBDA i : [kind |-> "EndTask", items |-> <<i>>])

LEMMA OneEnd ==
  ASSUME NEW x \in Reqs, NEW s \in States, NEW m, m = [kind |-> "EndTask", items |-> <<[r |-> x]>>]
  PROVE  IsMessage(m) /\ Fits(s, m) /\ After(s, m) = Emptied(s, {x})
<1>1. /\ m.kind = "EndTask" /\ DOMAIN m.items = {1} /\ m.items[1].r = x
      /\ m = [kind |-> m.kind, items |-> m.items]
      /\ m.items = [i \in DOMAIN m.items |-> m.items[i]]
  OBVIOUS
<1>2. IsMessage(m)
  BY <1>1 DEF IsMessage
<1>3. Listed(m.items) = {x}
  BY <1>1 DEF Listed
<1>4. Fits(s, m)
  BY <1>1 DEF Fits
<1>5. After(s, m) = Emptied(s, {x})
  <2>1. \A r : Fed("EndTask", ItemOf(m.items, r), s[r]) = Blank
    BY DEF Fed
  <2> QED
    BY <1>1, <1>3, <2>1 DEF After, Emptied
<1> QED
  BY <1>2, <1>4, <1>5

LEMMA LeadsEvict ==
  ASSUME NEW q, NEW a, NEW z, Leads(q, a, z), NEW gone \in Seq(Reqs)
  PROVE  Leads(q \o Ends(gone), a, Emptied(z, ToSet(gone)))
<1> DEFINE n == Len(q)
           k == Len(gone)
           w == q \o Ends(gone)
<1>1. PICK h : Through(q, h) /\ h[0] = a /\ h[n] = z
  BY DEF Leads
<1>2. k \in Nat /\ DOMAIN gone = 1 .. k /\ \A i \in 1 .. k : gone[i] \in Reqs
  BY LenProperties, ElementOfSeq
<1>3. /\ Ends(gone) = [i \in 1 .. k |-> [kind |-> "EndTask", items |-> <<[r |-> gone[i]]>>]]
  <2>1. EndTasks(gone) = [i \in 1 .. k |-> [r |-> gone[i]]]
    BY <1>2 DEF EndTasks, Mapped
  <2>2. DOMAIN EndTasks(gone) = 1 .. k /\ \A i \in 1 .. k : EndTasks(gone)[i] = [r |-> gone[i]]
    BY <2>1
  <2>3. Ends(gone) = [i \in DOMAIN EndTasks(gone) |-> [kind |-> "EndTask", items |-> <<EndTasks(gone)[i]>>]]
    BY DEF Ends, Mapped
  <2> QED
    BY <2>2, <2>3
<1> HIDE DEF k
<1>4. IsSeq(Ends(gone)) /\ Len(Ends(gone)) = k
  <2> DEFINE f == Ends(gone)
  <2>1. DOMAIN f = 1 .. k /\ f = [i \in 1 .. k |-> f[i]]
    BY <1>3
  <2> HIDE DEF f
  <2>2. f \in [1 .. k -> ToSet(f)]
    BY <2>1 DEF ToSet
  <2>3. f \in Seq(ToSet(f))
    BY <1>2, <2>2, SeqDef
  <2>4. Len(f) = k
    BY <1>2, <2>1, <2>3, LenProperties
  <2> QED
    BY <2>3, <2>4 DEF IsSeq, f
<1>5. /\ IsSeq(w) /\ n \in Nat /\ Len(w) = n + k
      /\ \A i \in 1 .. n + k : w[i] = IF i <= n THEN q[i] ELSE Ends(gone)[i - n]
  BY <1>4, IsSeqConcat DEF Leads
<1>6. /\ h \in [0 .. n -> States]
      /\ \A j \in 1 .. n : IsMessage(q[j]) /\ Fits(h[j - 1], q[j]) /\ h[j] = After(h[j - 1], q[j])
  BY <1>1 DEF Through
<1>7. z \in States
  BY LeadsTypes
<1>8. \A S : Emptied(z, S) \in States
  BY <1>7 DEF Emptied, States, Blank
<1> HIDE DEF n, w
<1> DEFINE First(i) == {gone[j] : j \in 1 .. i}
           g == [j \in 0 .. n + k |-> IF j <= n THEN h[j] ELSE Emptied(z, First(j - n))]
<1>9. \A j \in 0 .. n + k : j <= n => j \in 0 .. n
  BY <1>2, <1>5
<1>10. g \in [0 .. n + k -> States]
  <2> HIDE DEF First
  <2> QED
    BY <1>6, <1>8, <1>9
<1>11. Emptied(z, First(0)) = z
  <2>1. First(0) = {}
    OBVIOUS
  <2> HIDE DEF First
  <2> QED
    BY <1>7, <2>1 DEF Emptied, States
<1>12. \A i \in 0 .. k : n + i \in 0 .. n + k /\ g[n + i] = Emptied(z, First(i))
  <2> TAKE i \in 0 .. k
  <2>1. n + i \in 0 .. n + k /\ (n + i) - n = i /\ (n + i <= n <=> i = 0)
    BY <1>2, <1>5
  <2>2. CASE i = 0
    <3> HIDE DEF First
    <3>1. n + i = n /\ n \in 0 .. n + k /\ n <= n
      BY <1>2, <1>5, <2>1, <2>2
    <3> QED
      BY <1>1, <1>11, <2>2, <3>1 DEF n
  <2>3. CASE i # 0
    <3> HIDE DEF First
    <3> QED
      BY <2>1, <2>3
  <2> QED
    BY <2>2, <2>3
<1>13. g[0] = a
  BY <1>1, <1>2, <1>5
<1>14. g[n + k] = Emptied(z, ToSet(gone))
  <2>1. First(k) = ToSet(gone)
    BY <1>2 DEF ToSet
  <2>2. k \in 0 .. k
    BY <1>2
  <2> HIDE DEF First, g
  <2> QED
    BY <1>12, <2>1, <2>2
<1>15. ASSUME NEW j \in 1 .. n + k
       PROVE  IsMessage(w[j]) /\ Fits(g[j - 1], w[j]) /\ g[j] = After(g[j - 1], w[j])
  <2>1. CASE j <= n
    <3>1. j \in 1 .. n /\ j - 1 <= n /\ j - 1 \in 0 .. n + k /\ j \in 0 .. n + k
      BY <1>2, <1>5, <2>1
    <3>2. g[j] = h[j] /\ g[j - 1] = h[j - 1] /\ w[j] = q[j]
      BY <1>5, <2>1, <3>1
    <3> HIDE DEF g
    <3> QED
      BY <1>6, <3>1, <3>2
  <2>2. CASE j > n
    <3> DEFINE i == j - n
    <3>1. i \in 1 .. k /\ i \in 0 .. k /\ i - 1 \in 0 .. k /\ n + i = j /\ n + (i - 1) = j - 1 /\ ~(j <= n)
      BY <1>2, <1>5, <2>2
    <3>2. w[j] = [kind |-> "EndTask", items |-> <<[r |-> gone[i]]>>]
      BY <1>3, <1>5, <3>1
    <3> HIDE DEF i
    <3>3. g[j] = Emptied(z, First(i)) /\ g[j - 1] = Emptied(z, First(i - 1))
      <4> HIDE DEF g, First
      <4> QED
        BY <1>12, <3>1
    <3>4. First(i) = First(i - 1) \cup {gone[i]}
      <4>1. \A l : l \in 1 .. i <=> l \in 1 .. i - 1 \/ l = i
        BY <3>1, <1>2
      <4> QED
        BY <4>1
    <3> HIDE DEF g, First
    <3>5. IsMessage(w[j]) /\ Fits(g[j - 1], w[j]) /\ After(g[j - 1], w[j]) = Emptied(g[j - 1], {gone[i]})
      BY <1>2, <1>8, <3>1, <3>2, <3>3, OneEnd, ZenonT(30)
    <3>6. Emptied(g[j - 1], {gone[i]}) = g[j]
      BY <3>3, <3>4 DEF Emptied
    <3> QED
      BY <3>5, <3>6
  <2> QED
    BY <1>2, <1>5, <2>1, <2>2
<1> HIDE DEF g
<1>16. Through(w, g)
  BY <1>5, <1>10, <1>15 DEF Through
<1> QED
  BY <1>5, <1>13, <1>14, <1>16 DEF Leads, w

\* A set of requests in a row.
LEMMA SetToSeqFacts ==
  ASSUME NEW S \in SUBSET Reqs
  PROVE  SetToSeq(S) \in Seq(Reqs) /\ IsInjective(SetToSeq(S)) /\ ToSet(SetToSeq(S)) = S
<1> DEFINE D == 1 .. Cardinality(S)
           f == SetToSeq(S)
<1>1. IsFiniteSet(S) /\ Cardinality(S) \in Nat
  BY StagesAssumption, FS_Subset, FS_CardinalityType
<1>2. IsFiniteSet(D) /\ Cardinality(D) = Cardinality(S)
  BY <1>1, FS_Interval
<1>3. \E g \in [D -> S] : IsInjective(g)
  <2>1. ExistsBijection(D, S)
    BY <1>1, <1>2, FS_SameCardinalityBij
  <2> QED
    BY <2>1 DEF ExistsBijection, Bijection, Injection, IsInjective
<1>4. f = CHOOSE g \in [D -> S] : IsInjective(g)
  BY DEF SetToSeq
<1> HIDE DEF f
<1>5. f \in [D -> S] /\ IsInjective(f)
  BY <1>3, <1>4
<1>6. f \in Injection(D, S)
  BY <1>5 DEF Injection, IsInjective
<1>7. f \in Surjection(D, S)
  BY <1>1, <1>2, <1>6, FS_Injection
<1>8. ToSet(f) = S
  BY <1>5, <1>7 DEF Surjection, ToSet
<1>9. f \in Seq(Reqs)
  <2>1. f \in [D -> Reqs]
    BY <1>5
  <2> QED
    BY <1>1, <2>1, SeqDef
<1> QED
  BY <1>5, <1>8, <1>9 DEF f

-----------------------------------------------------------------------------
(* A step of a stage *)

\* A task of a prefill batch takes what it is fed.
LEMMA ConsumeIs ==
  ASSUME NEW len \in Nat, NEW consumed \in Nat, NEW take \in Nat
  PROVE  ConsumeReqTokens([type |-> "Prefill", len |-> len, consumed |-> consumed], take)
           = [type |-> IF consumed + take >= len THEN "Decode" ELSE "Prefill",
              len |-> len, consumed |-> consumed + take]
<1> DEFINE new == IF consumed + take >= len THEN "Decode" ELSE "Prefill"
<1>1. ConsumeReqTokens([type |-> "Prefill", len |-> len, consumed |-> consumed], take)
        = [[type |-> "Prefill", len |-> len, consumed |-> consumed]
             EXCEPT !.consumed = consumed + take, !.type = new]
  BY DEF ConsumeReqTokens
<1>2. ASSUME NEW a, NEW b
      PROVE  [[type |-> "Prefill", len |-> len, consumed |-> consumed] EXCEPT !.consumed = a, !.type = b]
               = [type |-> b, len |-> len, consumed |-> a]
  <2>1. [[type |-> "Prefill", len |-> len, consumed |-> consumed] EXCEPT !.consumed = a, !.type = b]
          = [[[type |-> "Prefill", len |-> len, consumed |-> consumed] EXCEPT !.consumed = a]
               EXCEPT !.type = b]
    OBVIOUS
  <2>2. [[type |-> "Prefill", len |-> len, consumed |-> consumed] EXCEPT !.consumed = a]
          = [type |-> "Prefill", len |-> len, consumed |-> a]
    OBVIOUS
  <2>3. [[type |-> "Prefill", len |-> len, consumed |-> a] EXCEPT !.type = b]
          = [type |-> b, len |-> len, consumed |-> a]
    OBVIOUS
  <2> QED
    BY <2>1, <2>2, <2>3
<1> HIDE DEF new
<1>3. ConsumeReqTokens([type |-> "Prefill", len |-> len, consumed |-> consumed], take)
        = [type |-> new, len |-> len, consumed |-> consumed + take]
  BY <1>1, <1>2
<1> QED
  BY <1>3 DEF new

\* What a stage makes of a task of a prefill batch that fits.
LEMMA KnownCopy ==
  ASSUME StageTypes, NEW n \in Others, NEW m, IsMessage(m), m.kind = "Prefill",
         Fits(Local(n), m), NEW r \in Listed(m.items)
  PROVE  LET item == ItemOf(m.items, r)
         IN  /\ PrefillCopy(n, item) = [type |-> "Prefill", len |-> item.len, consumed |-> item.from]
             /\ ConsumeReqTokens(PrefillCopy(n, item), item.take)
                  = [type |-> IF item.from + item.take >= item.len THEN "Decode" ELSE "Prefill",
                     len |-> item.len, consumed |-> item.from + item.take]
<1> DEFINE item == ItemOf(m.items, r)
           c == copy[n][r]
           known == [type |-> "Prefill", len |-> item.len, consumed |-> item.from]
<1>1. r \in Reqs /\ item.r = r /\ item.len \in Nat \ {0} /\ item.from \in Nat /\ item.take \in Nat \ {0}
  BY ListedFacts
<1>2. c \in Copies
  BY <1>1 DEF StageTypes
<1>3. Local(n)[r].type = c.type /\ Local(n)[r].len = c.len
  BY <1>1 DEF Local
<1>4. IF item.from = 0 THEN c.type = "none" ELSE c.type = "Prefill" /\ c.len = item.len
  BY <1>3 DEF Fits
<1>5. PrefillCopy(n, item) = [(IF c = NoCopy THEN [type |-> "Prefill", len |-> item.len, consumed |-> 0]
                               ELSE c) EXCEPT !.consumed = item.from]
  BY <1>1 DEF PrefillCopy
<1> HIDE DEF item, c
<1>6. PrefillCopy(n, item) = known
  <2>1. CASE item.from = 0
    <3>1. c = NoCopy
      BY <1>2, <1>4, <2>1 DEF Copies, Types, NoCopy
    <3> QED
      BY <1>5, <3>1
  <2>2. CASE item.from # 0
    <3>1. c \in [type : Types, len : Nat, consumed : Nat] /\ c # NoCopy
      BY <1>2, <1>4, <2>2 DEF Copies, NoCopy
    <3>2. c.type = "Prefill" /\ c.len = item.len
      BY <1>4, <2>2
    <3>3. [c EXCEPT !.consumed = item.from] = known
      BY <3>1, <3>2
    <3> QED
      BY <1>5, <3>1, <3>3
  <2> QED
    BY <2>1, <2>2
<1>7. ConsumeReqTokens(known, item.take)
        = [type |-> IF item.from + item.take >= item.len THEN "Decode" ELSE "Prefill",
           len |-> item.len, consumed |-> item.from + item.take]
  BY <1>1, ConsumeIs
<1> QED
  BY <1>6, <1>7 DEF item

\* The description as it is handed on.
Handed(n, m) ==
  meta' = [k \in Others |-> CASE k = n -> Tail(meta[n])
                              [] k = n + 1 -> Append(meta[k], m)
                              [] OTHER -> meta[k]]

\* What a step of a stage leaves alone, and what it makes of its state.
Moved(n, m) ==
  /\ StageTypes'
  /\ Local(n)' = After(Local(n), m)
  /\ \A k \in Others : k # n => Local(k)' = Local(k)
  /\ kv'[Main] = kv[Main]
  /\ Handed(n, m)

\* The new state of rank n decides what a step moves.
LEMMA MovedBy ==
  ASSUME StageTypes, NEW n \in Others, NEW m, IsMessage(m), Handed(n, m),
         NEW c \in [Reqs -> Copies], copy' = [copy EXCEPT ![n] = c],
         NEW l \in [Reqs -> Nat], kv' = [kv EXCEPT ![n] = l],
         \A r \in Reqs : [type |-> c[r].type, len |-> c[r].len, kv |-> l[r]] = After(Local(n), m)[r]
  PROVE  Moved(n, m)
<1>1. Main \in Nodes /\ n # Main /\ n \in Nodes /\ \A k \in Others : k \in Nodes
  BY StagesAssumption DEF Main, Nodes, Others
<1>2. copy'[n] = c /\ kv'[n] = l /\ kv'[Main] = kv[Main]
  BY <1>1 DEF StageTypes
<1>3. \A k \in Others : k # n => copy'[k] = copy[k] /\ kv'[k] = kv[k]
  BY <1>1 DEF StageTypes
<1>4. copy' \in [Others -> [Reqs -> Copies]] /\ kv' \in [Nodes -> [Reqs -> Nat]]
  BY <1>1 DEF StageTypes
<1>5. meta' = [k \in Others |-> meta'[k]]
  BY DEF Handed
<1>6. StageTypes'
  BY <1>4, <1>5 DEF StageTypes
<1>7. \A k \in Others : k # n => Local(k)' = Local(k)
  BY <1>3 DEF Local
<1>8. Local(n)' = [r \in Reqs |-> [type |-> c[r].type, len |-> c[r].len, kv |-> l[r]]]
  BY <1>2 DEF Local
<1>9. After(Local(n), m) = [r \in Reqs |-> After(Local(n), m)[r]]
  BY DEF After
<1>10. Local(n)' = After(Local(n), m)
  BY <1>8, <1>9
<1> QED
  BY <1>2, <1>6, <1>7, <1>10 DEF Moved

LEMMA StagePrefillMoves ==
  ASSUME StageTypes, NEW n \in Others, NEW z, Leads(meta[n], Local(n), z), StagePrefill(n)
  PROVE  Moved(n, Head(meta[n]))
<1> DEFINE m == Head(meta[n])
           Item(r) == ItemOf(m.items, r)
           Known(r) == PrefillCopy(n, Item(r))
           c == [r \in Reqs |-> IF r \in Listed(m.items)
                                THEN ConsumeReqTokens(Known(r), Item(r).take) ELSE copy[n][r]]
           l == Grown(n, m.items)
<1>1. meta[n] # <<>> /\ m.kind = "Prefill"
  BY DEF StagePrefill, Received
<1>2. IsMessage(m) /\ Fits(Local(n), m)
  BY <1>1, LeadsTail
<1>3. Items(n) = m.items
  BY DEF Items
<1>4. copy' = [copy EXCEPT ![n] = c]
  BY <1>3, Zenon DEF StagePrefill
<1>5. kv' = [kv EXCEPT ![n] = l]
  BY <1>3 DEF StagePrefill
<1> DEFINE g == [i \in DOMAIN m.items |->
                   PrefillItem(m.items[i].r, Known(m.items[i].r), m.items[i].take)]
<1>6. Forward(n, g)
  BY <1>3 DEF StagePrefill, Mapped
<1>7. g = m.items
  <2>1. ASSUME NEW i \in DOMAIN m.items
        PROVE  g[i] = m.items[i]
    <3> DEFINE item == m.items[i]
               r == item.r
    <3>1. r \in Listed(m.items) /\ ItemOf(m.items, r) = item
      BY <1>2, ItemFacts
    <3>2. PrefillCopy(n, ItemOf(m.items, r))
            = [type |-> "Prefill", len |-> ItemOf(m.items, r).len, consumed |-> ItemOf(m.items, r).from]
      <4> HIDE DEF m, r
      <4> QED
        BY <1>1, <1>2, <3>1, KnownCopy
    <3>3. item = [r |-> item.r, len |-> item.len, from |-> item.from, take |-> item.take]
      BY <1>1, <1>2 DEF IsMessage
    <3>4. g[i] = PrefillItem(item.r, PrefillCopy(n, ItemOf(m.items, r)), item.take)
      OBVIOUS
    <3> HIDE DEF item, m, g
    <3>5. g[i] = item
      BY <3>1, <3>2, <3>3, <3>4 DEF PrefillItem
    <3> QED
      BY <3>5 DEF item
  <2>2. m.items = [i \in DOMAIN m.items |-> m.items[i]]
    BY <1>2 DEF IsMessage
  <2>3. g = [i \in DOMAIN m.items |-> g[i]]
    OBVIOUS
  <2> HIDE DEF g, m
  <2> QED
    BY <2>1, <2>2, <2>3
<1>8. Handed(n, m)
  <2>1. [kind |-> m.kind, items |-> m.items] = m
    BY <1>2 DEF IsMessage
  <2>2. Forward(n, m.items)
    BY <1>6, <1>7
  <2> QED
    BY <2>1, <2>2 DEF Forward, Handed
<1>9. ASSUME NEW r \in Reqs
      PROVE  /\ c[r] \in Copies /\ l[r] \in Nat
             /\ [type |-> c[r].type, len |-> c[r].len, kv |-> l[r]] = After(Local(n), m)[r]
  <2>1. /\ copy[n][r] \in Copies /\ kv[n][r] \in Nat
        /\ Local(n)[r] = [type |-> copy[n][r].type, len |-> copy[n][r].len, kv |-> kv[n][r]]
    <3>1. n \in Nodes
      BY DEF Others
    <3> QED
      BY <3>1 DEF StageTypes, Local
  <2>2. CASE r \in Listed(m.items)
    <3> DEFINE item == Item(r)
               new == [type |-> IF item.from + item.take >= item.len THEN "Decode" ELSE "Prefill",
                       len |-> item.len, consumed |-> item.from + item.take]
    <3>1. item.len \in Nat \ {0} /\ item.from \in Nat /\ item.take \in Nat \ {0}
      BY <1>1, <1>2, <2>2, ListedFacts
    <3>2. ConsumeReqTokens(PrefillCopy(n, item), item.take) = new
      <4> HIDE DEF m
      <4> QED
        BY <1>1, <1>2, <2>2, KnownCopy
    <3>3. c[r] = new /\ l[r] = kv[n][r] + item.take
      BY <2>2, <3>2 DEF Grown
    <3>4. After(Local(n), m)[r] = Fed("Prefill", item, Local(n)[r])
      BY <1>1, <2>2 DEF After
    <3> HIDE DEF m, item, c, l
    <3>5. new \in Copies
      BY <3>1 DEF Copies, Types
    <3>6. Fed("Prefill", item, Local(n)[r]) = [type |-> new.type, len |-> new.len, kv |-> kv[n][r] + item.take]
      BY <2>1 DEF Fed
    <3> HIDE DEF new
    <3> QED
      BY <2>1, <3>1, <3>3, <3>4, <3>5, <3>6
  <2>3. CASE r \notin Listed(m.items)
    <3>1. c[r] = copy[n][r] /\ l[r] = kv[n][r] /\ After(Local(n), m)[r] = Local(n)[r]
      BY <2>3 DEF Grown, After
    <3> HIDE DEF m, c, l
    <3> QED
      BY <2>1, <3>1
  <2> QED
    BY <2>2, <2>3
<1>10. c \in [Reqs -> Copies] /\ l \in [Reqs -> Nat]
  <2>1. l = [r \in Reqs |-> l[r]] /\ c = [r \in Reqs |-> c[r]]
    BY DEF Grown
  <2> HIDE DEF l, c
  <2> QED
    BY <1>9, <2>1
<1> HIDE DEF m, c, l
<1> QED
  BY <1>2, <1>4, <1>5, <1>8, <1>9, <1>10, MovedBy DEF m

LEMMA StageDecodeMoves ==
  ASSUME StageTypes, NEW n \in Others, NEW z, Leads(meta[n], Local(n), z), StageDecode(n)
  PROVE  Moved(n, Head(meta[n]))
<1> DEFINE m == Head(meta[n])
           l == Grown(n, m.items)
           c == copy[n]
<1>1. meta[n] # <<>> /\ m.kind = "Decode"
  BY DEF StageDecode, Received
<1>2. IsMessage(m) /\ Fits(Local(n), m)
  BY <1>1, LeadsTail
<1>3. c \in [Reqs -> Copies] /\ n \in Nodes /\ kv[n] \in [Reqs -> Nat]
  BY DEF StageTypes, Others
<1>4. copy' = [copy EXCEPT ![n] = c]
  BY DEF StageDecode, StageTypes
<1>5. kv' = [kv EXCEPT ![n] = l]
  BY DEF StageDecode, Items
<1>6. Handed(n, m)
  <2>1. [kind |-> m.kind, items |-> m.items] = m
    BY <1>2 DEF IsMessage
  <2> QED
    BY <2>1 DEF StageDecode, Forward, Handed, Items
<1>7. ASSUME NEW r \in Reqs
      PROVE  /\ l[r] \in Nat
             /\ [type |-> c[r].type, len |-> c[r].len, kv |-> l[r]] = After(Local(n), m)[r]
  <2>1. /\ kv[n][r] \in Nat
        /\ Local(n)[r] = [type |-> c[r].type, len |-> c[r].len, kv |-> kv[n][r]]
    BY <1>3 DEF Local
  <2>2. CASE r \in Listed(m.items)
    <3> DEFINE item == ItemOf(m.items, r)
    <3>1. item.take = 1
      BY <1>1, <1>2, <2>2, ListedFacts
    <3>2. l[r] = kv[n][r] + item.take
      BY <2>2 DEF Grown
    <3>3. After(Local(n), m)[r] = Fed("Decode", item, Local(n)[r])
      BY <1>1, <2>2 DEF After
    <3> HIDE DEF m, item, c, l
    <3> QED
      BY <2>1, <3>1, <3>2, <3>3 DEF Fed
  <2>3. CASE r \notin Listed(m.items)
    <3>1. l[r] = kv[n][r] /\ After(Local(n), m)[r] = Local(n)[r]
      BY <2>3 DEF Grown, After
    <3> HIDE DEF m, c, l
    <3> QED
      BY <2>1, <3>1
  <2> QED
    BY <2>2, <2>3
<1>8. l \in [Reqs -> Nat]
  <2>1. l = [r \in Reqs |-> l[r]]
    BY DEF Grown
  <2> HIDE DEF l
  <2> QED
    BY <1>7, <2>1
<1> HIDE DEF m, c, l
<1> QED
  BY <1>2, <1>3, <1>4, <1>5, <1>6, <1>7, <1>8, MovedBy DEF m

LEMMA StageEndTaskMoves ==
  ASSUME StageTypes, NEW n \in Others, NEW z, Leads(meta[n], Local(n), z), StageEndTask(n)
  PROVE  Moved(n, Head(meta[n]))
<1> DEFINE m == Head(meta[n])
           c == [r \in Reqs |-> IF r \in Listed(m.items) THEN NoCopy ELSE copy[n][r]]
           l == [r \in Reqs |-> IF r \in Listed(m.items) THEN 0 ELSE kv[n][r]]
<1>1. meta[n] # <<>> /\ m.kind = "EndTask"
  BY DEF StageEndTask, Received
<1>2. IsMessage(m) /\ Fits(Local(n), m)
  BY <1>1, LeadsTail
<1>3. copy[n] \in [Reqs -> Copies] /\ n \in Nodes /\ kv[n] \in [Reqs -> Nat]
  BY DEF StageTypes, Others
<1>4. copy' = [copy EXCEPT ![n] = c] /\ kv' = [kv EXCEPT ![n] = l]
  BY DEF StageEndTask, Items
<1>5. Handed(n, m)
  <2>1. [kind |-> m.kind, items |-> m.items] = m
    BY <1>2 DEF IsMessage
  <2> QED
    BY <2>1 DEF StageEndTask, Forward, Handed, Items
<1>6. ASSUME NEW r \in Reqs
      PROVE  /\ c[r] \in Copies /\ l[r] \in Nat
             /\ [type |-> c[r].type, len |-> c[r].len, kv |-> l[r]] = After(Local(n), m)[r]
  <2>1. /\ kv[n][r] \in Nat /\ copy[n][r] \in Copies
        /\ Local(n)[r] = [type |-> copy[n][r].type, len |-> copy[n][r].len, kv |-> kv[n][r]]
    BY <1>3 DEF Local
  <2>2. CASE r \in Listed(m.items)
    <3>1. c[r] = NoCopy /\ l[r] = 0 /\ After(Local(n), m)[r] = Blank
      BY <1>1, <2>2 DEF After, Fed
    <3> HIDE DEF m, c, l
    <3> QED
      BY <3>1 DEF NoCopy, Blank, Copies
  <2>3. CASE r \notin Listed(m.items)
    <3>1. c[r] = copy[n][r] /\ l[r] = kv[n][r] /\ After(Local(n), m)[r] = Local(n)[r]
      BY <2>3 DEF After
    <3> HIDE DEF m, c, l
    <3> QED
      BY <2>1, <3>1
  <2> QED
    BY <2>2, <2>3
<1>7. c \in [Reqs -> Copies] /\ l \in [Reqs -> Nat]
  <2>1. l = [r \in Reqs |-> l[r]] /\ c = [r \in Reqs |-> c[r]]
    OBVIOUS
  <2> HIDE DEF l, c
  <2> QED
    BY <1>6, <2>1
<1> HIDE DEF m, c, l
<1> QED
  BY <1>2, <1>4, <1>5, <1>6, <1>7, MovedBy DEF m

\* A step of a stage takes a message that fits, and does to its state what the message says.
LEMMA StageMoves ==
  ASSUME StageTypes, NEW n \in Others, NEW z, Leads(meta[n], Local(n), z), Stage(n)
  PROVE  meta[n] # <<>> /\ Moved(n, Head(meta[n]))
<1>1. meta[n] # <<>>
  BY DEF Stage, StagePrefill, StageDecode, StageEndTask, Received
<1> QED
  BY <1>1, StagePrefillMoves, StageDecodeMoves, StageEndTaskMoves DEF Stage

\* The ranks still agree after a step of a stage.
LEMMA StageAgrees ==
  ASSUME StageTypes, Agree, NEW n \in Others, Stage(n), UNCHANGED mainVars
  PROVE  StageTypes' /\ Agree'
<1>1. PICK z \in States : Leads(meta[1], Local(1), z) /\ \A r \in Reqs : InStep(r, z[r])
  BY DEF Agree
<1>2. \A k \in Others : k > 1 => Leads(meta[k], Local(k), Local(k - 1))
  BY DEF Agree
<1>3. /\ 1 \in Others /\ n \in Nat /\ n >= 1
      /\ \A k \in Others : k \in Nat /\ (k = 1 \/ k > 1)
      /\ \A k \in Others : k > 1 => k - 1 \in Others
  BY StagesAssumption DEF Others, Nodes, Main
<1>4. \E y : Leads(meta[n], Local(n), y)
  BY <1>1, <1>2, <1>3
<1> DEFINE m == Head(meta[n])
<1>5. meta[n] # <<>> /\ Moved(n, m)
  BY <1>4, StageMoves
<1>6. IsMessage(m) /\ Fits(Local(n), m)
  BY <1>4, <1>5, LeadsTail
<1>7. \A y : Leads(meta[n], Local(n), y) => Leads(Tail(meta[n]), After(Local(n), m), y)
  BY <1>5, LeadsTail
<1> HIDE DEF m
<1>8. /\ StageTypes'
      /\ Local(n)' = After(Local(n), m)
      /\ \A k \in Others : k # n => Local(k)' = Local(k)
      /\ kv'[Main] = kv[Main]
  BY <1>5 DEF Moved
<1>9. /\ meta'[n] = Tail(meta[n])
      /\ \A k \in Others : k = n + 1 => meta'[k] = Append(meta[k], m)
      /\ \A k \in Others : k # n /\ k # n + 1 => meta'[k] = meta[k]
  BY <1>3, <1>5 DEF Moved, Handed
<1>10. \A r \in Reqs : InStep(r, z[r])'
  BY <1>1, <1>8 DEF InStep, mainVars
<1>11. Leads(meta'[1], Local(1)', z)
  <2>1. CASE n = 1
    BY <1>1, <1>7, <1>8, <1>9, <2>1
  <2>2. CASE n # 1
    <3>1. 1 # n + 1
      BY <1>3, <2>2
    <3> QED
      BY <1>1, <1>3, <1>8, <1>9, <2>2, <3>1
  <2> QED
    BY <2>1, <2>2
<1>12. ASSUME NEW k \in Others, k > 1
       PROVE  Leads(meta'[k], Local(k)', Local(k - 1)')
  <2>1. k - 1 \in Others /\ Leads(meta[k], Local(k), Local(k - 1)) /\ k \in Nat
    BY <1>2, <1>3, <1>12
  <2>2. CASE k = n
    <3>1. k - 1 # n
      BY <1>3, <2>2
    <3> QED
      BY <1>7, <1>8, <1>9, <2>1, <2>2, <3>1
  <2>3. CASE k = n + 1
    <3>1. k - 1 = n /\ k # n
      BY <1>3, <2>3
    <3>2. Leads(Append(meta[k], m), Local(k), After(Local(n), m))
      BY <1>6, <2>1, <3>1, LeadsAppend
    <3> QED
      BY <1>8, <1>9, <2>3, <3>1, <3>2
  <2>4. CASE k # n /\ k # n + 1
    <3>1. k - 1 # n
      BY <1>3, <2>1, <2>4
    <3> QED
      BY <1>8, <1>9, <2>1, <2>4, <3>1
  <2> QED
    BY <2>2, <2>3, <2>4
<1>13. (\E y \in States : Leads(meta[1], Local(1), y) /\ \A r \in Reqs : InStep(r, y[r]))'
  BY <1>10, <1>11
<1>14. (\A k \in Others : k > 1 => Leads(meta[k], Local(k), Local(k - 1)))'
  BY <1>12
<1> QED
  BY <1>8, <1>13, <1>14 DEF Agree

-----------------------------------------------------------------------------
(* What a step leaves alone *)

\* What is under way stays so when the tasks of it keep waiting and keep their type.
LEMMA UnderWayKept ==
  ASSUME UnderWay, ongoing' = ongoing, submitted \subseteq submitted',
         unwaited' = unwaited \/ unwaited' = <<>>,
         \A r \in Reqs : task[r].waiting => /\ task'[r].waiting
                                            /\ task[r].type = "Decode" => task'[r].type = "Decode",
         unwaited' = <<>> \/ \A r \in Reqs : task[r].type = "Decode" => task'[r].type = "Decode"
  PROVE  UnderWay'
<1>1. ASSUME NEW e, IsEntry(e), \A r \in ToSet(e.outputs) : (task[r].type = "Decode" => task'[r].type = "Decode")
      PROVE  IsEntry(e)'
  BY <1>1 DEF IsEntry
<1>2. ASSUME NEW e, IsEntry(e)
      PROVE  \A r \in ToSet(e.tasks) : r \in Reqs
  BY <1>2 DEF IsEntry, ToSet
<1>3. ASSUME NEW i \in DOMAIN ongoing
      PROVE  IsEntry(ongoing[i])' /\ \A r \in ToSet(ongoing[i].tasks) : task'[r].waiting
  <2>1. IsEntry(ongoing[i]) /\ \A r \in ToSet(ongoing[i].tasks) : task[r].waiting
    BY DEF UnderWay
  <2>2. \A r \in ToSet(ongoing[i].tasks) : task'[r].waiting /\ (task[r].type = "Decode" => task'[r].type = "Decode")
    <3>1. \A r \in ToSet(ongoing[i].tasks) : r \in Reqs
      BY <1>2, <2>1
    <3>2. \A r \in ToSet(ongoing[i].tasks) : task[r].waiting
      BY <2>1
    <3> QED
      BY <3>1, <3>2
  <2>3. ToSet(ongoing[i].outputs) \subseteq ToSet(ongoing[i].tasks)
    BY <2>1 DEF IsEntry
  <2>4. \A r \in ToSet(ongoing[i].outputs) : (task[r].type = "Decode" => task'[r].type = "Decode")
    BY <2>2, <2>3
  <2>5. \A e : e = ongoing[i] => IsEntry(e)'
    BY <1>1, <2>1, <2>4
  <2> QED
    BY <2>2, <2>5 DEF IsEntry
<1>4. ASSUME NEW i \in DOMAIN unwaited'
      PROVE  IsEntry(unwaited[i])'
  <2>1. unwaited' # <<>>
    OBVIOUS
  <2>2. unwaited' = unwaited /\ \A r \in Reqs : (task[r].type = "Decode" => task'[r].type = "Decode")
    BY <2>1
  <2>3. IsEntry(unwaited[i])
    BY <2>2 DEF UnderWay
  <2>4. \A r \in ToSet(unwaited[i].outputs) : (task[r].type = "Decode" => task'[r].type = "Decode")
    BY <2>2, <2>3 DEF IsEntry, ToSet
  <2> QED
    BY <1>1, <2>2, <2>3, <2>4 DEF IsEntry
<1>5. IsSeq(<<>>)
  BY EmptySeq DEF IsSeq
<1>6. IsSeq(ongoing') /\ IsSeq(unwaited')
  BY <1>5 DEF UnderWay
<1>7. \A i, j \in DOMAIN ongoing' : i # j => ToSet(ongoing'[i].tasks) \cap ToSet(ongoing'[j].tasks) = {}
  BY DEF UnderWay
<1>8. (\A i \in DOMAIN ongoing : /\ IsEntry(ongoing[i])
                                 /\ \A r \in ToSet(ongoing[i].tasks) : task[r].waiting)'
  BY <1>3 DEF IsEntry
<1>9. (\A i \in DOMAIN unwaited : IsEntry(unwaited[i]))'
  BY <1>4
<1>10. IsSeq(ongoing)' /\ IsSeq(unwaited)'
  BY <1>6 DEF IsSeq
<1> QED
  BY <1>7, <1>8, <1>9, <1>10 DEF UnderWay

\* The accounts stay right when every task counts as before.
LEMMA AccountsKept ==
  ASSUME Accounts, pc # "crashed", waitingOf' = waitingOf, freeGroups' = freeGroups,
         pc' = "schedule" => pc = "schedule",
         \A r \in Reqs : /\ task'[r].group = task[r].group
                         /\ (task'[r].waiting \/ r \in Updated') <=> (task[r].waiting \/ r \in Updated)
  PROVE  Accounts'
<1>1. \A g \in Groups : waitingOf[g] = {r \in Reqs : task[r].group = g /\ (task[r].waiting \/ r \in Updated)}
  BY DEF Accounts
<1>2. \A g \in Groups :
        {r \in Reqs : task[r].group = g /\ (task[r].waiting \/ r \in Updated)}
        = {r \in Reqs : task'[r].group = g /\ (task'[r].waiting \/ r \in Updated')}
  OBVIOUS
<1>3. \A g \in Groups : g \in ToSet(freeGroups) => waitingOf[g] = {}
  BY DEF Accounts
<1>4. (\A g \in Groups :
        /\ waitingOf[g] = {r \in Reqs : task[r].group = g /\ (task[r].waiting \/ r \in Updated)}
        /\ g \in ToSet(freeGroups) => waitingOf[g] = {})'
  BY <1>1, <1>2, <1>3
<1>5. (pc = "schedule" => \A g \in Groups : waitingOf[g] = {} => g \in ToSet(freeGroups))'
  BY DEF Accounts
<1> QED
  BY <1>4, <1>5 DEF Accounts

\* The ranks agree as before when rank 0 means what it meant.
LEMMA AgreeKept ==
  ASSUME Agree, copy' = copy, kv' = kv, meta' = meta,
         \A r \in Reqs : \A t : InStep(r, t) => InStep(r, t)'
  PROVE  Agree'
<1>1. PICK z \in States : Leads(meta[1], Local(1), z) /\ \A r \in Reqs : InStep(r, z[r])
  BY DEF Agree
<1>2. \A n : Local(n)' = Local(n)
  BY DEF Local
<1>3. \A r \in Reqs : InStep(r, z[r])'
  BY <1>1
<1>4. (\E y \in States : Leads(meta[1], Local(1), y) /\ \A r \in Reqs : InStep(r, y[r]))'
  BY <1>1, <1>2, <1>3
<1>5. (\A n \in Others : n > 1 => Leads(meta[n], Local(n), Local(n - 1)))'
  BY <1>2 DEF Agree
<1> QED
  BY <1>4, <1>5 DEF Agree

LEMMA StageTypesKept ==
  ASSUME StageTypes, copy' = copy, kv' = kv, meta' = meta
  PROVE  StageTypes'
BY DEF StageTypes

\* What rank 0 means of a request whose type, length and progress stay.
LEMMA InStepKept ==
  ASSUME kv' = kv, submitted' = submitted, NEW r \in Reqs, r \in ToSet(idList') => r \in ToSet(idList),
         task'[r].type = task[r].type, task'[r].consumed = task[r].consumed,
         task[r].type = "Decode" \/ task'[r].len = task[r].len, NEW t, InStep(r, t)
  PROVE  InStep(r, t)'
<1>1. CASE task[r].type = "Decode"
  BY <1>1 DEF InStep
<1>2. CASE task'[r].len = task[r].len
  BY <1>2 DEF InStep
<1> QED
  BY <1>1, <1>2

\* A step that leaves the tasks and the pool alone.
LEMMA TasksKept ==
  ASSUME IInv, UNCHANGED <<args, submitted, idList, task, freeGroups, waitingOf, batch, ongoing, unwaited>>,
         copy' = copy, kv' = kv, meta' = meta,
         pc # "crashed", pc' = pc \/ pc' \in {"poll", "update", "crashed"} \/ (pc' = "step" /\ batch = NoBatch),
         at' \in Nat \ {0}
  PROVE  IInv'
<1> USE DEF IInv
<1>1. MainTypes'
  BY DEF MainTypes, IsTask
<1>2. UnderWay'
  BY UnderWayKept
<1>3. BatchFits'
  <2>1. batch' = batch /\ submitted' = submitted /\ unwaited' = unwaited /\ task' = task /\ idList' = idList
    OBVIOUS
  <2>2. CASE pc' = pc
    BY <2>1, <2>2 DEF BatchFits
  <2>3. CASE pc' \in {"poll", "update", "crashed"}
    BY <2>1, <2>3 DEF BatchFits
  <2>4. CASE pc' = "step" /\ batch = NoBatch
    BY <2>1, <2>4 DEF BatchFits, NoBatch, IsInjective, ToSet
  <2> QED
    BY <2>2, <2>3, <2>4
<1>4. Accounts'
  BY AccountsKept DEF Updated, ToSet
<1>5. Agree'
  BY AgreeKept DEF InStep
<1>6. StageTypes'
  BY StageTypesKept
<1> QED
  BY <1>1, <1>2, <1>3, <1>4, <1>5, <1>6

LEMMA QuietSteps ==
  ASSUME IInv, PrefillTooLarge \/ ScheduleNothing \/ StepEmpty \/ Idle \/ PollSkip
  PROVE  IInv'
<1>1. at \in Nat \ {0} /\ at + 1 \in Nat \ {0}
  BY DEF IInv, MainTypes
<1>2. pc = "schedule" => batch = NoBatch
  BY DEF IInv, BatchFits
<1> DEFINE Same == /\ UNCHANGED <<args, submitted, idList, task, freeGroups, waitingOf, batch, ongoing, unwaited>>
                   /\ copy' = copy /\ kv' = kv /\ meta' = meta
           Turn == /\ pc # "crashed"
                   /\ pc' = pc \/ pc' \in {"poll", "update", "crashed"} \/ (pc' = "step" /\ batch = NoBatch)
                   /\ at' = at \/ at' = at + 1
<1>3. ASSUME PrefillTooLarge PROVE Same /\ Turn
  <2>1. Same
    BY <1>3 DEF PrefillTooLarge, stageVars
  <2>2. Turn
    BY <1>2, <1>3 DEF PrefillTooLarge, MaySchedule
  <2> QED
    BY <2>1, <2>2
<1>4. ASSUME ScheduleNothing PROVE Same /\ Turn
  <2>1. Same
    BY <1>4 DEF ScheduleNothing, stageVars
  <2>2. Turn
    BY <1>2, <1>4 DEF ScheduleNothing
  <2> QED
    BY <2>1, <2>2
<1>5. ASSUME StepEmpty PROVE Same /\ Turn
  <2>1. Same
    BY <1>5 DEF StepEmpty, stageVars
  <2>2. Turn
    <3>1. pc # "crashed"
      BY <1>5 DEF StepEmpty
    <3>2. pc' = pc \/ pc' \in {"poll", "update", "crashed"}
      BY <1>5 DEF StepEmpty
    <3>3. at' = at \/ at' = at + 1
      BY <1>5 DEF StepEmpty
    <3> QED
      BY <3>1, <3>2, <3>3
  <2> QED
    BY <2>1, <2>2
<1>6. ASSUME Idle PROVE Same /\ Turn
  <2>1. Same
    BY <1>6 DEF Idle, stageVars
  <2>2. Turn
    BY <1>2, <1>6 DEF Idle
  <2> QED
    BY <2>1, <2>2
<1>7. ASSUME PollSkip PROVE Same /\ Turn
  <2>1. Same
    BY <1>7 DEF PollSkip, stageVars
  <2>2. Turn
    <3>1. pc # "crashed"
      BY <1>7 DEF PollSkip
    <3>2. pc' = pc \/ pc' \in {"poll", "update", "crashed"}
      BY <1>7 DEF PollSkip
    <3>3. at' = at \/ at' = at + 1
      BY <1>7 DEF PollSkip
    <3> QED
      BY <3>1, <3>2, <3>3
  <2> QED
    BY <2>1, <2>2
<1>8. Same /\ Turn
  <2> HIDE DEF Same, Turn
  <2> QED
    BY <1>3, <1>4, <1>5, <1>6, <1>7
<1> QED
  BY <1>1, <1>8, TasksKept

LEMMA StageSteps ==
  ASSUME IInv, NEW n \in Others, StageStep(n)
  PROVE  IInv'
<1>1. StageTypes' /\ Agree'
  BY StageAgrees DEF IInv, StageStep
<1>2. MainTypes'
  BY DEF MainTypes, IsTask, IInv, StageStep, mainVars
<1>3. UnderWay'
  BY UnderWayKept DEF IInv, StageStep, mainVars
<1>4. BatchFits'
  BY DEF BatchFits, IInv, StageStep, mainVars
<1>5. Accounts'
  BY DEF Accounts, Updated, IInv, StageStep, mainVars
<1> QED
  BY <1>1, <1>2, <1>3, <1>4, <1>5 DEF IInv

LEMMA SubmitStep ==
  ASSUME IInv, NEW r \in Reqs, Submit(r)
  PROVE  IInv'
<1> USE DEF IInv
<1>1. /\ pc = "schedule" /\ r \notin submitted
      /\ submitted' = submitted \cup {r}
      /\ idList' = Append(idList, r)
      /\ UNCHANGED <<args, task, freeGroups, waitingOf, batch, ongoing, at, unwaited, pc>>
      /\ copy' = copy /\ kv' = kv /\ meta' = meta
  BY DEF Submit, stageVars
<1>2. /\ idList' \in Seq(Reqs) /\ IsInjective(idList') /\ ToSet(idList') = ToSet(idList) \cup {r}
      /\ r \notin ToSet(idList)
  BY <1>1, AppendFacts DEF MainTypes
<1>3. MainTypes'
  BY <1>1, <1>2 DEF MainTypes, IsTask
<1>4. UnderWay'
  BY <1>1, UnderWayKept
<1>5. BatchFits'
  BY <1>1 DEF BatchFits, NoBatch
<1>6. Accounts'
  BY <1>1, AccountsKept DEF Updated, ToSet
<1>7. ASSUME NEW x \in Reqs, NEW t, InStep(x, t)
      PROVE  InStep(x, t)'
  <2>1. task[x].len \in Nat \ {0}
    BY DEF MainTypes, IsTask
  <2>2. CASE x = r
    BY <1>1, <1>2, <1>7, <2>1, <2>2 DEF InStep, Blank
  <2>3. CASE x # r
    BY <1>1, <1>2, <1>7, <2>3 DEF InStep
  <2> QED
    BY <2>2, <2>3
<1>8. Agree'
  BY <1>1, <1>7, AgreeKept
<1>9. StageTypes'
  BY <1>1, StageTypesKept
<1> QED
  BY <1>3, <1>4, <1>5, <1>6, <1>8, <1>9

-----------------------------------------------------------------------------
(* The initial state *)

\* The groups in a row.
LEMMA GroupsInOrder ==
  LET all == [g \in 1 .. LastStage + 1 |-> g - 1]
  IN  all \in Seq(Groups) /\ IsInjective(all) /\ ToSet(all) = Groups
<1> DEFINE all == [g \in 1 .. LastStage + 1 |-> g - 1]
<1>1. LastStage + 1 \in Nat /\ \A g \in 1 .. LastStage + 1 : g - 1 \in Groups
  BY StagesAssumption DEF Groups
<1>2. all \in [1 .. LastStage + 1 -> Groups]
  BY <1>1
<1>3. all \in Seq(Groups)
  <2> HIDE DEF all
  <2> QED
    BY <1>1, <1>2, SeqDef
<1>4. IsInjective(all)
  BY StagesAssumption DEF IsInjective
<1>5. \A g \in Groups : g + 1 \in DOMAIN all /\ all[g + 1] = g
  BY StagesAssumption DEF Groups
<1>6. ToSet(all) = Groups
  <2>1. Groups \subseteq ToSet(all)
    <3> HIDE DEF all
    <3> QED
      BY <1>5 DEF ToSet
  <2>2. ToSet(all) \subseteq Groups
    BY <1>1 DEF ToSet
  <2> QED
    BY <2>1, <2>2
<1> QED
  BY <1>3, <1>4, <1>6

\* A new task.
LEMMA NewTaskType ==
  ASSUME args \in Configs, NEW r \in Reqs
  PROVE  IsTask(NewTask(r)) /\ NewTask(r).type = "Prefill" /\ NewTask(r).consumed = 0
         /\ NewTask(r).group = NoGroup /\ NewTask(r).waiting = FALSE
<1>1. PromptLen[r] \in Nat \ {0}
  BY PipelineAssumption DEF PromptLen
<1> QED
  BY <1>1 DEF NewTask, IsTask, Types, NoGroup

LEMMA InitIInv == Init => IInv
<1> SUFFICES ASSUME Init PROVE IInv
  OBVIOUS
<1> USE DEF Init, StagesInit
<1>1. MainTypes
  <2>1. \A r \in Reqs : IsTask(task[r])
    BY NewTaskType
  <2>2. idList \in Seq(Reqs) /\ IsInjective(idList) /\ ToSet(idList) \subseteq submitted
    BY EmptySeq DEF IsInjective, ToSet
  <2>3. freeGroups \in Seq(Groups) /\ IsInjective(freeGroups)
    BY GroupsInOrder
  <2>4. waitingOf \in [Groups -> SUBSET Reqs]
    OBVIOUS
  <2> QED
    BY <2>1, <2>2, <2>3, <2>4 DEF MainTypes
<1>2. UnderWay
  BY EmptySeq DEF UnderWay, IsSeq
<1>3. BatchFits
  BY EmptySeq DEF BatchFits, NoBatch, ToSet
<1>4. Accounts
  <2>1. \A r \in Reqs : task[r].group = NoGroup
    BY NewTaskType
  <2>2. \A g \in Groups : g # NoGroup
    BY StagesAssumption DEF Groups, NoGroup
  <2>3. ToSet(freeGroups) = Groups
    BY GroupsInOrder
  <2> QED
    BY <2>1, <2>2, <2>3 DEF Accounts
<1>5. StageTypes
  BY DEF StageTypes, Copies, NoCopy
<1>6. Agree
  <2> DEFINE a == [r \in Reqs |-> Blank]
  <2>1. a \in States
    BY DEF States, Blank, Types
  <2>2. Main \in Nodes /\ \A n \in Others : n \in Nodes /\ (n > 1 => n - 1 \in Others)
    BY StagesAssumption DEF Nodes, Others, Main
  <2>3. \A n \in Others : Local(n) = a /\ meta[n] = <<>>
    BY <2>2 DEF Local, Blank, NoCopy
  <2>4. 1 \in Others
    BY StagesAssumption DEF Others, Nodes, Main
  <2>5. \A n \in Others : Leads(meta[n], Local(n), a)
    BY <2>1, <2>3, LeadsNowhere
  <2>6. ASSUME NEW r \in Reqs PROVE InStep(r, a[r])
    <3>1. a[r] = Blank /\ kv[Main][r] = 0 /\ r \notin ToSet(idList)
      BY <2>2 DEF ToSet
    <3>2. task[r].type = "Prefill" /\ task[r].consumed = 0
      BY NewTaskType
    <3> HIDE DEF a
    <3> QED
      BY <3>1, <3>2 DEF InStep, Blank
  <2> HIDE DEF a
  <2> QED
    BY <2>1, <2>2, <2>3, <2>4, <2>5, <2>6 DEF Agree
<1> QED
  BY <1>1, <1>2, <1>3, <1>4, <1>5, <1>6 DEF IInv

-----------------------------------------------------------------------------
(* What the scheduler picks *)

\* The ready tasks.
LEMMA ReadyFacts ==
  ASSUME MainTypes, NEW type
  PROVE  /\ Ready(type) \in Seq(Reqs) /\ IsInjective(Ready(type))
         /\ \A r \in ToSet(Ready(type)) : /\ r \in Reqs /\ r \in ToSet(idList)
                                          /\ task[r].type = type /\ ~task[r].waiting
<1> DEFINE S == {r \in Reqs : /\ task[r].type = type
                              /\ ~task[r].waiting /\ task[r].status # "Stopped"}
<1>1. idList \in Seq(Reqs) /\ IsInjective(idList)
  BY DEF MainTypes
<1>2. Ready(type) = Filtered(idList, S)
  BY DEF Ready
<1>3. \A r \in S : r \in Reqs /\ task[r].type = type /\ ~task[r].waiting
  OBVIOUS
<1> HIDE DEF S
<1> QED
  BY <1>1, <1>2, <1>3, FilteredFacts

\* What is left of a chunk before the i-th task is a number.
LEMMA LeftOverType ==
  ASSUME args.chunk \in Int, Ready("Prefill") \in Seq(Reqs),
         \A r \in ToSet(Ready("Prefill")) : Remaining(r) \in Int,
         NEW i \in 1 .. Len(Ready("Prefill"))
  PROVE  LeftOver(i) \in Int
<1> DEFINE s == Ready("Prefill")
           n == Len(s) - 1
           Step == [p \in (1 .. n) \X Int |-> p[2] - Remaining(s[p[1]])]
           Eqn(f) == f = [j \in 1 .. Len(s) |-> IF j = 1 THEN args.chunk
                                               ELSE f[j - 1] - Remaining(s[j - 1])]
<1>1. Len(s) \in Nat /\ n \in Nat /\ \A j \in 1 .. n : j \in DOMAIN s
  BY LenProperties
<1>2. \A j \in 1 .. n : Remaining(s[j]) \in Int
  BY <1>1 DEF ToSet
<1>3. LeftOver(i) = (CHOOSE f : Eqn(f))[i]
  BY DEF LeftOver
<1>4. \A j \in 1 .. n, v \in Int : Step[<<j, v>>] = v - Remaining(s[j])
  OBVIOUS
<1>5. Step \in [(1 .. n) \X Int -> Int]
  <2>1. \A p \in (1 .. n) \X Int : p[2] - Remaining(s[p[1]]) \in Int
    <3> HIDE DEF s, n
    <3> QED
      BY <1>2
  <2> QED
    BY <2>1
<1> HIDE DEF s, Step
<1>6. PICK g : Steps(g, n, Int, Step, args.chunk)
  <2> HIDE DEF n
  <2> QED
    BY <1>1, <1>5, StepsExist
<1>7. g \in [0 .. n -> Int] /\ g[0] = args.chunk /\ \A j \in 1 .. n : g[j] = Step[<<j, g[j - 1]>>]
  BY <1>6 DEF Steps
<1>8. \A j \in 1 .. n : g[j] = g[j - 1] - Remaining(s[j])
  <2> TAKE j \in 1 .. n
  <2>1. j - 1 \in 0 .. n
    BY <1>1
  <2>2. g[j - 1] \in Int
    BY <1>7, <2>1
  <2> QED
    BY <1>4, <1>7, <2>2
<1> DEFINE f == [j \in 1 .. Len(s) |-> g[j - 1]]
<1>9. Eqn(f)
  <2>1. ASSUME NEW j \in 1 .. Len(s)
        PROVE  f[j] = IF j = 1 THEN args.chunk ELSE f[j - 1] - Remaining(s[j - 1])
    <3>1. CASE j = 1
      BY <1>1, <1>7, <3>1
    <3>2. CASE j # 1
      <4>1. j - 1 \in 1 .. n /\ j - 1 \in 1 .. Len(s)
        BY <1>1, <3>2
      <4>2. f[j] = g[j - 1] /\ f[j - 1] = g[(j - 1) - 1]
        BY <4>1
      <4> HIDE DEF f, n
      <4> QED
        BY <1>8, <3>2, <4>1, <4>2
    <3> QED
      BY <3>1, <3>2
  <2>2. f = [j \in 1 .. Len(s) |-> f[j]]
    OBVIOUS
  <2> HIDE DEF f
  <2> QED
    BY <2>1, <2>2
<1> DEFINE left == CHOOSE h : Eqn(h)
<1>10. Eqn(left)
  <2> HIDE DEF Eqn, f
  <2> QED
    BY <1>9
<1> HIDE DEF left, f
<1>11. \A j \in 1 .. Len(s) : left[j] = IF j = 1 THEN args.chunk ELSE left[j - 1] - Remaining(s[j - 1])
  BY <1>10
<1> DEFINE P == [j \in 0 .. n |-> left[j + 1] \in Int]
<1>12. P[0]
  <2>1. 1 \in 1 .. Len(s) /\ 0 \in 0 .. n
    BY <1>1 DEF s
  <2>2. left[1] = args.chunk
    BY <1>11, <2>1
  <2>3. left[0 + 1] \in Int
    BY <2>2
  <2> HIDE DEF n
  <2> QED
    BY <2>1, <2>3
<1>13. ASSUME NEW j \in 1 .. n, P[j - 1] PROVE P[j]
  <2>1. j + 1 \in 1 .. Len(s) /\ j + 1 # 1 /\ (j + 1) - 1 = j /\ j \in 0 .. n /\ j - 1 \in 0 .. n /\ (j - 1) + 1 = j
    BY <1>1
  <2>2. left[j] \in Int
    BY <1>13, <2>1
  <2>3. left[j + 1] = left[j] - Remaining(s[j])
    BY <1>11, <2>1
  <2>4. left[j + 1] \in Int
    BY <1>2, <2>2, <2>3
  <2> QED
    BY <2>1, <2>4
<1>14. \A j \in 0 .. n : P[j]
  <2> HIDE DEF P, n
  <2> QED
    BY <1>1, <1>12, <1>13, EachStep
<1>15. i - 1 \in 0 .. n /\ (i - 1) + 1 = i
  BY <1>1 DEF s
<1>16. left[i] \in Int
  <2>1. P[i - 1]
    <3> HIDE DEF P, n
    <3> QED
      BY <1>14, <1>15
  <2> QED
    BY <1>15, <2>1
<1> QED
  BY <1>3, <1>16 DEF left

\* A set of the first numbers that has the smaller ones with each.
LEMMA Initial ==
  ASSUME NEW n \in Nat, NEW K \in SUBSET (1 .. n),
         \A i \in K : \A j \in 1 .. i : j \in K,
         NEW i \in 1 .. n, i <= Cardinality(K)
  PROVE  i \in K
<1> SUFFICES ASSUME i \notin K PROVE FALSE
  OBVIOUS
<1>1. K \subseteq 1 .. i - 1
  <2> SUFFICES ASSUME NEW k \in K, ~(k \in 1 .. i - 1) PROVE FALSE
    OBVIOUS
  <2>1. k \in 1 .. n /\ i \in 1 .. k
    OBVIOUS
  <2> QED
    BY <2>1
<1>2. IsFiniteSet(1 .. i - 1) /\ Cardinality(1 .. i - 1) = i - 1
  <2>1. 1 \in Int /\ i - 1 \in Int
    OBVIOUS
  <2>2. IsFiniteSet(1 .. i - 1) /\ Cardinality(1 .. i - 1) = IF 1 > i - 1 THEN 0 ELSE (i - 1) - 1 + 1
    BY <2>1, FS_Interval
  <2> QED
    BY <2>2
<1>3. Cardinality(K) <= i - 1 /\ Cardinality(K) \in Nat
  <2>1. IsFiniteSet(K) /\ Cardinality(K) <= Cardinality(1 .. i - 1)
    BY <1>1, <1>2, FS_Subset
  <2>2. Cardinality(K) \in Nat
    BY <2>1, FS_CardinalityType
  <2> QED
    BY <1>2, <2>1, <2>2
<1> QED
  BY <1>3

\* The prefill candidates, and what each of them may take.
LEMMA CandidatesFacts ==
  ASSUME MainTypes,
         \A r \in ToSet(Ready("Prefill")) : Remaining(r) \in Nat \ {0}
  PROVE  /\ Candidates \in Seq(Reqs) /\ IsInjective(Candidates)
         /\ ToSet(Candidates) \subseteq ToSet(Ready("Prefill"))
         /\ \A i \in DOMAIN Candidates : /\ Take(i) \in Nat \ {0}
                                         /\ Take(i) <= Remaining(Candidates[i])
<1> DEFINE s == Ready("Prefill")
<1>1. s \in Seq(Reqs) /\ IsInjective(s) /\ Len(s) \in Nat /\ DOMAIN s = 1 .. Len(s)
  BY ReadyFacts, LenProperties
<1>2. args.chunk \in Nat
  BY PipelineAssumption DEF MainTypes
<1>3. CASE args.chunk = NoChunk
  <2>1. Candidates = s
    BY <1>3 DEF Candidates
  <2>2. ASSUME NEW i \in DOMAIN Candidates
        PROVE  Take(i) \in Nat \ {0} /\ Take(i) <= Remaining(Candidates[i])
    <3>1. Candidates[i] \in ToSet(s)
      BY <2>1, <2>2 DEF ToSet
    <3>2. Take(i) = Remaining(Candidates[i])
      BY <1>3 DEF Take
    <3> QED
      BY <3>1, <3>2
  <2> QED
    BY <1>1, <2>1, <2>2
<1>4. CASE args.chunk # NoChunk
  <2> DEFINE K == {i \in DOMAIN s : \A j \in 1 .. i : LeftOver(j) > 0}
  <2>1. Candidates = UpTo(s, Cardinality(K))
    BY <1>4 DEF Candidates
  <2>2. K \in SUBSET (1 .. Len(s)) /\ \A i \in K : \A j \in 1 .. i : j \in K
    <3>1. ASSUME NEW i \in K, NEW j \in 1 .. i PROVE j \in K
      <4>1. j \in DOMAIN s /\ \A k \in 1 .. j : k \in 1 .. i
        BY <1>1
      <4> QED
        BY <4>1
    <3> QED
      BY <1>1, <3>1
  <2>3. \A i \in K : i \in DOMAIN s /\ LeftOver(i) > 0
    BY <1>1
  <2>4. Cardinality(K) \in Nat
    <3>1. IsFiniteSet(1 .. Len(s))
      BY <1>1, FS_Interval
    <3> HIDE DEF K
    <3> QED
      BY <2>2, <3>1, FS_Subset, FS_CardinalityType
  <2>5. \A i \in 1 .. Len(s) : LeftOver(i) \in Int
    BY <1>1, <1>2, LeftOverType
  <2> HIDE DEF K, s
  <2>6. /\ Candidates \in Seq(Reqs) /\ ToSet(Candidates) \subseteq ToSet(s) /\ IsInjective(Candidates)
        /\ DOMAIN Candidates \subseteq DOMAIN s
        /\ \A i \in DOMAIN Candidates : i <= Cardinality(K) /\ Candidates[i] = s[i]
    BY <1>1, <2>1, <2>4, UpToFacts
  <2>7. ASSUME NEW i \in DOMAIN Candidates
        PROVE  Take(i) \in Nat \ {0} /\ Take(i) <= Remaining(Candidates[i])
    <3>1. i \in 1 .. Len(s) /\ i <= Cardinality(K)
      BY <1>1, <2>6
    <3>2. i \in K
      BY <1>1, <2>2, <3>1, Initial
    <3>3. LeftOver(i) \in Int /\ LeftOver(i) > 0
      BY <2>3, <2>5, <3>1, <3>2
    <3>4. Candidates[i] \in ToSet(s)
      BY <2>6 DEF ToSet
    <3>5. Remaining(Candidates[i]) \in Nat \ {0}
      BY <3>4 DEF s
    <3>6. Take(i) = Smaller(Remaining(Candidates[i]), LeftOver(i))
      BY <1>4 DEF Take
    <3> QED
      BY <3>3, <3>5, <3>6 DEF Smaller
  <2> QED
    BY <2>6, <2>7 DEF s
<1> QED
  BY <1>3, <1>4

\* The ready decode tasks that stay, and those that are evicted.
LEMMA KeptFacts ==
  ASSUME MainTypes, NEW e \in Int, e <= Len(Ready("Decode"))
  PROVE  /\ Gone(e) \in Seq(Reqs)
         /\ ToSet(Gone(e)) \subseteq ToSet(Ready("Decode"))
         /\ Kept(e) \in Seq(Reqs) /\ IsInjective(Kept(e))
         /\ ToSet(Kept(e)) \subseteq ToSet(Ready("Decode"))
         /\ e >= 0 => ToSet(Kept(e)) \cap ToSet(Gone(e)) = {}
<1> DEFINE s == Ready("Decode")
           lo == Len(s) - e + 1
           last == SubSeq(s, lo, Len(s))
<1>1. s \in Seq(Reqs) /\ IsInjective(s) /\ Len(s) \in Nat /\ DOMAIN s = 1 .. Len(s)
  BY ReadyFacts, LenProperties
<1>2. Gone(e) = Reverse(last) /\ Kept(e) = UpTo(s, Len(s) - e)
  BY DEF Gone, Kept
<1>3. Len(s) - e \in Nat /\ lo \in Int /\ lo >= 1 /\ lo = Len(s) - e + 1
  BY <1>1
<1> HIDE DEF s, lo
<1>4. \A i \in lo .. Len(s) : s[i] \in Reqs
  <2>1. \A i \in lo .. Len(s) : i \in 1 .. Len(s)
    BY <1>1, <1>3
  <2> QED
    BY <1>1, <2>1, ElementOfSeq
<1>5. /\ last \in Seq(Reqs)
      /\ Len(last) = IF lo <= Len(s) THEN Len(s) - lo + 1 ELSE 0
      /\ \A i \in 1 .. Len(s) - lo + 1 : last[i] = s[lo + i - 1]
  BY <1>1, <1>3, <1>4, SubSeqProperties
<1> HIDE DEF last
<1>6. Len(last) \in Nat /\ DOMAIN last = 1 .. Len(last)
  BY <1>5, LenProperties
<1>7. \A i \in DOMAIN last : \E j \in lo .. Len(s) : last[i] = s[j]
  <2> TAKE i \in DOMAIN last
  <2>1. i \in 1 .. Len(s) - lo + 1 /\ lo + i - 1 \in lo .. Len(s)
    BY <1>1, <1>3, <1>5, <1>6, SMTT(30)
  <2> QED
    BY <1>5, <2>1
<1>8. /\ Reverse(last) \in Seq(Reqs)
      /\ \A i \in DOMAIN Reverse(last) : \E j \in DOMAIN last : Reverse(last)[i] = last[j]
  <2>1. Reverse(last) = [i \in 1 .. Len(last) |-> last[(Len(last) - i) + 1]]
    BY DEF Reverse
  <2>2. \A i \in 1 .. Len(last) : (Len(last) - i) + 1 \in 1 .. Len(last)
    BY <1>6
  <2>3. \A i \in 1 .. Len(last) : last[(Len(last) - i) + 1] \in Reqs
    BY <1>5, <2>2, ElementOfSeq
  <2>4. Reverse(last) \in [1 .. Len(last) -> Reqs]
    BY <2>1, <2>3
  <2> QED
    BY <1>6, <2>1, <2>2, <2>4, SeqDef
<1>9. \A r \in ToSet(Gone(e)) : \E j \in lo .. Len(s) : r = s[j]
  BY <1>2, <1>7, <1>8 DEF ToSet
<1>10. \A j \in lo .. Len(s) : j \in DOMAIN s
  BY <1>1, <1>3
<1>11. ToSet(Gone(e)) \subseteq ToSet(s)
  BY <1>9, <1>10 DEF ToSet
<1>12. /\ Kept(e) \in Seq(Reqs) /\ ToSet(Kept(e)) \subseteq ToSet(s) /\ IsInjective(Kept(e))
       /\ DOMAIN Kept(e) \subseteq DOMAIN s
       /\ \A i \in DOMAIN Kept(e) : i <= Len(s) - e /\ Kept(e)[i] = s[i]
  <2> DEFINE k == Len(s) - e
  <2>1. k \in Nat /\ Kept(e) = UpTo(s, k)
    BY <1>2, <1>3
  <2> HIDE DEF k
  <2>2. /\ UpTo(s, k) \in Seq(Reqs) /\ ToSet(UpTo(s, k)) \subseteq ToSet(s)
        /\ DOMAIN UpTo(s, k) \subseteq DOMAIN s
        /\ \A i \in DOMAIN UpTo(s, k) : i <= k /\ UpTo(s, k)[i] = s[i]
        /\ IsInjective(UpTo(s, k))
    BY <1>1, <2>1, UpToFacts
  <2> QED
    BY <2>1, <2>2 DEF k
<1>13. ToSet(Kept(e)) \cap ToSet(Gone(e)) = {}
  <2> SUFFICES ASSUME NEW i \in DOMAIN Kept(e), Kept(e)[i] \in ToSet(Gone(e)) PROVE FALSE
    BY DEF ToSet
  <2>1. PICK j \in lo .. Len(s) : Kept(e)[i] = s[j]
    BY <1>9
  <2>2. i \in DOMAIN s /\ j \in DOMAIN s /\ s[i] = s[j]
    BY <1>10, <1>12, <2>1
  <2>3. i = j
    BY <1>1, <2>2 DEF IsInjective
  <2>4. i <= Len(s) - e
    BY <1>12
  <2> QED
    BY <1>1, <1>3, <2>3, <2>4
<1> QED
  BY <1>2, <1>8, <1>11, <1>12, <1>13 DEF s

\* The first of a sequence and the rest.
LEMMA HeadTailFacts ==
  ASSUME NEW T, NEW s \in Seq(T), s # <<>>, IsInjective(s)
  PROVE  /\ Head(s) \in T /\ Head(s) \in ToSet(s)
         /\ Tail(s) \in Seq(T) /\ IsInjective(Tail(s))
         /\ ToSet(Tail(s)) = ToSet(s) \ {Head(s)}
<1>1. /\ Tail(s) \in Seq(T) /\ Len(Tail(s)) = Len(s) - 1
      /\ \A i \in 1 .. Len(Tail(s)) : Tail(s)[i] = s[i + 1]
  BY HeadTailProperties
<1>2. Len(s) \in Nat \ {0} /\ DOMAIN s = 1 .. Len(s) /\ DOMAIN Tail(s) = 1 .. Len(Tail(s))
  BY <1>1, LenProperties, EmptySeq
<1>3. Head(s) = s[1] /\ 1 \in DOMAIN s /\ s[1] \in T
  BY <1>2, ElementOfSeq
<1>10. Head(s) \in ToSet(s)
  BY <1>3 DEF ToSet
<1>4. \A i \in DOMAIN Tail(s) : i + 1 \in DOMAIN s /\ i + 1 # 1 /\ Tail(s)[i] = s[i + 1]
  BY <1>1, <1>2
<1>5. \A i, j \in DOMAIN Tail(s) : i + 1 = j + 1 => i = j
  BY <1>1, <1>2
<1>6. IsInjective(Tail(s))
  BY <1>4, <1>5 DEF IsInjective
<1>7. \A i \in DOMAIN s : i # 1 => i - 1 \in DOMAIN Tail(s) /\ (i - 1) + 1 = i
  BY <1>1, <1>2
<1>8. ToSet(Tail(s)) \subseteq ToSet(s) \ {Head(s)}
  <2> SUFFICES ASSUME NEW i \in DOMAIN Tail(s) PROVE Tail(s)[i] \in ToSet(s) /\ Tail(s)[i] # Head(s)
    BY DEF ToSet
  <2> QED
    BY <1>3, <1>4 DEF ToSet, IsInjective
<1>9. ToSet(s) \ {Head(s)} \subseteq ToSet(Tail(s))
  <2> SUFFICES ASSUME NEW i \in DOMAIN s, s[i] # Head(s) PROVE s[i] \in ToSet(Tail(s))
    BY DEF ToSet
  <2>1. i - 1 \in DOMAIN Tail(s) /\ Tail(s)[i - 1] = s[i]
    BY <1>3, <1>4, <1>7
  <2> QED
    BY <2>1 DEF ToSet
<1> QED
  BY <1>1, <1>3, <1>6, <1>8, <1>9, <1>10

-----------------------------------------------------------------------------
(* Scheduling *)

\* A task that takes or leaves a group, that waits, or that is evicted.
LEMMA TaskWith ==
  ASSUME NEW t, IsTask(t)
  PROVE  /\ \A g \in Groups : /\ IsTask([t EXCEPT !.group = g])
                              /\ [t EXCEPT !.group = g].type = t.type
                              /\ [t EXCEPT !.group = g].len = t.len
                              /\ [t EXCEPT !.group = g].consumed = t.consumed
                              /\ [t EXCEPT !.group = g].waiting = t.waiting
                              /\ [t EXCEPT !.group = g].group = g
         /\ \A b \in BOOLEAN : /\ IsTask([t EXCEPT !.waiting = b])
                               /\ [t EXCEPT !.waiting = b].type = t.type
                               /\ [t EXCEPT !.waiting = b].len = t.len
                               /\ [t EXCEPT !.waiting = b].consumed = t.consumed
                               /\ [t EXCEPT !.waiting = b].waiting = b
                               /\ [t EXCEPT !.waiting = b].group = t.group
<1>1. PICK ty, len, consumed, next, numNew, status, waiting, group :
        /\ t = [type |-> ty, len |-> len, consumed |-> consumed, next |-> next,
                numNew |-> numNew, status |-> status, waiting |-> waiting, group |-> group]
        /\ ty \in Types /\ len \in Nat \ {0} /\ consumed \in Nat
        /\ waiting \in BOOLEAN /\ group \in Groups \cup {NoGroup}
  BY DEF IsTask
<1>2. ASSUME NEW g \in Groups
      PROVE  [t EXCEPT !.group = g]
               = [type |-> ty, len |-> len, consumed |-> consumed, next |-> next,
                  numNew |-> numNew, status |-> status, waiting |-> waiting, group |-> g]
  BY <1>1
<1>3. ASSUME NEW b \in BOOLEAN
      PROVE  [t EXCEPT !.waiting = b]
               = [type |-> ty, len |-> len, consumed |-> consumed, next |-> next,
                  numNew |-> numNew, status |-> status, waiting |-> b, group |-> group]
  BY <1>1
<1> QED
  BY <1>1, <1>2, <1>3 DEF IsTask

\* The batch takes the first free group, and awaits its tasks in it.
LEMMA Allocated ==
  ASSUME MainTypes, Accounts, BatchFits, pc = "schedule", freeGroups # <<>>,
         NEW ids, Allocate(ids), ToSet(ids) \subseteq Reqs, unwaited' = unwaited, batch'.ids = ids,
         \A r \in ToSet(ids) : ~task[r].waiting /\ task'[r].group = Head(freeGroups),
         \A r \in Reqs : task'[r].waiting = task[r].waiting,
         \A r \in Reqs : task[r].waiting => task'[r].group = task[r].group
  PROVE  /\ Accounts' /\ pc' = "step"
         /\ freeGroups' \in Seq(Groups) /\ IsInjective(freeGroups')
         /\ waitingOf' \in [Groups -> SUBSET Reqs]
<1> DEFINE g == Head(freeGroups)
<1>1. /\ g \in Groups /\ g \in ToSet(freeGroups)
      /\ freeGroups' \in Seq(Groups) /\ IsInjective(freeGroups')
      /\ ToSet(freeGroups') = ToSet(freeGroups) \ {g}
  BY HeadTailFacts DEF MainTypes, Allocate
<1>2. waitingOf' = [waitingOf EXCEPT ![g] = ToSet(ids)] /\ pc' = "step"
  BY DEF Allocate
<1>3. unwaited = <<>> /\ batch = NoBatch
  BY DEF BatchFits
<1>4. Updated = {} /\ Updated' = ToSet(ids)
  BY <1>3 DEF Updated, NoBatch, ToSet
<1>5. \A h \in Groups : /\ waitingOf[h] = {r \in Reqs : task[r].group = h /\ task[r].waiting}
                        /\ h \in ToSet(freeGroups) => waitingOf[h] = {}
  BY <1>4 DEF Accounts
<1> HIDE DEF g
<1>6. waitingOf \in [Groups -> SUBSET Reqs]
  BY DEF MainTypes
<1>7. \A h \in Groups : waitingOf'[h] = IF h = g THEN ToSet(ids) ELSE waitingOf[h]
  BY <1>1, <1>2, <1>6
<1>8. \A r \in ToSet(ids) : r \in Reqs /\ ~task[r].waiting /\ ~task'[r].waiting /\ task'[r].group = g
  BY DEF g
<1>9. ASSUME NEW h \in Groups
      PROVE  /\ waitingOf'[h] = {r \in Reqs : task'[r].group = h /\ (task'[r].waiting \/ r \in ToSet(ids))}
             /\ h \in ToSet(freeGroups') => waitingOf'[h] = {}
  <2>1. CASE h = g
    <3>1. \A r \in Reqs : ~(task[r].waiting /\ task[r].group = g)
      BY <1>1, <1>5
    <3>2. {r \in Reqs : task'[r].group = h /\ (task'[r].waiting \/ r \in ToSet(ids))} = ToSet(ids)
      BY <1>8, <2>1, <3>1
    <3> QED
      BY <1>1, <1>7, <2>1, <3>2
  <2>2. CASE h # g
    <3>1. {r \in Reqs : task'[r].group = h /\ (task'[r].waiting \/ r \in ToSet(ids))}
          = {r \in Reqs : task[r].group = h /\ task[r].waiting}
      BY <1>8, <2>2
    <3> QED
      BY <1>1, <1>5, <1>7, <2>2, <3>1
  <2> QED
    BY <2>1, <2>2
<1>10. (\A h \in Groups :
         /\ waitingOf[h] = {r \in Reqs : task[r].group = h /\ (task[r].waiting \/ r \in Updated)}
         /\ h \in ToSet(freeGroups) => waitingOf[h] = {})'
  BY <1>4, <1>9
<1>11. Accounts'
  BY <1>2, <1>10 DEF Accounts
<1>12. waitingOf' \in [Groups -> SUBSET Reqs]
  BY <1>2, <1>6
<1> QED
  BY <1>1, <1>2, <1>11, <1>12

LEMMA RemainingType ==
  ASSUME MainTypes, Agree, NEW r \in ToSet(Ready("Prefill"))
  PROVE  Remaining(r) \in Nat \ {0} /\ task[r].consumed \in Nat /\ task[r].len \in Nat
<1>1. r \in Reqs /\ r \in ToSet(idList) /\ task[r].type = "Prefill"
  BY ReadyFacts
<1>2. \E t : InStep(r, t)
  BY <1>1 DEF Agree
<1>3. task[r].consumed < task[r].len
  BY <1>1, <1>2 DEF InStep
<1>4. task[r].consumed \in Nat /\ task[r].len \in Nat
  BY <1>1 DEF MainTypes, IsTask
<1> QED
  BY <1>3, <1>4 DEF Remaining

LEMMA SchedulePrefillStep ==
  ASSUME IInv, SchedulePrefill
  PROVE  IInv'
<1> USE DEF IInv
<1> DEFINE ids == UpTo(UpTo(Candidates, Fitting), NumTasks)
           takeOf(r) == IF r \in ToSet(ids) THEN Take(CHOOSE i \in DOMAIN ids : ids[i] = r) ELSE 0
           take == [r \in Reqs |-> takeOf(r)]
           g == Head(freeGroups)
<1>1. /\ pc = "schedule" /\ freeGroups # <<>>
      /\ batch' = [kind |-> "Prefill", ids |-> ids, take |-> take]
      /\ task' = Grouped(task, ids)
      /\ Allocate(ids)
      /\ UNCHANGED <<args, submitted, idList, ongoing, at, unwaited>>
      /\ copy' = copy /\ kv' = kv /\ meta' = meta
  BY DEF SchedulePrefill, MaySchedule, stageVars
<1>2. /\ Candidates \in Seq(Reqs) /\ IsInjective(Candidates)
      /\ ToSet(Candidates) \subseteq ToSet(Ready("Prefill"))
      /\ \A i \in DOMAIN Candidates : /\ Take(i) \in Nat \ {0}
                                      /\ Take(i) <= Remaining(Candidates[i])
  BY RemainingType, CandidatesFacts
<1>3. Fitting \in Nat /\ NumTasks \in Nat
  <2>1. IsFiniteSet(1 .. Len(Candidates)) /\ DOMAIN Candidates = 1 .. Len(Candidates)
    BY <1>2, FS_Interval, LenProperties
  <2>2. \A S : S \subseteq DOMAIN Candidates => Cardinality(S) \in Nat
    BY <2>1, FS_Subset, FS_CardinalityType
  <2> QED
    BY <2>2, PipelineAssumption DEF Fitting
<1>4. /\ ids \in Seq(Reqs) /\ IsInjective(ids) /\ ToSet(ids) \subseteq ToSet(Candidates)
      /\ \A i \in DOMAIN ids : i \in DOMAIN Candidates /\ ids[i] = Candidates[i]
  <2> DEFINE fit == UpTo(Candidates, Fitting)
  <2>1. /\ fit \in Seq(Reqs) /\ IsInjective(fit) /\ ToSet(fit) \subseteq ToSet(Candidates)
        /\ \A i \in DOMAIN fit : i \in DOMAIN Candidates /\ fit[i] = Candidates[i]
    BY <1>2, <1>3, UpToFacts
  <2> HIDE DEF fit
  <2>2. /\ UpTo(fit, NumTasks) \in Seq(Reqs) /\ IsInjective(UpTo(fit, NumTasks))
        /\ ToSet(UpTo(fit, NumTasks)) \subseteq ToSet(fit)
        /\ \A i \in DOMAIN UpTo(fit, NumTasks) : i \in DOMAIN fit /\ UpTo(fit, NumTasks)[i] = fit[i]
    BY <1>3, <2>1, UpToFacts
  <2> QED
    BY <2>1, <2>2 DEF fit
<1>5. \A r \in ToSet(ids) : /\ r \in Reqs /\ r \in ToSet(idList) /\ r \in submitted
                            /\ task[r].type = "Prefill" /\ ~task[r].waiting
  BY <1>2, <1>4, ReadyFacts DEF MainTypes
<1>6. ASSUME NEW r \in ToSet(ids)
      PROVE  take[r] \in Nat \ {0} /\ task[r].consumed + take[r] <= task[r].len
  <2> DEFINE i == CHOOSE j \in DOMAIN ids : ids[j] = r
  <2>1. i \in DOMAIN ids /\ ids[i] = r
    <3>1. \E j \in DOMAIN ids : ids[j] = r
      BY DEF ToSet
    <3> QED
      BY <3>1
  <2>2. take[r] = Take(i)
    BY <1>5
  <2> HIDE DEF i, ids, take
  <2>3. Take(i) \in Nat \ {0} /\ Take(i) <= Remaining(r)
    BY <1>2, <1>4, <2>1
  <2>4. task[r].consumed \in Nat /\ task[r].len \in Nat
    BY <1>2, <1>4, RemainingType
  <2> QED
    BY <2>2, <2>3, <2>4 DEF Remaining
<1> HIDE DEF ids, take
<1>7. g \in Groups
  BY <1>1, HeadTailFacts DEF MainTypes
<1>8. \A r \in Reqs : task'[r] = IF r \in ToSet(ids) THEN [task[r] EXCEPT !.group = g] ELSE task[r]
  BY <1>1 DEF Grouped
<1>9. \A r \in Reqs : /\ IsTask(task[r]) /\ IsTask(task'[r])
                      /\ task'[r].type = task[r].type /\ task'[r].len = task[r].len
                      /\ task'[r].consumed = task[r].consumed /\ task'[r].waiting = task[r].waiting
                      /\ task'[r].group = IF r \in ToSet(ids) THEN g ELSE task[r].group
  <2> TAKE r \in Reqs
  <2>1. IsTask(task[r])
    BY DEF MainTypes
  <2> HIDE DEF g
  <2>2. CASE r \in ToSet(ids)
    <3>1. task'[r] = [task[r] EXCEPT !.group = g]
      BY <1>8, <2>2
    <3> QED
      BY <1>7, <2>1, <2>2, <3>1, TaskWith
  <2>3. CASE r \notin ToSet(ids)
    BY <1>8, <2>1, <2>3
  <2> QED
    BY <2>2, <2>3
<1>10. /\ Accounts' /\ pc' = "step"
       /\ freeGroups' \in Seq(Groups) /\ IsInjective(freeGroups')
       /\ waitingOf' \in [Groups -> SUBSET Reqs]
  <2>1. ToSet(ids) \subseteq Reqs /\ batch'.ids = ids
    BY <1>1, <1>5
  <2>2. \A r \in Reqs : task[r].waiting => task'[r].group = task[r].group
    BY <1>5, <1>9
  <2>3. \A r \in ToSet(ids) : ~task[r].waiting /\ task'[r].group = Head(freeGroups)
    BY <1>5, <1>9
  <2> QED
    BY <1>1, <1>9, <2>1, <2>2, <2>3, Allocated
<1>11. MainTypes'
  <2>1. task' = [r \in Reqs |-> task'[r]]
    BY <1>1 DEF Grouped
  <2>2. (\A r \in Reqs : IsTask(task[r]))'
    BY <1>9 DEF IsTask
  <2> QED
    BY <1>1, <1>10, <2>1, <2>2 DEF MainTypes
<1>12. UnderWay'
  BY <1>1, <1>9, UnderWayKept
<1>13. BatchFits'
  <2>1. /\ batch'.ids = ids /\ batch'.kind = "Prefill" /\ batch'.take = take
    BY <1>1
  <2> QED
    BY <1>1, <1>4, <1>5, <1>6, <1>9, <1>10, <2>1 DEF BatchFits
<1>14. Agree'
  <2>1. ASSUME NEW r \in Reqs, NEW t, InStep(r, t)
        PROVE  InStep(r, t)'
    BY <1>1, <1>9, <2>1, InStepKept
  <2> QED
    BY <1>1, <2>1, AgreeKept
<1>15. StageTypes'
  BY <1>1, StageTypesKept
<1> QED
  BY <1>10, <1>11, <1>12, <1>13, <1>14, <1>15

\* A task that is evicted.
LEMMA TaskEvicted ==
  ASSUME NEW t, IsTask(t)
  PROVE  LET u == [t EXCEPT !.next = NoToken, !.type = "Prefill", !.consumed = 0, !.group = NoGroup]
         IN  /\ IsTask(u) /\ u.type = "Prefill" /\ u.consumed = 0 /\ u.len = t.len
             /\ u.waiting = t.waiting
<1>1. PICK ty, len, consumed, next, numNew, status, waiting, group :
        /\ t = [type |-> ty, len |-> len, consumed |-> consumed, next |-> next,
                numNew |-> numNew, status |-> status, waiting |-> waiting, group |-> group]
        /\ ty \in Types /\ len \in Nat \ {0} /\ consumed \in Nat
        /\ waiting \in BOOLEAN /\ group \in Groups \cup {NoGroup}
  BY DEF IsTask
<1> DEFINE u == [t EXCEPT !.next = NoToken, !.type = "Prefill", !.consumed = 0, !.group = NoGroup]
           old == [type |-> ty, len |-> len, consumed |-> consumed, next |-> next,
                   numNew |-> numNew, status |-> status, waiting |-> waiting, group |-> group]
           old1 == [type |-> ty, len |-> len, consumed |-> consumed, next |-> NoToken,
                   numNew |-> numNew, status |-> status, waiting |-> waiting, group |-> group]
           old2 == [type |-> "Prefill", len |-> len, consumed |-> consumed, next |-> NoToken,
                   numNew |-> numNew, status |-> status, waiting |-> waiting, group |-> group]
           old3 == [type |-> "Prefill", len |-> len, consumed |-> 0, next |-> NoToken,
                   numNew |-> numNew, status |-> status, waiting |-> waiting, group |-> group]
           old4 == [type |-> "Prefill", len |-> len, consumed |-> 0, next |-> NoToken,
                   numNew |-> numNew, status |-> status, waiting |-> waiting, group |-> NoGroup]
<1>2. u = [old EXCEPT !.next = NoToken, !.type = "Prefill", !.consumed = 0, !.group = NoGroup]
  BY <1>1
<1>3. [old EXCEPT !.next = NoToken, !.type = "Prefill", !.consumed = 0, !.group = NoGroup]
      = [[[[old EXCEPT !.next = NoToken] EXCEPT !.type = "Prefill"] EXCEPT !.consumed = 0]
           EXCEPT !.group = NoGroup]
  OBVIOUS
<1>4. [old EXCEPT !.next = NoToken] = old1
  OBVIOUS
<1>5. [old1 EXCEPT !.type = "Prefill"] = old2
  OBVIOUS
<1>6. [old2 EXCEPT !.consumed = 0] = old3
  OBVIOUS
<1>8. [old3 EXCEPT !.group = NoGroup] = old4
  OBVIOUS
<1>9. u = [type |-> "Prefill", len |-> len, consumed |-> 0, next |-> NoToken,
                   numNew |-> numNew, status |-> status, waiting |-> waiting, group |-> NoGroup]
  <2>1. u = old4
    <3> HIDE DEF u, old, old1, old2, old3, old4
    <3> QED
      BY <1>2, <1>3, <1>4, <1>5, <1>6, <1>8
  <2> QED
    BY <2>1
<1> HIDE DEF u
<1>7. IsTask(u) /\ u.type = "Prefill" /\ u.consumed = 0 /\ u.len = t.len /\ u.waiting = t.waiting
  BY <1>1, <1>9 DEF IsTask, Types
<1> QED
  BY <1>7 DEF u

\* Evicted tasks start again, here and at every stage once it has taken the messages.
LEMMA EvictKeeps ==
  ASSUME IInv, pc = "schedule", NEW e \in Int, e <= Len(Ready("Decode")), Evict(e),
         copy' = copy, UNCHANGED <<submitted, idList, ongoing, unwaited>>,
         \A r \in Reqs : /\ task'[r].type = Evicted(e)[r].type
                         /\ task'[r].len = Evicted(e)[r].len
                         /\ task'[r].consumed = Evicted(e)[r].consumed
                         /\ task'[r].waiting = Evicted(e)[r].waiting
  PROVE  /\ UnderWay' /\ StageTypes' /\ Agree'
         /\ \A r \in Reqs : IsTask(Evicted(e)[r]) /\ Evicted(e)[r].waiting = task[r].waiting
         /\ \A r \in ToSet(Kept(e)) : e >= 0 => Evicted(e)[r] = task[r]
<1> USE DEF IInv
<1> DEFINE gone == ToSet(Gone(e))
<1>1. /\ Gone(e) \in Seq(Reqs) /\ gone \subseteq ToSet(Ready("Decode"))
      /\ ToSet(Kept(e)) \subseteq ToSet(Ready("Decode"))
      /\ e >= 0 => ToSet(Kept(e)) \cap gone = {}
  BY KeptFacts
<1>2. \A r \in ToSet(Ready("Decode")) : /\ r \in Reqs /\ r \in ToSet(idList)
                                        /\ task[r].type = "Decode" /\ ~task[r].waiting
  BY ReadyFacts
<1>3. /\ kv' = [kv EXCEPT ![Main] = [r \in Reqs |-> IF r \in gone THEN 0 ELSE kv[Main][r]]]
      /\ meta' = [meta EXCEPT ![Main + 1] = meta[Main + 1] \o Ends(Gone(e))]
  BY DEF Evict, Ends
<1>4. \A r \in Reqs :
        Evicted(e)[r] = IF r \in gone
                        THEN [task[r] EXCEPT !.next = NoToken, !.type = "Prefill", !.consumed = 0,
                                             !.group = NoGroup]
                        ELSE task[r]
  BY DEF Evicted
<1> HIDE DEF gone
<1>5. \A r \in Reqs :
        /\ IsTask(Evicted(e)[r]) /\ Evicted(e)[r].waiting = task[r].waiting
        /\ Evicted(e)[r].len = task[r].len
        /\ Evicted(e)[r].type = IF r \in gone THEN "Prefill" ELSE task[r].type
        /\ Evicted(e)[r].consumed = IF r \in gone THEN 0 ELSE task[r].consumed
  <2> TAKE r \in Reqs
  <2>1. IsTask(task[r])
    BY DEF MainTypes
  <2>2. CASE r \in gone
    <3> DEFINE u == [task[r] EXCEPT !.next = NoToken, !.type = "Prefill", !.consumed = 0,
                                    !.group = NoGroup]
    <3>1. Evicted(e)[r] = u
      BY <1>4, <2>2
    <3>2. /\ IsTask(u) /\ u.type = "Prefill" /\ u.consumed = 0 /\ u.len = task[r].len
          /\ u.waiting = task[r].waiting
      BY <2>1, TaskEvicted
    <3> HIDE DEF u
    <3> QED
      BY <2>2, <3>1, <3>2
  <2>3. CASE r \notin gone
    BY <1>4, <2>1, <2>3
  <2> QED
    BY <2>2, <2>3
<1>6. \A r \in Reqs :
        /\ task'[r].waiting = task[r].waiting
        /\ task'[r].len = task[r].len
        /\ task'[r].type = IF r \in gone THEN "Prefill" ELSE task[r].type
        /\ task'[r].consumed = IF r \in gone THEN 0 ELSE task[r].consumed
  BY <1>5
<1>7. unwaited = <<>>
  BY DEF BatchFits
<1>8. UnderWay'
  <2>1. \A r \in Reqs : task[r].waiting => task'[r].waiting /\ task'[r].type = task[r].type
    BY <1>1, <1>2, <1>6
  <2> QED
    BY <1>7, <2>1, UnderWayKept
<1>9. /\ Main \in Nodes /\ 1 \in Others /\ Main + 1 = 1 /\ \A n \in Others : n \in Nodes /\ n # Main
      /\ \A n \in Others : n > 1 => n - 1 \in Others /\ n # 1
  BY StagesAssumption DEF Main, Nodes, Others
<1>10. kv[Main] \in [Reqs -> Nat]
  BY <1>9 DEF StageTypes
<1>11. [r \in Reqs |-> IF r \in gone THEN 0 ELSE kv[Main][r]] \in [Reqs -> Nat]
  BY <1>10
<1>12. kv' \in [Nodes -> [Reqs -> Nat]] /\ \A n \in Others : kv'[n] = kv[n]
  BY <1>3, <1>9, <1>11 DEF StageTypes
<1>13. \A r \in Reqs : kv'[Main][r] = IF r \in gone THEN 0 ELSE kv[Main][r]
  BY <1>3, <1>9 DEF StageTypes
<1>14. /\ meta' = [n \in Others |-> meta'[n]] /\ meta'[1] = meta[1] \o Ends(Gone(e))
       /\ \A n \in Others : n # 1 => meta'[n] = meta[n]
  BY <1>3, <1>9 DEF StageTypes
<1>15. StageTypes'
  BY <1>12, <1>14 DEF StageTypes
<1>16. \A n \in Others : Local(n)' = Local(n)
  BY <1>12 DEF Local
<1>17. PICK z \in States : Leads(meta[1], Local(1), z) /\ \A r \in Reqs : InStep(r, z[r])
  BY DEF Agree
<1>24. PICK y : y = Emptied(z, gone)
  OBVIOUS
<1>18. Leads(meta[1] \o Ends(Gone(e)), Local(1), y)
  BY <1>1, <1>17, <1>24, LeadsEvict DEF gone
<1>19. ASSUME NEW r \in Reqs PROVE InStep(r, y[r])'
  <2>1. InStep(r, z[r]) /\ y[r] = IF r \in gone THEN Blank ELSE z[r]
    BY <1>17, <1>24 DEF Emptied
  <2>2. CASE r \in gone
    <3>1. r \in ToSet(idList) /\ r \in submitted
      BY <1>1, <1>2, <2>2 DEF MainTypes
    <3>2. task'[r].type = "Prefill" /\ task'[r].consumed = 0 /\ task'[r].len \in Nat \ {0}
      BY <1>6, <2>2 DEF MainTypes, IsTask
    <3>3. y[r] = Blank /\ kv'[Main][r] = 0
      BY <1>13, <2>1, <2>2
    <3> QED
      BY <3>1, <3>2, <3>3 DEF InStep, Blank
  <2>3. CASE r \notin gone
    <3>1. /\ y[r] = z[r] /\ kv'[Main][r] = kv[Main][r] /\ task'[r].type = task[r].type
          /\ task'[r].consumed = task[r].consumed /\ task'[r].len = task[r].len
      BY <1>6, <1>13, <2>1, <2>3
    <3> QED
      BY <2>1, <3>1 DEF InStep
  <2> QED
    BY <2>2, <2>3
<1>20. (\E x \in States : Leads(meta[1], Local(1), x) /\ \A r \in Reqs : InStep(r, x[r]))'
  <2>1. y \in States
    BY <1>18, LeadsTypes
  <2>2. Leads(meta'[1], Local(1)', y)
    BY <1>9, <1>14, <1>16, <1>18
  <2> QED
    BY <1>19, <2>1, <2>2
<1>21. (\A n \in Others : n > 1 => Leads(meta[n], Local(n), Local(n - 1)))'
  BY <1>9, <1>14, <1>16 DEF Agree
<1>22. Agree'
  BY <1>20, <1>21 DEF Agree
<1>23. \A r \in ToSet(Kept(e)) : e >= 0 => Evicted(e)[r] = task[r]
  BY <1>1, <1>2, <1>4
<1> QED
  BY <1>5, <1>8, <1>15, <1>22, <1>23

LEMMA ScheduleDecodeStep ==
  ASSUME IInv, ScheduleDecode
  PROVE  IInv'
<1> USE DEF IInv
<1>1. /\ pc = "schedule" /\ freeGroups # <<>>
      /\ UNCHANGED <<args, submitted, idList, ongoing, at, unwaited, copy>>
  BY DEF ScheduleDecode, DecodeTurn, MaySchedule
<1>2. Ready("Decode") \in Seq(Reqs) /\ Len(Ready("Decode")) \in Nat
  BY ReadyFacts, LenProperties
<1>3. PICK e \in 0 .. Larger(1, Len(Ready("Decode"))) - 1 :
        LET ids == UpTo(Kept(e), NumTasks)
        IN  /\ Evict(e)
            /\ task' = Grouped(Evicted(e), ids)
            /\ batch' = [NoBatch EXCEPT !.kind = "Decode", !.ids = ids]
            /\ Allocate(ids)
  BY DEF ScheduleDecode
<1> DEFINE ids == UpTo(Kept(e), NumTasks)
           g == Head(freeGroups)
<1>4. e \in Int /\ e >= 0 /\ e <= Len(Ready("Decode"))
  BY <1>2, <1>3 DEF Larger
<1>5. /\ Kept(e) \in Seq(Reqs) /\ IsInjective(Kept(e)) /\ ToSet(Kept(e)) \subseteq ToSet(Ready("Decode"))
  BY <1>4, KeptFacts
<1>6. ids \in Seq(Reqs) /\ IsInjective(ids) /\ ToSet(ids) \subseteq ToSet(Kept(e))
  <2>1. NumTasks \in Nat
    BY PipelineAssumption
  <2> QED
    BY <1>5, <2>1, UpToFacts
<1>7. Evict(e) /\ task' = Grouped(Evicted(e), ids) /\ Allocate(ids)
  BY <1>3
<1>8. batch'.ids = ids /\ batch'.kind = "Decode"
  BY <1>3 DEF NoBatch
<1> HIDE DEF ids
<1>9. \A r \in ToSet(ids) : /\ r \in Reqs /\ r \in ToSet(idList) /\ r \in submitted
                            /\ task[r].type = "Decode" /\ ~task[r].waiting
  BY <1>5, <1>6, ReadyFacts DEF MainTypes
<1>10. g \in Groups
  BY <1>1, HeadTailFacts DEF MainTypes
<1>11. \A r \in Reqs : task'[r] = IF r \in ToSet(ids) THEN [Evicted(e)[r] EXCEPT !.group = g]
                                                      ELSE Evicted(e)[r]
  BY <1>7 DEF Grouped
<1> HIDE DEF g
<1>12. ASSUME NEW r \in Reqs, IsTask(Evicted(e)[r])
       PROVE  /\ IsTask(task'[r])
              /\ task'[r].type = Evicted(e)[r].type /\ task'[r].len = Evicted(e)[r].len
              /\ task'[r].consumed = Evicted(e)[r].consumed
              /\ task'[r].waiting = Evicted(e)[r].waiting
              /\ r \in ToSet(ids) => task'[r].group = g
              /\ r \notin ToSet(ids) => task'[r] = Evicted(e)[r]
  <2>1. CASE r \in ToSet(ids)
    <3>1. task'[r] = [Evicted(e)[r] EXCEPT !.group = g]
      BY <1>11, <2>1
    <3> QED
      BY <1>10, <1>12, <2>1, <3>1, TaskWith
  <2>2. CASE r \notin ToSet(ids)
    BY <1>11, <1>12, <2>2
  <2> QED
    BY <2>1, <2>2
<1>13. \A r \in Reqs : IsTask(Evicted(e)[r])
  <2> TAKE r \in Reqs
  <2>1. IsTask(task[r])
    BY DEF MainTypes
  <2>2. CASE r \in ToSet(Gone(e))
    <3>1. Evicted(e)[r] = [task[r] EXCEPT !.next = NoToken, !.type = "Prefill", !.consumed = 0,
                                          !.group = NoGroup]
      BY <2>2 DEF Evicted
    <3> QED
      BY <2>1, <3>1, TaskEvicted
  <2>3. CASE r \notin ToSet(Gone(e))
    BY <2>1, <2>3 DEF Evicted
  <2> QED
    BY <2>2, <2>3
<1>14. /\ UnderWay' /\ StageTypes' /\ Agree'
       /\ \A r \in Reqs : Evicted(e)[r].waiting = task[r].waiting
       /\ \A r \in ToSet(Kept(e)) : Evicted(e)[r] = task[r]
  BY <1>1, <1>4, <1>7, <1>12, <1>13, EvictKeeps
<1>15. /\ Accounts' /\ pc' = "step"
       /\ freeGroups' \in Seq(Groups) /\ IsInjective(freeGroups')
       /\ waitingOf' \in [Groups -> SUBSET Reqs]
  <2>1. ToSet(ids) \subseteq Reqs
    BY <1>9
  <2>2. \A r \in ToSet(ids) : ~task[r].waiting /\ task'[r].group = Head(freeGroups)
    BY <1>9, <1>12, <1>13 DEF g
  <2>3. \A r \in Reqs : task'[r].waiting = task[r].waiting
    BY <1>12, <1>13, <1>14
  <2>4. ASSUME NEW r \in Reqs, task[r].waiting PROVE task'[r].group = task[r].group
    <3>1. r \notin ToSet(ids)
      BY <1>9, <2>4
    <3>2. r \notin ToSet(Gone(e))
      BY <1>4, <2>4, KeptFacts, ReadyFacts
    <3>3. Evicted(e)[r] = task[r]
      BY <3>2 DEF Evicted
    <3> QED
      BY <1>12, <1>13, <3>1, <3>3
  <2> QED
    BY <1>1, <1>7, <1>8, <2>1, <2>2, <2>3, <2>4, Allocated
<1>16. MainTypes'
  <2>1. task' = [r \in Reqs |-> task'[r]]
    BY <1>7 DEF Grouped
  <2>2. (\A r \in Reqs : IsTask(task[r]))'
    BY <1>12, <1>13 DEF IsTask
  <2> QED
    BY <1>1, <1>15, <2>1, <2>2 DEF MainTypes
<1>17. BatchFits'
  <2>1. \A r \in ToSet(ids) : task'[r].type = "Decode" /\ task'[r].waiting = task[r].waiting
    BY <1>6, <1>9, <1>12, <1>13, <1>14
  <2> QED
    BY <1>1, <1>6, <1>8, <1>9, <1>15, <2>1 DEF BatchFits
<1> QED
  BY <1>14, <1>15, <1>16, <1>17

LEMMA DecodeTooLargeStep ==
  ASSUME IInv, DecodeTooLarge
  PROVE  IInv'
<1> USE DEF IInv
<1> DEFINE e == Len(Ready("Decode")) - 1
<1>1. /\ pc = "schedule" /\ pc' = "crashed" /\ Evict(e) /\ task' = Evicted(e)
      /\ UNCHANGED <<args, submitted, idList, freeGroups, waitingOf, batch, ongoing, at, unwaited, copy>>
  BY DEF DecodeTooLarge, DecodeTurn, MaySchedule
<1>2. e \in Int /\ e <= Len(Ready("Decode"))
  BY ReadyFacts, LenProperties
<1> HIDE DEF e
<1>3. /\ UnderWay' /\ StageTypes' /\ Agree'
      /\ \A r \in Reqs : IsTask(Evicted(e)[r])
  BY <1>1, <1>2, EvictKeeps
<1>4. MainTypes'
  <2>1. task' = [r \in Reqs |-> task'[r]]
    BY <1>1 DEF Evicted
  <2>2. (\A r \in Reqs : IsTask(task[r]))'
    BY <1>1, <1>3 DEF IsTask
  <2> QED
    BY <1>1, <2>1, <2>2 DEF MainTypes
<1>5. BatchFits'
  BY <1>1 DEF BatchFits
<1>6. Accounts'
  BY <1>1 DEF Accounts
<1> QED
  BY <1>3, <1>4, <1>5, <1>6

-----------------------------------------------------------------------------
(* Steps of rank 0 *)

\* A message of rank 0 is one more on its way, and its tasks are where it says.
LEMMA SendKeeps ==
  ASSUME StageTypes, Agree, copy' = copy, NEW m, IsMessage(m),
         meta' = [meta EXCEPT ![Main + 1] = Append(@, m)],
         NEW l \in [Reqs -> Nat], kv' = [kv EXCEPT ![Main] = l],
         \A z \in States : (\A r \in Reqs : InStep(r, z[r])) =>
           Fits(z, m) /\ \A r \in Reqs : \A t : t = After(z, m)[r] => InStep(r, t)'
  PROVE  StageTypes' /\ Agree' /\ \A r \in Reqs : kv'[Main][r] = l[r]
<1>1. /\ Main \in Nodes /\ 1 \in Others /\ Main + 1 = 1 /\ \A n \in Others : n \in Nodes /\ n # Main
      /\ \A n \in Others : n > 1 => n - 1 \in Others /\ n # 1
  BY StagesAssumption DEF Main, Nodes, Others
<1>2. kv' \in [Nodes -> [Reqs -> Nat]] /\ kv'[Main] = l /\ \A n \in Others : kv'[n] = kv[n]
  BY <1>1 DEF StageTypes
<1>3. /\ meta' = [n \in Others |-> meta'[n]] /\ meta'[1] = Append(meta[1], m)
      /\ \A n \in Others : n # 1 => meta'[n] = meta[n]
  BY <1>1 DEF StageTypes
<1>4. StageTypes'
  BY <1>2, <1>3 DEF StageTypes
<1>5. \A n \in Others : Local(n)' = Local(n)
  BY <1>2 DEF Local
<1>6. PICK z \in States : Leads(meta[1], Local(1), z) /\ \A r \in Reqs : InStep(r, z[r])
  BY DEF Agree
<1>7. PICK y : y = After(z, m)
  OBVIOUS
<1>8. Leads(Append(meta[1], m), Local(1), y) /\ \A r \in Reqs : InStep(r, y[r])'
  BY <1>6, <1>7, LeadsAppend
<1>9. (\E x \in States : Leads(meta[1], Local(1), x) /\ \A r \in Reqs : InStep(r, x[r]))'
  <2>1. y \in States
    BY <1>8, LeadsTypes
  <2>2. Leads(meta'[1], Local(1)', y)
    BY <1>1, <1>3, <1>5, <1>8
  <2> QED
    BY <1>8, <2>1, <2>2
<1>10. (\A n \in Others : n > 1 => Leads(meta[n], Local(n), Local(n - 1)))'
  BY <1>1, <1>3, <1>5 DEF Agree
<1>11. Agree'
  BY <1>9, <1>10 DEF Agree
<1> QED
  BY <1>2, <1>4, <1>11

\* One entry more is under way.
LEMMA UnderWayMore ==
  ASSUME UnderWay, submitted' = submitted, unwaited' = unwaited,
         NEW e, IsEntry(e)', ongoing' = Append(ongoing, e),
         \A r \in ToSet(e.tasks) : ~task[r].waiting /\ task'[r].waiting,
         \A r \in Reqs : task[r].waiting => task'[r].waiting,
         \A r \in Reqs : task[r].type = "Decode" => task'[r].type = "Decode"
  PROVE  UnderWay'
<1>1. ASSUME NEW f, IsEntry(f) PROVE IsEntry(f)' /\ \A r \in ToSet(f.tasks) : r \in Reqs
  <2>1. /\ f.tasks \in Seq(Reqs) /\ f.outputs \in Seq(Reqs)
        /\ ToSet(f.tasks) \subseteq submitted /\ ToSet(f.outputs) \subseteq ToSet(f.tasks)
        /\ \A r \in ToSet(f.outputs) : task[r].type = "Decode"
    BY <1>1 DEF IsEntry
  <2>2. \A r \in ToSet(f.tasks) : r \in Reqs
    BY <2>1 DEF ToSet
  <2> QED
    BY <2>1, <2>2 DEF IsEntry
<1>2. /\ IsSeq(ongoing) /\ IsSeq(unwaited)
      /\ \A i \in DOMAIN ongoing : /\ IsEntry(ongoing[i])
                                   /\ \A r \in ToSet(ongoing[i].tasks) : task[r].waiting
      /\ \A i, j \in DOMAIN ongoing : i # j =>
           ToSet(ongoing[i].tasks) \cap ToSet(ongoing[j].tasks) = {}
      /\ \A i \in DOMAIN unwaited : IsEntry(unwaited[i])
  BY DEF UnderWay
<1> DEFINE n == Len(ongoing)
<1>3. /\ IsSeq(ongoing') /\ DOMAIN ongoing = 1 .. n /\ n \in Nat /\ DOMAIN ongoing' = 1 .. n + 1
      /\ \A i \in 1 .. n : ongoing'[i] = ongoing[i]
      /\ ongoing'[n + 1] = e
  BY <1>2, IsSeqAppend
<1> HIDE DEF n
<1>4. \A i \in DOMAIN ongoing' : i \in DOMAIN ongoing \/ i = n + 1
  BY <1>3
<1>5. ASSUME NEW i \in DOMAIN ongoing', NEW f, f = ongoing'[i]
      PROVE  /\ IsEntry(f)' /\ \A r \in ToSet(f.tasks) : task'[r].waiting
             /\ i \in DOMAIN ongoing => f = ongoing[i] /\ \A r \in ToSet(f.tasks) : task[r].waiting
             /\ i = n + 1 => f = e
  <2>1. CASE i \in DOMAIN ongoing
    <3>1. f = ongoing[i] /\ i # n + 1
      BY <1>3, <1>5, <2>1
    <3>2. IsEntry(f) /\ \A r \in ToSet(f.tasks) : task[r].waiting
      BY <1>2, <2>1, <3>1
    <3>3. IsEntry(f)' /\ \A r \in ToSet(f.tasks) : r \in Reqs
      BY <1>1, <3>2
    <3> QED
      BY <3>1, <3>2, <3>3
  <2>2. CASE i = n + 1
    <3>1. f = e /\ i \notin DOMAIN ongoing
      BY <1>3, <1>5, <2>2
    <3> QED
      BY <3>1
  <2> QED
    BY <1>4, <2>1, <2>2
<1>6. ASSUME NEW i \in DOMAIN ongoing', NEW j \in DOMAIN ongoing', i # j
      PROVE  ToSet(ongoing'[i].tasks) \cap ToSet(ongoing'[j].tasks) = {}
  <2>1. CASE i \in DOMAIN ongoing /\ j \in DOMAIN ongoing
    BY <1>2, <1>3, <1>6, <2>1
  <2>2. CASE i \in DOMAIN ongoing /\ j = n + 1
    BY <1>5, <2>2
  <2>3. CASE i = n + 1 /\ j \in DOMAIN ongoing
    BY <1>5, <2>3
  <2> QED
    BY <1>4, <1>6, <2>1, <2>2, <2>3
<1>7. (\A i \in DOMAIN ongoing : /\ IsEntry(ongoing[i])
                                 /\ \A r \in ToSet(ongoing[i].tasks) : task[r].waiting)'
  BY <1>5, ZenonT(30) DEF IsEntry
<1>8. (\A i \in DOMAIN unwaited : IsEntry(unwaited[i]))'
  <2>1. \A i \in DOMAIN unwaited : \A f : f = unwaited[i] => IsEntry(f)'
    BY <1>1, <1>2
  <2> QED
    BY <2>1 DEF IsEntry
<1>9. IsSeq(ongoing)' /\ IsSeq(unwaited)'
  BY <1>2, <1>3 DEF IsSeq
<1> QED
  BY <1>6, <1>7, <1>8, <1>9 DEF UnderWay

\* The batch waits for its outputs, if there are any.
LEMMA Awaited ==
  ASSUME MainTypes, UnderWay, BatchFits, Accounts, pc = "step", pc' = "poll",
         UNCHANGED <<args, submitted, idList, freeGroups, waitingOf, batch, at, unwaited>>,
         NEW t, NEW outputs \in Seq(Reqs), ToSet(outputs) \subseteq ToSet(batch.ids),
         Await(t, outputs),
         \A r \in Reqs : /\ IsTask(t[r])
                         /\ t[r].waiting = task[r].waiting /\ t[r].group = task[r].group
                         /\ task[r].type = "Decode" => t[r].type = "Decode",
         \A r \in ToSet(outputs) : t[r].type = "Decode"
  PROVE  /\ MainTypes' /\ UnderWay' /\ BatchFits' /\ Accounts'
         /\ \A r \in Reqs : /\ task'[r].type = t[r].type /\ task'[r].len = t[r].len
                            /\ task'[r].consumed = t[r].consumed
<1> DEFINE w == [r \in Reqs |-> r \in ToSet(batch.ids) /\ outputs # <<>>]
<1>1. \A r \in Reqs : task'[r] = IF w[r] THEN [t[r] EXCEPT !.waiting = TRUE] ELSE t[r]
  BY DEF Await
<1>2. \A r \in Reqs : w[r] <=> r \in ToSet(batch.ids) /\ outputs # <<>>
  OBVIOUS
<1> HIDE DEF w
<1>3. ASSUME NEW r \in Reqs
      PROVE  /\ IsTask(task'[r])
             /\ task'[r].type = t[r].type /\ task'[r].len = t[r].len
             /\ task'[r].consumed = t[r].consumed /\ task'[r].group = t[r].group
             /\ w[r] => task'[r].waiting = TRUE
             /\ ~w[r] => task'[r].waiting = task[r].waiting
  <2>1. CASE w[r]
    <3>1. task'[r] = [t[r] EXCEPT !.waiting = TRUE]
      BY <1>1, <2>1
    <3>2. IsTask(t[r]) /\ TRUE \in BOOLEAN
      OBVIOUS
    <3>3. /\ IsTask([t[r] EXCEPT !.waiting = TRUE])
          /\ [t[r] EXCEPT !.waiting = TRUE].type = t[r].type
          /\ [t[r] EXCEPT !.waiting = TRUE].len = t[r].len
          /\ [t[r] EXCEPT !.waiting = TRUE].consumed = t[r].consumed
          /\ [t[r] EXCEPT !.waiting = TRUE].waiting = TRUE
          /\ [t[r] EXCEPT !.waiting = TRUE].group = t[r].group
      BY <3>2, TaskWith
    <3> QED
      BY <2>1, <3>1, <3>3
  <2>2. CASE ~w[r]
    <3>1. task'[r] = t[r]
      BY <1>1, <2>2
    <3> QED
      BY <2>2, <3>1
  <2> QED
    BY <2>1, <2>2
<1>4. MainTypes'
  <2>1. task' = [r \in Reqs |-> task'[r]]
    BY DEF Await
  <2>2. (\A r \in Reqs : IsTask(task[r]))'
    BY <1>3 DEF IsTask
  <2> QED
    BY <2>1, <2>2 DEF MainTypes
<1>5. \A r \in ToSet(batch.ids) : r \in Reqs /\ ~task[r].waiting /\ r \in Updated
  BY DEF BatchFits, Updated, ToSet
<1>6. /\ \A r \in Reqs : task[r].waiting => task'[r].waiting
      /\ \A r \in Reqs : task[r].type = "Decode" => task'[r].type = "Decode"
  BY <1>3
<1>7. UnderWay'
  <2>1. CASE outputs = <<>>
    <3>1. ongoing' = ongoing
      BY <2>1 DEF Await
    <3> QED
      BY <1>6, <3>1, UnderWayKept
  <2>2. CASE outputs # <<>>
    <3> DEFINE e0 == [tasks |-> batch.ids, outputs |-> outputs]
    <3>1. ongoing' = Append(ongoing, e0)
      BY <2>2 DEF Await
    <3>2. PICK e : e = e0
      OBVIOUS
    <3>3. e.tasks = batch.ids /\ e.outputs = outputs
      BY <3>2
    <3>4. ongoing' = Append(ongoing, e)
      BY <3>1, <3>2
    <3> HIDE DEF e0
    <3>5. /\ e.tasks \in Seq(Reqs) /\ e.outputs \in Seq(Reqs)
          /\ ToSet(e.tasks) \subseteq submitted /\ ToSet(e.outputs) \subseteq ToSet(e.tasks)
      BY <3>3 DEF BatchFits
    <3>6. \A r \in ToSet(e.outputs) : task'[r].type = "Decode"
      BY <1>3, <1>5, <3>3
    <3>7. IsEntry(e)'
      BY <3>5, <3>6 DEF IsEntry
    <3>8. \A r \in ToSet(e.tasks) : ~task[r].waiting /\ task'[r].waiting
      BY <1>2, <1>3, <1>5, <2>2, <3>3
    <3> QED
      BY <1>6, <3>4, <3>7, <3>8, UnderWayMore
  <2> QED
    BY <2>1, <2>2
<1>8. BatchFits'
  BY DEF BatchFits
<1>9. Accounts'
  <2>1. ASSUME NEW r \in Reqs
        PROVE  /\ task'[r].group = task[r].group
               /\ (task'[r].waiting \/ r \in Updated') <=> (task[r].waiting \/ r \in Updated)
    <3>1. r \in Updated' <=> r \in Updated
      BY DEF Updated
    <3>2. w[r] => r \in Updated
      BY <1>2, <1>5
    <3> QED
      BY <1>3, <3>1, <3>2
  <2>2. pc # "crashed" /\ pc' # "schedule"
    OBVIOUS
  <2> QED
    BY <2>1, <2>2, AccountsKept
<1> QED
  BY <1>3, <1>4, <1>7, <1>8, <1>9

\* A task of a prefill batch takes what it is fed.
LEMMA TaskFed ==
  ASSUME NEW t, IsTask(t), t.type = "Prefill", NEW take \in Nat
  PROVE  LET u == ConsumeReqTokens(t, take)
         IN  /\ IsTask(u) /\ u.consumed = t.consumed + take /\ u.len = t.len
             /\ u.waiting = t.waiting /\ u.group = t.group
             /\ u.type = IF t.consumed + take >= t.len THEN "Decode" ELSE "Prefill"
<1>1. PICK ty, len, consumed, next, numNew, status, waiting, group :
        /\ t = [type |-> ty, len |-> len, consumed |-> consumed, next |-> next,
                numNew |-> numNew, status |-> status, waiting |-> waiting, group |-> group]
        /\ ty \in Types /\ len \in Nat \ {0} /\ consumed \in Nat
        /\ waiting \in BOOLEAN /\ group \in Groups \cup {NoGroup}
  BY DEF IsTask
<1> DEFINE u == ConsumeReqTokens(t, take)
           type == IF t.consumed + take >= t.len THEN "Decode" ELSE t.type
           old == [type |-> ty, len |-> len, consumed |-> consumed, next |-> next,
                   numNew |-> numNew, status |-> status, waiting |-> waiting, group |-> group]
<1>2. u = [t EXCEPT !.consumed = t.consumed + take, !.type = type]
  BY DEF ConsumeReqTokens
<1>3. t.consumed = consumed /\ t.len = len /\ t.type = ty
  BY <1>1
<1>4. type \in Types /\ type = IF consumed + take >= len THEN "Decode" ELSE "Prefill"
  BY <1>3 DEF Types
<1> HIDE DEF type
<1>5. u = [old EXCEPT !.consumed = consumed + take, !.type = type]
  BY <1>1, <1>2, <1>3
<1>6. \A a, b : [old EXCEPT !.consumed = a, !.type = b] = [[old EXCEPT !.consumed = a] EXCEPT !.type = b]
  OBVIOUS
<1>7. \A a : [old EXCEPT !.consumed = a]
             = [type |-> ty, len |-> len, consumed |-> a, next |-> next,
                numNew |-> numNew, status |-> status, waiting |-> waiting, group |-> group]
  OBVIOUS
<1>8. \A a, b : [[type |-> ty, len |-> len, consumed |-> a, next |-> next,
                  numNew |-> numNew, status |-> status, waiting |-> waiting, group |-> group]
                   EXCEPT !.type = b]
             = [type |-> b, len |-> len, consumed |-> a, next |-> next,
                numNew |-> numNew, status |-> status, waiting |-> waiting, group |-> group]
  OBVIOUS
<1> HIDE DEF u, old
<1>9. u = [type |-> type, len |-> len, consumed |-> consumed + take, next |-> next,
           numNew |-> numNew, status |-> status, waiting |-> waiting, group |-> group]
  BY <1>5, <1>6, <1>7, <1>8
<1>10. consumed + take \in Nat
  BY <1>1
<1>11. /\ u.type = type /\ u.len = len /\ u.consumed = consumed + take /\ u.waiting = waiting
       /\ u.group = group
       /\ u = [type |-> u.type, len |-> u.len, consumed |-> u.consumed, next |-> u.next,
               numNew |-> u.numNew, status |-> u.status, waiting |-> u.waiting, group |-> u.group]
  BY <1>9
<1>12. t.waiting = waiting /\ t.group = group
  BY <1>1
<1>13. IsTask(u)
  BY <1>1, <1>4, <1>10, <1>11 DEF IsTask
<1> QED
  BY <1>3, <1>4, <1>11, <1>12, <1>13 DEF u

\* The items of a batch of rank 0.
IsBatch(kind, ids, item) ==
  /\ ids \in Seq(Reqs) /\ IsInjective(ids) /\ kind \in {"Prefill", "Decode"}
  /\ \A r \in Reqs : item[r].r = r
  /\ kind = "Prefill" => \A r \in ToSet(ids) :
       /\ item[r] = [r |-> item[r].r, len |-> item[r].len, from |-> item[r].from, take |-> item[r].take]
       /\ item[r].len \in Nat \ {0} /\ item[r].from \in Nat /\ item[r].take \in Nat \ {0}
  /\ kind = "Decode" => \A r \in ToSet(ids) : item[r].take = 1

LEMMA BatchMessage ==
  ASSUME NEW kind, NEW ids, NEW item, IsBatch(kind, ids, item)
  PROVE  LET items == [i \in DOMAIN ids |-> item[ids[i]]]
             m == [kind |-> kind, items |-> items]
         IN  /\ IsMessage(m) /\ m.kind = kind /\ m.items = items /\ Listed(items) = ToSet(ids)
             /\ \A r \in ToSet(ids) : ItemOf(items, r) = item[r]
<1> DEFINE items == [i \in DOMAIN ids |-> item[ids[i]]]
           m == [kind |-> kind, items |-> items]
<1>7. /\ ids \in Seq(Reqs) /\ IsInjective(ids) /\ kind \in {"Prefill", "Decode"}
      /\ \A r \in Reqs : item[r].r = r
      /\ kind = "Prefill" => \A r \in ToSet(ids) :
           /\ item[r] = [r |-> item[r].r, len |-> item[r].len, from |-> item[r].from, take |-> item[r].take]
           /\ item[r].len \in Nat \ {0} /\ item[r].from \in Nat /\ item[r].take \in Nat \ {0}
      /\ kind = "Decode" => \A r \in ToSet(ids) : item[r].take = 1
  BY DEF IsBatch
<1>1. \A i \in DOMAIN ids : ids[i] \in ToSet(ids) /\ ids[i] \in Reqs
  <2>1. DOMAIN ids = 1 .. Len(ids)
    BY <1>7, LenProperties
  <2> QED
    BY <1>7, <2>1, ElementOfSeq DEF ToSet
<1>2. m.kind = kind /\ m.items = items /\ m = [kind |-> m.kind, items |-> m.items]
  OBVIOUS
<1>3. /\ DOMAIN items = DOMAIN ids /\ items = [i \in DOMAIN items |-> items[i]]
      /\ \A i \in DOMAIN ids : items[i] = item[ids[i]] /\ items[i].r = ids[i]
  BY <1>1, <1>7
<1> HIDE DEF items, m
<1>4. IsMessage(m)
  <2>1. \A i \in DOMAIN items : items[i].r \in Reqs
    BY <1>1, <1>3
  <2>2. \A i, j \in DOMAIN items : items[i].r = items[j].r => i = j
    BY <1>3, <1>7 DEF IsInjective
  <2>3. ASSUME kind = "Prefill", NEW i \in DOMAIN items, NEW it, it = items[i]
        PROVE  /\ it = [r |-> it.r, len |-> it.len, from |-> it.from, take |-> it.take]
               /\ it.len \in Nat \ {0} /\ it.from \in Nat /\ it.take \in Nat \ {0}
    <3>1. it = item[ids[i]] /\ ids[i] \in ToSet(ids)
      BY <1>1, <1>3, <2>3
    <3>2. \A r \in ToSet(ids) : \A x : x = item[r] =>
            /\ x = [r |-> x.r, len |-> x.len, from |-> x.from, take |-> x.take]
            /\ x.len \in Nat \ {0} /\ x.from \in Nat /\ x.take \in Nat \ {0}
      BY <1>7, <2>3
    <3> QED
      BY <3>1, <3>2
  <2>4. kind = "Decode" => \A i \in DOMAIN items : items[i].take = 1
    BY <1>1, <1>3, <1>7
  <2> QED
    BY <1>2, <1>3, <1>7, <2>1, <2>2, <2>3, <2>4 DEF IsMessage
<1>5. Listed(items) = ToSet(ids)
  BY <1>3 DEF Listed, ToSet
<1>6. ASSUME NEW r \in ToSet(ids) PROVE ItemOf(items, r) = item[r]
  <2>1. PICK i \in DOMAIN ids : r = ids[i]
    BY DEF ToSet
  <2>2. i \in DOMAIN m.items /\ m.items[i].r = r /\ m.items[i] = item[r]
    BY <1>2, <1>3, <2>1
  <2>3. ItemOf(m.items, m.items[i].r) = m.items[i]
    BY <1>4, <2>2, ItemFacts
  <2> QED
    BY <1>2, <2>2, <2>3
<1> QED
  BY <1>2, <1>4, <1>5, <1>6 DEF items, m

LEMMA StepPrefillStep ==
  ASSUME IInv, StepPrefill
  PROVE  IInv'
<1> USE DEF IInv
<1> DEFINE ids == batch.ids
           take == batch.take
           item == [r \in Reqs |-> [r |-> r, len |-> task[r].len, from |-> task[r].consumed, take |-> take[r]]]
           items == [i \in DOMAIN ids |-> item[ids[i]]]
           m == [kind |-> "Prefill", items |-> items]
           t == [r \in Reqs |-> IF r \in ToSet(ids) THEN ConsumeReqTokens(task[r], take[r]) ELSE task[r]]
           l == Grown(Main, items)
<1>1. /\ pc = "step" /\ pc' = "poll" /\ batch.kind = "Prefill"
      /\ UNCHANGED <<args, submitted, idList, freeGroups, waitingOf, batch, at, unwaited>>
  BY DEF StepPrefill
<1>2. /\ ids \in Seq(Reqs) /\ IsInjective(ids) /\ ToSet(ids) \subseteq submitted
      /\ \A r \in ToSet(ids) : /\ r \in ToSet(idList) /\ ~task[r].waiting
                               /\ task[r].type = "Prefill" /\ take[r] \in Nat \ {0}
                               /\ task[r].consumed + take[r] <= task[r].len
  BY <1>1 DEF BatchFits
<1>3. \A i \in DOMAIN ids : ids[i] \in Reqs
  <2>1. DOMAIN ids = 1 .. Len(ids)
    BY <1>2, LenProperties
  <2> QED
    BY <1>2, <2>1, ElementOfSeq
<1>4. \A r \in ToSet(ids) : r \in Reqs
  BY <1>3 DEF ToSet
<1>5. Feed("Prefill", items)
  <2>1. Feed("Prefill", [i \in DOMAIN ids |-> PrefillItem(ids[i], task[ids[i]], take[ids[i]])])
    BY DEF StepPrefill, Mapped
  <2>2. [i \in DOMAIN ids |-> PrefillItem(ids[i], task[ids[i]], take[ids[i]])] = items
    BY <1>3 DEF PrefillItem
  <2> HIDE DEF items
  <2> QED
    BY <2>1, <2>2
<1>6. Await(t, Outputs)
  BY DEF StepPrefill
<1>7. \A r \in Reqs : /\ IsTask(task[r]) /\ task[r].len \in Nat \ {0} /\ task[r].consumed \in Nat
  BY DEF MainTypes, IsTask
<1> HIDE DEF ids, take
<1>8. \A r \in Reqs : /\ item[r].r = r /\ item[r].len = task[r].len /\ item[r].from = task[r].consumed
                      /\ item[r].take = take[r]
                      /\ item[r] = [r |-> item[r].r, len |-> item[r].len, from |-> item[r].from,
                                    take |-> item[r].take]
  OBVIOUS
<1> HIDE DEF item
<1>9. /\ IsMessage(m) /\ m.kind = "Prefill" /\ m.items = items /\ Listed(items) = ToSet(ids)
      /\ \A r \in ToSet(ids) : ItemOf(items, r) = item[r]
  <2>1. \A r \in ToSet(ids) :
          /\ item[r] = [r |-> item[r].r, len |-> item[r].len, from |-> item[r].from, take |-> item[r].take]
          /\ item[r].len \in Nat \ {0} /\ item[r].from \in Nat /\ item[r].take \in Nat \ {0}
    BY <1>2, <1>4, <1>7, <1>8
  <2>2. \A r \in Reqs : item[r].r = r
    BY <1>8
  <2>3. IsBatch("Prefill", ids, item)
    BY <1>2, <2>1, <2>2 DEF IsBatch
  <2> QED
    BY <2>3, BatchMessage
<1>10. /\ meta' = [meta EXCEPT ![Main + 1] = Append(@, m)]
       /\ kv' = [kv EXCEPT ![Main] = l] /\ copy' = copy
  BY <1>5 DEF Feed, Send
<1>11. \A r \in Reqs : t[r] = IF r \in ToSet(ids) THEN ConsumeReqTokens(task[r], take[r]) ELSE task[r]
  OBVIOUS
<1> HIDE DEF items, m, t
<1>12. ASSUME NEW r \in Reqs
       PROVE  /\ IsTask(t[r]) /\ t[r].waiting = task[r].waiting /\ t[r].group = task[r].group
              /\ t[r].len = task[r].len
              /\ r \in ToSet(ids) => /\ t[r].consumed = task[r].consumed + take[r]
                                     /\ t[r].type = IF task[r].consumed + take[r] >= task[r].len
                                                    THEN "Decode" ELSE "Prefill"
              /\ r \notin ToSet(ids) => t[r] = task[r]
  <2>1. CASE r \in ToSet(ids)
    <3> DEFINE u == ConsumeReqTokens(task[r], take[r])
    <3>1. t[r] = u
      BY <1>11, <2>1
    <3>2. take[r] \in Nat /\ task[r].type = "Prefill" /\ IsTask(task[r])
      BY <1>2, <1>7, <2>1
    <3>3. /\ IsTask(u) /\ u.consumed = task[r].consumed + take[r] /\ u.len = task[r].len
          /\ u.waiting = task[r].waiting /\ u.group = task[r].group
          /\ u.type = IF task[r].consumed + take[r] >= task[r].len THEN "Decode" ELSE "Prefill"
      BY <3>2, TaskFed
    <3> HIDE DEF u
    <3> QED
      BY <2>1, <3>1, <3>3
  <2>2. CASE r \notin ToSet(ids)
    BY <1>7, <1>11, <2>2
  <2> QED
    BY <2>1, <2>2
<1>13. /\ Outputs \in Seq(Reqs) /\ ToSet(Outputs) \subseteq ToSet(ids)
       /\ \A r \in ToSet(Outputs) : HasOutput(task[r], take[r])
  <2> DEFINE S == {r \in Reqs : HasOutput(task[r], take[r])}
  <2>1. Outputs = Filtered(ids, S)
    BY DEF Outputs, ids, take
  <2>2. \A r \in S : HasOutput(task[r], take[r])
    OBVIOUS
  <2> HIDE DEF S
  <2> QED
    BY <1>2, <2>1, <2>2, FilteredFacts
<1>14. \A r \in ToSet(Outputs) : t[r].type = "Decode"
  BY <1>2, <1>4, <1>12, <1>13 DEF HasOutput
<1>15. /\ MainTypes' /\ UnderWay' /\ BatchFits' /\ Accounts'
       /\ \A r \in Reqs : /\ task'[r].type = t[r].type /\ task'[r].len = t[r].len
                          /\ task'[r].consumed = t[r].consumed
  <2>1. \A r \in Reqs : /\ IsTask(t[r])
                        /\ t[r].waiting = task[r].waiting /\ t[r].group = task[r].group
                        /\ task[r].type = "Decode" => t[r].type = "Decode"
    BY <1>2, <1>12
  <2>2. ToSet(Outputs) \subseteq ToSet(batch.ids)
    BY <1>13 DEF ids
  <2> QED
    BY <1>1, <1>6, <1>13, <1>14, <2>1, <2>2, Awaited
<1>16. /\ Main \in Nodes /\ kv[Main] \in [Reqs -> Nat]
  BY StagesAssumption DEF Main, Nodes, StageTypes
<1>17. \A r \in Reqs : l[r] = IF r \in ToSet(ids) THEN kv[Main][r] + take[r] ELSE kv[Main][r]
  BY <1>8, <1>9 DEF Grown
<1>18. l \in [Reqs -> Nat]
  <2>1. \A r \in Reqs : l[r] \in Nat
    BY <1>2, <1>16, <1>17
  <2>2. l = [r \in Reqs |-> l[r]]
    BY DEF Grown
  <2> HIDE DEF l
  <2> QED
    BY <2>1, <2>2
<1> HIDE DEF l
<1>19. \A r \in Reqs : kv'[Main][r] = l[r]
  BY <1>10, <1>16 DEF StageTypes
<1>20. ASSUME NEW z \in States, \A r \in Reqs : InStep(r, z[r])
       PROVE  /\ Fits(z, m)
              /\ \A r \in Reqs : \A s : s = After(z, m)[r] => InStep(r, s)'
  <2>1. \A r \in ToSet(ids) :
          /\ task[r].consumed = z[r].kv /\ task[r].consumed < task[r].len
          /\ IF task[r].consumed = 0 THEN z[r].type = "none"
             ELSE z[r].type = "Prefill" /\ z[r].len = task[r].len
    BY <1>2, <1>4, <1>20 DEF InStep
  <2>2. Fits(z, m)
    <3>1. ASSUME NEW r \in ToSet(ids), NEW it, it = item[r]
          PROVE  IF it.from = 0 THEN z[r].type = "none"
                 ELSE z[r].type = "Prefill" /\ z[r].len = it.len
      <4>1. it.from = task[r].consumed /\ it.len = task[r].len
        BY <1>4, <1>8, <3>1
      <4> QED
        BY <2>1, <4>1
    <3>2. \A r \in ToSet(ids) :
            LET it == ItemOf(items, r)
            IN  IF it.from = 0 THEN z[r].type = "none"
                ELSE z[r].type = "Prefill" /\ z[r].len = it.len
      BY <1>9, <3>1
    <3> QED
      BY <1>9, <3>2 DEF Fits
  <2>3. ASSUME NEW r \in Reqs, NEW s, s = After(z, m)[r]
        PROVE  InStep(r, s)'
    <3>1. InStep(r, z[r])
      BY <1>20
    <3>2. CASE r \in ToSet(ids)
      <4>1. s = Fed("Prefill", item[r], z[r])
        BY <1>9, <2>3, <3>2 DEF After
      <4>2. s = [type |-> IF task[r].consumed + take[r] >= task[r].len THEN "Decode" ELSE "Prefill",
                 len |-> task[r].len, kv |-> z[r].kv + take[r]]
        BY <1>8, <4>1 DEF Fed
      <4>3. /\ s.type = IF task[r].consumed + take[r] >= task[r].len THEN "Decode" ELSE "Prefill"
            /\ s.len = task[r].len /\ s.kv = z[r].kv + take[r]
        BY <4>2
      <4>4. z[r].kv = kv[Main][r] /\ kv'[Main][r] = kv[Main][r] + take[r]
        BY <1>17, <1>19, <3>1, <3>2 DEF InStep
      <4>5. /\ task'[r].type = s.type /\ task'[r].len = task[r].len
            /\ task'[r].consumed = task[r].consumed + take[r]
        BY <1>12, <1>15, <3>2, <4>3
      <4>6. r \in submitted' /\ take[r] \in Nat \ {0} /\ task[r].consumed = z[r].kv
        BY <1>1, <1>2, <2>1, <3>2
      <4> QED
        BY <1>7, <4>3, <4>4, <4>5, <4>6 DEF InStep
    <3>3. CASE r \notin ToSet(ids)
      <4>1. s = z[r]
        BY <1>9, <2>3, <3>3 DEF After
      <4>2. kv'[Main][r] = kv[Main][r]
        BY <1>17, <1>19, <3>3
      <4>3. task'[r].type = task[r].type /\ task'[r].len = task[r].len /\ task'[r].consumed = task[r].consumed
        BY <1>12, <1>15, <3>3
      <4> QED
        BY <1>1, <3>1, <4>1, <4>2, <4>3 DEF InStep
    <3> QED
      BY <3>2, <3>3
  <2> QED
    BY <2>2, <2>3
<1>21. StageTypes' /\ Agree'
  BY <1>9, <1>10, <1>18, <1>20, SendKeeps
<1> QED
  BY <1>15, <1>21

LEMMA StepDecodeStep ==
  ASSUME IInv, StepDecode
  PROVE  IInv'
<1> USE DEF IInv
<1> DEFINE ids == batch.ids
           item == [r \in Reqs |-> DecodeItem(r, task[r].next)]
           items == [i \in DOMAIN ids |-> item[ids[i]]]
           m == [kind |-> "Decode", items |-> items]
           l == Grown(Main, items)
<1>1. /\ pc = "step" /\ pc' = "poll" /\ batch.kind = "Decode"
      /\ Await(task, ids)
      /\ UNCHANGED <<args, submitted, idList, freeGroups, waitingOf, batch, at, unwaited>>
  BY DEF StepDecode
<1>2. /\ ids \in Seq(Reqs) /\ IsInjective(ids) /\ ToSet(ids) \subseteq submitted
      /\ \A r \in ToSet(ids) : task[r].type = "Decode"
  BY <1>1 DEF BatchFits
<1>3. \A i \in DOMAIN ids : ids[i] \in Reqs
  <2>1. DOMAIN ids = 1 .. Len(ids)
    BY <1>2, LenProperties
  <2> QED
    BY <1>2, <2>1, ElementOfSeq
<1>4. Feed("Decode", items)
  <2>1. Feed("Decode", [i \in DOMAIN ids |-> DecodeItem(ids[i], task[ids[i]].next)])
    BY DEF StepDecode, Mapped
  <2>2. [i \in DOMAIN ids |-> DecodeItem(ids[i], task[ids[i]].next)] = items
    BY <1>3
  <2> HIDE DEF items
  <2> QED
    BY <2>1, <2>2
<1>5. \A r \in Reqs : IsTask(task[r])
  BY DEF MainTypes
<1>6. \A r \in Reqs : item[r].r = r /\ item[r].take = 1
  BY DEF DecodeItem
<1>7. /\ meta' = [meta EXCEPT ![Main + 1] = Append(@, m)]
      /\ kv' = [kv EXCEPT ![Main] = l] /\ copy' = copy
  BY <1>4 DEF Feed, Send
<1>8. /\ MainTypes' /\ UnderWay' /\ BatchFits' /\ Accounts'
      /\ \A r \in Reqs : /\ task'[r].type = task[r].type /\ task'[r].len = task[r].len
                         /\ task'[r].consumed = task[r].consumed
  BY <1>1, <1>2, <1>5, Awaited
<1> HIDE DEF ids, item
<1>9. \A r \in ToSet(ids) : r \in Reqs
  BY <1>3 DEF ToSet
<1>10. /\ IsMessage(m) /\ m.kind = "Decode" /\ m.items = items /\ Listed(items) = ToSet(ids)
       /\ \A r \in ToSet(ids) : ItemOf(items, r) = item[r]
  <2>2. \A r \in ToSet(ids) : item[r].take = 1
    BY <1>6, <1>9
  <2>3. IsBatch("Decode", ids, item)
    BY <1>2, <1>6, <2>2 DEF IsBatch
  <2> QED
    BY <2>3, BatchMessage
<1> HIDE DEF items, m
<1>11. /\ Main \in Nodes /\ kv[Main] \in [Reqs -> Nat]
  BY StagesAssumption DEF Main, Nodes, StageTypes
<1>12. \A r \in Reqs : l[r] = IF r \in ToSet(ids) THEN kv[Main][r] + 1 ELSE kv[Main][r]
  BY <1>6, <1>10 DEF Grown
<1>13. l \in [Reqs -> Nat]
  <2>1. \A r \in Reqs : l[r] \in Nat
    BY <1>11, <1>12
  <2>2. l = [r \in Reqs |-> l[r]]
    BY DEF Grown
  <2> HIDE DEF l
  <2> QED
    BY <2>1, <2>2
<1> HIDE DEF l
<1>14. \A r \in Reqs : kv'[Main][r] = l[r]
  BY <1>7, <1>11 DEF StageTypes
<1>15. ASSUME NEW z \in States, \A r \in Reqs : InStep(r, z[r])
       PROVE  /\ Fits(z, m)
              /\ \A r \in Reqs : \A s : s = After(z, m)[r] => InStep(r, s)'
  <2>1. \A r \in ToSet(ids) : r \in ToSet(idList) => z[r].type = "Decode"
    BY <1>2, <1>9, <1>15 DEF InStep
  <2>2. Fits(z, m)
    <3>1. \A r \in ToSet(ids) : r \in ToSet(idList)
      BY <1>1 DEF BatchFits, ids
    <3> QED
      BY <1>10, <2>1, <3>1 DEF Fits
  <2>3. ASSUME NEW r \in Reqs, NEW s, s = After(z, m)[r]
        PROVE  InStep(r, s)'
    <3>1. InStep(r, z[r])
      BY <1>15
    <3>2. CASE r \in ToSet(ids)
      <4>1. s = Fed("Decode", item[r], z[r])
        BY <1>10, <2>3, <3>2 DEF After
      <4>2. s.type = z[r].type /\ s.kv = z[r].kv + 1
        BY <1>6, <4>1 DEF Fed
      <4>3. z[r].kv = kv[Main][r] /\ kv'[Main][r] = kv[Main][r] + 1
        BY <1>12, <1>14, <3>1, <3>2 DEF InStep
      <4>4. task'[r].type = "Decode" /\ r \in submitted'
        BY <1>1, <1>2, <1>8, <3>2
      <4>5. r \in ToSet(idList') => s.type = "Decode"
        BY <1>1, <2>1, <3>2, <4>2
      <4> QED
        BY <4>2, <4>3, <4>4, <4>5 DEF InStep
    <3>3. CASE r \notin ToSet(ids)
      <4>1. s = z[r]
        BY <1>10, <2>3, <3>3 DEF After
      <4>2. kv'[Main][r] = kv[Main][r]
        BY <1>12, <1>14, <3>3
      <4> QED
        BY <1>1, <1>8, <3>1, <4>1, <4>2 DEF InStep
    <3> QED
      BY <3>2, <3>3
  <2> QED
    BY <2>2, <2>3
<1>16. StageTypes' /\ Agree'
  BY <1>7, <1>10, <1>13, <1>15, SendKeeps
<1> QED
  BY <1>8, <1>16

-----------------------------------------------------------------------------
(* Results *)

LEMMA PollTakeStep ==
  ASSUME IInv, PollTake
  PROVE  IInv'
<1> USE DEF IInv
<1> DEFINE taken == [tasks |-> ongoing[at].tasks, outputs |-> ongoing[at].outputs, tokens |-> toMain[at]]
<1>1. /\ pc = "poll" /\ at <= Len(ongoing) /\ at' = at + 1
      /\ unwaited' = Append(unwaited, taken)
      /\ task' = [r \in Reqs |-> IF r \in ToSet(ongoing[at].tasks) THEN [task[r] EXCEPT !.waiting = FALSE]
                                                                   ELSE task[r]]
      /\ ongoing' = RemoveAt(ongoing, at)
      /\ UNCHANGED <<args, submitted, idList, freeGroups, waitingOf, batch, pc, copy, kv, meta>>
  BY DEF PollTake
<1>2. /\ IsSeq(ongoing) /\ IsSeq(unwaited)
      /\ \A i \in DOMAIN ongoing : /\ IsEntry(ongoing[i])
                                   /\ \A r \in ToSet(ongoing[i].tasks) : task[r].waiting
      /\ \A i, j \in DOMAIN ongoing : i # j =>
           ToSet(ongoing[i].tasks) \cap ToSet(ongoing[j].tasks) = {}
      /\ \A i \in DOMAIN unwaited : IsEntry(unwaited[i])
  BY DEF UnderWay
<1>3. at \in DOMAIN ongoing /\ at \in Nat \ {0}
  BY <1>1, <1>2, LenProperties DEF MainTypes, IsSeq
<1>4. PICK e : e = taken
  OBVIOUS
<1>5. e.tasks = ongoing[at].tasks /\ e.outputs = ongoing[at].outputs
  BY <1>4
<1>6. unwaited' = Append(unwaited, e)
  BY <1>1, <1>4
<1> HIDE DEF taken
<1>7. /\ e.tasks \in Seq(Reqs) /\ e.outputs \in Seq(Reqs)
      /\ ToSet(e.tasks) \subseteq submitted /\ ToSet(e.outputs) \subseteq ToSet(e.tasks)
      /\ \A r \in ToSet(e.outputs) : task[r].type = "Decode"
      /\ \A r \in ToSet(e.tasks) : task[r].waiting
  BY <1>2, <1>3, <1>5 DEF IsEntry
<1>8. \A r \in ToSet(e.tasks) : r \in Reqs
  BY <1>7 DEF ToSet
<1>9. ASSUME NEW r \in Reqs
      PROVE  /\ IsTask(task'[r])
             /\ task'[r].type = task[r].type /\ task'[r].len = task[r].len
             /\ task'[r].consumed = task[r].consumed /\ task'[r].group = task[r].group
             /\ r \in ToSet(e.tasks) => task'[r].waiting = FALSE
             /\ r \notin ToSet(e.tasks) => task'[r].waiting = task[r].waiting
  <2>1. IsTask(task[r]) /\ FALSE \in BOOLEAN
    BY DEF MainTypes
  <2>2. CASE r \in ToSet(e.tasks)
    <3>1. task'[r] = [task[r] EXCEPT !.waiting = FALSE]
      BY <1>1, <1>5, <2>2
    <3>2. /\ IsTask([task[r] EXCEPT !.waiting = FALSE])
          /\ [task[r] EXCEPT !.waiting = FALSE].type = task[r].type
          /\ [task[r] EXCEPT !.waiting = FALSE].len = task[r].len
          /\ [task[r] EXCEPT !.waiting = FALSE].consumed = task[r].consumed
          /\ [task[r] EXCEPT !.waiting = FALSE].waiting = FALSE
          /\ [task[r] EXCEPT !.waiting = FALSE].group = task[r].group
      BY <2>1, TaskWith
    <3> QED
      BY <2>2, <3>1, <3>2
  <2>3. CASE r \notin ToSet(e.tasks)
    BY <1>1, <1>5, <2>1, <2>3
  <2> QED
    BY <2>2, <2>3
<1>10. MainTypes'
  <2>1. task' = [r \in Reqs |-> task'[r]]
    BY <1>1
  <2>2. (\A r \in Reqs : IsTask(task[r]))'
    BY <1>9 DEF IsTask
  <2>3. at' \in Nat \ {0}
    BY <1>1, <1>3
  <2> QED
    BY <1>1, <2>1, <2>2, <2>3 DEF MainTypes
<1>11. ASSUME NEW f, IsEntry(f) PROVE IsEntry(f)' /\ \A r \in ToSet(f.tasks) : r \in Reqs
  <2>1. /\ f.tasks \in Seq(Reqs) /\ f.outputs \in Seq(Reqs)
        /\ ToSet(f.tasks) \subseteq submitted /\ ToSet(f.outputs) \subseteq ToSet(f.tasks)
        /\ \A r \in ToSet(f.outputs) : task[r].type = "Decode"
    BY <1>11 DEF IsEntry
  <2>2. \A r \in ToSet(f.tasks) : r \in Reqs
    BY <2>1 DEF ToSet
  <2> QED
    BY <1>1, <1>9, <2>1, <2>2 DEF IsEntry
<1>12. IsEntry(e)'
  <2>1. IsEntry(e)
    BY <1>7 DEF IsEntry
  <2> QED
    BY <1>11, <2>1
<1> DEFINE n == Len(ongoing)
           old(j) == IF j < at THEN j ELSE j + 1
<1>13. /\ IsSeq(ongoing') /\ DOMAIN ongoing = 1 .. n /\ n \in Nat /\ DOMAIN ongoing' = 1 .. n - 1
       /\ \A j \in 1 .. n - 1 : ongoing'[j] = IF j < at THEN ongoing[j] ELSE ongoing[j + 1]
  BY <1>1, <1>2, <1>3, RemoveAtFacts
<1> HIDE DEF n
<1>14. ASSUME NEW j \in DOMAIN ongoing'
       PROVE  old(j) \in DOMAIN ongoing /\ old(j) # at /\ ongoing'[j] = ongoing[old(j)]
  <2>1. j \in 1 .. n - 1 /\ at \in 1 .. n
    BY <1>3, <1>13
  <2>2. CASE j < at
    BY <1>13, <2>1, <2>2
  <2>3. CASE ~(j < at)
    BY <1>13, <2>1, <2>3
  <2> QED
    BY <2>2, <2>3
<1>15. \A i, j \in DOMAIN ongoing' : i # j => old(i) # old(j)
  BY <1>3, <1>13
<1> HIDE DEF old
<1>16. UnderWay'
  <2>1. ASSUME NEW j \in DOMAIN ongoing', NEW f, f = ongoing'[j]
        PROVE  IsEntry(f)' /\ \A r \in ToSet(f.tasks) : task'[r].waiting
    <3>1. old(j) \in DOMAIN ongoing /\ old(j) # at /\ f = ongoing[old(j)]
      BY <1>14, <2>1
    <3>2. IsEntry(f) /\ \A r \in ToSet(f.tasks) : task[r].waiting
      BY <1>2, <3>1
    <3>3. IsEntry(f)' /\ \A r \in ToSet(f.tasks) : r \in Reqs
      BY <1>11, <3>2
    <3>4. ToSet(f.tasks) \cap ToSet(e.tasks) = {}
      BY <1>2, <1>3, <1>5, <3>1
    <3>5. \A r \in ToSet(f.tasks) : task'[r].waiting = task[r].waiting
      BY <1>9, <3>3, <3>4
    <3> QED
      BY <3>2, <3>3, <3>5
  <2>2. \A i, j \in DOMAIN ongoing' : i # j =>
          ToSet(ongoing'[i].tasks) \cap ToSet(ongoing'[j].tasks) = {}
    BY <1>2, <1>14, <1>15
  <2>3. /\ IsSeq(unwaited')
        /\ \A i \in DOMAIN unwaited' : (i \in DOMAIN unwaited /\ unwaited'[i] = unwaited[i]) \/ unwaited'[i] = e
    <3> DEFINE k == Len(unwaited)
    <3>1. /\ IsSeq(unwaited') /\ DOMAIN unwaited = 1 .. k /\ k \in Nat /\ DOMAIN unwaited' = 1 .. k + 1
          /\ \A i \in 1 .. k : unwaited'[i] = unwaited[i]
          /\ unwaited'[k + 1] = e
      BY <1>2, <1>6, IsSeqAppend
    <3> HIDE DEF k
    <3>2. \A i \in 1 .. k + 1 : i \in 1 .. k \/ i = k + 1
      BY <3>1
    <3> QED
      BY <3>1, <3>2
  <2>4. \A i \in DOMAIN unwaited' : \A f : f = unwaited'[i] => IsEntry(f)'
    <3>1. \A i \in DOMAIN unwaited : \A f : f = unwaited[i] => IsEntry(f)'
      BY <1>2, <1>11
    <3>2. \A f : f = e => IsEntry(f)'
      BY <1>12
    <3> QED
      BY <2>3, <3>1, <3>2
  <2>5. (\A i \in DOMAIN ongoing : /\ IsEntry(ongoing[i])
                                   /\ \A r \in ToSet(ongoing[i].tasks) : task[r].waiting)'
    BY <2>1 DEF IsEntry
  <2>6. (\A i \in DOMAIN unwaited : IsEntry(unwaited[i]))'
    BY <2>4 DEF IsEntry
  <2>7. IsSeq(ongoing)' /\ IsSeq(unwaited)'
    BY <1>13, <2>3 DEF IsSeq
  <2> QED
    BY <2>2, <2>5, <2>6, <2>7 DEF UnderWay
<1>17. BatchFits'
  BY <1>1 DEF BatchFits
<1>18. Accounts'
  <2>1. \A r : r \in Updated' <=> r \in Updated \/ r \in ToSet(e.tasks)
    <3> DEFINE k == Len(unwaited)
    <3>1. /\ DOMAIN unwaited = 1 .. k /\ k \in Nat /\ DOMAIN unwaited' = 1 .. k + 1
          /\ \A i \in 1 .. k : unwaited'[i] = unwaited[i]
          /\ unwaited'[k + 1] = e
      BY <1>2, <1>6, IsSeqAppend
    <3> HIDE DEF k
    <3>2. (\A i \in 1 .. k + 1 : i \in 1 .. k \/ i = k + 1) /\ (\A i \in 1 .. k : i \in 1 .. k + 1)
          /\ k + 1 \in 1 .. k + 1
      BY <3>1
    <3>3. /\ \A r : r \in Updated <=> \/ r \in ToSet(batch.ids)
                                      \/ \E i \in DOMAIN unwaited : r \in ToSet(unwaited[i].tasks)
          /\ \A r : r \in Updated' <=> \/ r \in ToSet(batch'.ids)
                                       \/ \E i \in DOMAIN unwaited' : r \in ToSet(unwaited'[i].tasks)
      BY DEF Updated
    <3>4. \A r : (\E i \in DOMAIN unwaited' : r \in ToSet(unwaited'[i].tasks))
                 <=> (\E i \in DOMAIN unwaited : r \in ToSet(unwaited[i].tasks)) \/ r \in ToSet(e.tasks)
      BY <3>1, <3>2
    <3>5. batch' = batch
      BY <1>1
    <3> QED
      BY <3>3, <3>4, <3>5
  <2>2. \A r \in Reqs : /\ task'[r].group = task[r].group
                        /\ (task'[r].waiting \/ r \in Updated') <=> (task[r].waiting \/ r \in Updated)
    BY <1>7, <1>9, <2>1
  <2> QED
    BY <1>1, <2>2, AccountsKept
<1>19. Agree'
  <2>1. ASSUME NEW r \in Reqs, NEW t, InStep(r, t)
        PROVE  InStep(r, t)'
    BY <1>1, <1>9, <2>1, InStepKept
  <2> QED
    BY <1>1, <2>1, AgreeKept
<1>20. StageTypes'
  BY <1>1, StageTypesKept
<1> QED
  BY <1>10, <1>16, <1>17, <1>18, <1>19, <1>20

\* A task that is given a token.
WithToken(t, x, y) == [t EXCEPT !.next = x, !.numNew = y, !.len = t.len + 1]

LEMMA TaskGiven ==
  ASSUME NEW t, IsTask(t), NEW x, NEW y
  PROVE  LET u == WithToken(t, x, y)
         IN  /\ IsTask(u) /\ u.type = t.type /\ u.consumed = t.consumed
             /\ u.waiting = t.waiting /\ u.group = t.group
<1>1. PICK ty, len, consumed, next, numNew, status, waiting, group :
        /\ t = [type |-> ty, len |-> len, consumed |-> consumed, next |-> next,
                numNew |-> numNew, status |-> status, waiting |-> waiting, group |-> group]
        /\ ty \in Types /\ len \in Nat \ {0} /\ consumed \in Nat
        /\ waiting \in BOOLEAN /\ group \in Groups \cup {NoGroup}
  BY DEF IsTask
<1> DEFINE u == WithToken(t, x, y)
           old == [type |-> ty, len |-> len, consumed |-> consumed, next |-> next,
                   numNew |-> numNew, status |-> status, waiting |-> waiting, group |-> group]
<1>2. t.len = len
  BY <1>1
<1>3. u = [old EXCEPT !.next = x, !.numNew = y, !.len = len + 1]
  BY <1>1, <1>2 DEF WithToken
<1>4. \A a : [old EXCEPT !.next = x, !.numNew = y, !.len = a]
             = [[[old EXCEPT !.next = x] EXCEPT !.numNew = y] EXCEPT !.len = a]
  OBVIOUS
<1>5. [old EXCEPT !.next = x]
      = [type |-> ty, len |-> len, consumed |-> consumed, next |-> x,
         numNew |-> numNew, status |-> status, waiting |-> waiting, group |-> group]
  OBVIOUS
<1>6. [[type |-> ty, len |-> len, consumed |-> consumed, next |-> x,
         numNew |-> numNew, status |-> status, waiting |-> waiting, group |-> group] EXCEPT !.numNew = y]
      = [type |-> ty, len |-> len, consumed |-> consumed, next |-> x,
         numNew |-> y, status |-> status, waiting |-> waiting, group |-> group]
  OBVIOUS
<1>7. \A a : [[type |-> ty, len |-> len, consumed |-> consumed, next |-> x,
               numNew |-> y, status |-> status, waiting |-> waiting, group |-> group] EXCEPT !.len = a]
             = [type |-> ty, len |-> a, consumed |-> consumed, next |-> x,
                numNew |-> y, status |-> status, waiting |-> waiting, group |-> group]
  OBVIOUS
<1> HIDE DEF u, old
<1>8. u = [type |-> ty, len |-> len + 1, consumed |-> consumed, next |-> x,
           numNew |-> y, status |-> status, waiting |-> waiting, group |-> group]
  BY <1>3, <1>4, <1>5, <1>6, <1>7
<1>9. len + 1 \in Nat \ {0}
  BY <1>1
<1>10. /\ u.type = ty /\ u.len = len + 1 /\ u.consumed = consumed /\ u.waiting = waiting /\ u.group = group
       /\ u = [type |-> u.type, len |-> u.len, consumed |-> u.consumed, next |-> u.next,
               numNew |-> u.numNew, status |-> u.status, waiting |-> u.waiting, group |-> u.group]
  BY <1>8
<1>11. t.type = ty /\ t.consumed = consumed /\ t.waiting = waiting /\ t.group = group
  BY <1>1
<1>12. IsTask(u)
  BY <1>1, <1>9, <1>10 DEF IsTask
<1> QED
  BY <1>10, <1>11, <1>12 DEF u

\* The status of a task is all that update_decode_status changes.
LEMMA StatusOnly ==
  ASSUME NEW t, IsTask(t), NEW r
  PROVE  LET u == UpdateDecodeStatus(r, t)
         IN  /\ IsTask(u) /\ u.type = t.type /\ u.consumed = t.consumed /\ u.len = t.len
             /\ u.waiting = t.waiting /\ u.group = t.group
<1> DEFINE u == UpdateDecodeStatus(r, t)
<1>1. \E s : u = [t EXCEPT !.status = s] \/ u = t
  BY Zenon DEF UpdateDecodeStatus
<1>2. PICK ty, len, consumed, next, numNew, status, waiting, group :
        /\ t = [type |-> ty, len |-> len, consumed |-> consumed, next |-> next,
                numNew |-> numNew, status |-> status, waiting |-> waiting, group |-> group]
        /\ ty \in Types /\ len \in Nat \ {0} /\ consumed \in Nat
        /\ waiting \in BOOLEAN /\ group \in Groups \cup {NoGroup}
  BY DEF IsTask
<1>3. \A s : [t EXCEPT !.status = s]
             = [type |-> ty, len |-> len, consumed |-> consumed, next |-> next,
                numNew |-> numNew, status |-> s, waiting |-> waiting, group |-> group]
  BY <1>2
<1> HIDE DEF u
<1>4. PICK s : u = [type |-> ty, len |-> len, consumed |-> consumed, next |-> next,
                    numNew |-> numNew, status |-> s, waiting |-> waiting, group |-> group]
  BY <1>1, <1>2, <1>3
<1>5. /\ u.type = ty /\ u.len = len /\ u.consumed = consumed /\ u.waiting = waiting /\ u.group = group
      /\ u = [type |-> u.type, len |-> u.len, consumed |-> u.consumed, next |-> u.next,
              numNew |-> u.numNew, status |-> u.status, waiting |-> u.waiting, group |-> u.group]
  BY <1>4
<1>6. t.type = ty /\ t.len = len /\ t.consumed = consumed /\ t.waiting = waiting /\ t.group = group
  BY <1>2
<1>7. IsTask(u)
  BY <1>2, <1>5 DEF IsTask
<1> QED
  BY <1>5, <1>6, <1>7 DEF u

LEMMA UpdatedIs ==
  ASSUME UnderWay, BatchFits
  PROVE  /\ \A r : r \in Updated <=> \/ r \in ToSet(batch.ids)
                                     \/ \E i \in DOMAIN unwaited : r \in ToSet(unwaited[i].tasks)
         /\ \A r \in Updated : r \in submitted /\ r \in Reqs
<1>1. \A r : r \in Updated <=> \/ r \in ToSet(batch.ids)
                               \/ \E i \in DOMAIN unwaited : r \in ToSet(unwaited[i].tasks)
  BY DEF Updated
<1>2. \A r \in ToSet(batch.ids) : r \in submitted /\ r \in Reqs
  BY DEF BatchFits, ToSet
<1>3. ASSUME NEW i \in DOMAIN unwaited
      PROVE  \A r \in ToSet(unwaited[i].tasks) : r \in submitted /\ r \in Reqs
  <2>1. \A e : e = unwaited[i] => e.tasks \in Seq(Reqs) /\ ToSet(e.tasks) \subseteq submitted
    BY DEF UnderWay, IsEntry
  <2> QED
    BY <2>1 DEF ToSet
<1> QED
  BY <1>1, <1>2, <1>3

LEMMA RecordStep ==
  ASSUME IInv, Record
  PROVE  IInv'
<1> USE DEF IInv
<1> DEFINE entry(r) == CHOOSE e \in ToSet(unwaited) : r \in ToSet(e.tasks)
           done == UNION {ToSet(unwaited[i].tasks) : i \in DOMAIN unwaited}
           given(r) == Given(entry(r), r)
<1>1. /\ pc = "poll" /\ pc' = "update"
      /\ task' = [r \in Reqs |-> IF r \in done THEN UpdateDecodeStatus(r, given(r)) ELSE task[r]]
      /\ UNCHANGED <<args, submitted, idList, freeGroups, waitingOf, batch, ongoing, at, unwaited>>
      /\ copy' = copy /\ kv' = kv /\ meta' = meta
  BY Zenon DEF Record, stageVars
<1>2. ASSUME NEW r \in Reqs, r \in done
      PROVE  /\ IsTask(given(r))
             /\ given(r).type = task[r].type /\ given(r).consumed = task[r].consumed
             /\ given(r).waiting = task[r].waiting /\ given(r).group = task[r].group
             /\ task[r].type = "Decode" \/ given(r).len = task[r].len
  <2>1. \E e \in ToSet(unwaited) : r \in ToSet(e.tasks)
    BY <1>2 DEF ToSet
  <2>2. PICK e : e = entry(r)
    OBVIOUS
  <2>3. e \in ToSet(unwaited)
    BY <2>1, <2>2
  <2> HIDE DEF entry, done
  <2>4. IsEntry(e)
    BY <2>3 DEF UnderWay, ToSet
  <2>5. given(r) = Given(e, r)
    BY <2>2
  <2>6. IsTask(task[r])
    BY DEF MainTypes
  <2>7. CASE r \notin ToSet(e.outputs)
    <3>1. Given(e, r) = task[r]
      BY <2>7 DEF Given
    <3> HIDE DEF given
    <3> QED
      BY <2>5, <2>6, <3>1
  <2>8. CASE r \in ToSet(e.outputs)
    <3>4. PICK x : x = e.tokens[CHOOSE i \in DOMAIN e.outputs : e.outputs[i] = r]
      OBVIOUS
    <3>5. PICK y : y = task[r].numNew + 1
      OBVIOUS
    <3> DEFINE u == WithToken(task[r], x, y)
    <3>1. Given(e, r) = u
      BY <2>8, <3>4, <3>5 DEF Given, WithToken
    <3>2. task[r].type = "Decode"
      BY <2>4, <2>8 DEF IsEntry
    <3>3. /\ IsTask(u) /\ u.type = task[r].type /\ u.consumed = task[r].consumed
          /\ u.waiting = task[r].waiting /\ u.group = task[r].group
      BY <2>6, TaskGiven
    <3> HIDE DEF u, given
    <3> QED
      BY <2>5, <3>1, <3>2, <3>3
  <2> QED
    BY <2>7, <2>8
<1> HIDE DEF done, given
<1>3. ASSUME NEW r \in Reqs
      PROVE  /\ IsTask(task'[r])
             /\ task'[r].type = task[r].type /\ task'[r].consumed = task[r].consumed
             /\ task'[r].waiting = task[r].waiting /\ task'[r].group = task[r].group
             /\ task[r].type = "Decode" \/ task'[r].len = task[r].len
  <2>1. CASE r \in done
    <3> DEFINE u == UpdateDecodeStatus(r, given(r))
    <3>1. task'[r] = u
      BY <1>1, <2>1
    <3>2. IsTask(given(r))
      BY <1>2, <2>1
    <3>3. /\ IsTask(u) /\ u.type = given(r).type /\ u.consumed = given(r).consumed
          /\ u.len = given(r).len /\ u.waiting = given(r).waiting /\ u.group = given(r).group
      BY <3>2, StatusOnly
    <3> HIDE DEF u
    <3> QED
      BY <1>2, <2>1, <3>1, <3>3
  <2>2. CASE r \notin done
    <3>1. task'[r] = task[r]
      BY <1>1, <2>2
    <3> QED
      BY <3>1 DEF MainTypes
  <2> QED
    BY <2>1, <2>2
<1>4. MainTypes'
  <2>1. task' = [r \in Reqs |-> task'[r]]
    BY <1>1
  <2>2. (\A r \in Reqs : IsTask(task[r]))'
    BY <1>3 DEF IsTask
  <2> QED
    BY <1>1, <2>1, <2>2 DEF MainTypes
<1>5. UnderWay'
  BY <1>1, <1>3, UnderWayKept
<1>6. BatchFits'
  BY <1>1 DEF BatchFits
<1>7. Accounts'
  <2>1. Updated' = Updated
    BY <1>1 DEF Updated
  <2> QED
    BY <1>1, <1>3, <2>1, AccountsKept
<1>8. Agree'
  <2>1. ASSUME NEW r \in Reqs, NEW t, InStep(r, t)
        PROVE  InStep(r, t)'
    BY <1>1, <1>3, <2>1, InStepKept
  <2> QED
    BY <1>1, <2>1, AgreeKept
<1>9. StageTypes'
  BY <1>1, StageTypesKept
<1> QED
  BY <1>4, <1>5, <1>6, <1>7, <1>8, <1>9

-----------------------------------------------------------------------------
(* Scheduler.update *)

LEMMA UpdateStep ==
  ASSUME IInv, Update
  PROVE  IInv'
<1> USE DEF IInv
<1> DEFINE left == [g \in Groups |-> waitingOf[g] \ {r \in Leaving : task[r].group = g}]
           ended == {r \in Removed : task[r].type = "Decode"}
           ids == SetToSeq(ended)
           l == [r \in Reqs |-> IF r \in ended THEN 0 ELSE kv[Main][r]]
<1>1. /\ pc = "update" /\ pc' = "schedule"
      /\ waitingOf' = left /\ freeGroups' = freeGroups \o Freed(left)
      /\ idList' = Filtered(idList, Reqs \ Removed)
      /\ task' = [r \in Reqs |-> IF r \in Removed THEN NewTask(r) ELSE task[r]]
      /\ batch' = NoBatch /\ unwaited' = <<>> /\ at' = 1
      /\ UNCHANGED <<args, submitted, ongoing, copy>>
  BY DEF Update
<1>2. \A r \in Updated : r \in submitted /\ r \in Reqs
  BY UpdatedIs
<1>3. /\ \A r \in Removed : r \in Updated /\ ~task[r].waiting
      /\ \A r : r \in Leaving <=> r \in Updated /\ ~task[r].waiting /\ task[r].group # NoGroup
  BY DEF Removed, Leaving
<1>4. ids \in Seq(Reqs) /\ IsInjective(ids) /\ ToSet(ids) = ended
  <2>1. ended \in SUBSET Reqs
    BY <1>2, <1>3
  <2> HIDE DEF ended
  <2> QED
    BY <2>1, SetToSeqFacts
<1>5. RemovedDecode = ids
  BY DEF RemovedDecode
<1>6. /\ kv' = [kv EXCEPT ![Main] = l]
      /\ IF ids = <<>> THEN meta' = meta
         ELSE meta' = [meta EXCEPT ![Main + 1] = Append(@, EndMessage(ids))]
  <2>1. kv' = [kv EXCEPT ![Main] = [r \in Reqs |-> IF r \in ToSet(RemovedDecode) THEN 0 ELSE kv[Main][r]]]
    BY DEF Update
  <2>2. IF RemovedDecode = <<>> THEN meta' = meta
        ELSE meta' = [meta EXCEPT ![Main + 1] = Append(@, EndMessage(RemovedDecode))]
    BY DEF Update, Send, EndMessage
  <2> HIDE DEF ids, ended
  <2> QED
    BY <1>4, <1>5, <2>1, <2>2
<1>7. \A r \in Reqs : task'[r] = IF r \in Removed THEN NewTask(r) ELSE task[r]
  BY <1>1
<1>8. ended = {r \in Removed : task[r].type = "Decode"}
  OBVIOUS
<1> HIDE DEF ids, ended
<1>9. args \in Configs /\ \A r \in Reqs : IsTask(task[r])
  BY DEF MainTypes
<1>10. ASSUME NEW r \in Reqs
       PROVE  /\ IsTask(task'[r])
              /\ r \in Removed => /\ task'[r].type = "Prefill" /\ task'[r].consumed = 0
                                  /\ task'[r].group = NoGroup /\ task'[r].waiting = FALSE
              /\ r \notin Removed => task'[r] = task[r]
  <2>1. CASE r \in Removed
    <3>1. task'[r] = NewTask(r)
      BY <1>7, <2>1
    <3> QED
      BY <1>9, <2>1, <3>1, NewTaskType
  <2>2. CASE r \notin Removed
    BY <1>7, <1>9, <2>2
  <2> QED
    BY <2>1, <2>2
<1>11. /\ idList' \in Seq(Reqs) /\ IsInjective(idList')
       /\ ToSet(idList') = {r \in ToSet(idList) : r \in Reqs \ Removed}
  BY <1>1, FilteredFacts DEF MainTypes
<1>12. \A g \in Groups : g # NoGroup
  BY StagesAssumption DEF Groups, NoGroup
<1>13. waitingOf' \in [Groups -> SUBSET Reqs]
  BY <1>1 DEF MainTypes
<1>14. \A g \in Groups : left[g] = {r \in Reqs : task[r].group = g /\ task[r].waiting}
  <2> TAKE g \in Groups
  <2>1. waitingOf[g] = {r \in Reqs : task[r].group = g /\ (task[r].waiting \/ r \in Updated)}
    BY <1>1 DEF Accounts
  <2>2. left[g] = waitingOf[g] \ {r \in Leaving : task[r].group = g}
    OBVIOUS
  <2> HIDE DEF left
  <2> QED
    BY <1>3, <1>12, <2>1, <2>2
<1>15. \A g \in Groups : left[g] = {r \in Reqs : task'[r].group = g /\ task'[r].waiting}
  <2> TAKE g \in Groups
  <2>1. \A r \in Reqs : task'[r].group = g /\ task'[r].waiting <=> task[r].group = g /\ task[r].waiting
    BY <1>3, <1>10, <1>12
  <2> HIDE DEF left
  <2> QED
    BY <1>14, <2>1
<1>16. \A g \in Groups : g \in ToSet(freeGroups) => left[g] = {}
  BY <1>1 DEF Accounts
<1> HIDE DEF left
<1>17. /\ UsedGroups \in Seq(Groups) /\ IsInjective(UsedGroups)
       /\ ToSet(UsedGroups) = {g \in Groups : g \notin ToSet(freeGroups)}
  <2> DEFINE all == [g \in 1 .. LastStage + 1 |-> g - 1]
  <2>1. all \in Seq(Groups) /\ IsInjective(all) /\ ToSet(all) = Groups
    BY GroupsInOrder
  <2>2. UsedGroups = Filtered(all, Groups \ ToSet(freeGroups))
    BY DEF UsedGroups
  <2> HIDE DEF all
  <2> QED
    BY <2>1, <2>2, FilteredFacts
<1>18. /\ Freed(left) \in Seq(Groups) /\ IsInjective(Freed(left))
       /\ ToSet(Freed(left)) = {g \in Groups : g \notin ToSet(freeGroups) /\ left[g] = {}}
  <2> DEFINE S == {g \in Groups : left[g] = {}}
  <2>1. Freed(left) = Filtered(UsedGroups, S)
    BY DEF Freed
  <2>2. Filtered(UsedGroups, S) \in Seq(Groups) /\ IsInjective(Filtered(UsedGroups, S))
        /\ ToSet(Filtered(UsedGroups, S)) = {g \in ToSet(UsedGroups) : g \in S}
    <3> HIDE DEF S
    <3> QED
      BY <1>17, FilteredFacts
  <2> QED
    BY <1>17, <2>1, <2>2
<1>19. /\ freeGroups \in Seq(Groups) /\ IsInjective(freeGroups)
       /\ freeGroups' \in Seq(Groups) /\ IsInjective(freeGroups')
       /\ ToSet(freeGroups') = ToSet(freeGroups) \cup ToSet(Freed(left))
  <2>1. freeGroups \in Seq(Groups) /\ IsInjective(freeGroups)
    BY DEF MainTypes
  <2>2. ToSet(freeGroups) \cap ToSet(Freed(left)) = {}
    BY <1>18
  <2> QED
    BY <1>1, <1>18, <2>1, <2>2, ConcatFacts
<1>20. MainTypes'
  <2>1. task' = [r \in Reqs |-> task'[r]]
    BY <1>1
  <2>2. (\A r \in Reqs : IsTask(task[r]))'
    BY <1>10 DEF IsTask
  <2>3. ToSet(idList') \subseteq submitted'
    BY <1>1, <1>11 DEF MainTypes
  <2>4. pc' = "schedule" /\ at' \in Nat \ {0} /\ args' \in Configs /\ submitted' \in SUBSET Reqs
    BY <1>1 DEF MainTypes
  <2> QED
    BY <1>11, <1>13, <1>19, <2>1, <2>2, <2>3, <2>4 DEF MainTypes
<1>21. UnderWay'
  <2>1. \A r \in Reqs : task[r].waiting => task'[r] = task[r]
    BY <1>3, <1>10
  <2> QED
    BY <1>1, <2>1, UnderWayKept
<1>22. BatchFits'
  BY <1>1, EmptySeq DEF BatchFits, NoBatch, ToSet
<1>23. Accounts'
  <2>1. Updated' = {}
    BY <1>1 DEF Updated, NoBatch, ToSet
  <2>2. \A g \in Groups : waitingOf'[g] = left[g]
    BY <1>1
  <2>3. \A g \in Groups :
          /\ waitingOf'[g] = {r \in Reqs : task'[r].group = g /\ (task'[r].waiting \/ r \in {})}
          /\ waitingOf'[g] = {} <=> g \in ToSet(freeGroups')
    BY <1>15, <1>16, <1>18, <1>19, <2>2
  <2>4. (\A g \in Groups :
          /\ waitingOf[g] = {r \in Reqs : task[r].group = g /\ (task[r].waiting \/ r \in Updated)}
          /\ waitingOf[g] = {} <=> g \in ToSet(freeGroups))'
    BY <2>1, <2>3
  <2> QED
    BY <2>4 DEF Accounts
<1>24. Main \in Nodes /\ kv[Main] \in [Reqs -> Nat] /\ kv \in [Nodes -> [Reqs -> Nat]]
  BY StagesAssumption DEF Main, Nodes, StageTypes
<1>25. \A r \in Reqs : l[r] = IF r \in ended THEN 0 ELSE kv[Main][r]
  OBVIOUS
<1>26. l \in [Reqs -> Nat]
  BY <1>24
<1> HIDE DEF l
<1>27. \A r \in Reqs : kv'[Main][r] = IF r \in ended THEN 0 ELSE kv[Main][r]
  BY <1>6, <1>24, <1>25
<1>28. ASSUME NEW r \in Reqs, NEW s, InStep(r, s), NEW t, t = IF r \in ended THEN Blank ELSE s
       PROVE  InStep(r, t)'
  <2>1. CASE r \in Removed
    <3>1. r \in submitted' /\ r \notin ToSet(idList')
      BY <1>1, <1>2, <1>3, <1>11, <2>1
    <3>2. t.kv = kv'[Main][r]
      BY <1>27, <1>28 DEF InStep, Blank
    <3> QED
      BY <3>1, <3>2 DEF InStep
  <2>2. CASE r \notin Removed
    <3>1. r \notin ended /\ t = s /\ kv'[Main][r] = kv[Main][r]
      BY <1>8, <1>27, <1>28, <2>2
    <3>2. task'[r] = task[r] /\ submitted' = submitted /\ (r \in ToSet(idList') => r \in ToSet(idList))
      BY <1>1, <1>10, <1>11, <2>2
    <3> QED
      BY <1>28, <3>1, <3>2 DEF InStep
  <2> QED
    BY <2>1, <2>2
<1>29. CASE ids = <<>>
  <2>1. ended = {}
    BY <1>4, <1>29 DEF ToSet
  <2>2. meta' = meta /\ copy' = copy
    BY <1>1, <1>6, <1>29
  <2>3. kv' = kv
    <3>1. l = kv[Main]
      <4>1. \A r \in Reqs : l[r] = kv[Main][r]
        BY <1>25, <2>1
      <4> QED
        BY <1>24, <1>26, <4>1
    <3> QED
      BY <1>6, <1>24, <3>1
  <2>4. ASSUME NEW r \in Reqs, NEW s, InStep(r, s) PROVE InStep(r, s)'
    BY <1>28, <2>1, <2>4
  <2>5. StageTypes' /\ Agree'
    BY <2>2, <2>3, <2>4, AgreeKept, StageTypesKept
  <2> QED
    BY <1>20, <1>21, <1>22, <1>23, <2>5
<1>30. CASE ids # <<>>
  <2> DEFINE m == EndMessage(ids)
  <2>1. meta' = [meta EXCEPT ![Main + 1] = Append(@, m)] /\ copy' = copy
    BY <1>1, <1>6, <1>30
  <2>2. \A z \in States : IsMessage(m) /\ Fits(z, m) /\ After(z, m) = Emptied(z, ended)
    BY <1>4, EndFacts
  <2>3. IsMessage(m)
    <3>1. \E z : z \in States
      BY LeadsTypes DEF Agree
    <3> QED
      BY <2>2, <3>1
  <2> HIDE DEF m
  <2>4. ASSUME NEW z \in States, \A r \in Reqs : InStep(r, z[r])
        PROVE  /\ Fits(z, m)
               /\ \A r \in Reqs : \A t : t = After(z, m)[r] => InStep(r, t)'
    <3>1. \A r \in Reqs : After(z, m)[r] = IF r \in ended THEN Blank ELSE z[r]
      BY <2>2 DEF Emptied
    <3> QED
      BY <1>28, <2>2, <2>4, <3>1
  <2>5. StageTypes' /\ Agree'
    BY <1>6, <1>26, <2>1, <2>3, <2>4, SendKeeps
  <2> QED
    BY <1>20, <1>21, <1>22, <1>23, <2>5
<1> QED
  BY <1>29, <1>30

-----------------------------------------------------------------------------
(* The theorems *)

LEMMA NextIInv == IInv /\ [Next]_vars => IInv'
<1> SUFFICES ASSUME IInv, [Next]_vars PROVE IInv'
  OBVIOUS
<1>1. CASE SchedulePrefill
  BY <1>1, SchedulePrefillStep
<1>2. CASE ScheduleDecode
  BY <1>2, ScheduleDecodeStep
<1>3. CASE DecodeTooLarge
  BY <1>3, DecodeTooLargeStep
<1>4. CASE PrefillTooLarge \/ ScheduleNothing \/ StepEmpty \/ Idle \/ PollSkip
  BY <1>4, QuietSteps
<1>5. CASE StepPrefill
  BY <1>5, StepPrefillStep
<1>6. CASE StepDecode
  BY <1>6, StepDecodeStep
<1>7. CASE PollTake
  BY <1>7, PollTakeStep
<1>8. CASE Record
  BY <1>8, RecordStep
<1>9. CASE Update
  BY <1>9, UpdateStep
<1>10. ASSUME NEW n \in Others, StageStep(n) PROVE IInv'
  BY <1>10, StageSteps
<1>11. ASSUME NEW r \in Reqs, Submit(r) PROVE IInv'
  BY <1>11, SubmitStep
<1>12. CASE UNCHANGED vars
  <2>1. UNCHANGED <<args, mainVars>> /\ UNCHANGED stageVars
    BY <1>12 DEF vars
  <2>2. /\ UNCHANGED <<args, submitted, idList, task, freeGroups, waitingOf, batch, ongoing, at, unwaited, pc>>
        /\ copy' = copy /\ kv' = kv /\ meta' = meta
    BY <2>1 DEF mainVars, stageVars
  <2>3. MainTypes'
    BY <2>2 DEF IInv, MainTypes, IsTask
  <2>4. UnderWay'
    BY <2>2, UnderWayKept DEF IInv
  <2>5. BatchFits' /\ Accounts'
    BY <2>2 DEF IInv, BatchFits, Accounts, Updated
  <2>6. ASSUME NEW r \in Reqs, NEW t, InStep(r, t) PROVE InStep(r, t)'
    BY <2>2, <2>6 DEF InStep
  <2>7. Agree' /\ StageTypes'
    BY <2>2, <2>6, AgreeKept, StageTypesKept DEF IInv
  <2> QED
    BY <2>3, <2>4, <2>5, <2>7 DEF IInv
<1> QED
  BY <1>1, <1>2, <1>3, <1>4, <1>5, <1>6, <1>7, <1>8, <1>9, <1>10, <1>11, <1>12 DEF Next, MainRank

\* IInv holds in every state the program reaches.
THEOREM Inductive == Spec => []IInv
<1>1. Init => IInv
  BY InitIInv
<1>2. IInv /\ [Next]_vars => IInv'
  BY NextIInv
<1> QED
  BY <1>1, <1>2, PTL DEF Spec

\* A sequence without repetitions is as long as what it holds.
LEMMA InjectiveLength ==
  ASSUME NEW T, NEW s \in Seq(T), IsInjective(s)
  PROVE  Cardinality(ToSet(s)) = Len(s)
<1>1. Len(s) \in Nat /\ DOMAIN s = 1 .. Len(s)
  BY LenProperties
<1>2. s \in Bijection(1 .. Len(s), ToSet(s))
  <2>1. s \in [1 .. Len(s) -> ToSet(s)]
    BY <1>1, LenProperties DEF ToSet
  <2>2. \A x \in ToSet(s) : \E i \in 1 .. Len(s) : s[i] = x
    BY <1>1 DEF ToSet
  <2>3. \A i, j \in 1 .. Len(s) : s[i] = s[j] => i = j
    BY <1>1 DEF IsInjective
  <2> QED
    BY <2>1, <2>2, <2>3 DEF Bijection, Injection, Surjection, IsInjective
<1>3. ExistsBijection(1 .. Len(s), ToSet(s))
  BY <1>2 DEF ExistsBijection
<1> QED
  BY <1>1, <1>3, FS_CountingElements, FS_NatBijection

LEMMA IInvAccounts == IInv => GroupsAccounted
<1> SUFFICES ASSUME IInv PROVE GroupsAccounted
  OBVIOUS
<1>1. Cardinality(ToSet(freeGroups)) = Len(freeGroups)
  BY InjectiveLength DEF IInv, MainTypes
<1>2. ASSUME pc = "schedule", NEW g \in Groups
      PROVE  /\ waitingOf[g] = {r \in Reqs : task[r].waiting /\ task[r].group = g}
             /\ waitingOf[g] = {} <=> g \in ToSet(freeGroups)
  <2>1. Updated = {}
    BY <1>2 DEF IInv, BatchFits, Updated, NoBatch, ToSet
  <2> QED
    BY <1>2, <2>1 DEF IInv, Accounts
<1>3. ASSUME pc = "update", NEW r \in Leaving PROVE r \in waitingOf[task[r].group]
  <2>1. r \in Updated /\ task[r].group # NoGroup
    BY DEF Leaving
  <2>2. r \in Reqs
    BY <2>1, UpdatedIs DEF IInv
  <2>3. task[r].group \in Groups
    BY <2>1, <2>2 DEF IInv, MainTypes, IsTask
  <2> QED
    BY <1>3, <2>1, <2>2, <2>3 DEF IInv, Accounts
<1>4. \A i, j \in DOMAIN ongoing : i # j => ToSet(ongoing[i].tasks) \cap ToSet(ongoing[j].tasks) = {}
  BY DEF IInv, UnderWay
<1> QED
  BY <1>1, <1>2, <1>3, <1>4 DEF GroupsAccounted

\* Slot groups count what has yet to come back (Pipeline.GroupsAccounted).
THEOREM GroupsKept == Spec => []GroupsAccounted
BY Inductive, IInvAccounts, PTL

LEMMA IInvStages == IInv => StagesInStep
<1> SUFFICES ASSUME IInv, NEW n \in Others
             PROVE  /\ \A r \in Reqs : KvAhead(n, r) = kv[n - 1][r]
                    /\ Received(n, "Decode") => \A r \in Listed(Items(n)) : copy[n][r].type = "Decode"
                    /\ Received(n, "Prefill") =>
                         \A r \in Listed(Items(n)) :
                           copy[n][r].type = IF ItemOf(Items(n), r).from = 0 THEN "none" ELSE "Prefill"
  BY DEF StagesInStep
<1>1. n \in Nat /\ (n = 1 \/ n > 1)
  BY StagesAssumption DEF Others, Nodes, Main
<1>2. PICK z : Leads(meta[n], Local(n), z) /\ \A r \in Reqs : z[r].kv = kv[n - 1][r]
  <2>1. CASE n = 1
    <3>1. PICK z \in States : Leads(meta[1], Local(1), z) /\ \A r \in Reqs : InStep(r, z[r])
      BY DEF IInv, Agree
    <3>2. n - 1 = Main
      BY <2>1 DEF Main
    <3> QED
      BY <2>1, <3>1, <3>2 DEF InStep
  <2>2. CASE n > 1
    <3>1. Leads(meta[n], Local(n), Local(n - 1))
      BY <2>2 DEF IInv, Agree
    <3>2. \A r \in Reqs : Local(n - 1)[r].kv = kv[n - 1][r]
      BY DEF Local
    <3> QED
      BY <3>1, <3>2
  <2> QED
    BY <1>1, <2>1, <2>2
<1>3. \A r \in Reqs : KvAhead(n, r) = kv[n - 1][r]
  BY <1>2, KvAheadIs
<1> DEFINE m == Head(meta[n])
<1>4. ASSUME meta[n] # <<>>, NEW r \in Listed(m.items)
      PROVE  /\ m.kind = "Decode" => copy[n][r].type = "Decode"
             /\ m.kind = "Prefill" =>
                  copy[n][r].type = IF ItemOf(m.items, r).from = 0 THEN "none" ELSE "Prefill"
  <2>1. IsMessage(m) /\ Fits(Local(n), m)
    BY <1>2, <1>4, LeadsTail
  <2>2. r \in Reqs
    BY <1>4, <2>1, ListedFacts
  <2>3. Local(n)[r].type = copy[n][r].type
    BY <2>2 DEF Local
  <2> HIDE DEF m
  <2> QED
    BY <1>4, <2>1, <2>3 DEF Fits
<1> QED
  BY <1>3, <1>4 DEF Received, Items

\* Every stage keeps the tasks and the cache of the stage before, but for what is on its
\* way (PipelineStages.StagesInStep).
THEOREM StagesAgree == Spec => []StagesInStep
BY Inductive, IInvStages, PTL
=============================================================================
