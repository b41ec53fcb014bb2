-------------------------- MODULE SlotGroupsProofs --------------------------
(***************************************************************************)
(* What holds of the scheduler of the skew cache for any requests, slots   *)
(* and arguments: every group of slots is free or used, lists the requests *)
(* that joined it and no others, and is used as long as tasks of it are    *)
(* under way, whichever of them end in whichever order.                    *)
(***************************************************************************)
EXTENDS SlotGroups, FiniteSetTheorems, SequenceTheorems, WellFoundedInduction, TLAPS

-----------------------------------------------------------------------------
(* The inductive invariant *)

\* The tasks whose tokens are still to come.
Away == UNION {ongoing[p].tasks : p \in DOMAIN ongoing}

IsTask(t) ==
  /\ t = [type |-> t.type, left |-> t.left, chunk |-> t.chunk, status |-> t.status,
          group |-> t.group, waiting |-> t.waiting]
  /\ t.group \in Groups \cup {NoGroup} /\ t.waiting \in BOOLEAN

Typing ==
  /\ args \in Configs
  /\ idList \in Seq(Reqs) /\ IsInjective(idList)
  /\ task = [r \in Reqs |-> task[r]] /\ \A r \in Reqs : IsTask(task[r])
  /\ batch \in Seq(Reqs) /\ unwaited \in SUBSET Reqs
  /\ ongoing \in Seq([tasks : SUBSET Reqs, done : BOOLEAN])
  /\ waitingTasks \in [Groups -> SUBSET Reqs]

\* Every group is free or used, once.
Partition ==
  /\ freeSgroups \in Seq(Groups) /\ IsInjective(freeSgroups)
  /\ usedSgroups = {g \in Groups : g \notin ToSet(freeSgroups)}

\* The lists of the groups have their requests; one that has left the pool never joins again.
Lists ==
  /\ sgroupList \in [Groups -> Seq(Reqs)]
  /\ \A g \in Groups : /\ IsInjective(sgroupList[g]) /\ Len(sgroupList[g]) <= SlotsSize(g)
                       /\ ToSet(sgroupList[g]) = {r \in ToSet(idList) : task[r].group = g}
  /\ \A r \in Reqs : r \notin ToSet(idList) => task[r].status = "Stopped" \/ task[r].group = NoGroup

\* A task waits exactly while one batch under way has it.
UnderWay ==
  /\ \A r \in Reqs : task[r].waiting <=> r \in Away
  /\ \A p, q \in DOMAIN ongoing : p # q => ongoing[p].tasks \cap ongoing[q].tasks = {}

\* What groups await is under way or up for the update of this turn, and keeps them used.
Accounts ==
  /\ \A g \in Groups : /\ waitingTasks[g] \subseteq ToSet(sgroupList[g])
                       /\ waitingTasks[g] # {} => g \in usedSgroups
  /\ \A r \in Reqs : (\E g \in Groups : r \in waitingTasks[g])
                       <=> r \in Away \cup ToSet(batch) \cup unwaited

Turn ==
  /\ pc = "schedule" => batch = <<>> /\ \A g \in usedSgroups : waitingTasks[g] # {}
  /\ pc # "update" => unwaited = {}
  /\ pc = "step" => \A r \in ToSet(batch) : ~task[r].waiting

IInv == Typing /\ Partition /\ Lists /\ UnderWay /\ Accounts /\ Turn

-----------------------------------------------------------------------------
(* Recursion over an interval, and what is built by it *)

\* Every set of naturals has a least element.
LEMMA LeastNatural ==
  ASSUME NEW S \in SUBSET Nat, S # {}
  PROVE  \E n \in S : \A m \in S : n <= m
<1> DEFINE R == OpToRel(<, Nat)
<1>1. IsWellFoundedOn(R, Nat)
  BY NatLessThanWellFounded, Zenon
<1>2. \A m, n \in Nat : <<m, n>> \in R <=> m < n
  BY DEF OpToRel
<1> HIDE DEF R
<1>3. PICK n \in S : \A m \in S : ~(<<m, n>> \in R)
  BY <1>1, WFMin
<1>4. \A m \in S : ~(m < n)
  BY <1>2, <1>3
<1> QED
  BY <1>4

\* f is what F makes of base, step by step, up to n.
Steps(f, n, V, F, base) ==
  /\ f \in [0 .. n -> V]
  /\ f[0] = base
  /\ \A i \in 1 .. n : f[i] = F[<<i, f[i - 1]>>]

\* One step more.
LEMMA StepMore ==
  ASSUME NEW n \in Nat, NEW k \in Nat, k < n, NEW V, NEW base \in V, NEW F \in [(1 .. n) \X V -> V],
         NEW f, Steps(f, k, V, F, base)
  PROVE  \E g : Steps(g, k + 1, V, F, base)
<1> DEFINE g == [i \in 0 .. k + 1 |-> IF i = k + 1 THEN F[<<k + 1, f[k]>>] ELSE f[i]]
<1>1. f \in [0 .. k -> V] /\ f[0] = base /\ \A i \in 1 .. k : f[i] = F[<<i, f[i - 1]>>]
  BY DEF Steps
<1>2. k \in 0 .. k /\ k + 1 \in 1 .. n
  OBVIOUS
<1>3. F[<<k + 1, f[k]>>] \in V
  <2>1. f[k] \in V
    BY <1>1, <1>2
  <2> QED
    BY <1>2, <2>1
<1>4. \A i \in 0 .. k : i # k + 1 /\ i \in 0 .. k + 1 /\ f[i] \in V
  BY <1>1
<1>5. g \in [0 .. k + 1 -> V]
  <2>1. \A i \in 0 .. k + 1 : i = k + 1 \/ i \in 0 .. k
    OBVIOUS
  <2> QED
    BY <1>3, <1>4, <2>1
<1>6. g[0] = base
  BY <1>1, <1>4
<1>7. ASSUME NEW i \in 1 .. k + 1 PROVE g[i] = F[<<i, g[i - 1]>>]
  <2>1. i - 1 \in 0 .. k /\ g[i - 1] = f[i - 1]
    BY <1>4
  <2>2. CASE i = k + 1
    <3>1. k + 1 \in 0 .. k + 1 /\ g[k + 1] = F[<<k + 1, f[k]>>]
      OBVIOUS
    <3>2. g[i - 1] = f[k]
      BY <2>1, <2>2
    <3> HIDE DEF g
    <3> QED
      BY <2>2, <3>1, <3>2
  <2>3. CASE i \in 1 .. k
    BY <1>1, <1>4, <2>1, <2>3
  <2> QED
    BY <2>2, <2>3
<1> HIDE DEF g
<1> QED
  BY <1>5, <1>6, <1>7 DEF Steps

\* There is what F makes of base, for any number of steps.
LEMMA StepsExist ==
  ASSUME NEW n \in Nat, NEW V, NEW base \in V, NEW F \in [(1 .. n) \X V -> V]
  PROVE  \E f : Steps(f, n, V, F, base)
<1> DEFINE Bad == {k \in 0 .. n : ~ \E f : Steps(f, k, V, F, base)}
<1>1. Bad = {}
  <2> SUFFICES ASSUME Bad # {} PROVE FALSE
    OBVIOUS
  <2>1. Bad \in SUBSET Nat
    OBVIOUS
  <2>2. PICK k \in Bad : \A m \in Bad : k <= m
    <3> HIDE DEF Bad
    <3> QED
      BY <2>1, LeastNatural
  <2>3. k \in 0 .. n /\ ~ \E f : Steps(f, k, V, F, base)
    OBVIOUS
  <2>4. k # 0
    <3> SUFFICES ASSUME k = 0 PROVE FALSE
      OBVIOUS
    <3> DEFINE f == [i \in 0 .. 0 |-> base]
    <3>1. f \in [0 .. 0 -> V] /\ f[0] = base /\ \A i \in 1 .. 0 : FALSE
      OBVIOUS
    <3>2. Steps(f, 0, V, F, base)
      BY <3>1 DEF Steps
    <3> QED
      BY <2>3, <3>2
  <2>5. k - 1 \in 0 .. n /\ k - 1 < k /\ k - 1 < n /\ k - 1 \in Nat /\ (k - 1) + 1 = k
    BY <2>3, <2>4
  <2>6. k - 1 \notin Bad
    <3> HIDE DEF Bad
    <3> QED
      BY <2>2, <2>3, <2>5
  <2>7. PICK f : Steps(f, k - 1, V, F, base)
    BY <2>5, <2>6
  <2>8. \E g : Steps(g, (k - 1) + 1, V, F, base)
    BY <2>5, <2>7, StepMore
  <2> QED
    BY <2>3, <2>5, <2>8
<1>2. n \in 0 .. n
  OBVIOUS
<1> QED
  BY <1>1, <1>2

\* What holds of the first state and is kept by every step holds of all: P[i] says it of i.
LEMMA EachStep ==
  ASSUME NEW n \in Nat, NEW P, P[0], \A i \in 1 .. n : P[i - 1] => P[i]
  PROVE  \A i \in 0 .. n : P[i]
<1> DEFINE Bad == {k \in 0 .. n : ~P[k]}
<1> SUFFICES ASSUME Bad # {} PROVE FALSE
  OBVIOUS
<1>1. Bad \in SUBSET Nat
  OBVIOUS
<1>2. PICK k \in Bad : \A m \in Bad : k <= m
  <2> HIDE DEF Bad
  <2> QED
    BY <1>1, LeastNatural
<1>3. k \in 0 .. n /\ ~P[k] /\ k # 0
  OBVIOUS
<1>4. k \in 1 .. n /\ k - 1 \in 0 .. n /\ k - 1 < k
  BY <1>3
<1>5. k - 1 \notin Bad
  <2> HIDE DEF Bad
  <2> QED
    BY <1>2, <1>3, <1>4
<1> QED
  BY <1>3, <1>4, <1>5

-----------------------------------------------------------------------------
(* Sequences *)

\* The elements of a sequence with one more.
LEMMA AppendFacts ==
  ASSUME NEW T, NEW s \in Seq(T), NEW e \in T
  PROVE  /\ Append(s, e) \in Seq(T) /\ ToSet(Append(s, e)) = ToSet(s) \cup {e}
         /\ DOMAIN s = 1 .. Len(s) /\ Len(s) \in Nat
         /\ DOMAIN Append(s, e) = 1 .. Len(s) + 1 /\ Len(Append(s, e)) = Len(s) + 1
         /\ \A i \in 1 .. Len(s) : Append(s, e)[i] = s[i]
         /\ Append(s, e)[Len(s) + 1] = e
         /\ IsInjective(s) /\ e \notin ToSet(s) => IsInjective(Append(s, e))
<1>1. /\ Append(s, e) \in Seq(T) /\ Len(Append(s, e)) = Len(s) + 1
      /\ \A i \in 1 .. Len(s) : Append(s, e)[i] = s[i]
      /\ Append(s, e)[Len(s) + 1] = e
  BY AppendProperties
<1>2. DOMAIN s = 1 .. Len(s) /\ DOMAIN Append(s, e) = 1 .. Len(s) + 1 /\ Len(s) \in Nat
  BY <1>1, LenProperties
<1>3. \A i \in DOMAIN Append(s, e) : \/ i \in DOMAIN s /\ Append(s, e)[i] = s[i]
                                     \/ i = Len(s) + 1 /\ Append(s, e)[i] = e
  BY <1>1, <1>2
<1>4. \A i \in DOMAIN s : i \in DOMAIN Append(s, e) /\ i # Len(s) + 1 /\ Append(s, e)[i] = s[i]
  BY <1>1, <1>2
<1>5. Len(s) + 1 \in DOMAIN Append(s, e)
  BY <1>2
<1>6. ToSet(Append(s, e)) = ToSet(s) \cup {e}
  BY <1>1, <1>3, <1>4, <1>5 DEF ToSet
<1>7. ASSUME IsInjective(s), e \notin ToSet(s) PROVE IsInjective(Append(s, e))
  BY <1>3, <1>7 DEF IsInjective, ToSet
<1> QED
  BY <1>1, <1>2, <1>6, <1>7

\* The states of the loop that filters.
FilterStep(s, S, T) == [p \in (1 .. Len(s)) \X Seq(T) |->
                          IF s[p[1]] \in S THEN Append(p[2], s[p[1]]) ELSE p[2]]

LEMMA FilterSteps ==
  ASSUME NEW T, NEW s \in Seq(T), NEW S
  PROVE  \E f : Steps(f, Len(s), Seq(T), FilterStep(s, S, T), <<>>) /\ Filtered(s, S) = f[Len(s)]
<1> DEFINE F == FilterStep(s, S, T)
           Eqn(f) == f = [i \in 0 .. Len(s) |-> IF i = 0 THEN <<>>
                                               ELSE IF s[i] \in S THEN Append(f[i - 1], s[i])
                                               ELSE f[i - 1]]
<1>1. Len(s) \in Nat /\ DOMAIN s = 1 .. Len(s) /\ \A i \in 1 .. Len(s) : s[i] \in T
  BY LenProperties, ElementOfSeq
<1>2. \A i \in 1 .. Len(s), v \in Seq(T) :
        /\ F[<<i, v>>] = IF s[i] \in S THEN Append(v, s[i]) ELSE v
        /\ F[<<i, v>>] \in Seq(T)
  <2> TAKE i \in 1 .. Len(s), v \in Seq(T)
  <2>1. F[<<i, v>>] = IF s[i] \in S THEN Append(v, s[i]) ELSE v
    BY DEF FilterStep
  <2>2. Append(v, s[i]) \in Seq(T)
    BY <1>1, AppendProperties
  <2> HIDE DEF F
  <2> QED
    BY <2>1, <2>2
<1>3. F \in [(1 .. Len(s)) \X Seq(T) -> Seq(T)]
  <2>1. \A p \in (1 .. Len(s)) \X Seq(T) : p = <<p[1], p[2]>> /\ p[1] \in 1 .. Len(s) /\ p[2] \in Seq(T)
    OBVIOUS
  <2>2. \A p \in (1 .. Len(s)) \X Seq(T) : F[p] \in Seq(T)
    <3> HIDE DEF F
    <3> QED
      BY <1>2, <2>1
  <2>3. F = [p \in (1 .. Len(s)) \X Seq(T) |-> F[p]]
    BY DEF FilterStep
  <2> HIDE DEF F
  <2> QED
    BY <2>2, <2>3
<1>4. <<>> \in Seq(T)
  BY EmptySeq
<1>5. PICK f : Steps(f, Len(s), Seq(T), F, <<>>)
  <2> HIDE DEF F
  <2> QED
    BY <1>1, <1>3, <1>4, StepsExist
<1> HIDE DEF F
<1>6. Eqn(f)
  <2>1. f \in [0 .. Len(s) -> Seq(T)] /\ f[0] = <<>> /\ \A i \in 1 .. Len(s) : f[i] = F[<<i, f[i - 1]>>]
    BY <1>5 DEF Steps
  <2>2. \A i \in 1 .. Len(s) : f[i - 1] \in Seq(T)
    <3>1. \A i \in 1 .. Len(s) : i - 1 \in 0 .. Len(s)
      BY <1>1
    <3> QED
      BY <2>1, <3>1
  <2>3. \A i \in 1 .. Len(s) : f[i] = IF s[i] \in S THEN Append(f[i - 1], s[i]) ELSE f[i - 1]
    BY <1>2, <2>1, <2>2
  <2>4. \A i \in 0 .. Len(s) : i = 0 \/ (i # 0 /\ i \in 1 .. Len(s))
    BY <1>1
  <2>5. \A i \in 0 .. Len(s) : f[i] = IF i = 0 THEN <<>> ELSE IF s[i] \in S THEN Append(f[i - 1], s[i]) ELSE f[i - 1]
    BY <2>1, <2>3, <2>4
  <2>6. f = [i \in 0 .. Len(s) |-> f[i]]
    BY <2>1
  <2> QED
    BY <2>5, <2>6
<1> DEFINE kept == CHOOSE g : Eqn(g)
<1>7. Eqn(kept)
  <2> HIDE DEF Eqn
  <2> QED
    BY <1>6
<1>8. Filtered(s, S) = kept[Len(s)]
  BY DEF Filtered
<1> HIDE DEF kept
<1>9. kept \in [0 .. Len(s) -> Seq(T)] /\ kept[0] = <<>>
  <2> DEFINE P == [i \in 0 .. Len(s) |-> kept[i] \in Seq(T)]
  <2>1. kept[0] = <<>>
    BY <1>1, <1>7
  <2>2. P[0]
    <3>1. 0 \in 0 .. Len(s) /\ kept[0] \in Seq(T)
      BY <1>1, <1>4, <2>1
    <3> QED
      BY <3>1
  <2>3. ASSUME NEW i \in 1 .. Len(s), P[i - 1] PROVE P[i]
    <3>1. i \in 0 .. Len(s) /\ i # 0 /\ i - 1 \in 0 .. Len(s)
      BY <1>1
    <3>2. kept[i - 1] \in Seq(T)
      BY <2>3, <3>1
    <3>3. kept[i] = IF s[i] \in S THEN Append(kept[i - 1], s[i]) ELSE kept[i - 1]
      BY <1>7, <3>1
    <3>4. Append(kept[i - 1], s[i]) \in Seq(T)
      BY <1>1, <3>2, AppendProperties
    <3>5. kept[i] \in Seq(T)
      BY <3>2, <3>3, <3>4
    <3> QED
      BY <3>1, <3>5
  <2>4. \A i \in 0 .. Len(s) : P[i]
    <3> HIDE DEF P
    <3> QED
      BY <1>1, <2>2, <2>3, EachStep
  <2>5. \A i \in 0 .. Len(s) : kept[i] \in Seq(T)
    BY <2>4
  <2>6. kept = [i \in 0 .. Len(s) |-> kept[i]]
    BY <1>7
  <2> HIDE DEF P
  <2> QED
    BY <2>1, <2>5, <2>6
<1>10. \A i \in 1 .. Len(s) : kept[i] = F[<<i, kept[i - 1]>>]
  <2> TAKE i \in 1 .. Len(s)
  <2>1. i \in 0 .. Len(s) /\ i # 0 /\ i - 1 \in 0 .. Len(s)
    BY <1>1
  <2>2. kept[i - 1] \in Seq(T)
    BY <1>9, <2>1
  <2>3. kept[i] = IF s[i] \in S THEN Append(kept[i - 1], s[i]) ELSE kept[i - 1]
    BY <1>7, <2>1
  <2> QED
    BY <1>2, <2>2, <2>3
<1>11. Steps(kept, Len(s), Seq(T), F, <<>>)
  BY <1>9, <1>10 DEF Steps
<1> QED
  BY <1>8, <1>11 DEF F

\* What a filter keeps.
LEMMA FilteredFacts ==
  ASSUME NEW T, NEW s \in Seq(T), NEW S
  PROVE  /\ Filtered(s, S) \in Seq(T)
         /\ ToSet(Filtered(s, S)) = {x \in ToSet(s) : x \in S}
         /\ IsInjective(s) => IsInjective(Filtered(s, S))
<1>1. PICK f : Steps(f, Len(s), Seq(T), FilterStep(s, S, T), <<>>) /\ Filtered(s, S) = f[Len(s)]
  BY FilterSteps
<1>2. Len(s) \in Nat /\ DOMAIN s = 1 .. Len(s) /\ \A i \in 1 .. Len(s) : s[i] \in T
  BY LenProperties, ElementOfSeq
<1>3. f \in [0 .. Len(s) -> Seq(T)] /\ f[0] = <<>>
  BY <1>1 DEF Steps
<1>4. \A i \in 1 .. Len(s) : /\ i - 1 \in 0 .. Len(s) /\ f[i - 1] \in Seq(T)
                             /\ f[i] = IF s[i] \in S THEN Append(f[i - 1], s[i]) ELSE f[i - 1]
  <2> TAKE i \in 1 .. Len(s)
  <2>1. i - 1 \in 0 .. Len(s) /\ f[i - 1] \in Seq(T)
    <3>1. i - 1 \in 0 .. Len(s)
      BY <1>2
    <3> QED
      BY <1>3, <3>1
  <2>2. f[i] = FilterStep(s, S, T)[<<i, f[i - 1]>>]
    BY <1>1 DEF Steps
  <2>3. f[i] = IF s[i] \in S THEN Append(f[i - 1], s[i]) ELSE f[i - 1]
    BY <2>1, <2>2 DEF FilterStep
  <2> QED
    BY <2>1, <2>3
<1> DEFINE Chosen(i) == {s[j] : j \in {k \in 1 .. i : s[k] \in S}}
           P == [i \in 0 .. Len(s) |-> /\ ToSet(f[i]) = Chosen(i)
                                       /\ IsInjective(s) => IsInjective(f[i])]
<1>5. P[0]
  <2>1. 0 \in 0 .. Len(s)
    BY <1>2
  <2>2. ToSet(f[0]) = {} /\ IsInjective(f[0])
    BY <1>3 DEF ToSet, IsInjective
  <2>3. Chosen(0) = {}
    OBVIOUS
  <2> HIDE DEF Chosen
  <2> QED
    BY <2>1, <2>2, <2>3
<1>6. ASSUME NEW i \in 1 .. Len(s), P[i - 1] PROVE P[i]
  <2>1. i \in 0 .. Len(s) /\ i - 1 \in 0 .. Len(s) /\ f[i - 1] \in Seq(T)
    BY <1>2, <1>4
  <2>2. ToSet(f[i - 1]) = Chosen(i - 1) /\ (IsInjective(s) => IsInjective(f[i - 1]))
    <3> HIDE DEF Chosen
    <3> QED
      BY <1>6, <2>1
  <2>3. \A k : k \in 1 .. i <=> k \in 1 .. i - 1 \/ k = i
    BY <1>2
  <2>4. CASE s[i] \in S
    <3>1. f[i] = Append(f[i - 1], s[i])
      BY <1>4, <2>4
    <3>2. Chosen(i) = Chosen(i - 1) \cup {s[i]}
      BY <2>3, <2>4
    <3>3. ToSet(f[i]) = Chosen(i)
      <4> HIDE DEF Chosen
      <4> QED
        BY <1>2, <2>1, <2>2, <3>1, <3>2, AppendFacts
    <3>4. ASSUME IsInjective(s) PROVE s[i] \notin Chosen(i - 1)
      <4>1. \A k \in 1 .. i - 1 : k \in DOMAIN s /\ i \in DOMAIN s /\ k # i
        BY <1>2
      <4> QED
        BY <3>4, <4>1 DEF IsInjective
    <3>5. IsInjective(s) => IsInjective(f[i])
      <4> HIDE DEF Chosen
      <4> QED
        BY <1>2, <2>1, <2>2, <3>1, <3>4, AppendFacts
    <3> HIDE DEF Chosen
    <3> QED
      BY <2>1, <3>3, <3>5
  <2>5. CASE s[i] \notin S
    <3>1. f[i] = f[i - 1]
      BY <1>4, <2>5
    <3>2. Chosen(i) = Chosen(i - 1)
      BY <2>3, <2>5
    <3> HIDE DEF Chosen
    <3> QED
      BY <2>1, <2>2, <3>1, <3>2
  <2> QED
    BY <2>4, <2>5
<1>7. \A i \in 0 .. Len(s) : P[i]
  <2> HIDE DEF P
  <2> QED
    BY <1>2, <1>5, <1>6, EachStep
<1>8. Len(s) \in 0 .. Len(s)
  BY <1>2
<1>9. ToSet(f[Len(s)]) = Chosen(Len(s)) /\ (IsInjective(s) => IsInjective(f[Len(s)]))
  <2> HIDE DEF Chosen
  <2> QED
    BY <1>7, <1>8
<1>10. Chosen(Len(s)) = {x \in ToSet(s) : x \in S}
  BY <1>2 DEF ToSet
<1>11. f[Len(s)] \in Seq(T)
  BY <1>3, <1>8
<1> HIDE DEF Chosen
<1> QED
  BY <1>1, <1>9, <1>10, <1>11

\* The elements of two sequences one after the other.
LEMMA ConcatFacts ==
  ASSUME NEW T, NEW s \in Seq(T), NEW t \in Seq(T)
  PROVE  /\ s \o t \in Seq(T)
         /\ ToSet(s \o t) = ToSet(s) \cup ToSet(t)
         /\ IsInjective(s) /\ IsInjective(t) /\ ToSet(s) \cap ToSet(t) = {} => IsInjective(s \o t)
<1>1. /\ s \o t \in Seq(T) /\ Len(s \o t) = Len(s) + Len(t)
      /\ \A i \in 1 .. Len(s) + Len(t) :
           (s \o t)[i] = IF i <= Len(s) THEN s[i] ELSE t[i - Len(s)]
  BY ConcatProperties
<1>2. /\ DOMAIN s = 1 .. Len(s) /\ DOMAIN t = 1 .. Len(t) /\ DOMAIN (s \o t) = 1 .. Len(s) + Len(t)
      /\ Len(s) \in Nat /\ Len(t) \in Nat
  BY <1>1, LenProperties
<1>3. ToSet(s \o t) = ToSet(s) \cup ToSet(t)
  <2>1. \A x : x \in ToSet(s \o t) => x \in ToSet(s) \cup ToSet(t)
    BY <1>1, <1>2 DEF ToSet
  <2>2. \A x : x \in ToSet(s) => x \in ToSet(s \o t)
    <3>1. \A i \in DOMAIN s : i \in DOMAIN (s \o t) /\ (s \o t)[i] = s[i]
      BY <1>1, <1>2
    <3> QED
      BY <3>1 DEF ToSet
  <2>3. \A x : x \in ToSet(t) => x \in ToSet(s \o t)
    <3>1. \A i \in DOMAIN t : i + Len(s) \in DOMAIN (s \o t) /\ (s \o t)[i + Len(s)] = t[i]
      BY <1>1, <1>2
    <3> QED
      BY <3>1 DEF ToSet
  <2> QED
    BY <2>1, <2>2, <2>3
<1>4. ASSUME IsInjective(s), IsInjective(t), ToSet(s) \cap ToSet(t) = {}
      PROVE  IsInjective(s \o t)
  <2> SUFFICES ASSUME NEW i \in 1 .. Len(s) + Len(t), NEW j \in 1 .. Len(s) + Len(t),
                      (s \o t)[i] = (s \o t)[j]
               PROVE  i = j
    BY <1>2 DEF IsInjective
  <2>1. CASE i <= Len(s) /\ j <= Len(s)
    BY <1>1, <1>2, <1>4, <2>1 DEF IsInjective
  <2>2. CASE i > Len(s) /\ j > Len(s)
    <3>1. t[i - Len(s)] = t[j - Len(s)]
      BY <1>1, <1>2, <2>2
    <3>2. i - Len(s) \in DOMAIN t /\ j - Len(s) \in DOMAIN t
      BY <1>2, <2>2
    <3>3. i - Len(s) = j - Len(s)
      BY <1>4, <3>1, <3>2 DEF IsInjective
    <3> QED
      BY <1>2, <3>3
  <2>3. ASSUME NEW m \in 1 .. Len(s) + Len(t), NEW n \in 1 .. Len(s) + Len(t),
               m <= Len(s), n > Len(s), (s \o t)[m] = (s \o t)[n]
        PROVE  FALSE
    <3>1. s[m] = t[n - Len(s)] /\ m \in DOMAIN s /\ n - Len(s) \in DOMAIN t
      BY <1>1, <1>2, <2>3
    <3> QED
      BY <1>4, <3>1 DEF ToSet
  <2> QED
    BY <1>2, <2>1, <2>2, <2>3
<1> QED
  BY <1>1, <1>3, <1>4

\* The first of a sequence and the rest.
LEMMA HeadTailFacts ==
  ASSUME NEW T, NEW s \in Seq(T), s # <<>>, IsInjective(s)
  PROVE  /\ Head(s) \in T /\ Head(s) \in ToSet(s)
         /\ Tail(s) \in Seq(T) /\ IsInjective(Tail(s))
         /\ ToSet(Tail(s)) = ToSet(s) \ {Head(s)}
<1>1. /\ Tail(s) \in Seq(T) /\ Len(Tail(s)) = Len(s) - 1
      /\ \A i \in 1 .. Len(Tail(s)) : Tail(s)[i] = s[i + 1]
  BY HeadTailProperties
<1>2. Len(s) \in Nat \ {0} /\ DOMAIN s = 1 .. Len(s) /\ DOMAIN Tail(s) = 1 .. Len(Tail(s))
  BY <1>1, LenProperties, EmptySeq
<1>3. Head(s) = s[1] /\ 1 \in DOMAIN s /\ s[1] \in T
  BY <1>2, ElementOfSeq
<1>10. Head(s) \in ToSet(s)
  BY <1>3 DEF ToSet
<1>4. \A i \in DOMAIN Tail(s) : i + 1 \in DOMAIN s /\ i + 1 # 1 /\ Tail(s)[i] = s[i + 1]
  BY <1>1, <1>2
<1>5. \A i, j \in DOMAIN Tail(s) : i + 1 = j + 1 => i = j
  BY <1>1, <1>2
<1>6. IsInjective(Tail(s))
  BY <1>4, <1>5 DEF IsInjective
<1>7. \A i \in DOMAIN s : i # 1 => i - 1 \in DOMAIN Tail(s) /\ (i - 1) + 1 = i
  BY <1>1, <1>2
<1>8. ToSet(Tail(s)) \subseteq ToSet(s) \ {Head(s)}
  <2> SUFFICES ASSUME NEW i \in DOMAIN Tail(s) PROVE Tail(s)[i] \in ToSet(s) /\ Tail(s)[i] # Head(s)
    BY DEF ToSet
  <2> QED
    BY <1>3, <1>4 DEF ToSet, IsInjective
<1>9. ToSet(s) \ {Head(s)} \subseteq ToSet(Tail(s))
  <2> SUFFICES ASSUME NEW i \in DOMAIN s, s[i] # Head(s) PROVE s[i] \in ToSet(Tail(s))
    BY DEF ToSet
  <2>1. i - 1 \in DOMAIN Tail(s) /\ Tail(s)[i - 1] = s[i]
    BY <1>3, <1>4, <1>7
  <2> QED
    BY <2>1 DEF ToSet
<1> QED
  BY <1>1, <1>3, <1>6, <1>8, <1>9, <1>10

\* A part of a sequence.
LEMMA SubSeqFacts ==
  ASSUME NEW T, NEW s \in Seq(T), NEW m \in Nat, NEW n \in Nat, n <= Len(s)
  PROVE  /\ SubSeq(s, m + 1, n) \in Seq(T) /\ ToSet(SubSeq(s, m + 1, n)) \subseteq ToSet(s)
         /\ DOMAIN SubSeq(s, m + 1, n) = 1 .. n - m
         /\ Len(SubSeq(s, m + 1, n)) = IF m < n THEN n - m ELSE 0
         /\ \A i \in 1 .. n - m : SubSeq(s, m + 1, n)[i] = s[m + i]
         /\ IsInjective(s) => IsInjective(SubSeq(s, m + 1, n))
<1>1. Len(s) \in Nat /\ DOMAIN s = 1 .. Len(s)
  BY LenProperties
<1>2. m + 1 \in Int /\ n \in Int /\ \A i \in m + 1 .. n : s[i] \in T
  <2>1. \A i \in m + 1 .. n : i \in 1 .. Len(s)
    BY <1>1
  <2> QED
    BY <2>1, ElementOfSeq
<1> DEFINE w == SubSeq(s, m + 1, n)
<1>3. /\ w \in Seq(T)
      /\ Len(w) = IF m + 1 <= n THEN n - (m + 1) + 1 ELSE 0
      /\ \A i \in 1 .. n - (m + 1) + 1 : w[i] = s[m + 1 + i - 1]
  BY <1>2, SubSeqProperties
<1> HIDE DEF w
<1>4. Len(w) = IF m < n THEN n - m ELSE 0
  BY <1>3
<1>5. DOMAIN w = 1 .. n - m
  <2>1. DOMAIN w = 1 .. Len(w)
    BY <1>3, LenProperties
  <2> QED
    BY <1>4, <2>1
<1>6. \A i \in 1 .. n - m : w[i] = s[m + i] /\ m + i \in DOMAIN s
  BY <1>1, <1>3
<1>7. ToSet(w) \subseteq ToSet(s)
  BY <1>5, <1>6 DEF ToSet
<1>8. IsInjective(s) => IsInjective(w)
  <2>1. \A i, j \in 1 .. n - m : m + i = m + j => i = j
    OBVIOUS
  <2> QED
    BY <1>5, <1>6, <2>1 DEF IsInjective
<1> QED
  BY <1>3, <1>4, <1>5, <1>6, <1>7, <1>8 DEF w

\* The beginning of a sequence.
LEMMA UpToFacts ==
  ASSUME NEW T, NEW s \in Seq(T), NEW n \in Nat
  PROVE  /\ UpTo(s, n) \in Seq(T) /\ ToSet(UpTo(s, n)) \subseteq ToSet(s)
         /\ Len(UpTo(s, n)) \in Nat /\ Len(UpTo(s, n)) <= n
         /\ IsInjective(s) => IsInjective(UpTo(s, n))
<1> DEFINE m == IF n < Len(s) THEN n ELSE Len(s)
<1>1. m \in Nat /\ m <= Len(s) /\ m <= n
  BY LenProperties
<1>2. UpTo(s, n) = SubSeq(s, 0 + 1, m)
  BY DEF UpTo, Smaller
<1> HIDE DEF m
<1>3. /\ SubSeq(s, 0 + 1, m) \in Seq(T) /\ ToSet(SubSeq(s, 0 + 1, m)) \subseteq ToSet(s)
      /\ Len(SubSeq(s, 0 + 1, m)) = IF 0 < m THEN m - 0 ELSE 0
      /\ IsInjective(s) => IsInjective(SubSeq(s, 0 + 1, m))
  <2>1. 0 \in Nat
    OBVIOUS
  <2> QED
    BY <1>1, <2>1, SubSeqFacts
<1> QED
  BY <1>1, <1>2, <1>3

\* The last one takes the place of r.
LEMMA SwappedOutFacts ==
  ASSUME NEW T, NEW s \in Seq(T), NEW r
  PROVE  /\ SwappedOut(s, r) \in Seq(T)
         /\ IsInjective(s) /\ r \in ToSet(s) =>
              /\ IsInjective(SwappedOut(s, r)) /\ ToSet(SwappedOut(s, r)) = ToSet(s) \ {r}
              /\ Len(SwappedOut(s, r)) = Len(s) - 1
<1> DEFINE w == [i \in DOMAIN s |-> IF s[i] = r THEN Last(s) ELSE s[i]]
           n == Len(s)
<1>1. n \in Nat /\ DOMAIN s = 1 .. n /\ \A i \in 1 .. n : s[i] \in T
  BY LenProperties, ElementOfSeq
<1>2. Last(s) = s[n]
  BY DEF Last
<1>3. SwappedOut(s, r) = SubSeq(w, 1, Len(w) - 1)
  BY DEF SwappedOut, Front
<1>4. \A i \in 1 .. n : w[i] = IF s[i] = r THEN s[n] ELSE s[i]
  BY <1>1, <1>2
<1>5. DOMAIN w = 1 .. n
  BY <1>1
<1> HIDE DEF n
<1>6. w \in [1 .. n -> T]
  <2>1. w = [i \in 1 .. n |-> w[i]]
    BY <1>1
  <2>2. \A i \in 1 .. n : w[i] \in T
    <3>1. \A i \in 1 .. n : n \in 1 .. n
      BY <1>1
    <3> HIDE DEF w
    <3> QED
      BY <1>1, <1>4, <3>1
  <2> HIDE DEF w
  <2> QED
    BY <2>1, <2>2
<1> HIDE DEF w
<1>7. w \in Seq(T) /\ Len(w) = n
  <2>1. w \in Seq(T)
    BY <1>1, <1>6, SeqDef
  <2> QED
    BY <1>1, <1>5, <2>1, LenProperties
<1>8. CASE n = 0
  <2>1. s = <<>> /\ w = <<>>
    BY <1>7, <1>8, EmptySeq DEF n
  <2>2. SwappedOut(s, r) = SubSeq(w, 1, 0 - 1)
    BY <1>3, <1>7, <1>8
  <2>3. SubSeq(w, 1, 0 - 1) \in Seq(T)
    BY <2>1, SubSeqProperties
  <2>4. ToSet(s) = {}
    BY <1>1, <1>8 DEF ToSet
  <2> QED
    BY <2>2, <2>3, <2>4
<1>9. CASE n # 0
  <2>1. n - 1 \in Nat /\ 0 \in Nat /\ n - 1 <= Len(w)
    BY <1>1, <1>7, <1>9
  <2> DEFINE v == SubSeq(w, 0 + 1, n - 1)
  <2>2. /\ v \in Seq(T)
        /\ DOMAIN v = 1 .. (n - 1) - 0
        /\ Len(v) = IF 0 < n - 1 THEN (n - 1) - 0 ELSE 0
        /\ \A i \in 1 .. (n - 1) - 0 : v[i] = w[0 + i]
    BY <1>7, <2>1, SubSeqFacts
  <2>3. SwappedOut(s, r) = v
    BY <1>3, <1>7
  <2> HIDE DEF v
  <2>4. DOMAIN v = 1 .. n - 1 /\ Len(v) = n - 1
    BY <1>1, <1>9, <2>2
  <2>5. \A i \in 1 .. n - 1 : v[i] = IF s[i] = r THEN s[n] ELSE s[i]
    BY <1>1, <1>4, <2>2
  <2>6. ASSUME IsInjective(s), r \in ToSet(s)
        PROVE  IsInjective(v) /\ ToSet(v) = ToSet(s) \ {r}
    <3>1. PICK k \in 1 .. n : s[k] = r
      BY <1>1, <2>6 DEF ToSet
    <3>2. \A i, j \in 1 .. n : s[i] = s[j] => i = j
      BY <1>1, <2>6 DEF IsInjective
    <3>3. n \in 1 .. n /\ \A i \in 1 .. n - 1 : i \in 1 .. n /\ i # n
      BY <1>1, <1>9
    <3>4. IsInjective(v)
      BY <2>4, <2>5, <3>1, <3>2, <3>3 DEF IsInjective
    <3>5. ASSUME NEW i \in 1 .. n - 1 PROVE v[i] \in ToSet(s) /\ v[i] # r
      <4>1. CASE s[i] = r
        <5>1. v[i] = s[n] /\ s[n] # r
          BY <2>5, <3>2, <3>3, <4>1
        <5> QED
          BY <1>1, <3>3, <5>1 DEF ToSet
      <4>2. CASE s[i] # r
        BY <1>1, <2>5, <3>3, <4>2 DEF ToSet
      <4> QED
        BY <4>1, <4>2
    <3>6. ASSUME NEW i \in 1 .. n, s[i] # r PROVE s[i] \in ToSet(v)
      <4>1. CASE i = n
        <5>1. k \in 1 .. n - 1
          BY <1>1, <3>1, <3>6, <4>1
        <5>2. v[k] = s[n]
          BY <2>5, <3>1, <5>1
        <5> QED
          BY <2>4, <4>1, <5>1, <5>2 DEF ToSet
      <4>2. CASE i # n
        <5>1. i \in 1 .. n - 1
          BY <1>1, <4>2
        <5> QED
          BY <2>4, <2>5, <3>6, <5>1 DEF ToSet
      <4> QED
        BY <4>1, <4>2
    <3>7. ToSet(v) = ToSet(s) \ {r}
      <4>1. ToSet(v) = {v[i] : i \in 1 .. n - 1} /\ ToSet(s) = {s[i] : i \in 1 .. n}
        BY <1>1, <2>4 DEF ToSet
      <4> QED
        BY <3>5, <3>6, <4>1
    <3> QED
      BY <3>4, <3>7
  <2> QED
    BY <2>2, <2>3, <2>4, <2>6 DEF n
<1> QED
  BY <1>8, <1>9

\* The members of a finite set in any order.
LEMMA InOrder ==
  ASSUME NEW T, NEW S \in SUBSET T, IsFiniteSet(S), NEW s \in SetToSeqs(S)
  PROVE  s \in Seq(T) /\ IsInjective(s) /\ ToSet(s) = S
<1> DEFINE D == 1 .. Cardinality(S)
<1>1. Cardinality(S) \in Nat
  BY FS_CardinalityType
<1>2. IsFiniteSet(D) /\ Cardinality(D) = Cardinality(S)
  BY <1>1, FS_Interval
<1>3. s \in [D -> S] /\ \A i, j \in D : i # j => s[i] # s[j]
  BY DEF SetToSeqs
<1> HIDE DEF D
<1>4. IsInjective(s)
  BY <1>3 DEF IsInjective
<1>5. s \in Injection(D, S)
  BY <1>3, <1>4 DEF Injection, IsInjective
<1>6. s \in Surjection(D, S)
  BY <1>1, <1>2, <1>5, FS_Injection
<1>7. ToSet(s) = S
  BY <1>3, <1>6 DEF Surjection, ToSet
<1>8. s \in Seq(T)
  <2>1. s \in [D -> T]
    BY <1>3
  <2> QED
    BY <1>1, <2>1, SeqDef DEF D
<1> QED
  BY <1>4, <1>7, <1>8

-----------------------------------------------------------------------------
(* What the operations compute *)

LEMMA GroupFacts ==
  ASSUME args \in Configs
  PROVE  /\ NumSlots \in Nat /\ Groups = 1 .. NumSlots
         /\ \A g \in Groups : g \in Nat /\ g # NoGroup /\ SlotsSize(g) \in Nat
<1>1. args.pp \in Nat \ {0} /\ MaxReqs \in Nat \ {0}
  BY ConfigsAssumption, MaxReqsAssumption
<1>2. NumSlots \in Nat
  BY <1>1 DEF NumSlots
<1>3. \A a \in Nat, b \in Nat \ {0} : a \div b \in Nat
  BY SMT
<1>4. MaxReqs \div args.pp \in Nat
  BY <1>1, <1>3
<1>5. ASSUME NEW g \in Groups PROVE g \in Nat /\ g # NoGroup /\ SlotsSize(g) \in Nat
  <2>1. g \in Nat /\ g # 0
    BY <1>2 DEF Groups
  <2> DEFINE extra == IF g <= MaxReqs % args.pp THEN 1 ELSE 0
  <2>2. extra \in Nat
    OBVIOUS
  <2>3. SlotsSize(g) = (MaxReqs \div args.pp) + extra
    BY DEF SlotsSize
  <2> HIDE DEF extra
  <2> QED
    BY <1>4, <2>1, <2>2, <2>3 DEF NoGroup
<1> QED
  BY <1>2, <1>5 DEF Groups

\* The groups do not change while the program runs.
LEMMA SameGroups ==
  ASSUME args' = args
  PROVE  Groups' = Groups /\ \A g : SlotsSize(g)' = SlotsSize(g)
BY DEF Groups, NumSlots, SlotsSize

\* The groups in order, of which those with a property are taken.
LEMMA GroupsInOrder ==
  ASSUME args \in Configs, NEW S \in SUBSET Groups
  PROVE  LET freed == Filtered([g \in Groups |-> g], S)
         IN  freed \in Seq(Groups) /\ IsInjective(freed) /\ ToSet(freed) = S
<1> DEFINE all == [g \in Groups |-> g]
<1>1. all \in [1 .. NumSlots -> Groups] /\ NumSlots \in Nat
  BY GroupFacts
<1>2. IsInjective(all)
  BY DEF IsInjective
<1>3. ToSet(all) = Groups
  BY DEF ToSet
<1> HIDE DEF all
<1>4. all \in Seq(Groups)
  BY <1>1, SeqDef
<1>5. /\ Filtered(all, S) \in Seq(Groups) /\ IsInjective(Filtered(all, S))
      /\ ToSet(Filtered(all, S)) = {g \in Groups : g \in S}
  BY <1>2, <1>3, <1>4, FilteredFacts
<1>6. {g \in Groups : g \in S} = S
  OBVIOUS
<1> QED
  BY <1>5, <1>6 DEF all

\* The ready tasks that belong to no group.
LEMMA OutsideFacts ==
  ASSUME Typing
  PROVE  /\ Outside \in Seq(Reqs) /\ IsInjective(Outside)
         /\ \A r \in ToSet(Outside) : /\ r \in Reqs /\ r \in ToSet(idList)
                                      /\ ~task[r].waiting /\ task[r].group = NoGroup
<1> DEFINE S == {r \in Reqs : ~task[r].waiting /\ task[r].status # "Stopped"}
           R == {r \in Reqs : task[r].group = NoGroup}
<1>1. idList \in Seq(Reqs) /\ IsInjective(idList)
  BY DEF Typing
<1>2. Ready = Filtered(idList, S) /\ Outside = Filtered(Ready, R)
  BY DEF Ready, Outside
<1>3. (\A r \in S : r \in Reqs /\ ~task[r].waiting) /\ (\A r \in R : r \in Reqs /\ task[r].group = NoGroup)
  OBVIOUS
<1> HIDE DEF S, R
<1>4. /\ Ready \in Seq(Reqs) /\ IsInjective(Ready)
      /\ ToSet(Ready) = {r \in ToSet(idList) : r \in S}
  BY <1>1, <1>2, FilteredFacts
<1>5. /\ Outside \in Seq(Reqs) /\ IsInjective(Outside)
      /\ ToSet(Outside) = {r \in ToSet(Ready) : r \in R}
  BY <1>2, <1>4, FilteredFacts
<1> QED
  BY <1>3, <1>4, <1>5

\* A group keeps its requests, and takes others that are in none as long as it has slots.
LEMMA FilledFacts ==
  ASSUME Typing, Lists, NEW g \in Groups
  PROVE  /\ Filled(g) \in Seq(Reqs) /\ IsInjective(Filled(g)) /\ Len(Filled(g)) <= SlotsSize(g)
         /\ ToSet(sgroupList[g]) \subseteq ToSet(Filled(g))
         /\ \A r \in ToSet(Filled(g)) :
              /\ r \in Reqs /\ r \in ToSet(idList)
              /\ \/ r \in ToSet(sgroupList[g])
                 \/ ~task[r].waiting /\ task[r].group = NoGroup
<1> DEFINE sgroup == sgroupList[g]
           type == Type(IF sgroup = <<>> THEN Head(Outside) ELSE Last(sgroup))
           more == UpTo(OfType(Outside, type), SlotsSize(g) - Len(sgroup))
<1>1. /\ sgroup \in Seq(Reqs) /\ IsInjective(sgroup) /\ Len(sgroup) <= SlotsSize(g)
      /\ ToSet(sgroup) = {r \in ToSet(idList) : task[r].group = g}
      /\ Len(sgroup) \in Nat
  BY LenProperties DEF Lists
<1>2. SlotsSize(g) \in Nat /\ g # NoGroup
  BY GroupFacts DEF Typing
<1>3. \A r \in ToSet(idList) : r \in Reqs
  BY DEF Typing, ToSet
<1>4. Filled(g) = sgroup \/ (Len(sgroup) < SlotsSize(g) /\ Filled(g) = sgroup \o more)
  BY DEF Filled
<1> HIDE DEF type
<1>5. CASE Filled(g) = sgroup
  BY <1>1, <1>3, <1>5
<1>6. CASE Len(sgroup) < SlotsSize(g) /\ Filled(g) = sgroup \o more
  <2> DEFINE n == SlotsSize(g) - Len(sgroup)
             same == {r \in Reqs : Type(r) = type}
             other == OfType(Outside, type)
  <2>1. n \in Nat
    BY <1>1, <1>2, <1>6
  <2>2. other = Filtered(Outside, same)
    BY DEF OfType
  <2> HIDE DEF same, sgroup
  <2>3. other \in Seq(Reqs) /\ IsInjective(other) /\ ToSet(other) \subseteq ToSet(Outside)
    BY <2>2, OutsideFacts, FilteredFacts
  <2> HIDE DEF other
  <2>4. more = UpTo(other, n)
    BY DEF other
  <2> HIDE DEF n, more
  <2>5. /\ more \in Seq(Reqs) /\ ToSet(more) \subseteq ToSet(other)
        /\ Len(more) \in Nat /\ Len(more) <= n /\ IsInjective(more)
    BY <2>1, <2>3, <2>4, UpToFacts
  <2>6. \A r \in ToSet(more) : /\ r \in Reqs /\ r \in ToSet(idList)
                               /\ ~task[r].waiting /\ task[r].group = NoGroup
    BY <2>3, <2>5, OutsideFacts
  <2>7. ToSet(sgroup) \cap ToSet(more) = {}
    BY <1>1, <1>2, <2>6
  <2>8. /\ sgroup \o more \in Seq(Reqs) /\ IsInjective(sgroup \o more)
        /\ ToSet(sgroup \o more) = ToSet(sgroup) \cup ToSet(more)
    BY <1>1, <2>5, <2>7, ConcatFacts
  <2>9. Len(sgroup \o more) = Len(sgroup) + Len(more)
    BY <1>1, <2>5, ConcatProperties
  <2>10. Len(sgroup \o more) <= SlotsSize(g)
    BY <1>1, <1>2, <2>5, <2>9 DEF n
  <2> QED
    BY <1>1, <1>3, <1>6, <2>6, <2>8, <2>10 DEF sgroup
<1> QED
  BY <1>4, <1>5, <1>6

\* The binary search ends within the list.
LEMMA PrefillStartType ==
  ASSUME NEW sgroup, Len(sgroup) \in Nat
  PROVE  PrefillStart(sgroup) \in 0 .. Len(sgroup)
<1> DEFINE n == Len(sgroup)
           V == [left : 0 .. n, right : 0 .. n]
           Middle(range) == (range.left + range.right) \div 2
           Half(last) == IF last.left >= last.right THEN last
                         ELSE IF Type(sgroup[Middle(last) + 1]) = "Prefill"
                              THEN [last EXCEPT !.right = Middle(last)]
                         ELSE [last EXCEPT !.left = Middle(last) + 1]
           base == [left |-> 0, right |-> n]
           F == [p \in (1 .. n) \X V |-> Half(p[2])]
           Eqn(f) == f = [turn \in 0 .. n |-> IF turn = 0 THEN base ELSE Half(f[turn - 1])]
<1>1. \A v \in V : Half(v) \in V
  <2> TAKE v \in V
  <2>1. PICK l \in 0 .. n, r \in 0 .. n : v = [left |-> l, right |-> r]
    OBVIOUS
  <2>2. \A a, b \in 0 .. n : a < b => (a + b) \div 2 \in 0 .. n /\ (a + b) \div 2 + 1 \in 0 .. n
    BY SMT
  <2>3. CASE l >= r
    BY <2>1, <2>3
  <2>4. CASE ~(l >= r)
    <3>1. Middle(v) \in 0 .. n /\ Middle(v) + 1 \in 0 .. n
      BY <2>1, <2>2, <2>4
    <3>2. Half(v) = IF Type(sgroup[Middle(v) + 1]) = "Prefill" THEN [v EXCEPT !.right = Middle(v)]
                    ELSE [v EXCEPT !.left = Middle(v) + 1]
      BY <2>1, <2>4
    <3> HIDE DEF Half, Middle
    <3>3. [v EXCEPT !.right = Middle(v)] \in V /\ [v EXCEPT !.left = Middle(v) + 1] \in V
      BY <3>1
    <3> HIDE DEF V
    <3> QED
      BY <3>2, <3>3
  <2> QED
    BY <2>3, <2>4
<1>2. base \in V /\ n \in Nat
  OBVIOUS
<1> HIDE DEF Half
<1>3. F \in [(1 .. n) \X V -> V] /\ \A i \in 1 .. n, v \in V : F[<<i, v>>] = Half(v)
  <2> HIDE DEF V, n
  <2>1. \A p \in (1 .. n) \X V : Half(p[2]) \in V
    BY <1>1
  <2>2. \A i \in 1 .. n, v \in V : F[<<i, v>>] = Half(v)
    OBVIOUS
  <2> QED
    BY <2>1, <2>2
<1> HIDE DEF V, F, base
<1>4. PICK f : Steps(f, n, V, F, base)
  <2> HIDE DEF n
  <2> QED
    BY <1>2, <1>3, StepsExist
<1>5. f \in [0 .. n -> V] /\ f[0] = base /\ \A i \in 1 .. n : f[i] = F[<<i, f[i - 1]>>]
  BY <1>4 DEF Steps
<1>6. Eqn(f)
  <2>1. \A i \in 1 .. n : f[i] = Half(f[i - 1])
    <3>1. \A i \in 1 .. n : i - 1 \in 0 .. n
      OBVIOUS
    <3> HIDE DEF n
    <3> QED
      BY <1>3, <1>5, <3>1
  <2>2. \A i \in 0 .. n : i # 0 => i \in 1 .. n
    OBVIOUS
  <2>3. \A i \in 0 .. n : f[i] = IF i = 0 THEN base ELSE Half(f[i - 1])
    BY <1>5, <2>1, <2>2
  <2> HIDE DEF n
  <2> QED
    BY <1>5, <2>3
<1> DEFINE range == CHOOSE h : Eqn(h)
<1>7. Eqn(range)
  <2> HIDE DEF Eqn
  <2> QED
    BY <1>6
<1>8. PrefillStart(sgroup) = range[n].right
  BY DEF PrefillStart, Half, base
<1> HIDE DEF range
<1> DEFINE P == [i \in 0 .. n |-> range[i] \in V]
<1>9. P[0]
  <2>1. 0 \in 0 .. n /\ range[0] = base
    BY <1>7
  <2> HIDE DEF n
  <2> QED
    BY <1>2, <2>1
<1>10. ASSUME NEW i \in 1 .. n, P[i - 1] PROVE P[i]
  <2>1. i \in 0 .. n /\ i # 0 /\ i - 1 \in 0 .. n
    OBVIOUS
  <2>2. range[i - 1] \in V /\ range[i] = Half(range[i - 1])
    BY <1>7, <1>10, <2>1
  <2> HIDE DEF n
  <2> QED
    BY <1>1, <2>1, <2>2
<1>11. \A i \in 0 .. n : P[i]
  <2> HIDE DEF P, n
  <2> QED
    BY <1>2, <1>9, <1>10, EachStep
<1>12. range[n] \in V
  <2>1. n \in 0 .. n
    BY <1>2
  <2>2. P[n]
    <3> HIDE DEF P, n
    <3> QED
      BY <1>11, <2>1
  <2> HIDE DEF n
  <2> QED
    BY <2>1, <2>2
<1> QED
  BY <1>8, <1>12 DEF V

\* A batch has tasks of its group.
LEMMA RetTaskIdsFacts ==
  ASSUME NEW sgroup \in Seq(Reqs)
  PROVE  RetTaskIds(sgroup) \in Seq(Reqs) /\ ToSet(RetTaskIds(sgroup)) \subseteq ToSet(sgroup)
<1> DEFINE m == PrefillStart(sgroup)
           tasks == SubSeq(sgroup, m + 1, Len(sgroup))
           K == {i \in DOMAIN tasks : LeftBefore(tasks, i) < args.chunk}
           n == Cardinality(K)
<1>1. Len(sgroup) \in Nat /\ Len(sgroup) <= Len(sgroup)
  BY LenProperties
<1>2. m \in Nat
  BY <1>1, PrefillStartType
<1> HIDE DEF m
<1>3. tasks \in Seq(Reqs) /\ ToSet(tasks) \subseteq ToSet(sgroup)
  BY <1>1, <1>2, SubSeqFacts
<1> HIDE DEF tasks
<1>4. n \in Nat /\ n <= Len(tasks)
  <2>1. Len(tasks) \in Nat /\ DOMAIN tasks = 1 .. Len(tasks)
    BY <1>3, LenProperties
  <2>2. K \subseteq 1 .. Len(tasks)
    BY <2>1
  <2>3. IsFiniteSet(1 .. Len(tasks)) /\ Cardinality(1 .. Len(tasks)) = Len(tasks)
    <3>1. 1 \in Int /\ Len(tasks) \in Int
      BY <2>1
    <3>2. /\ IsFiniteSet(1 .. Len(tasks))
          /\ Cardinality(1 .. Len(tasks)) = IF 1 > Len(tasks) THEN 0 ELSE Len(tasks) - 1 + 1
      BY <3>1, FS_Interval
    <3> QED
      BY <2>1, <3>2
  <2> HIDE DEF K
  <2>4. IsFiniteSet(K) /\ Cardinality(K) <= Len(tasks)
    BY <2>2, <2>3, FS_Subset
  <2> QED
    BY <2>4, FS_CardinalityType
<1>5. Chunked(tasks) = SubSeq(tasks, 0 + 1, n)
  BY DEF Chunked
<1> HIDE DEF n
<1>6. Chunked(tasks) \in Seq(Reqs) /\ ToSet(Chunked(tasks)) \subseteq ToSet(tasks)
  <2>1. 0 \in Nat
    OBVIOUS
  <2>2. /\ SubSeq(tasks, 0 + 1, n) \in Seq(Reqs)
        /\ ToSet(SubSeq(tasks, 0 + 1, n)) \subseteq ToSet(tasks)
    BY <1>3, <1>4, <2>1, SubSeqFacts
  <2> QED
    BY <1>5, <2>2
<1>7. RetTaskIds(sgroup) = IF ByChunks(sgroup) THEN Chunked(tasks) ELSE sgroup
  BY DEF RetTaskIds, tasks, m
<1> QED
  BY <1>3, <1>6, <1>7

\* The lists of the groups without the tasks that have ended.
LEMMA SgroupsWithoutFacts ==
  ASSUME sgroupList \in [Groups -> Seq(Reqs)],
         \A g \in Groups : IsInjective(sgroupList[g]),
         NEW order \in Seq(Reqs), IsInjective(order),
         \A r \in ToSet(order) : task[r].group \in Groups,
         \A r \in ToSet(order), g \in Groups : r \in ToSet(sgroupList[g]) <=> g = task[r].group
  PROVE  /\ SgroupsWithout(order) \in [Groups -> Seq(Reqs)]
         /\ \A g \in Groups :
              /\ IsInjective(SgroupsWithout(order)[g])
              /\ Len(SgroupsWithout(order)[g]) <= Len(sgroupList[g])
              /\ ToSet(SgroupsWithout(order)[g]) = ToSet(sgroupList[g]) \ ToSet(order)
<1> DEFINE n == Len(order)
           V == [Groups -> Seq(Reqs)]
           Group(i) == task[order[i]].group
           Less(i, v) == [v EXCEPT ![task[order[i]].group] = SwappedOut(@, order[i])]
           F == [p \in (1 .. n) \X V |-> Less(p[1], p[2])]
           Eqn(f) == f = [i \in 0 .. n |-> IF i = 0 THEN sgroupList ELSE Less(i, f[i - 1])]
<1>1. n \in Nat /\ DOMAIN order = 1 .. n
  BY LenProperties
<1>2. \A i \in 1 .. n : order[i] \in ToSet(order) /\ Group(i) \in Groups
  BY <1>1 DEF ToSet
<1>3. ASSUME NEW i \in 1 .. n, NEW v \in V
      PROVE  /\ Less(i, v) \in V
             /\ Less(i, v)[Group(i)] = SwappedOut(v[Group(i)], order[i])
             /\ \A g \in Groups : g # Group(i) => Less(i, v)[g] = v[g]
  <2>1. PICK h \in Groups : h = Group(i)
    BY <1>2
  <2>2. PICK w : w = SwappedOut(v[h], order[i])
    OBVIOUS
  <2>3. w \in Seq(Reqs)
    BY <2>2, SwappedOutFacts
  <2>4. Less(i, v) = [v EXCEPT ![h] = w]
    BY <2>1, <2>2
  <2> HIDE DEF Less, Group
  <2> QED
    BY <2>1, <2>2, <2>3, <2>4
<1> HIDE DEF Less, Group, n
<1>4. F \in [(1 .. n) \X V -> V] /\ \A i \in 1 .. n, v \in V : F[<<i, v>>] = Less(i, v)
  <2> HIDE DEF V
  <2>1. \A p \in (1 .. n) \X V : Less(p[1], p[2]) \in V
    BY <1>3
  <2> QED
    BY <2>1
<1> HIDE DEF V, F
<1>5. sgroupList \in V
  BY DEF V
<1>6. PICK f : Steps(f, n, V, F, sgroupList)
  BY <1>1, <1>4, <1>5, StepsExist
<1>7. f \in [0 .. n -> V] /\ f[0] = sgroupList /\ \A i \in 1 .. n : f[i] = F[<<i, f[i - 1]>>]
  BY <1>6 DEF Steps
<1>8. \A i \in 1 .. n : i - 1 \in 0 .. n
  BY <1>1
<1>9. Eqn(f)
  <2>1. \A i \in 1 .. n : f[i] = Less(i, f[i - 1])
    BY <1>4, <1>7, <1>8
  <2>2. \A i \in 0 .. n : i # 0 => i \in 1 .. n
    BY <1>1
  <2>3. \A i \in 0 .. n : f[i] = IF i = 0 THEN sgroupList ELSE Less(i, f[i - 1])
    BY <1>7, <2>1, <2>2
  <2> QED
    BY <1>7, <2>3
<1> DEFINE lists == CHOOSE l : Eqn(l)
<1>10. Eqn(lists)
  <2> HIDE DEF Eqn
  <2> QED
    BY <1>9
<1>11. SgroupsWithout(order) = lists[n]
  BY DEF SgroupsWithout, Less, n
<1> HIDE DEF lists
<1>12. lists[0] = sgroupList /\ \A i \in 1 .. n : lists[i] = Less(i, lists[i - 1])
  <2>1. 0 \in 0 .. n /\ \A i \in 1 .. n : i \in 0 .. n /\ i # 0
    BY <1>1
  <2> QED
    BY <1>10, <2>1
<1> DEFINE Gone(i) == {order[j] : j \in 1 .. i}
           Good(i) == /\ lists[i] \in V
                      /\ \A g \in Groups :
                           /\ IsInjective(lists[i][g])
                           /\ Len(lists[i][g]) <= Len(sgroupList[g])
                           /\ ToSet(lists[i][g]) = ToSet(sgroupList[g]) \ Gone(i)
           P == [i \in 0 .. n |-> Good(i)]
<1>13. \A g \in Groups : Len(sgroupList[g]) \in Nat
  BY LenProperties
<1>14. Good(0)
  <2>1. Gone(0) = {}
    OBVIOUS
  <2> HIDE DEF Gone
  <2> QED
    BY <1>5, <1>12, <1>13, <2>1
<1>15. ASSUME NEW i \in 1 .. n, Good(i - 1) PROVE Good(i)
  <2> DEFINE v == lists[i - 1]
             r == order[i]
             h == Group(i)
  <2>1. v \in V /\ h \in Groups /\ r \in ToSet(order) /\ h = task[r].group
    BY <1>2, <1>15 DEF Group
  <2>2. lists[i] = Less(i, v)
    BY <1>12
  <2>3. Gone(i) = Gone(i - 1) \cup {r}
    <3>1. \A j : j \in 1 .. i <=> j \in 1 .. i - 1 \/ j = i
      BY <1>1
    <3> QED
      BY <3>1
  <2>4. r \notin Gone(i - 1)
    <3>1. \A j \in 1 .. i - 1 : j \in DOMAIN order /\ i \in DOMAIN order /\ j # i
      BY <1>1
    <3> QED
      BY <3>1 DEF IsInjective
  <2>5. \A g \in Groups : /\ IsInjective(v[g]) /\ Len(v[g]) <= Len(sgroupList[g])
                          /\ ToSet(v[g]) = ToSet(sgroupList[g]) \ Gone(i - 1)
    BY <1>15
  <2>6. lists[i] \in V /\ lists[i][h] = SwappedOut(v[h], r)
        /\ \A g \in Groups : g # h => lists[i][g] = v[g]
    BY <1>3, <2>1, <2>2
  <2> HIDE DEF v, r, h, Gone
  <2>7. \A g \in Groups : r \in ToSet(sgroupList[g]) <=> g = h
    BY <2>1
  <2>8. r \in ToSet(v[h]) /\ v[h] \in Seq(Reqs)
    <3>1. r \in ToSet(v[h])
      BY <2>1, <2>4, <2>5, <2>7
    <3> QED
      BY <2>1, <3>1 DEF V
  <2>9. /\ IsInjective(lists[i][h]) /\ ToSet(lists[i][h]) = ToSet(v[h]) \ {r}
        /\ Len(lists[i][h]) = Len(v[h]) - 1
    <3>1. PICK s : s = v[h]
      OBVIOUS
    <3>2. s \in Seq(Reqs) /\ IsInjective(s) /\ r \in ToSet(s)
      BY <2>1, <2>5, <2>8, <3>1
    <3>3. /\ IsInjective(SwappedOut(s, r)) /\ ToSet(SwappedOut(s, r)) = ToSet(s) \ {r}
          /\ Len(SwappedOut(s, r)) = Len(s) - 1
      BY <3>2, SwappedOutFacts
    <3> QED
      BY <2>6, <3>1, <3>3
  <2>10. Len(v[h]) \in Nat
    BY <2>8, LenProperties
  <2>11. ASSUME NEW g \in Groups
         PROVE  /\ IsInjective(lists[i][g]) /\ Len(lists[i][g]) <= Len(sgroupList[g])
                /\ ToSet(lists[i][g]) = ToSet(sgroupList[g]) \ Gone(i)
    <3>1. CASE g = h
      <4>1. Len(lists[i][h]) <= Len(sgroupList[h])
        BY <1>13, <2>1, <2>5, <2>9, <2>10
      <4>2. ToSet(lists[i][h]) = ToSet(sgroupList[h]) \ Gone(i)
        BY <2>1, <2>3, <2>5, <2>9
      <4> QED
        BY <2>9, <3>1, <4>1, <4>2
    <3>2. CASE g # h
      <4>1. lists[i][g] = v[g] /\ r \notin ToSet(sgroupList[g])
        BY <2>6, <2>7, <3>2
      <4> QED
        BY <2>3, <2>5, <4>1
    <3> QED
      BY <3>1, <3>2
  <2> QED
    BY <2>6, <2>11
<1> HIDE DEF Good
<1>16. \A i \in 0 .. n : P[i]
  <2>1. P[0]
    <3>1. 0 \in 0 .. n
      BY <1>1
    <3> QED
      BY <1>14, <3>1
  <2>2. \A i \in 1 .. n : P[i - 1] => P[i]
    <3>1. \A i \in 1 .. n : i \in 0 .. n
      BY <1>1
    <3> QED
      BY <1>8, <1>15, <3>1
  <2> HIDE DEF P
  <2> QED
    BY <1>1, <2>1, <2>2, EachStep
<1>17. Good(n)
  <2>1. n \in 0 .. n
    BY <1>1
  <2> QED
    BY <1>16, <2>1
<1>18. Gone(n) = ToSet(order)
  BY <1>1 DEF ToSet
<1> QED
  BY <1>11, <1>17, <1>18 DEF Good, V

\* A task that joins a group, one that waits, stops, or has computed a part of its prompt.
InGroup(t, g, c) == [t EXCEPT !.group = g, !.chunk = c]
Waits(t, r, ids) == [t EXCEPT !.waiting = @ \/ r \in ids]
WaitsNot(t, r, ids) == [t EXCEPT !.waiting = @ /\ r \notin ids]
WithStatus(t, s) == [t EXCEPT !.status = s]

LEMMA TaskWith ==
  ASSUME NEW t, IsTask(t), NEW u
  PROVE  /\ \A g \in Groups : \A c : u = InGroup(t, g, c) =>
              IsTask(u) /\ u.group = g /\ u.waiting = t.waiting /\ u.status = t.status
         /\ \A r, ids : u = Waits(t, r, ids) =>
              /\ IsTask(u) /\ u.group = t.group /\ u.status = t.status
              /\ u.waiting <=> t.waiting \/ r \in ids
         /\ \A r, ids : u = WaitsNot(t, r, ids) =>
              /\ IsTask(u) /\ u.group = t.group /\ u.status = t.status
              /\ u.waiting <=> t.waiting /\ r \notin ids
         /\ \A s : u = WithStatus(t, s) =>
              IsTask(u) /\ u.group = t.group /\ u.waiting = t.waiting /\ u.status = s
         /\ u = ConsumeReqTokens(t) =>
              IsTask(u) /\ u.group = t.group /\ u.waiting = t.waiting /\ u.status = t.status
<1>1. PICK ty, left, chunk, status, group, waiting :
        /\ t = [type |-> ty, left |-> left, chunk |-> chunk, status |-> status,
                group |-> group, waiting |-> waiting]
        /\ group \in Groups \cup {NoGroup} /\ waiting \in BOOLEAN
  BY DEF IsTask
<1>2. ASSUME NEW g \in Groups, NEW c, u = InGroup(t, g, c)
      PROVE  IsTask(u) /\ u.group = g /\ u.waiting = t.waiting /\ u.status = t.status
  <2>1. PICK d : d = [t EXCEPT !.group = g]
    OBVIOUS
  <2>2. d = [type |-> ty, left |-> left, chunk |-> chunk, status |-> status,
             group |-> g, waiting |-> waiting]
    BY <1>1, <2>1
  <2>3. u = [d EXCEPT !.chunk = c]
    BY <1>1, <1>2, <2>1 DEF InGroup
  <2>4. u = [type |-> ty, left |-> left, chunk |-> c, status |-> status,
             group |-> g, waiting |-> waiting]
    BY <2>2, <2>3
  <2> QED
    BY <1>1, <2>4 DEF IsTask
<1>3. ASSUME NEW r, NEW ids, u = Waits(t, r, ids)
      PROVE  /\ IsTask(u) /\ u.group = t.group /\ u.status = t.status
             /\ u.waiting <=> t.waiting \/ r \in ids
  <2>1. u = [type |-> ty, left |-> left, chunk |-> chunk, status |-> status,
             group |-> group, waiting |-> waiting \/ r \in ids]
    BY <1>1, <1>3 DEF Waits
  <2> QED
    BY <1>1, <2>1 DEF IsTask
<1>6. ASSUME NEW r, NEW ids, u = WaitsNot(t, r, ids)
      PROVE  /\ IsTask(u) /\ u.group = t.group /\ u.status = t.status
             /\ u.waiting <=> t.waiting /\ r \notin ids
  <2>1. u = [type |-> ty, left |-> left, chunk |-> chunk, status |-> status,
             group |-> group, waiting |-> waiting /\ r \notin ids]
    BY <1>1, <1>6 DEF WaitsNot
  <2> QED
    BY <1>1, <2>1 DEF IsTask
<1>4. ASSUME NEW s, u = WithStatus(t, s)
      PROVE  IsTask(u) /\ u.group = t.group /\ u.waiting = t.waiting /\ u.status = s
  <2>1. u = [type |-> ty, left |-> left, chunk |-> chunk, status |-> s,
             group |-> group, waiting |-> waiting]
    BY <1>1, <1>4 DEF WithStatus
  <2> QED
    BY <1>1, <2>1 DEF IsTask
<1>5. ASSUME u = ConsumeReqTokens(t)
      PROVE  IsTask(u) /\ u.group = t.group /\ u.waiting = t.waiting /\ u.status = t.status
  <2>1. \E ty2, left2 :
          u = [type |-> ty2, left |-> left2, chunk |-> NoChunk, status |-> status,
               group |-> group, waiting |-> waiting]
    <3>1. CASE LastChunk(t)
      <4>1. u = [type |-> "Decode", left |-> 0, chunk |-> NoChunk, status |-> status,
                 group |-> group, waiting |-> waiting]
        BY <1>1, <1>5, <3>1 DEF ConsumeReqTokens
      <4> QED
        BY <4>1
    <3>2. CASE ~LastChunk(t)
      <4>1. u = [type |-> ty, left |-> left - chunk, chunk |-> NoChunk,
                 status |-> status, group |-> group, waiting |-> waiting]
        BY <1>1, <1>5, <3>2 DEF ConsumeReqTokens
      <4> QED
        BY <4>1
    <3> QED
      BY <3>1, <3>2
  <2> QED
    BY <1>1, <2>1 DEF IsTask
<1> QED
  BY <1>2, <1>3, <1>4, <1>5, <1>6

-----------------------------------------------------------------------------
(* What a step leaves alone *)

LEMMA TypingKept ==
  ASSUME Typing, args' = args,
         idList' \in Seq(Reqs), IsInjective(idList'),
         task' = [r \in Reqs |-> task'[r]], \A r \in Reqs : IsTask(task'[r]),
         batch' \in Seq(Reqs), unwaited' \in SUBSET Reqs,
         ongoing' \in Seq([tasks : SUBSET Reqs, done : BOOLEAN]),
         waitingTasks' \in [Groups -> SUBSET Reqs]
  PROVE  Typing'
<1>1. Groups' = Groups
  BY SameGroups
<1>2. \A r \in Reqs :
        /\ task'[r] = [type |-> task'[r].type, left |-> task'[r].left, chunk |-> task'[r].chunk,
                       status |-> task'[r].status, group |-> task'[r].group,
                       waiting |-> task'[r].waiting]
        /\ task'[r].group \in Groups' \cup {NoGroup} /\ task'[r].waiting \in BOOLEAN
  BY <1>1 DEF IsTask
<1>3. (\A r \in Reqs : IsTask(task[r]))'
  BY <1>2 DEF IsTask
<1>4. args' \in Configs
  BY DEF Typing
<1> QED
  BY <1>1, <1>3, <1>4 DEF Typing

LEMMA PartitionKept ==
  ASSUME Partition, args' = args, UNCHANGED <<freeSgroups, usedSgroups>>
  PROVE  Partition'
BY SameGroups DEF Partition

LEMMA ListsKept ==
  ASSUME Lists, args' = args, UNCHANGED <<idList, sgroupList>>,
         \A r \in Reqs : /\ task'[r].group = task[r].group
                         /\ task[r].status = "Stopped" => task'[r].status = "Stopped",
         idList \in Seq(Reqs)
  PROVE  Lists'
<1>1. Groups' = Groups /\ \A g : SlotsSize(g)' = SlotsSize(g)
  BY SameGroups
<1>2. \A r \in ToSet(idList) : r \in Reqs
  BY DEF ToSet
<1>3. \A g \in Groups : {r \in ToSet(idList) : task[r].group = g}
                          = {r \in ToSet(idList) : task'[r].group = g}
  BY <1>2
<1> QED
  BY <1>1, <1>3 DEF Lists

LEMMA AccountsKept ==
  ASSUME Accounts, args' = args, UNCHANGED <<sgroupList, usedSgroups, waitingTasks>>,
         Away' \cup ToSet(batch') \cup unwaited' = Away \cup ToSet(batch) \cup unwaited
  PROVE  Accounts'
BY SameGroups DEF Accounts

\* A step that moves no task and ends none.
LEMMA QuietStep ==
  ASSUME IInv, pc # "update", pc' # "schedule", pc' = "step" => ToSet(batch) = {},
         UNCHANGED <<args, idList, sgroupList, freeSgroups, usedSgroups, waitingTasks,
                     batch, ongoing, unwaited>>,
         task' = [r \in Reqs |-> task'[r]],
         \A r \in Reqs : /\ IsTask(task'[r])
                         /\ task'[r].group = task[r].group /\ task'[r].waiting = task[r].waiting
                         /\ task[r].status = "Stopped" => task'[r].status = "Stopped"
  PROVE  IInv'
<1>1. Typing'
  <2>1. /\ idList' \in Seq(Reqs) /\ IsInjective(idList')
        /\ batch' \in Seq(Reqs) /\ unwaited' \in SUBSET Reqs
        /\ ongoing' \in Seq([tasks : SUBSET Reqs, done : BOOLEAN])
        /\ waitingTasks' \in [Groups -> SUBSET Reqs]
    BY DEF IInv, Typing
  <2> QED
    BY <2>1, TypingKept DEF IInv
<1>2. Partition' /\ Lists'
  BY PartitionKept, ListsKept DEF IInv, Typing
<1>3. Away' = Away
  BY DEF Away
<1>4. UnderWay'
  BY <1>3 DEF IInv, UnderWay
<1>5. Accounts'
  BY <1>3, AccountsKept DEF IInv
<1>6. Turn'
  BY DEF IInv, Turn, ToSet
<1> QED
  BY <1>1, <1>2, <1>4, <1>5, <1>6 DEF IInv

\* No step at all.
LEMMA Stutter ==
  ASSUME IInv, UNCHANGED vars
  PROVE  IInv'
<1>1. UNCHANGED <<args, idList, task, sgroupList, freeSgroups, usedSgroups, waitingTasks,
                  batch, ongoing, unwaited, pc>>
  BY DEF vars, sched
<1>2. Typing'
  BY <1>1, TypingKept DEF IInv, Typing
<1>3. Partition' /\ Lists'
  BY <1>1, PartitionKept, ListsKept DEF IInv, Typing
<1>4. Away' = Away
  BY <1>1 DEF Away
<1>5. UnderWay' /\ Turn'
  BY <1>1, <1>4 DEF IInv, UnderWay, Turn
<1>6. Accounts'
  BY <1>1, <1>4, AccountsKept DEF IInv
<1> QED
  BY <1>2, <1>3, <1>5, <1>6 DEF IInv

-----------------------------------------------------------------------------
(* The initial state *)

LEMMA InitIInv == Init => IInv
<1> SUFFICES ASSUME Init PROVE IInv
  OBVIOUS
<1>1. args \in Configs
  BY DEF Init
<1>2. /\ idList \in Seq(Reqs) /\ IsInjective(idList) /\ ToSet(idList) = {}
      /\ batch \in Seq(Reqs) /\ ToSet(batch) = {}
      /\ ongoing \in Seq([tasks : SUBSET Reqs, done : BOOLEAN]) /\ DOMAIN ongoing = {}
  BY EmptySeq DEF Init, IsInjective, ToSet
<1>3. /\ task = [r \in Reqs |-> task[r]]
      /\ \A r \in Reqs : IsTask(task[r]) /\ task[r].group = NoGroup /\ ~task[r].waiting
  BY DEF Init, NewTask, IsTask
<1>4. Typing
  <2>1. waitingTasks \in [Groups -> SUBSET Reqs] /\ unwaited \in SUBSET Reqs
    BY DEF Init
  <2> QED
    BY <1>1, <1>2, <1>3, <2>1 DEF Typing
<1>5. Partition
  <2>1. Groups \in SUBSET Groups
    OBVIOUS
  <2>2. freeSgroups \in [1 .. NumSlots -> Groups] /\ NumSlots \in Nat
    BY <1>1, GroupFacts DEF Init
  <2>3. freeSgroups \in Seq(Groups)
    BY <2>2, SeqDef
  <2>4. IsInjective(freeSgroups) /\ ToSet(freeSgroups) = Groups
    BY DEF Init, IsInjective, ToSet
  <2>5. usedSgroups = {}
    BY DEF Init
  <2> QED
    BY <2>3, <2>4, <2>5 DEF Partition
<1>6. Lists
  <2>1. \A g \in Groups : g # NoGroup /\ SlotsSize(g) \in Nat
    BY <1>1, GroupFacts
  <2>2. \A g \in Groups : sgroupList[g] = <<>>
    BY DEF Init
  <2>3. <<>> \in Seq(Reqs) /\ IsInjective(<<>>) /\ Len(<<>>) = 0 /\ ToSet(<<>>) = {}
    BY EmptySeq DEF IsInjective, ToSet
  <2>4. sgroupList \in [Groups -> Seq(Reqs)]
    BY <2>3 DEF Init
  <2>5. \A g \in Groups : {r \in ToSet(idList) : task[r].group = g} = {}
    BY <1>2
  <2>6. ASSUME NEW g \in Groups
        PROVE  /\ IsInjective(sgroupList[g]) /\ Len(sgroupList[g]) <= SlotsSize(g)
               /\ ToSet(sgroupList[g]) = {r \in ToSet(idList) : task[r].group = g}
    <3>1. 0 <= SlotsSize(g)
      BY <2>1
    <3> QED
      BY <2>2, <2>3, <2>5, <3>1
  <2> QED
    BY <1>3, <2>4, <2>6 DEF Lists
<1>7. Away = {}
  BY <1>2 DEF Away
<1>8. UnderWay
  BY <1>2, <1>3, <1>7 DEF UnderWay
<1>9. Accounts
  <2>1. \A g \in Groups : waitingTasks[g] = {}
    BY DEF Init
  <2>2. unwaited = {}
    BY DEF Init
  <2> QED
    BY <1>2, <1>7, <2>1, <2>2 DEF Accounts
<1>10. Turn
  BY DEF Init, Turn
<1> QED
  BY <1>4, <1>5, <1>6, <1>8, <1>9, <1>10 DEF IInv

-----------------------------------------------------------------------------
(* The steps of the main loop *)

\* A request that arrives is in no group.
LEMMA AddAllQueuedStep ==
  ASSUME IInv, NEW r \in Reqs, AddAllQueued(r)
  PROVE  IInv'
<1>1. /\ r \notin ToSet(idList) /\ task[r].status # "Stopped"
      /\ idList' = Append(idList, r)
      /\ UNCHANGED <<args, task, sgroupList, freeSgroups, usedSgroups, waitingTasks,
                     batch, ongoing, unwaited, pc>>
  BY DEF AddAllQueued, sched
<1>2. /\ idList' \in Seq(Reqs) /\ IsInjective(idList') /\ ToSet(idList') = ToSet(idList) \cup {r}
  BY <1>1, AppendFacts DEF IInv, Typing
<1>3. Typing'
  BY <1>1, <1>2, TypingKept DEF IInv, Typing
<1>4. Partition'
  BY <1>1, PartitionKept DEF IInv
<1>5. Away' = Away
  BY <1>1 DEF Away
<1>6. UnderWay' /\ Turn'
  BY <1>1, <1>5 DEF IInv, UnderWay, Turn
<1>7. Accounts'
  BY <1>1, <1>5, AccountsKept DEF IInv
<1>8. Lists'
  <2>1. Groups' = Groups /\ \A g : SlotsSize(g)' = SlotsSize(g)
    BY <1>1, SameGroups
  <2>2. \A g \in Groups : g # NoGroup
    BY GroupFacts DEF IInv, Typing
  <2>3. task[r].group = NoGroup
    BY <1>1 DEF IInv, Lists
  <2>4. \A g \in Groups : {q \in ToSet(idList) : task[q].group = g}
                            = {q \in ToSet(idList') : task[q].group = g}
    BY <1>2, <2>2, <2>3
  <2>5. \A q \in Reqs : q \notin ToSet(idList') => task[q].status = "Stopped" \/ task[q].group = NoGroup
    BY <1>2 DEF IInv, Lists
  <2>6. task' = task /\ sgroupList' = sgroupList
    BY <1>1
  <2> QED
    BY <2>1, <2>4, <2>5, <2>6 DEF IInv, Lists
<1> QED
  BY <1>3, <1>4, <1>6, <1>7, <1>8 DEF IInv

\* The first free group gets its turn.
LEMMA HeadTaken ==
  ASSUME IInv, freeSgroups # <<>>, args' = args,
         freeSgroups' = Tail(freeSgroups), usedSgroups' = usedSgroups \cup {Head(freeSgroups)}
  PROVE  /\ Head(freeSgroups) \in Groups /\ Head(freeSgroups) \notin usedSgroups
         /\ Partition'
<1>1. freeSgroups \in Seq(Groups) /\ IsInjective(freeSgroups)
      /\ usedSgroups = {g \in Groups : g \notin ToSet(freeSgroups)}
  BY DEF IInv, Partition
<1>2. /\ Head(freeSgroups) \in Groups /\ Head(freeSgroups) \in ToSet(freeSgroups)
      /\ Tail(freeSgroups) \in Seq(Groups) /\ IsInjective(Tail(freeSgroups))
      /\ ToSet(Tail(freeSgroups)) = ToSet(freeSgroups) \ {Head(freeSgroups)}
  BY <1>1, HeadTailFacts
<1>3. usedSgroups' = {g \in Groups : g \notin ToSet(freeSgroups')}
  BY <1>1, <1>2
<1>4. Groups' = Groups
  BY SameGroups
<1>5. Partition'
  BY <1>2, <1>3, <1>4 DEF Partition
<1> QED
  BY <1>1, <1>2, <1>5

\* The tasks of a group under way are the ones it awaits: none while it is free.
LEMMA FreeNotAway ==
  ASSUME IInv, NEW g \in Groups, g \notin usedSgroups, NEW r \in ToSet(sgroupList[g])
  PROVE  ~task[r].waiting
<1>1. r \in ToSet(idList) /\ task[r].group = g /\ waitingTasks[g] = {}
  BY DEF IInv, Lists, Accounts
<1>2. r \in Reqs
  BY <1>1 DEF IInv, Typing, ToSet
<1>3. ASSUME task[r].waiting PROVE FALSE
  <2>1. PICK h \in Groups : r \in waitingTasks[h]
    BY <1>2, <1>3 DEF IInv, UnderWay, Accounts
  <2>2. r \in ToSet(sgroupList[h])
    BY <2>1 DEF IInv, Accounts
  <2>3. h = g
    BY <1>1, <2>2 DEF IInv, Lists
  <2> QED
    BY <1>1, <2>1, <2>3
<1> QED
  BY <1>3

\* A batch of the group.
LEMMA ScheduleStep ==
  ASSUME IInv, Schedule
  PROVE  IInv'
<1> DEFINE g == Head(freeSgroups)
<1>1. PICK sgroup \in {Filled(g)} : \E ids \in {RetTaskIds(sgroup)} :
           /\ sgroup # <<>>
           /\ sgroupList' = [sgroupList EXCEPT ![g] = sgroup]
           /\ freeSgroups' = Tail(freeSgroups)
           /\ usedSgroups' = usedSgroups \cup {g}
           /\ task' = JoinedTasks(g, sgroup, ids)
           /\ waitingTasks' = WaitingTasksOf(g, sgroup, ids)
           /\ batch' = ids
  BY DEF Schedule
<1>2. PICK ids \in {RetTaskIds(sgroup)} :
           /\ sgroup # <<>>
           /\ sgroupList' = [sgroupList EXCEPT ![g] = sgroup]
           /\ freeSgroups' = Tail(freeSgroups)
           /\ usedSgroups' = usedSgroups \cup {g}
           /\ task' = JoinedTasks(g, sgroup, ids)
           /\ waitingTasks' = WaitingTasksOf(g, sgroup, ids)
           /\ batch' = ids
  BY <1>1
<1>3. /\ pc = "schedule" /\ pc' = "step" /\ freeSgroups # <<>>
      /\ UNCHANGED <<args, idList, ongoing, unwaited>>
  BY DEF Schedule
<1>4. g \in Groups /\ g \notin usedSgroups /\ Partition'
  BY <1>2, <1>3, HeadTaken
<1> HIDE DEF g
<1>5. batch = <<>> /\ unwaited = {} /\ ToSet(batch) = {}
  BY <1>3 DEF IInv, Turn, ToSet
<1>6. /\ sgroup \in Seq(Reqs) /\ IsInjective(sgroup) /\ Len(sgroup) <= SlotsSize(g)
      /\ ToSet(sgroupList[g]) \subseteq ToSet(sgroup)
      /\ \A r \in ToSet(sgroup) :
           /\ r \in Reqs /\ r \in ToSet(idList)
           /\ \/ r \in ToSet(sgroupList[g])
              \/ ~task[r].waiting /\ task[r].group = NoGroup
  BY <1>4, FilledFacts DEF IInv
<1>7. ids \in Seq(Reqs) /\ ToSet(ids) \subseteq ToSet(sgroup)
  BY <1>6, RetTaskIdsFacts
<1>8. \A r : Contains(sgroup, r) <=> r \in ToSet(sgroup)
  BY <1>6, LenProperties DEF Contains, ToSet
<1>9. /\ task' = [r \in Reqs |-> task'[r]]
      /\ \A r \in Reqs : /\ IsTask(task'[r])
                         /\ task'[r].group = IF r \in ToSet(sgroup) THEN g ELSE task[r].group
                         /\ task'[r].waiting = task[r].waiting
                         /\ task'[r].status = task[r].status
  <2>1. task' = JoinedTasks(g, sgroup, ids)
    BY <1>2
  <2>2. task' = [r \in Reqs |-> task'[r]]
    <3> DEFINE T(r) == IF ~Contains(sgroup, r) THEN task[r]
                       ELSE [task[r] EXCEPT
                               !.group = g,
                               !.chunk = IF ByChunks(sgroup) /\ Contains(ids, r)
                                         THEN ChunkOf(ids, CHOOSE i \in DOMAIN ids : ids[i] = r)
                                         ELSE @]
    <3>1. task' = [r \in Reqs |-> T(r)]
      BY <2>1 DEF JoinedTasks
    <3> HIDE DEF T
    <3> QED
      BY <3>1
  <2>3. ASSUME NEW r \in Reqs
        PROVE  /\ IsTask(task'[r])
               /\ task'[r].group = IF r \in ToSet(sgroup) THEN g ELSE task[r].group
               /\ task'[r].waiting = task[r].waiting
               /\ task'[r].status = task[r].status
    <3>1. IsTask(task[r])
      BY DEF IInv, Typing
    <3>2. CASE r \in ToSet(sgroup)
      <4> DEFINE c == IF ByChunks(sgroup) /\ Contains(ids, r)
                      THEN ChunkOf(ids, CHOOSE i \in DOMAIN ids : ids[i] = r) ELSE task[r].chunk
      <4>1. task'[r] = InGroup(task[r], g, c)
        BY <1>8, <2>1, <3>2 DEF JoinedTasks, InGroup
      <4> HIDE DEF c
      <4>2. PICK t, u : t = task[r] /\ u = task'[r]
        OBVIOUS
      <4>3. IsTask(t) /\ u = InGroup(t, g, c)
        BY <3>1, <4>1, <4>2
      <4>4. IsTask(u) /\ u.group = g /\ u.waiting = t.waiting /\ u.status = t.status
        BY <1>4, <4>3, TaskWith
      <4> QED
        BY <3>2, <4>2, <4>4
    <3>3. CASE r \notin ToSet(sgroup)
      <4>1. task'[r] = task[r]
        BY <1>8, <2>1, <3>3 DEF JoinedTasks
      <4> QED
        BY <3>1, <3>3, <4>1
    <3> QED
      BY <3>2, <3>3
  <2> QED
    BY <2>2, <2>3
<1>10. waitingTasks' = [waitingTasks EXCEPT ![g] = ToSet(ids)] /\ waitingTasks \in [Groups -> SUBSET Reqs]
  BY <1>2 DEF WaitingTasksOf, IInv, Typing
<1>11. /\ waitingTasks'[g] = ToSet(ids)
       /\ \A h \in Groups : h # g => waitingTasks'[h] = waitingTasks[h]
       /\ waitingTasks[g] = {}
  BY <1>4, <1>10 DEF IInv, Accounts
<1>12. sgroupList \in [Groups -> Seq(Reqs)] /\ sgroupList' \in [Groups -> Seq(Reqs)]
       /\ sgroupList'[g] = sgroup
       /\ \A h \in Groups : h # g => sgroupList'[h] = sgroupList[h]
  BY <1>2, <1>4, <1>6 DEF IInv, Lists
<1>13. Groups' = Groups /\ \A h : SlotsSize(h)' = SlotsSize(h)
  BY <1>3, SameGroups
<1>14. \A h \in Groups : h # NoGroup
  BY GroupFacts DEF IInv, Typing
<1>15. Typing'
  <2>1. ToSet(ids) \in SUBSET Reqs
    BY <1>6, <1>7
  <2>2. waitingTasks' \in [Groups -> SUBSET Reqs]
    BY <1>10, <2>1
  <2>3. batch' \in Seq(Reqs)
    BY <1>2, <1>7
  <2> QED
    BY <1>3, <1>9, <2>2, <2>3, TypingKept DEF IInv, Typing
<1>16. Lists'
  <2>1. ASSUME NEW h \in Groups
        PROVE  /\ IsInjective(sgroupList'[h]) /\ Len(sgroupList'[h]) <= SlotsSize(h)
               /\ ToSet(sgroupList'[h]) = {r \in ToSet(idList) : task'[r].group = h}
    <3>1. /\ IsInjective(sgroupList[h]) /\ Len(sgroupList[h]) <= SlotsSize(h)
          /\ ToSet(sgroupList[h]) = {r \in ToSet(idList) : task[r].group = h}
      BY DEF IInv, Lists
    <3>2. \A r \in ToSet(idList) : r \in Reqs
      BY DEF IInv, Typing, ToSet
    <3>3. CASE h = g
      <4>1. ToSet(sgroup) = {r \in ToSet(idList) : task'[r].group = g}
        BY <1>6, <1>9, <3>1, <3>2, <3>3
      <4> QED
        BY <1>6, <1>12, <3>3, <4>1
    <3>4. CASE h # g
      <4>1. ASSUME NEW r \in ToSet(idList) PROVE task'[r].group = h <=> task[r].group = h
        <5>1. r \in ToSet(sgroup) => task[r].group # h
          <6>1. r \in ToSet(sgroupList[g]) => task[r].group = g
            BY <1>4 DEF IInv, Lists
          <6> QED
            BY <1>6, <1>14, <3>4, <6>1
        <5> QED
          BY <1>9, <3>2, <3>4, <5>1
      <4> QED
        BY <1>12, <3>1, <3>4, <4>1
    <3> QED
      BY <3>3, <3>4
  <2>2. ASSUME NEW r \in Reqs, r \notin ToSet(idList)
        PROVE  task'[r].status = "Stopped" \/ task'[r].group = NoGroup
    <3>1. r \notin ToSet(sgroup)
      BY <1>6, <2>2
    <3> QED
      BY <1>9, <2>2, <3>1 DEF IInv, Lists
  <2>3. idList' = idList
    BY <1>3
  <2> QED
    BY <1>12, <1>13, <2>1, <2>2, <2>3 DEF Lists
<1>17. Away' = Away
  BY <1>3 DEF Away
<1>18. UnderWay'
  BY <1>3, <1>9, <1>17 DEF IInv, UnderWay
<1>19. Accounts'
  <2>1. ASSUME NEW h \in Groups
        PROVE  /\ waitingTasks'[h] \subseteq ToSet(sgroupList'[h])
               /\ waitingTasks'[h] # {} => h \in usedSgroups'
    <3>1. CASE h = g
      BY <1>2, <1>7, <1>11, <1>12, <3>1
    <3>2. CASE h # g
      BY <1>2, <1>11, <1>12, <3>2 DEF IInv, Accounts
    <3> QED
      BY <3>1, <3>2
  <2>2. ASSUME NEW r \in Reqs
        PROVE  (\E h \in Groups : r \in waitingTasks'[h])
                 <=> r \in Away' \cup ToSet(batch') \cup unwaited'
    <3>1. (\E h \in Groups : r \in waitingTasks'[h])
            <=> (\E h \in Groups : r \in waitingTasks[h]) \/ r \in ToSet(ids)
      BY <1>4, <1>11
    <3>2. (\E h \in Groups : r \in waitingTasks[h]) <=> r \in Away
      BY <1>5 DEF IInv, Accounts
    <3>3. batch' = ids /\ unwaited' = {}
      BY <1>2, <1>3, <1>5
    <3> QED
      BY <1>17, <3>1, <3>2, <3>3
  <2> QED
    BY <1>13, <2>1, <2>2 DEF Accounts
<1>20. Turn'
  <2>1. ASSUME NEW r \in ToSet(ids) PROVE ~task'[r].waiting
    <3>1. r \in ToSet(sgroup) /\ r \in Reqs
      BY <1>6, <1>7
    <3>2. ~task[r].waiting
      BY <1>4, <1>6, <3>1, FreeNotAway
    <3> QED
      BY <1>9, <3>1, <3>2
  <2>2. batch' = ids /\ unwaited' = {}
    BY <1>2, <1>3, <1>5
  <2> QED
    BY <1>3, <2>1, <2>2 DEF Turn
<1> QED
  BY <1>4, <1>15, <1>16, <1>18, <1>19, <1>20 DEF IInv

LEMMA ScheduleAllAllocatedStep ==
  ASSUME IInv, ScheduleAllAllocated
  PROVE  IInv'
<1>1. /\ pc = "schedule" /\ freeSgroups # <<>> /\ pc' = "step" /\ batch' = <<>>
      /\ freeSgroups' = Tail(freeSgroups) /\ usedSgroups' = usedSgroups \cup {Head(freeSgroups)}
      /\ UNCHANGED <<args, idList, task, sgroupList, waitingTasks, ongoing, unwaited>>
  BY DEF ScheduleAllAllocated
<1>2. batch' = batch /\ unwaited = {}
  BY <1>1 DEF IInv, Turn
<1>3. Partition'
  BY <1>1, HeadTaken
<1>4. Typing'
  BY <1>1, <1>2, TypingKept DEF IInv, Typing
<1>5. Lists'
  BY <1>1, ListsKept DEF IInv, Typing
<1>6. Away' = Away
  BY <1>1 DEF Away
<1>7. UnderWay'
  BY <1>1, <1>6 DEF IInv, UnderWay
<1>8. Accounts'
  BY <1>1, <1>2, <1>6, SameGroups DEF IInv, Accounts
<1>9. Turn'
  BY <1>1, <1>2 DEF Turn, ToSet
<1> QED
  BY <1>3, <1>4, <1>5, <1>7, <1>8, <1>9 DEF IInv

LEMMA IdleSteps ==
  ASSUME IInv, ScheduleNothing \/ AssertionError \/ EmptyStep
  PROVE  IInv'
<1>1. /\ pc # "update" /\ pc' # "schedule" /\ (pc' = "step" => batch = <<>>)
      /\ UNCHANGED <<args, idList, task, sgroupList, freeSgroups, usedSgroups, waitingTasks,
                     batch, ongoing, unwaited>>
  BY DEF ScheduleNothing, AssertionError, EmptyStep, IInv, Turn, sched
<1>2. task = [r \in Reqs |-> task[r]] /\ \A r \in Reqs : IsTask(task[r])
  BY DEF IInv, Typing
<1>3. task' = [r \in Reqs |-> task'[r]]
  BY <1>1, <1>2
<1>4. \A r \in Reqs : /\ IsTask(task'[r])
                      /\ task'[r].group = task[r].group /\ task'[r].waiting = task[r].waiting
                      /\ task[r].status = "Stopped" => task'[r].status = "Stopped"
  BY <1>1, <1>2
<1>5. UNCHANGED <<args, idList, sgroupList, freeSgroups, usedSgroups, waitingTasks,
                  batch, ongoing, unwaited>>
  BY <1>1
<1>6. pc # "update" /\ pc' # "schedule" /\ (pc' = "step" => ToSet(batch) = {})
  BY <1>1 DEF ToSet
<1> QED
  BY <1>3, <1>4, <1>5, <1>6, QuietStep

\* Tokens are synchronised to tasks: what has stopped remains stopped.
LEMMA SynchronisedFacts ==
  ASSUME NEW t, \A r \in Reqs : IsTask(t[r]), NEW ids, NEW u \in Synchronised(t, ids)
  PROVE  /\ u = [r \in Reqs |-> u[r]]
         /\ \A r \in Reqs : /\ IsTask(u[r]) /\ u[r].group = t[r].group /\ u[r].waiting = t[r].waiting
                            /\ t[r].status = "Stopped" => u[r].status = "Stopped"
<1>1. PICK new \in [ids -> {"Normal", "WillStopLength", "Stopped"}] :
        /\ \A r \in ids : new[r] \in StatusAfter(t[r].status)
        /\ u = [r \in Reqs |-> [t[r] EXCEPT !.status = IF r \in ids THEN new[r] ELSE @]]
  BY DEF Synchronised
<1>2. u = [r \in Reqs |-> u[r]]
  BY <1>1
<1>3. ASSUME NEW r \in Reqs
      PROVE  /\ IsTask(u[r]) /\ u[r].group = t[r].group /\ u[r].waiting = t[r].waiting
             /\ t[r].status = "Stopped" => u[r].status = "Stopped"
  <2> DEFINE s == IF r \in ids THEN new[r] ELSE t[r].status
  <2>1. u[r] = WithStatus(t[r], s)
    BY <1>1 DEF WithStatus
  <2>2. t[r].status = "Stopped" => s = "Stopped"
    BY <1>1 DEF StatusAfter
  <2> HIDE DEF s
  <2>3. PICK x, v : x = t[r] /\ v = u[r]
    OBVIOUS
  <2>4. IsTask(x) /\ v = WithStatus(x, s)
    BY <2>1, <2>3
  <2>5. IsTask(v) /\ v.group = x.group /\ v.waiting = x.waiting /\ v.status = s
    BY <2>4, TaskWith
  <2> QED
    BY <2>2, <2>3, <2>5
<1> QED
  BY <1>2, <1>3

\* After the forward pass the batch is under way, or its tokens are there.
LEMMA AfterStepStep ==
  ASSUME IInv, pc = "step", NEW t, AfterStep(t),
         t = [r \in Reqs |-> t[r]],
         \A r \in Reqs : /\ IsTask(t[r]) /\ t[r].group = task[r].group
                         /\ t[r].waiting = task[r].waiting /\ t[r].status = task[r].status,
         UNCHANGED <<args, idList, sgroupList, freeSgroups, usedSgroups, waitingTasks, batch, unwaited>>
  PROVE  IInv'
<1>1. CASE args.pp > 1
  <2>1. /\ task' = Wait(t, ToSet(batch))
        /\ ongoing' = Append(ongoing, [tasks |-> ToSet(batch), done |-> FALSE])
        /\ pc' = "poll"
    BY <1>1 DEF AfterStep, AddNewOngoing
  <2>2. task' = [r \in Reqs |-> task'[r]]
    BY <2>1 DEF Wait
  <2>3. ASSUME NEW r \in Reqs
        PROVE  /\ IsTask(task'[r]) /\ task'[r].group = task[r].group
               /\ task'[r].waiting <=> task[r].waiting \/ r \in ToSet(batch)
               /\ task'[r].status = task[r].status
    <3>1. PICK x, v : x = t[r] /\ v = task'[r]
      OBVIOUS
    <3>2. IsTask(x) /\ v = Waits(x, r, ToSet(batch))
      BY <2>1, <3>1 DEF Wait, Waits
    <3>3. /\ IsTask(v) /\ v.group = x.group /\ v.status = x.status
          /\ v.waiting <=> x.waiting \/ r \in ToSet(batch)
      BY <3>2, TaskWith
    <3> QED
      BY <3>1, <3>3
  <2> DEFINE R == [tasks : SUBSET Reqs, done : BOOLEAN]
  <2>4. PICK e : e = [tasks |-> ToSet(batch), done |-> FALSE]
    OBVIOUS
  <2>5. e \in R /\ e.tasks = ToSet(batch)
    <3>1. ToSet(batch) \in SUBSET Reqs
      BY DEF IInv, Typing, ToSet
    <3> QED
      BY <2>4, <3>1
  <2>6. ongoing \in Seq(R) /\ ongoing' = Append(ongoing, e)
    BY <2>1, <2>4 DEF IInv, Typing
  <2> HIDE DEF R
  <2>7. /\ ongoing' \in Seq(R)
        /\ DOMAIN ongoing = 1 .. Len(ongoing) /\ Len(ongoing) \in Nat
        /\ DOMAIN ongoing' = 1 .. Len(ongoing) + 1
        /\ \A i \in 1 .. Len(ongoing) : ongoing'[i] = ongoing[i]
        /\ ongoing'[Len(ongoing) + 1] = e
    BY <2>5, <2>6, AppendFacts
  <2> DEFINE n == Len(ongoing)
  <2>8. /\ \A i \in DOMAIN ongoing' : i \in DOMAIN ongoing \/ i = n + 1
        /\ \A i \in DOMAIN ongoing : i \in DOMAIN ongoing' /\ i # n + 1 /\ ongoing'[i] = ongoing[i]
        /\ n + 1 \in DOMAIN ongoing' /\ ongoing'[n + 1].tasks = ToSet(batch)
    BY <2>5, <2>7
  <2> HIDE DEF n
  <2>9. Away' = Away \cup ToSet(batch)
    <3>1. /\ Away' = UNION {ongoing'[p].tasks : p \in DOMAIN ongoing'}
          /\ Away = UNION {ongoing[p].tasks : p \in DOMAIN ongoing}
      BY DEF Away
    <3>2. \A x : (\E p \in DOMAIN ongoing' : x \in ongoing'[p].tasks)
                   <=> (\E p \in DOMAIN ongoing : x \in ongoing[p].tasks) \/ x \in ToSet(batch)
      BY <2>8
    <3> QED
      BY <3>1, <3>2
  <2>10. \A p \in DOMAIN ongoing : ongoing[p].tasks \cap ToSet(batch) = {}
    <3>1. \A x \in ToSet(batch) : x \in Reqs
      BY DEF IInv, Typing, ToSet
    <3>2. \A x \in ToSet(batch) : x \notin Away
      BY <3>1 DEF IInv, Turn, UnderWay
    <3> QED
      BY <3>2 DEF Away
  <2>11. UnderWay'
    <3>1. \A p, q \in DOMAIN ongoing' : p # q => ongoing'[p].tasks \cap ongoing'[q].tasks = {}
      <4>1. \A p, q \in DOMAIN ongoing : p # q => ongoing[p].tasks \cap ongoing[q].tasks = {}
        BY DEF IInv, UnderWay
      <4> QED
        BY <2>8, <2>10, <4>1
    <3>2. \A r \in Reqs : task'[r].waiting <=> r \in Away'
      BY <2>3, <2>9 DEF IInv, UnderWay
    <3> QED
      BY <3>1, <3>2 DEF UnderWay
  <2>12. Typing'
    <3>1. ongoing' \in Seq([tasks : SUBSET Reqs, done : BOOLEAN])
      BY <2>7 DEF R
    <3> QED
      BY <2>2, <2>3, <3>1, TypingKept DEF IInv, Typing
  <2>13. Partition' /\ Lists'
    BY <2>3, PartitionKept, ListsKept DEF IInv, Typing
  <2>14. Accounts'
    BY <2>9, AccountsKept DEF IInv
  <2>15. Turn'
    BY <2>1 DEF IInv, Turn
  <2> QED
    BY <2>11, <2>12, <2>13, <2>14, <2>15 DEF IInv
<1>2. CASE ~(args.pp > 1)
  <2>1. /\ task' = t \/ task' \in Synchronised(t, Outputs)
        /\ ongoing' = ongoing /\ pc' = "update"
    BY <1>2 DEF AfterStep
  <2>2. /\ task' = [r \in Reqs |-> task'[r]]
        /\ \A r \in Reqs : /\ IsTask(task'[r])
                           /\ task'[r].group = t[r].group /\ task'[r].waiting = t[r].waiting
                           /\ t[r].status = "Stopped" => task'[r].status = "Stopped"
    <3>1. CASE task' = t
      BY <3>1
    <3>2. CASE task' \in Synchronised(t, Outputs)
      BY <3>2, SynchronisedFacts
    <3> QED
      BY <2>1, <3>1, <3>2
  <2> QED
    BY <2>1, <2>2, QuietStep
<1> QED
  BY <1>1, <1>2

LEMMA ExecutorSteps ==
  ASSUME IInv, PrefillStep \/ DecodeStep \/ DecodeStepOverlap
  PROVE  IInv'
<1>1. /\ pc = "step"
      /\ UNCHANGED <<args, idList, sgroupList, freeSgroups, usedSgroups, waitingTasks, batch, unwaited>>
  BY DEF PrefillStep, DecodeStep, DecodeStepOverlap, sched
<1>2. task = [r \in Reqs |-> task[r]] /\ \A r \in Reqs : IsTask(task[r])
  BY DEF IInv, Typing
<1>3. CASE PrefillStep
  <2> DEFINE t == [r \in Reqs |-> IF Contains(batch, r) THEN ConsumeReqTokens(task[r])
                                                        ELSE task[r]]
  <2>1. AfterStep(t)
    BY <1>3 DEF PrefillStep
  <2>2. t = [r \in Reqs |-> t[r]]
    OBVIOUS
  <2>3. \A r \in Reqs : t[r] = ConsumeReqTokens(task[r]) \/ t[r] = task[r]
    OBVIOUS
  <2> HIDE DEF t
  <2>4. ASSUME NEW r \in Reqs
        PROVE  /\ IsTask(t[r]) /\ t[r].group = task[r].group
               /\ t[r].waiting = task[r].waiting /\ t[r].status = task[r].status
    <3>1. PICK x, v : x = task[r] /\ v = t[r]
      OBVIOUS
    <3>2. IsTask(x) /\ (v = ConsumeReqTokens(x) \/ v = x)
      BY <1>2, <2>3, <3>1
    <3>3. IsTask(v) /\ v.group = x.group /\ v.waiting = x.waiting /\ v.status = x.status
      BY <3>2, TaskWith
    <3> QED
      BY <3>1, <3>3
  <2> QED
    BY <1>1, <2>1, <2>2, <2>4, AfterStepStep
<1>4. CASE DecodeStep
  <2>1. AfterStep(task)
    BY <1>4 DEF DecodeStep
  <2> QED
    BY <1>1, <1>2, <2>1, AfterStepStep
<1>5. CASE DecodeStepOverlap
  <2>1. task' \in Synchronised(task, Outputs) /\ pc' = "update" /\ ongoing' = ongoing
    BY <1>5 DEF DecodeStepOverlap
  <2> QED
    BY <1>1, <1>2, <2>1, SynchronisedFacts, QuietStep
<1> QED
  BY <1>3, <1>4, <1>5


-----------------------------------------------------------------------------
(* The batches under way and the end of a turn *)

LEMMA CompleteStep ==
  ASSUME IInv, Complete
  PROVE  IInv'
<1> DEFINE R == [tasks : SUBSET Reqs, done : BOOLEAN]
<1>1. PICK p \in DOMAIN ongoing : ongoing' = [ongoing EXCEPT ![p].done = TRUE]
  BY DEF Complete
<1>2. UNCHANGED <<args, idList, task, sgroupList, freeSgroups, usedSgroups, waitingTasks,
                  batch, unwaited, pc>>
  BY DEF Complete, sched
<1>3. /\ ongoing \in [1 .. Len(ongoing) -> R] /\ Len(ongoing) \in Nat
      /\ DOMAIN ongoing = 1 .. Len(ongoing)
  <2>1. ongoing \in Seq(R)
    BY DEF IInv, Typing
  <2> HIDE DEF R
  <2> QED
    BY <2>1, LenProperties
<1>4. PICK x, e : x = ongoing[p] /\ e = [x EXCEPT !.done = TRUE]
  OBVIOUS
<1>5. e \in R /\ e.tasks = ongoing[p].tasks
  <2>1. x \in R
    BY <1>3, <1>4
  <2>2. PICK t, d : t \in SUBSET Reqs /\ x = [tasks |-> t, done |-> d]
    BY <2>1
  <2>3. PICK y : y = TRUE
    OBVIOUS
  <2>4. e = [x EXCEPT !.done = y]
    BY <1>4, <2>3
  <2>5. e = [tasks |-> t, done |-> y]
    BY <2>2, <2>4
  <2>6. e.tasks = t /\ e \in R
    BY <2>2, <2>3, <2>5
  <2>7. ongoing[p].tasks = t
    BY <1>4, <2>2
  <2> QED
    BY <2>6, <2>7
<1>6. ongoing' = [ongoing EXCEPT ![p] = e]
  BY <1>1, <1>4
<1> HIDE DEF R
<1>7. /\ ongoing' \in Seq(R) /\ DOMAIN ongoing' = DOMAIN ongoing
      /\ \A q \in DOMAIN ongoing : ongoing'[q].tasks = ongoing[q].tasks
  <2>1. ongoing' \in [1 .. Len(ongoing) -> R]
    BY <1>3, <1>5, <1>6
  <2>2. ongoing' \in Seq(R)
    BY <1>3, <2>1, SeqDef
  <2> QED
    BY <1>3, <1>5, <1>6, <2>2
<1>8. Away' = Away
  BY <1>7 DEF Away
<1>9. Typing'
  <2>1. ongoing' \in Seq([tasks : SUBSET Reqs, done : BOOLEAN])
    BY <1>7 DEF R
  <2> QED
    BY <1>2, <2>1, TypingKept DEF IInv, Typing
<1>10. Partition' /\ Lists'
  BY <1>2, PartitionKept, ListsKept DEF IInv, Typing
<1>11. UnderWay'
  BY <1>2, <1>7, <1>8 DEF IInv, UnderWay
<1>12. Accounts'
  BY <1>2, <1>8, AccountsKept DEF IInv
<1>13. Turn'
  BY <1>2 DEF IInv, Turn
<1> QED
  BY <1>9, <1>10, <1>11, <1>12, <1>13 DEF IInv

\* Tokens that have arrived are taken: their tasks wait no longer, the others do.
LEMMA UpdateOngoingStep ==
  ASSUME IInv, UpdateOngoing
  PROVE  IInv'
<1> DEFINE R == [tasks : SUBSET Reqs, done : BOOLEAN]
           t == [r \in Reqs |-> [task[r] EXCEPT !.waiting = @ /\ r \notin TakenTasks]]
<1>1. /\ pc = "poll" /\ pc' = "update" /\ unwaited' = TakenTasks
      /\ task' \in Synchronised(t, TakenTasks)
      /\ UNCHANGED <<args, idList, sgroupList, freeSgroups, usedSgroups, waitingTasks, batch>>
  BY DEF UpdateOngoing, sched
<1>2. PICK left : /\ left = Filtered([p \in DOMAIN ongoing |-> p], DOMAIN ongoing \ Taken)
                  /\ ongoing' = [i \in DOMAIN left |-> ongoing[left[i]]]
  BY DEF UpdateOngoing
<1>3. unwaited = {}
  BY <1>1 DEF IInv, Turn
<1>4. Taken \in SUBSET DOMAIN ongoing
  BY DEF Taken
<1>5. TakenTasks = UNION {ongoing[p].tasks : p \in Taken}
  BY DEF TakenTasks
<1>6. ongoing \in Seq(R)
  BY DEF IInv, Typing
<1>7. \A r \in Reqs : IsTask(t[r]) /\ t[r].group = task[r].group /\ t[r].status = task[r].status
                      /\ (t[r].waiting <=> task[r].waiting /\ r \notin TakenTasks)
  <2> SUFFICES ASSUME NEW r \in Reqs
               PROVE  IsTask(t[r]) /\ t[r].group = task[r].group /\ t[r].status = task[r].status
                      /\ (t[r].waiting <=> task[r].waiting /\ r \notin TakenTasks)
    OBVIOUS
  <2>1. PICK x, v : x = task[r] /\ v = t[r]
    OBVIOUS
  <2>2. IsTask(x) /\ v = WaitsNot(x, r, TakenTasks)
    BY <2>1 DEF WaitsNot, IInv, Typing
  <2>3. /\ IsTask(v) /\ v.group = x.group /\ v.status = x.status
        /\ v.waiting <=> x.waiting /\ r \notin TakenTasks
    BY <2>2, TaskWith
  <2> QED
    BY <2>1, <2>3
<1> HIDE DEF t, R
<1>8. /\ task' = [r \in Reqs |-> task'[r]]
      /\ \A r \in Reqs : /\ IsTask(task'[r]) /\ task'[r].group = t[r].group
                         /\ task'[r].waiting = t[r].waiting
                         /\ t[r].status = "Stopped" => task'[r].status = "Stopped"
  BY <1>1, <1>7, SynchronisedFacts
<1>9. /\ ongoing' \in Seq(R) /\ DOMAIN ongoing' = DOMAIN left
      /\ \A i \in DOMAIN ongoing' : /\ ongoing'[i] = ongoing[left[i]]
                                    /\ left[i] \in DOMAIN ongoing /\ left[i] \notin Taken
      /\ \A i, j \in DOMAIN ongoing' : i # j => left[i] # left[j]
      /\ \A p \in DOMAIN ongoing : p \in Taken \/ \E i \in DOMAIN ongoing' : left[i] = p
  <2>1. PICK n, D, S, all, rest :
          /\ n = Len(ongoing) /\ D = DOMAIN ongoing /\ S = Taken
          /\ all = [p \in DOMAIN ongoing |-> p] /\ rest = DOMAIN ongoing \ Taken
    OBVIOUS
  <2>2. n \in Nat /\ D = 1 .. n /\ \A p \in D : ongoing[p] \in R
    BY <1>6, <2>1, LenProperties, ElementOfSeq
  <2>3. /\ S \in SUBSET D /\ rest = D \ S
        /\ all \in [D -> D] /\ \A p \in D : all[p] = p
    BY <1>4, <2>1
  <2>4. left = Filtered(all, rest)
    BY <1>2, <2>1
  <2>5. /\ left \in Seq(D)
        /\ \A i \in DOMAIN left : left[i] \in D /\ left[i] \notin S
        /\ \A i, j \in DOMAIN left : i # j => left[i] # left[j]
        /\ \A p \in D : p \in S \/ \E i \in DOMAIN left : left[i] = p
    <3>1. all \in Seq(D)
      <4>1. all \in [1 .. n -> D] /\ n \in Nat
        BY <2>2, <2>3
      <4> QED
        BY <4>1, SeqDef
    <3>2. IsInjective(all) /\ ToSet(all) = D
      BY <2>3 DEF IsInjective, ToSet
    <3>3. /\ Filtered(all, rest) \in Seq(D) /\ IsInjective(Filtered(all, rest))
          /\ ToSet(Filtered(all, rest)) = {p \in ToSet(all) : p \in rest}
      BY <3>1, <3>2, FilteredFacts
    <3>4. left \in Seq(D) /\ IsInjective(left) /\ ToSet(left) = D \ S
      BY <2>3, <2>4, <3>2, <3>3
    <3>5. /\ \A i \in DOMAIN left : left[i] \in ToSet(left)
          /\ \A p \in ToSet(left) : \E i \in DOMAIN left : left[i] = p
      BY DEF ToSet
    <3>6. \A i, j \in DOMAIN left : i # j => left[i] # left[j]
      BY <3>4 DEF IsInjective
    <3> QED
      BY <3>4, <3>5, <3>6
  <2>6. Len(left) \in Nat /\ DOMAIN left = 1 .. Len(left)
    BY <2>5, LenProperties
  <2>7. DOMAIN ongoing' = DOMAIN left /\ \A i \in DOMAIN left : ongoing'[i] = ongoing[left[i]]
    BY <1>2
  <2>8. ongoing' \in [1 .. Len(left) -> R]
    BY <1>2, <2>2, <2>5, <2>6
  <2>9. ongoing' \in Seq(R)
    BY <2>6, <2>8, SeqDef
  <2> QED
    BY <2>1, <2>5, <2>7, <2>9
<1>10. \A p, q \in DOMAIN ongoing : p # q => ongoing[p].tasks \cap ongoing[q].tasks = {}
  BY DEF IInv, UnderWay
<1>11. Away' = Away \ TakenTasks /\ TakenTasks \subseteq Away
  <2>1. /\ Away' = UNION {ongoing'[p].tasks : p \in DOMAIN ongoing'}
        /\ Away = UNION {ongoing[p].tasks : p \in DOMAIN ongoing}
    BY DEF Away
  <2>2. ASSUME NEW x, NEW i \in DOMAIN ongoing', x \in ongoing'[i].tasks
        PROVE  x \in Away /\ x \notin TakenTasks
    <3>1. left[i] \in DOMAIN ongoing /\ left[i] \notin Taken /\ x \in ongoing[left[i]].tasks
      BY <1>9, <2>2
    <3>2. \A p \in Taken : x \notin ongoing[p].tasks
      BY <1>4, <1>10, <3>1
    <3> QED
      BY <1>5, <2>1, <3>1, <3>2
  <2>3. ASSUME NEW x \in Away, x \notin TakenTasks
        PROVE  \E i \in DOMAIN ongoing' : x \in ongoing'[i].tasks
    <3>1. PICK p \in DOMAIN ongoing : x \in ongoing[p].tasks
      BY <2>1
    <3>2. p \notin Taken
      BY <1>5, <2>3, <3>1
    <3>3. PICK i \in DOMAIN ongoing' : left[i] = p
      BY <1>9, <3>2
    <3> QED
      BY <1>9, <3>1, <3>3
  <2>4. TakenTasks \subseteq Away
    BY <1>4, <1>5, <2>1
  <2> QED
    BY <2>1, <2>2, <2>3, <2>4
<1>12. Away \subseteq Reqs
  <2>1. \A p \in DOMAIN ongoing : ongoing[p] \in R
    BY <1>6, LenProperties, ElementOfSeq
  <2>2. \A e \in R : e.tasks \subseteq Reqs
    BY DEF R
  <2> QED
    BY <2>1, <2>2 DEF Away
<1>13. Typing'
  <2>1. ongoing' \in Seq([tasks : SUBSET Reqs, done : BOOLEAN])
    BY <1>9 DEF R
  <2>2. unwaited' \in SUBSET Reqs
    BY <1>1, <1>11, <1>12
  <2> QED
    BY <1>1, <1>8, <2>1, <2>2, TypingKept DEF IInv, Typing
<1>14. Partition' /\ Lists'
  BY <1>1, <1>7, <1>8, PartitionKept, ListsKept DEF IInv, Typing
<1>15. UnderWay'
  <2>1. \A r \in Reqs : task'[r].waiting <=> r \in Away'
    BY <1>7, <1>8, <1>11 DEF IInv, UnderWay
  <2>2. \A i, j \in DOMAIN ongoing' : i # j => ongoing'[i].tasks \cap ongoing'[j].tasks = {}
    BY <1>9, <1>10
  <2> QED
    BY <2>1, <2>2 DEF UnderWay
<1>16. Accounts'
  <2>1. Away' \cup ToSet(batch') \cup unwaited' = Away \cup ToSet(batch) \cup unwaited
    BY <1>1, <1>3, <1>11
  <2> QED
    BY <1>1, <2>1, AccountsKept DEF IInv
<1>17. Turn'
  BY <1>1 DEF Turn
<1> QED
  BY <1>13, <1>14, <1>15, <1>16, <1>17 DEF IInv

\* The tasks whose tokens are there belong to a group, and so do the ones that end.
LEMMA ReturnedFacts ==
  ASSUME IInv
  PROVE  /\ \A r \in Returned : /\ r \in Reqs /\ r \in ToSet(idList) /\ task[r].group \in Groups
                                /\ r \in ToSet(batch) \cup unwaited /\ ~task[r].waiting
         /\ Finished \subseteq Returned /\ \A r \in Finished : task[r].status = "Stopped"
         /\ Finished \in SUBSET Reqs /\ IsFiniteSet(Finished)
<1>1. \A r \in Returned : r \in ToSet(batch) \cup unwaited /\ ~task[r].waiting
  BY DEF Returned
<1>2. \A r \in ToSet(batch) \cup unwaited : r \in Reqs
  BY DEF IInv, Typing, ToSet
<1>3. ASSUME NEW r \in Returned PROVE r \in ToSet(idList) /\ task[r].group \in Groups
  <2>1. PICK g \in Groups : r \in waitingTasks[g]
    BY <1>1, <1>2 DEF IInv, Accounts
  <2>2. r \in ToSet(sgroupList[g])
    BY <2>1 DEF IInv, Accounts
  <2> QED
    BY <2>2 DEF IInv, Lists
<1>4. Finished \subseteq Returned /\ \A r \in Finished : task[r].status = "Stopped"
  BY DEF Finished
<1>5. IsFiniteSet(ToSet(idList))
  <2>1. idList \in [1 .. Len(idList) -> Reqs] /\ Len(idList) \in Nat
    BY LenProperties DEF IInv, Typing
  <2>2. idList \in Surjection(1 .. Len(idList), ToSet(idList))
    BY <2>1 DEF Surjection, ToSet
  <2>3. IsFiniteSet(1 .. Len(idList))
    BY <2>1, FS_Interval
  <2> QED
    BY <2>2, <2>3, FS_Surjection
<1>6. Finished \subseteq ToSet(idList)
  BY <1>3, <1>4
<1>7. IsFiniteSet(Finished)
  BY <1>5, <1>6, FS_Subset
<1> QED
  BY <1>1, <1>2, <1>3, <1>4, <1>7

\* What has ended leaves the pool and its group, and the groups that await nothing are free.
LEMMA UpdateStep ==
  ASSUME IInv, Update
  PROVE  IInv'
<1>1. PICK order \in SetToSeqs(Finished) : sgroupList' = SgroupsWithout(order)
  BY DEF Update
<1>2. /\ idList' = Filtered(idList, Reqs \ Finished)
      /\ waitingTasks' = WaitingAfter
      /\ usedSgroups' = usedSgroups \ Freed
      /\ freeSgroups' = FreeSgroupsAfter(Freed)
      /\ batch' = <<>> /\ unwaited' = {} /\ pc' = "schedule"
      /\ UNCHANGED <<args, task, ongoing>>
  BY DEF Update
<1>3. /\ \A r \in Returned : /\ r \in Reqs /\ r \in ToSet(idList) /\ task[r].group \in Groups
                             /\ r \in ToSet(batch) \cup unwaited /\ ~task[r].waiting
      /\ Finished \subseteq Returned /\ \A r \in Finished : task[r].status = "Stopped"
      /\ Finished \in SUBSET Reqs /\ IsFiniteSet(Finished)
  BY ReturnedFacts
<1>4. order \in Seq(Reqs) /\ IsInjective(order) /\ ToSet(order) = Finished
  BY <1>3, InOrder
<1>5. /\ idList \in Seq(Reqs) /\ IsInjective(idList)
      /\ \A r \in ToSet(idList) : r \in Reqs
  BY DEF IInv, Typing, ToSet
<1>6. /\ sgroupList \in [Groups -> Seq(Reqs)]
      /\ \A g \in Groups : /\ IsInjective(sgroupList[g]) /\ Len(sgroupList[g]) <= SlotsSize(g)
                           /\ ToSet(sgroupList[g]) = {r \in ToSet(idList) : task[r].group = g}
  BY DEF IInv, Lists
<1>7. /\ sgroupList' \in [Groups -> Seq(Reqs)]
      /\ \A g \in Groups :
           /\ IsInjective(sgroupList'[g]) /\ Len(sgroupList'[g]) <= Len(sgroupList[g])
           /\ ToSet(sgroupList'[g]) = ToSet(sgroupList[g]) \ Finished
  <2>1. \A r \in ToSet(order) : task[r].group \in Groups
    BY <1>3, <1>4
  <2>2. \A r \in ToSet(order), g \in Groups : r \in ToSet(sgroupList[g]) <=> g = task[r].group
    BY <1>3, <1>4, <1>6
  <2>3. PICK w : w = SgroupsWithout(order)
    OBVIOUS
  <2>4. /\ SgroupsWithout(order) \in [Groups -> Seq(Reqs)]
        /\ \A g \in Groups :
             /\ IsInjective(SgroupsWithout(order)[g])
             /\ Len(SgroupsWithout(order)[g]) <= Len(sgroupList[g])
             /\ ToSet(SgroupsWithout(order)[g]) = ToSet(sgroupList[g]) \ ToSet(order)
    BY <1>4, <1>6, <2>1, <2>2, SgroupsWithoutFacts
  <2> QED
    BY <1>1, <1>4, <2>4
<1>8. /\ idList' \in Seq(Reqs) /\ IsInjective(idList')
      /\ ToSet(idList') = {r \in ToSet(idList) : r \in Reqs \ Finished}
  BY <1>2, <1>5, FilteredFacts
<1>9. /\ WaitingAfter = [g \in Groups |-> {r \in waitingTasks[g] : r \notin Returned}]
      /\ waitingTasks \in [Groups -> SUBSET Reqs]
  BY DEF WaitingAfter, IInv, Typing
<1>10. \A g \in Groups : waitingTasks'[g] = {r \in waitingTasks[g] : r \notin Returned}
  BY <1>2, <1>9
<1>11. Groups' = Groups /\ \A g : SlotsSize(g)' = SlotsSize(g)
  BY <1>2, SameGroups
<1>12. Freed = {g \in usedSgroups : waitingTasks'[g] = {}}
  BY <1>2 DEF Freed
<1>13. Typing'
  <2>1. waitingTasks' \in [Groups -> SUBSET Reqs]
    BY <1>2, <1>9
  <2>2. batch' \in Seq(Reqs) /\ unwaited' \in SUBSET Reqs
    BY <1>2, EmptySeq
  <2> QED
    BY <1>2, <1>8, <2>1, <2>2, TypingKept DEF IInv, Typing
<1>14. Partition'
  <2>1. /\ freeSgroups \in Seq(Groups) /\ IsInjective(freeSgroups)
        /\ usedSgroups = {g \in Groups : g \notin ToSet(freeSgroups)}
    BY DEF IInv, Partition
  <2>2. PICK freed : freed = Filtered([g \in Groups |-> g], Freed)
    OBVIOUS
  <2>3. Freed \in SUBSET Groups
    BY <1>12, <2>1
  <2>4. freed \in Seq(Groups) /\ IsInjective(freed) /\ ToSet(freed) = Freed
    BY <2>2, <2>3, GroupsInOrder DEF IInv, Typing
  <2>5. freeSgroups' = freeSgroups \o freed
    BY <1>2, <2>2 DEF FreeSgroupsAfter
  <2>6. ToSet(freeSgroups) \cap ToSet(freed) = {}
    BY <1>12, <2>1, <2>4
  <2>7. /\ freeSgroups' \in Seq(Groups) /\ IsInjective(freeSgroups')
        /\ ToSet(freeSgroups') = ToSet(freeSgroups) \cup ToSet(freed)
    BY <2>1, <2>4, <2>5, <2>6, ConcatFacts
  <2>8. usedSgroups' = {g \in Groups : g \notin ToSet(freeSgroups')}
    BY <1>2, <2>1, <2>4, <2>7
  <2> QED
    BY <1>11, <2>7, <2>8 DEF Partition
<1>15. Lists'
  <2>1. \A g \in Groups : SlotsSize(g) \in Nat /\ Len(sgroupList[g]) \in Nat /\ Len(sgroupList'[g]) \in Nat
    <3>1. \A g \in Groups : SlotsSize(g) \in Nat
      BY GroupFacts DEF IInv, Typing
    <3>2. \A g \in Groups : Len(sgroupList[g]) \in Nat
      BY <1>6, LenProperties
    <3>3. \A g \in Groups : Len(sgroupList'[g]) \in Nat
      BY <1>7, LenProperties
    <3> QED
      BY <3>1, <3>2, <3>3
  <2>2. ASSUME NEW g \in Groups
        PROVE  /\ IsInjective(sgroupList'[g]) /\ Len(sgroupList'[g]) <= SlotsSize(g)
               /\ ToSet(sgroupList'[g]) = {r \in ToSet(idList') : task[r].group = g}
    <3>1. Len(sgroupList'[g]) <= SlotsSize(g)
      BY <1>6, <1>7, <2>1
    <3>2. ToSet(sgroupList'[g]) = {r \in ToSet(idList') : task[r].group = g}
      BY <1>5, <1>6, <1>7, <1>8
    <3> QED
      BY <1>7, <3>1, <3>2
  <2>3. ASSUME NEW r \in Reqs, r \notin ToSet(idList')
        PROVE  task[r].status = "Stopped" \/ task[r].group = NoGroup
    BY <1>3, <1>8, <2>3 DEF IInv, Lists
  <2> QED
    BY <1>2, <1>7, <1>11, <2>2, <2>3 DEF Lists
<1>16. Away' = Away
  BY <1>2 DEF Away
<1>17. UnderWay'
  BY <1>2, <1>16 DEF IInv, UnderWay
<1>18. Accounts'
  <2>1. ASSUME NEW g \in Groups
        PROVE  /\ waitingTasks'[g] \subseteq ToSet(sgroupList'[g])
               /\ waitingTasks'[g] # {} => g \in usedSgroups'
    <3>1. waitingTasks[g] \subseteq ToSet(sgroupList[g]) /\ (waitingTasks[g] # {} => g \in usedSgroups)
      BY DEF IInv, Accounts
    <3> QED
      BY <1>2, <1>3, <1>7, <1>10, <1>12, <3>1
  <2>2. ASSUME NEW r \in Reqs
        PROVE  (\E g \in Groups : r \in waitingTasks'[g])
                 <=> r \in Away' \cup ToSet(batch') \cup unwaited'
    <3>1. (\E g \in Groups : r \in waitingTasks'[g])
            <=> (\E g \in Groups : r \in waitingTasks[g]) /\ r \notin Returned
      BY <1>10
    <3>2. (\E g \in Groups : r \in waitingTasks[g]) <=> r \in Away \cup ToSet(batch) \cup unwaited
      BY DEF IInv, Accounts
    <3>3. task[r].waiting <=> r \in Away
      BY DEF IInv, UnderWay
    <3>4. r \in Returned <=> r \in ToSet(batch) \cup unwaited /\ ~task[r].waiting
      BY DEF Returned
    <3>5. ToSet(batch') = {} /\ unwaited' = {}
      BY <1>2 DEF ToSet
    <3> QED
      BY <1>16, <3>1, <3>2, <3>3, <3>4, <3>5
  <2> QED
    BY <1>11, <2>1, <2>2 DEF Accounts
<1>19. Turn'
  BY <1>2, <1>12 DEF Turn
<1> QED
  BY <1>13, <1>14, <1>15, <1>17, <1>18, <1>19 DEF IInv

-----------------------------------------------------------------------------
(* The theorems *)

LEMMA NextIInv ==
  ASSUME IInv, [Next]_vars
  PROVE  IInv'
<1>1. ASSUME NEW r \in Reqs, AddAllQueued(r) PROVE IInv'
  BY <1>1, AddAllQueuedStep
<1>2. CASE Complete
  BY <1>2, CompleteStep
<1>3. CASE MainLoop
  BY <1>3, ScheduleStep, ScheduleAllAllocatedStep, IdleSteps, ExecutorSteps, UpdateOngoingStep,
     UpdateStep DEF MainLoop
<1>4. CASE UNCHANGED vars
  BY <1>4, Stutter
<1> QED
  BY <1>1, <1>2, <1>3, <1>4 DEF Next

\* In every state the groups, their lists and the tasks under way fit together.
THEOREM Inductive == Spec => []IInv
<1>1. Init => IInv
  BY InitIInv
<1>2. IInv /\ [Next]_vars => IInv'
  BY NextIInv
<1> QED
  BY <1>1, <1>2, PTL DEF Spec

LEMMA IInvGroupsAccounted == IInv => GroupsAccounted
<1> SUFFICES ASSUME IInv PROVE GroupsAccounted
  OBVIOUS
<1>1. /\ ToSet(freeSgroups) \cap usedSgroups = {}
      /\ ToSet(freeSgroups) \cup usedSgroups = Groups
      /\ IsInjective(freeSgroups)
  <2>1. ToSet(freeSgroups) \subseteq Groups
    BY DEF IInv, Partition, ToSet
  <2> QED
    BY <2>1 DEF IInv, Partition
<1>2. \A g \in Groups :
        /\ IsInjective(sgroupList[g]) /\ Len(sgroupList[g]) <= SlotsSize(g)
        /\ ToSet(sgroupList[g]) = {r \in ToSet(idList) : task[r].group = g}
  BY DEF IInv, Lists
<1>3. ASSUME pc = "schedule"
      PROVE  /\ usedSgroups = {g \in Groups : waitingTasks[g] # {}}
             /\ UNION {waitingTasks[g] : g \in Groups}
                  = UNION {ongoing[p].tasks : p \in DOMAIN ongoing}
  <2>1. ToSet(batch) = {} /\ unwaited = {} /\ \A g \in usedSgroups : waitingTasks[g] # {}
    BY <1>3 DEF IInv, Turn, ToSet
  <2>2. usedSgroups \subseteq Groups /\ \A g \in Groups : waitingTasks[g] # {} => g \in usedSgroups
    BY DEF IInv, Partition, Accounts
  <2>3. \A r \in Reqs : (\E g \in Groups : r \in waitingTasks[g]) <=> r \in Away
    BY <2>1 DEF IInv, Accounts
  <2>4. Away \subseteq Reqs
    <3> DEFINE R == [tasks : SUBSET Reqs, done : BOOLEAN]
    <3>1. ongoing \in Seq(R) /\ \A e \in R : e.tasks \subseteq Reqs
      BY DEF IInv, Typing
    <3> HIDE DEF R
    <3>2. \A p \in DOMAIN ongoing : ongoing[p] \in R
      BY <3>1, LenProperties, ElementOfSeq
    <3> QED
      BY <3>1, <3>2 DEF Away
  <2>5. \A g \in Groups : waitingTasks[g] \subseteq Reqs
    BY DEF IInv, Typing
  <2>6. UNION {waitingTasks[g] : g \in Groups} = Away
    BY <2>3, <2>4, <2>5
  <2> QED
    BY <2>1, <2>2, <2>6 DEF Away
<1> QED
  BY <1>1, <1>2, <1>3 DEF GroupsAccounted

\* For any requests, slots and arguments: a group of slots is free or used and never
\* both, has the requests that joined it and no more than it has slots, and between
\* two turns is used exactly while tasks of it are under way.
THEOREM GroupsKept == Spec => []GroupsAccounted
<1>1. IInv => GroupsAccounted
  BY IInvGroupsAccounted
<1> QED
  BY <1>1, Inductive, PTL
=============================================================================
