-------------------------- MODULE DPScheduleProofs --------------------------
(***************************************************************************)
(* What holds of DPSchedule for any number of ranks, any requests, slots   *)
(* and chunks: whatever rank 0 has sent and the others have not read yet,  *)
(* a rank that takes a message finds its copies and its cache as rank 0    *)
(* assumed, and never caches more requests than it has slots.              *)
(***************************************************************************)
EXTENDS DPSchedule, FiniteSetTheorems, SequenceTheorems, WellFoundedInduction, TLAPS

-----------------------------------------------------------------------------
(* Recursion over an interval, and what is built by it *)

\* Every set of naturals has a least element.
LEMMA LeastNatural ==
  ASSUME NEW S \in SUBSET Nat, S # {}
  PROVE  \E n \in S : \A m \in S : n <= m
<1> DEFINE R == OpToRel(<, Nat)
<1>1. IsWellFoundedOn(R, Nat)
  BY NatLessThanWellFounded, Zenon
<1>2. \A m, n \in Nat : <<m, n>> \in R <=> m < n
  BY DEF OpToRel
<1> HIDE DEF R
<1>3. PICK n \in S : \A m \in S : ~(<<m, n>> \in R)
  BY <1>1, WFMin
<1>4. \A m \in S : ~(m < n)
  BY <1>2, <1>3
<1> QED
  BY <1>4

\* f is what F makes of base, step by step, up to n.
Steps(f, n, V, F, base) ==
  /\ f \in [0 .. n -> V]
  /\ f[0] = base
  /\ \A i \in 1 .. n : f[i] = F[<<i, f[i - 1]>>]

\* One step more.
LEMMA StepMore ==
  ASSUME NEW n \in Nat, NEW k \in Nat, k < n, NEW V, NEW base \in V, NEW F \in [(1 .. n) \X V -> V],
         NEW f, Steps(f, k, V, F, base)
  PROVE  \E g : Steps(g, k + 1, V, F, base)
<1> DEFINE g == [i \in 0 .. k + 1 |-> IF i = k + 1 THEN F[<<k + 1, f[k]>>] ELSE f[i]]
<1>1. f \in [0 .. k -> V] /\ f[0] = base /\ \A i \in 1 .. k : f[i] = F[<<i, f[i - 1]>>]
  BY DEF Steps
<1>2. k \in 0 .. k /\ k + 1 \in 1 .. n
  OBVIOUS
<1>3. F[<<k + 1, f[k]>>] \in V
  <2>1. f[k] \in V
    BY <1>1, <1>2
  <2> QED
    BY <1>2, <2>1
<1>4. \A i \in 0 .. k : i # k + 1 /\ i \in 0 .. k + 1 /\ f[i] \in V
  BY <1>1
<1>5. g \in [0 .. k + 1 -> V]
  <2>1. \A i \in 0 .. k + 1 : i = k + 1 \/ i \in 0 .. k
    OBVIOUS
  <2> QED
    BY <1>3, <1>4, <2>1
<1>6. g[0] = base
  BY <1>1, <1>4
<1>7. ASSUME NEW i \in 1 .. k + 1 PROVE g[i] = F[<<i, g[i - 1]>>]
  <2>1. i - 1 \in 0 .. k /\ g[i - 1] = f[i - 1]
    BY <1>4
  <2>2. CASE i = k + 1
    <3>1. k + 1 \in 0 .. k + 1 /\ g[k + 1] = F[<<k + 1, f[k]>>]
      OBVIOUS
    <3>2. g[i - 1] = f[k]
      BY <2>1, <2>2
    <3> HIDE DEF g
    <3> QED
      BY <2>2, <3>1, <3>2
  <2>3. CASE i \in 1 .. k
    BY <1>1, <1>4, <2>1, <2>3
  <2> QED
    BY <2>2, <2>3
<1> HIDE DEF g
<1> QED
  BY <1>5, <1>6, <1>7 DEF Steps

\* There is what F makes of base, for any number of steps.
LEMMA StepsExist ==
  ASSUME NEW n \in Nat, NEW V, NEW base \in V, NEW F \in [(1 .. n) \X V -> V]
  PROVE  \E f : Steps(f, n, V, F, base)
<1> DEFINE Bad == {k \in 0 .. n : ~ \E f : Steps(f, k, V, F, base)}
<1>1. Bad = {}
  <2> SUFFICES ASSUME Bad # {} PROVE FALSE
    OBVIOUS
  <2>1. Bad \in SUBSET Nat
    OBVIOUS
  <2>2. PICK k \in Bad : \A m \in Bad : k <= m
    <3> HIDE DEF Bad
    <3> QED
      BY <2>1, LeastNatural
  <2>3. k \in 0 .. n /\ ~ \E f : Steps(f, k, V, F, base)
    OBVIOUS
  <2>4. k # 0
    <3> SUFFICES ASSUME k = 0 PROVE FALSE
      OBVIOUS
    <3> DEFINE f == [i \in 0 .. 0 |-> base]
    <3>1. f \in [0 .. 0 -> V] /\ f[0] = base /\ \A i \in 1 .. 0 : FALSE
      OBVIOUS
    <3>2. Steps(f, 0, V, F, base)
      BY <3>1 DEF Steps
    <3> QED
      BY <2>3, <3>2
  <2>5. k - 1 \in 0 .. n /\ k - 1 < k /\ k - 1 < n /\ k - 1 \in Nat /\ (k - 1) + 1 = k
    BY <2>3, <2>4
  <2>6. k - 1 \notin Bad
    <3> HIDE DEF Bad
    <3> QED
      BY <2>2, <2>3, <2>5
  <2>7. PICK f : Steps(f, k - 1, V, F, base)
    BY <2>5, <2>6
  <2>8. \E g : Steps(g, (k - 1) + 1, V, F, base)
    BY <2>5, <2>7, StepMore
  <2> QED
    BY <2>3, <2>5, <2>8
<1>2. n \in 0 .. n
  OBVIOUS
<1> QED
  BY <1>1, <1>2

\* What holds of the first state and is kept by every step holds of all: P[i] says it of i.
LEMMA EachStep ==
  ASSUME NEW n \in Nat, NEW P, P[0], \A i \in 1 .. n : P[i - 1] => P[i]
  PROVE  \A i \in 0 .. n : P[i]
<1> DEFINE Bad == {k \in 0 .. n : ~P[k]}
<1> SUFFICES ASSUME Bad # {} PROVE FALSE
  OBVIOUS
<1>1. Bad \in SUBSET Nat
  OBVIOUS
<1>2. PICK k \in Bad : \A m \in Bad : k <= m
  <2> HIDE DEF Bad
  <2> QED
    BY <1>1, LeastNatural
<1>3. k \in 0 .. n /\ ~P[k] /\ k # 0
  OBVIOUS
<1>4. k \in 1 .. n /\ k - 1 \in 0 .. n /\ k - 1 < k
  BY <1>3
<1>5. k - 1 \notin Bad
  <2> HIDE DEF Bad
  <2> QED
    BY <1>2, <1>3, <1>4
<1> QED
  BY <1>3, <1>4, <1>5

-----------------------------------------------------------------------------
(* Sequences *)

\* The elements of a sequence with one more.
LEMMA AppendFacts ==
  ASSUME NEW T, NEW s \in Seq(T), NEW e \in T
  PROVE  /\ Append(s, e) \in Seq(T) /\ ToSet(Append(s, e)) = ToSet(s) \cup {e}
         /\ DOMAIN s = 1 .. Len(s) /\ Len(s) \in Nat
         /\ DOMAIN Append(s, e) = 1 .. Len(s) + 1 /\ Len(Append(s, e)) = Len(s) + 1
         /\ \A i \in 1 .. Len(s) : Append(s, e)[i] = s[i]
         /\ Append(s, e)[Len(s) + 1] = e
         /\ IsInjective(s) /\ e \notin ToSet(s) => IsInjective(Append(s, e))
<1>1. /\ Append(s, e) \in Seq(T) /\ Len(Append(s, e)) = Len(s) + 1
      /\ \A i \in 1 .. Len(s) : Append(s, e)[i] = s[i]
      /\ Append(s, e)[Len(s) + 1] = e
  BY AppendProperties
<1>2. DOMAIN s = 1 .. Len(s) /\ DOMAIN Append(s, e) = 1 .. Len(s) + 1 /\ Len(s) \in Nat
  BY <1>1, LenProperties
<1>3. \A i \in DOMAIN Append(s, e) : \/ i \in DOMAIN s /\ Append(s, e)[i] = s[i]
                                     \/ i = Len(s) + 1 /\ Append(s, e)[i] = e
  BY <1>1, <1>2
<1>4. \A i \in DOMAIN s : i \in DOMAIN Append(s, e) /\ i # Len(s) + 1 /\ Append(s, e)[i] = s[i]
  BY <1>1, <1>2
<1>5. Len(s) + 1 \in DOMAIN Append(s, e)
  BY <1>2
<1>6. ToSet(Append(s, e)) = ToSet(s) \cup {e}
  BY <1>1, <1>3, <1>4, <1>5 DEF ToSet
<1>7. ASSUME IsInjective(s), e \notin ToSet(s) PROVE IsInjective(Append(s, e))
  BY <1>3, <1>7 DEF IsInjective, ToSet
<1> QED
  BY <1>1, <1>2, <1>6, <1>7

\* The states of the loop that filters.
FilterStep(s, S, T) == [p \in (1 .. Len(s)) \X Seq(T) |->
                          IF s[p[1]] \in S THEN Append(p[2], s[p[1]]) ELSE p[2]]

\* A filter goes along the list step by step.
LEMMA FilterSteps ==
  ASSUME NEW T, NEW s \in Seq(T), NEW S
  PROVE  \E f : Steps(f, Len(s), Seq(T), FilterStep(s, S, T), <<>>) /\ Filtered(s, S) = f[Len(s)]
<1> DEFINE F == FilterStep(s, S, T)
           Eqn(f) == f = [i \in 0 .. Len(s) |-> IF i = 0 THEN <<>>
                                               ELSE IF s[i] \in S THEN Append(f[i - 1], s[i])
                                               ELSE f[i - 1]]
<1>1. Len(s) \in Nat /\ DOMAIN s = 1 .. Len(s) /\ \A i \in 1 .. Len(s) : s[i] \in T
  BY LenProperties, ElementOfSeq
<1>2. \A i \in 1 .. Len(s), v \in Seq(T) :
        /\ F[<<i, v>>] = IF s[i] \in S THEN Append(v, s[i]) ELSE v
        /\ F[<<i, v>>] \in Seq(T)
  <2> TAKE i \in 1 .. Len(s), v \in Seq(T)
  <2>1. F[<<i, v>>] = IF s[i] \in S THEN Append(v, s[i]) ELSE v
    BY DEF FilterStep
  <2>2. Append(v, s[i]) \in Seq(T)
    BY <1>1, AppendProperties
  <2> HIDE DEF F
  <2> QED
    BY <2>1, <2>2
<1>3. F \in [(1 .. Len(s)) \X Seq(T) -> Seq(T)]
  <2>1. \A p \in (1 .. Len(s)) \X Seq(T) : p = <<p[1], p[2]>> /\ p[1] \in 1 .. Len(s) /\ p[2] \in Seq(T)
    OBVIOUS
  <2>2. \A p \in (1 .. Len(s)) \X Seq(T) : F[p] \in Seq(T)
    <3> HIDE DEF F
    <3> QED
      BY <1>2, <2>1
  <2>3. F = [p \in (1 .. Len(s)) \X Seq(T) |-> F[p]]
    BY DEF FilterStep
  <2> HIDE DEF F
  <2> QED
    BY <2>2, <2>3
<1>4. <<>> \in Seq(T)
  BY EmptySeq
<1>5. PICK f : Steps(f, Len(s), Seq(T), F, <<>>)
  <2> HIDE DEF F
  <2> QED
    BY <1>1, <1>3, <1>4, StepsExist
<1> HIDE DEF F
<1>6. Eqn(f)
  <2>1. f \in [0 .. Len(s) -> Seq(T)] /\ f[0] = <<>> /\ \A i \in 1 .. Len(s) : f[i] = F[<<i, f[i - 1]>>]
    BY <1>5 DEF Steps
  <2>2. \A i \in 1 .. Len(s) : f[i - 1] \in Seq(T)
    <3>1. \A i \in 1 .. Len(s) : i - 1 \in 0 .. Len(s)
      BY <1>1
    <3> QED
      BY <2>1, <3>1
  <2>3. \A i \in 1 .. Len(s) : f[i] = IF s[i] \in S THEN Append(f[i - 1], s[i]) ELSE f[i - 1]
    BY <1>2, <2>1, <2>2
  <2>4. \A i \in 0 .. Len(s) : i = 0 \/ (i # 0 /\ i \in 1 .. Len(s))
    BY <1>1
  <2>5. \A i \in 0 .. Len(s) : f[i] = IF i = 0 THEN <<>> ELSE IF s[i] \in S THEN Append(f[i - 1], s[i]) ELSE f[i - 1]
    BY <2>1, <2>3, <2>4
  <2>6. f = [i \in 0 .. Len(s) |-> f[i]]
    BY <2>1
  <2> QED
    BY <2>5, <2>6
<1> DEFINE kept == CHOOSE g : Eqn(g)
<1>7. Eqn(kept)
  <2> HIDE DEF Eqn
  <2> QED
    BY <1>6
<1>8. Filtered(s, S) = kept[Len(s)]
  BY DEF Filtered
<1> HIDE DEF kept
<1>9. kept \in [0 .. Len(s) -> Seq(T)] /\ kept[0] = <<>>
  <2> DEFINE P == [i \in 0 .. Len(s) |-> kept[i] \in Seq(T)]
  <2>1. kept[0] = <<>>
    BY <1>1, <1>7
  <2>2. P[0]
    <3>1. 0 \in 0 .. Len(s) /\ kept[0] \in Seq(T)
      BY <1>1, <1>4, <2>1
    <3> QED
      BY <3>1
  <2>3. ASSUME NEW i \in 1 .. Len(s), P[i - 1] PROVE P[i]
    <3>1. i \in 0 .. Len(s) /\ i # 0 /\ i - 1 \in 0 .. Len(s)
      BY <1>1
    <3>2. kept[i - 1] \in Seq(T)
      BY <2>3, <3>1
    <3>3. kept[i] = IF s[i] \in S THEN Append(kept[i - 1], s[i]) ELSE kept[i - 1]
      BY <1>7, <3>1
    <3>4. Append(kept[i - 1], s[i]) \in Seq(T)
      BY <1>1, <3>2, AppendProperties
    <3>5. kept[i] \in Seq(T)
      BY <3>2, <3>3, <3>4
    <3> QED
      BY <3>1, <3>5
  <2>4. \A i \in 0 .. Len(s) : P[i]
    <3> HIDE DEF P
    <3> QED
      BY <1>1, <2>2, <2>3, EachStep
  <2>5. \A i \in 0 .. Len(s) : kept[i] \in Seq(T)
    BY <2>4
  <2>6. kept = [i \in 0 .. Len(s) |-> kept[i]]
    BY <1>7
  <2> HIDE DEF P
  <2> QED
    BY <2>1, <2>5, <2>6
<1>10. \A i \in 1 .. Len(s) : kept[i] = F[<<i, kept[i - 1]>>]
  <2> TAKE i \in 1 .. Len(s)
  <2>1. i \in 0 .. Len(s) /\ i # 0 /\ i - 1 \in 0 .. Len(s)
    BY <1>1
  <2>2. kept[i - 1] \in Seq(T)
    BY <1>9, <2>1
  <2>3. kept[i] = IF s[i] \in S THEN Append(kept[i - 1], s[i]) ELSE kept[i - 1]
    BY <1>7, <2>1
  <2> QED
    BY <1>2, <2>2, <2>3
<1>11. Steps(kept, Len(s), Seq(T), F, <<>>)
  BY <1>9, <1>10 DEF Steps
<1> QED
  BY <1>8, <1>11 DEF F

\* What a filter keeps.
LEMMA FilteredFacts ==
  ASSUME NEW T, NEW s \in Seq(T), NEW S
  PROVE  /\ Filtered(s, S) \in Seq(T)
         /\ ToSet(Filtered(s, S)) = {x \in ToSet(s) : x \in S}
         /\ IsInjective(s) => IsInjective(Filtered(s, S))
<1>1. PICK f : Steps(f, Len(s), Seq(T), FilterStep(s, S, T), <<>>) /\ Filtered(s, S) = f[Len(s)]
  BY FilterSteps
<1>2. Len(s) \in Nat /\ DOMAIN s = 1 .. Len(s) /\ \A i \in 1 .. Len(s) : s[i] \in T
  BY LenProperties, ElementOfSeq
<1>3. f \in [0 .. Len(s) -> Seq(T)] /\ f[0] = <<>>
  BY <1>1 DEF Steps
<1>4. \A i \in 1 .. Len(s) : /\ i - 1 \in 0 .. Len(s) /\ f[i - 1] \in Seq(T)
                             /\ f[i] = IF s[i] \in S THEN Append(f[i - 1], s[i]) ELSE f[i - 1]
  <2> TAKE i \in 1 .. Len(s)
  <2>1. i - 1 \in 0 .. Len(s) /\ f[i - 1] \in Seq(T)
    <3>1. i - 1 \in 0 .. Len(s)
      BY <1>2
    <3> QED
      BY <1>3, <3>1
  <2>2. f[i] = FilterStep(s, S, T)[<<i, f[i - 1]>>]
    BY <1>1 DEF Steps
  <2>3. f[i] = IF s[i] \in S THEN Append(f[i - 1], s[i]) ELSE f[i - 1]
    BY <2>1, <2>2 DEF FilterStep
  <2> QED
    BY <2>1, <2>3
<1> DEFINE Chosen(i) == {s[j] : j \in {k \in 1 .. i : s[k] \in S}}
           P == [i \in 0 .. Len(s) |-> /\ ToSet(f[i]) = Chosen(i)
                                       /\ IsInjective(s) => IsInjective(f[i])]
<1>5. P[0]
  <2>1. 0 \in 0 .. Len(s)
    BY <1>2
  <2>2. ToSet(f[0]) = {} /\ IsInjective(f[0])
    BY <1>3 DEF ToSet, IsInjective
  <2>3. Chosen(0) = {}
    OBVIOUS
  <2> HIDE DEF Chosen
  <2> QED
    BY <2>1, <2>2, <2>3
<1>6. ASSUME NEW i \in 1 .. Len(s), P[i - 1] PROVE P[i]
  <2>1. i \in 0 .. Len(s) /\ i - 1 \in 0 .. Len(s) /\ f[i - 1] \in Seq(T)
    BY <1>2, <1>4
  <2>2. ToSet(f[i - 1]) = Chosen(i - 1) /\ (IsInjective(s) => IsInjective(f[i - 1]))
    <3> HIDE DEF Chosen
    <3> QED
      BY <1>6, <2>1
  <2>3. \A k : k \in 1 .. i <=> k \in 1 .. i - 1 \/ k = i
    BY <1>2
  <2>4. CASE s[i] \in S
    <3>1. f[i] = Append(f[i - 1], s[i])
      BY <1>4, <2>4
    <3>2. Chosen(i) = Chosen(i - 1) \cup {s[i]}
      BY <2>3, <2>4
    <3>3. ToSet(f[i]) = Chosen(i)
      <4> HIDE DEF Chosen
      <4> QED
        BY <1>2, <2>1, <2>2, <3>1, <3>2, AppendFacts
    <3>4. ASSUME IsInjective(s) PROVE s[i] \notin Chosen(i - 1)
      <4>1. \A k \in 1 .. i - 1 : k \in DOMAIN s /\ i \in DOMAIN s /\ k # i
        BY <1>2
      <4> QED
        BY <3>4, <4>1 DEF IsInjective
    <3>5. IsInjective(s) => IsInjective(f[i])
      <4> HIDE DEF Chosen
      <4> QED
        BY <1>2, <2>1, <2>2, <3>1, <3>4, AppendFacts
    <3> HIDE DEF Chosen
    <3> QED
      BY <2>1, <3>3, <3>5
  <2>5. CASE s[i] \notin S
    <3>1. f[i] = f[i - 1]
      BY <1>4, <2>5
    <3>2. Chosen(i) = Chosen(i - 1)
      BY <2>3, <2>5
    <3> HIDE DEF Chosen
    <3> QED
      BY <2>1, <2>2, <3>1, <3>2
  <2> QED
    BY <2>4, <2>5
<1>7. \A i \in 0 .. Len(s) : P[i]
  <2> HIDE DEF P
  <2> QED
    BY <1>2, <1>5, <1>6, EachStep
<1>8. Len(s) \in 0 .. Len(s)
  BY <1>2
<1>9. ToSet(f[Len(s)]) = Chosen(Len(s)) /\ (IsInjective(s) => IsInjective(f[Len(s)]))
  <2> HIDE DEF Chosen
  <2> QED
    BY <1>7, <1>8
<1>10. Chosen(Len(s)) = {x \in ToSet(s) : x \in S}
  BY <1>2 DEF ToSet
<1>11. f[Len(s)] \in Seq(T)
  BY <1>3, <1>8
<1> HIDE DEF Chosen
<1> QED
  BY <1>1, <1>9, <1>10, <1>11

\* The elements of two sequences one after the other.
LEMMA ConcatFacts ==
  ASSUME NEW T, NEW s \in Seq(T), NEW t \in Seq(T)
  PROVE  /\ s \o t \in Seq(T)
         /\ ToSet(s \o t) = ToSet(s) \cup ToSet(t)
         /\ IsInjective(s) /\ IsInjective(t) /\ ToSet(s) \cap ToSet(t) = {} => IsInjective(s \o t)
<1>1. /\ s \o t \in Seq(T) /\ Len(s \o t) = Len(s) + Len(t)
      /\ \A i \in 1 .. Len(s) + Len(t) :
           (s \o t)[i] = IF i <= Len(s) THEN s[i] ELSE t[i - Len(s)]
  BY ConcatProperties
<1>2. /\ DOMAIN s = 1 .. Len(s) /\ DOMAIN t = 1 .. Len(t) /\ DOMAIN (s \o t) = 1 .. Len(s) + Len(t)
      /\ Len(s) \in Nat /\ Len(t) \in Nat
  BY <1>1, LenProperties
<1>3. ToSet(s \o t) = ToSet(s) \cup ToSet(t)
  <2>1. \A x : x \in ToSet(s \o t) => x \in ToSet(s) \cup ToSet(t)
    BY <1>1, <1>2 DEF ToSet
  <2>2. \A x : x \in ToSet(s) => x \in ToSet(s \o t)
    <3>1. \A i \in DOMAIN s : i \in DOMAIN (s \o t) /\ (s \o t)[i] = s[i]
      BY <1>1, <1>2
    <3> QED
      BY <3>1 DEF ToSet
  <2>3. \A x : x \in ToSet(t) => x \in ToSet(s \o t)
    <3>1. \A i \in DOMAIN t : i + Len(s) \in DOMAIN (s \o t) /\ (s \o t)[i + Len(s)] = t[i]
      BY <1>1, <1>2
    <3> QED
      BY <3>1 DEF ToSet
  <2> QED
    BY <2>1, <2>2, <2>3
<1>4. ASSUME IsInjective(s), IsInjective(t), ToSet(s) \cap ToSet(t) = {}
      PROVE  IsInjective(s \o t)
  <2> SUFFICES ASSUME NEW i \in 1 .. Len(s) + Len(t), NEW j \in 1 .. Len(s) + Len(t),
                      (s \o t)[i] = (s \o t)[j]
               PROVE  i = j
    BY <1>2 DEF IsInjective
  <2>1. CASE i <= Len(s) /\ j <= Len(s)
    BY <1>1, <1>2, <1>4, <2>1 DEF IsInjective
  <2>2. CASE i > Len(s) /\ j > Len(s)
    <3>1. t[i - Len(s)] = t[j - Len(s)]
      BY <1>1, <1>2, <2>2
    <3>2. i - Len(s) \in DOMAIN t /\ j - Len(s) \in DOMAIN t
      BY <1>2, <2>2
    <3>3. i - Len(s) = j - Len(s)
      BY <1>4, <3>1, <3>2 DEF IsInjective
    <3> QED
      BY <1>2, <3>3
  <2>3. ASSUME NEW m \in 1 .. Len(s) + Len(t), NEW n \in 1 .. Len(s) + Len(t),
               m <= Len(s), n > Len(s), (s \o t)[m] = (s \o t)[n]
        PROVE  FALSE
    <3>1. s[m] = t[n - Len(s)] /\ m \in DOMAIN s /\ n - Len(s) \in DOMAIN t
      BY <1>1, <1>2, <2>3
    <3> QED
      BY <1>4, <3>1 DEF ToSet
  <2> QED
    BY <1>2, <2>1, <2>2, <2>3
<1> QED
  BY <1>1, <1>3, <1>4

\* The beginning of a sequence.
LEMMA UpToFacts ==
  ASSUME NEW T, NEW s \in Seq(T), NEW n \in Nat
  PROVE  /\ UpTo(s, n) \in Seq(T) /\ ToSet(UpTo(s, n)) \subseteq ToSet(s)
         /\ DOMAIN UpTo(s, n) \subseteq DOMAIN s
         /\ \A i \in DOMAIN UpTo(s, n) : i <= n /\ UpTo(s, n)[i] = s[i]
         /\ IsInjective(s) => IsInjective(UpTo(s, n))
<1> DEFINE m == Smaller(n, Len(s))
<1>1. m \in Nat /\ m <= Len(s) /\ m <= n /\ Len(s) \in Nat /\ DOMAIN s = 1 .. Len(s)
  BY LenProperties DEF Smaller
<1>2. \A i \in 1 .. m : s[i] \in T
  BY <1>1, ElementOfSeq
<1>3. UpTo(s, n) = SubSeq(s, 1, m)
  BY DEF UpTo
<1> HIDE DEF m
<1>4. /\ UpTo(s, n) \in Seq(T)
      /\ Len(UpTo(s, n)) = IF 1 <= m THEN m - 1 + 1 ELSE 0
      /\ \A i \in 1 .. m - 1 + 1 : UpTo(s, n)[i] = s[1 + i - 1]
  BY <1>1, <1>2, <1>3, SubSeqProperties
<1>5. DOMAIN UpTo(s, n) = 1 .. m
  <2>1. DOMAIN UpTo(s, n) = 1 .. Len(UpTo(s, n))
    BY <1>4, LenProperties
  <2>2. Len(UpTo(s, n)) = m
    BY <1>1, <1>4
  <2> QED
    BY <2>1, <2>2
<1>6. \A i \in 1 .. m : i <= n /\ i \in DOMAIN s /\ UpTo(s, n)[i] = s[i]
  BY <1>1, <1>4
<1>7. ToSet(UpTo(s, n)) \subseteq ToSet(s)
  BY <1>5, <1>6 DEF ToSet
<1>8. IsInjective(s) => IsInjective(UpTo(s, n))
  BY <1>5, <1>6 DEF IsInjective
<1> QED
  BY <1>4, <1>5, <1>6, <1>7, <1>8

\* The first of a sequence and the rest.
LEMMA HeadTailFacts ==
  ASSUME NEW T, NEW s \in Seq(T), s # <<>>, IsInjective(s)
  PROVE  /\ Head(s) \in T /\ Head(s) \in ToSet(s)
         /\ Tail(s) \in Seq(T) /\ IsInjective(Tail(s))
         /\ ToSet(Tail(s)) = ToSet(s) \ {Head(s)}
<1>1. /\ Tail(s) \in Seq(T) /\ Len(Tail(s)) = Len(s) - 1
      /\ \A i \in 1 .. Len(Tail(s)) : Tail(s)[i] = s[i + 1]
  BY HeadTailProperties
<1>2. Len(s) \in Nat \ {0} /\ DOMAIN s = 1 .. Len(s) /\ DOMAIN Tail(s) = 1 .. Len(Tail(s))
  BY <1>1, LenProperties, EmptySeq
<1>3. Head(s) = s[1] /\ 1 \in DOMAIN s /\ s[1] \in T
  BY <1>2, ElementOfSeq
<1>10. Head(s) \in ToSet(s)
  BY <1>3 DEF ToSet
<1>4. \A i \in DOMAIN Tail(s) : i + 1 \in DOMAIN s /\ i + 1 # 1 /\ Tail(s)[i] = s[i + 1]
  BY <1>1, <1>2
<1>5. \A i, j \in DOMAIN Tail(s) : i + 1 = j + 1 => i = j
  BY <1>1, <1>2
<1>6. IsInjective(Tail(s))
  BY <1>4, <1>5 DEF IsInjective
<1>7. \A i \in DOMAIN s : i # 1 => i - 1 \in DOMAIN Tail(s) /\ (i - 1) + 1 = i
  BY <1>1, <1>2
<1>8. ToSet(Tail(s)) \subseteq ToSet(s) \ {Head(s)}
  <2> SUFFICES ASSUME NEW i \in DOMAIN Tail(s) PROVE Tail(s)[i] \in ToSet(s) /\ Tail(s)[i] # Head(s)
    BY DEF ToSet
  <2> QED
    BY <1>3, <1>4 DEF ToSet, IsInjective
<1>9. ToSet(s) \ {Head(s)} \subseteq ToSet(Tail(s))
  <2> SUFFICES ASSUME NEW i \in DOMAIN s, s[i] # Head(s) PROVE s[i] \in ToSet(Tail(s))
    BY DEF ToSet
  <2>1. i - 1 \in DOMAIN Tail(s) /\ Tail(s)[i - 1] = s[i]
    BY <1>3, <1>4, <1>7
  <2> QED
    BY <2>1 DEF ToSet
<1> QED
  BY <1>1, <1>3, <1>6, <1>8, <1>9, <1>10

\* A part of a sequence.
LEMMA SubSeqFacts ==
  ASSUME NEW T, NEW s \in Seq(T), NEW m \in Nat, NEW n \in Nat, n <= Len(s)
  PROVE  /\ SubSeq(s, m + 1, n) \in Seq(T) /\ ToSet(SubSeq(s, m + 1, n)) \subseteq ToSet(s)
         /\ DOMAIN SubSeq(s, m + 1, n) = 1 .. n - m
         /\ Len(SubSeq(s, m + 1, n)) = IF m < n THEN n - m ELSE 0
         /\ \A i \in 1 .. n - m : SubSeq(s, m + 1, n)[i] = s[m + i]
         /\ IsInjective(s) => IsInjective(SubSeq(s, m + 1, n))
<1>1. Len(s) \in Nat /\ DOMAIN s = 1 .. Len(s)
  BY LenProperties
<1>2. m + 1 \in Int /\ n \in Int /\ \A i \in m + 1 .. n : s[i] \in T
  <2>1. \A i \in m + 1 .. n : i \in 1 .. Len(s)
    BY <1>1
  <2> QED
    BY <2>1, ElementOfSeq
<1> DEFINE w == SubSeq(s, m + 1, n)
<1>3. /\ w \in Seq(T)
      /\ Len(w) = IF m + 1 <= n THEN n - (m + 1) + 1 ELSE 0
      /\ \A i \in 1 .. n - (m + 1) + 1 : w[i] = s[m + 1 + i - 1]
  BY <1>2, SubSeqProperties
<1> HIDE DEF w
<1>4. Len(w) = IF m < n THEN n - m ELSE 0
  BY <1>3
<1>5. DOMAIN w = 1 .. n - m
  <2>1. DOMAIN w = 1 .. Len(w)
    BY <1>3, LenProperties
  <2> QED
    BY <1>4, <2>1
<1>6. \A i \in 1 .. n - m : w[i] = s[m + i] /\ m + i \in DOMAIN s
  <2> SUFFICES ASSUME NEW i \in 1 .. n - m PROVE w[i] = s[m + i] /\ m + i \in DOMAIN s
    OBVIOUS
  <2>1. i \in 1 .. n - (m + 1) + 1 /\ m + 1 + i - 1 = m + i /\ m + i \in 1 .. Len(s)
    BY <1>1
  <2> QED
    BY <1>1, <1>3, <2>1
<1>7. ToSet(w) \subseteq ToSet(s)
  BY <1>5, <1>6 DEF ToSet
<1>8. IsInjective(s) => IsInjective(w)
  <2>1. \A i, j \in 1 .. n - m : m + i = m + j => i = j
    OBVIOUS
  <2> QED
    BY <1>5, <1>6, <2>1 DEF IsInjective
<1> QED
  BY <1>3, <1>4, <1>5, <1>6, <1>7, <1>8 DEF w

\* A filter that takes everything changes nothing.
LEMMA FilteredAll ==
  ASSUME NEW T, NEW s \in Seq(T), NEW S, ToSet(s) \subseteq S
  PROVE  Filtered(s, S) = s
<1>1. PICK f : Steps(f, Len(s), Seq(T), FilterStep(s, S, T), <<>>) /\ Filtered(s, S) = f[Len(s)]
  BY FilterSteps
<1>2. Len(s) \in Nat /\ DOMAIN s = 1 .. Len(s) /\ \A i \in 1 .. Len(s) : s[i] \in T /\ s[i] \in S
  BY LenProperties, ElementOfSeq DEF ToSet
<1>3. f \in [0 .. Len(s) -> Seq(T)] /\ f[0] = <<>>
  BY <1>1 DEF Steps
<1>4. \A i \in 1 .. Len(s) : i - 1 \in 0 .. Len(s) /\ f[i - 1] \in Seq(T) /\ f[i] = Append(f[i - 1], s[i])
  <2> TAKE i \in 1 .. Len(s)
  <2>1. i - 1 \in 0 .. Len(s) /\ f[i - 1] \in Seq(T)
    <3>1. i - 1 \in 0 .. Len(s)
      BY <1>2
    <3> QED
      BY <1>3, <3>1
  <2>2. f[i] = FilterStep(s, S, T)[<<i, f[i - 1]>>]
    BY <1>1 DEF Steps
  <2>3. f[i] = IF s[i] \in S THEN Append(f[i - 1], s[i]) ELSE f[i - 1]
    BY <2>1, <2>2 DEF FilterStep
  <2> QED
    BY <1>2, <2>1, <2>3
<1> DEFINE P == [i \in 0 .. Len(s) |-> Len(f[i]) = i /\ \A j \in 1 .. i : f[i][j] = s[j]]
<1>5. P[0]
  <2>1. 0 \in 0 .. Len(s) /\ Len(f[0]) = 0 /\ \A j \in 1 .. 0 : FALSE
    BY <1>2, <1>3, EmptySeq
  <2> QED
    BY <2>1
<1>6. ASSUME NEW i \in 1 .. Len(s), P[i - 1] PROVE P[i]
  <2>1. i \in 0 .. Len(s) /\ i - 1 \in 0 .. Len(s)
    BY <1>2
  <2>2. Len(f[i - 1]) = i - 1 /\ \A j \in 1 .. i - 1 : f[i - 1][j] = s[j]
    BY <1>6, <2>1
  <2>3. /\ Len(f[i]) = Len(f[i - 1]) + 1
        /\ \A j \in 1 .. Len(f[i - 1]) : f[i][j] = f[i - 1][j]
        /\ f[i][Len(f[i - 1]) + 1] = s[i]
    <3>1. s[i] \in T /\ f[i - 1] \in Seq(T) /\ f[i] = Append(f[i - 1], s[i])
      BY <1>2, <1>4
    <3> QED
      BY <3>1, AppendProperties
  <2>4. Len(f[i]) = i
    BY <2>2, <2>3
  <2>5. \A j \in 1 .. i : f[i][j] = s[j]
    <3>1. \A j \in 1 .. i : j \in 1 .. i - 1 \/ j = i
      OBVIOUS
    <3>2. f[i][i] = s[i]
      BY <2>2, <2>3
    <3> QED
      BY <2>2, <2>3, <3>1, <3>2
  <2> QED
    BY <2>1, <2>4, <2>5
<1>7. \A i \in 0 .. Len(s) : P[i]
  <2> HIDE DEF P
  <2> QED
    BY <1>2, <1>5, <1>6, EachStep
<1>8. Len(s) \in 0 .. Len(s)
  BY <1>2
<1>9. Len(f[Len(s)]) = Len(s) /\ \A j \in 1 .. Len(s) : f[Len(s)][j] = s[j]
  BY <1>7, <1>8
<1>10. f[Len(s)] \in Seq(T)
  BY <1>3, <1>8
<1> HIDE DEF P
<1> QED
  BY <1>1, <1>9, <1>10, SeqEqual

\* What the ranks have, in one list.
LEMMA ConcatAll ==
  ASSUME DpSize \in Nat, NEW T, NEW lists \in [Ranks -> Seq(T)]
  PROVE  /\ Concat(lists) \in Seq(T)
         /\ ToSet(Concat(lists)) = UNION {ToSet(lists[k]) : k \in Ranks}
<1> DEFINE n == DpSize
           Eqn(h) == h = [i \in 0 .. n |-> IF i = 0 THEN <<>> ELSE h[i - 1] \o lists[i - 1]]
           F == [p \in (1 .. n) \X Seq(T) |-> p[2] \o lists[p[1] - 1]]
<1>1. n \in Nat /\ \A i \in 1 .. n : i - 1 \in Ranks /\ lists[i - 1] \in Seq(T)
  <2>1. \A i \in 1 .. n : i - 1 \in Ranks
    BY DEF Ranks
  <2> QED
    BY <2>1
<1>2. \A i \in 1 .. n, v \in Seq(T) : F[<<i, v>>] = v \o lists[i - 1] /\ F[<<i, v>>] \in Seq(T)
  <2> TAKE i \in 1 .. n, v \in Seq(T)
  <2>1. F[<<i, v>>] = v \o lists[i - 1]
    OBVIOUS
  <2>2. v \o lists[i - 1] \in Seq(T)
    BY <1>1, ConcatProperties
  <2> HIDE DEF F
  <2> QED
    BY <2>1, <2>2
<1>3. F \in [(1 .. n) \X Seq(T) -> Seq(T)]
  <2>1. \A p \in (1 .. n) \X Seq(T) : p = <<p[1], p[2]>> /\ p[1] \in 1 .. n /\ p[2] \in Seq(T)
    OBVIOUS
  <2>2. \A p \in (1 .. n) \X Seq(T) : F[p] \in Seq(T)
    <3> HIDE DEF F
    <3> QED
      BY <1>2, <2>1
  <2>3. F = [p \in (1 .. n) \X Seq(T) |-> F[p]]
    OBVIOUS
  <2> HIDE DEF F
  <2> QED
    BY <2>2, <2>3
<1>4. <<>> \in Seq(T)
  BY EmptySeq
<1>5. PICK f : Steps(f, n, Seq(T), F, <<>>)
  <2> HIDE DEF F, n
  <2> QED
    BY <1>1, <1>3, <1>4, StepsExist
<1>6. Eqn(f)
  <2>1. f \in [0 .. n -> Seq(T)] /\ f[0] = <<>> /\ \A i \in 1 .. n : f[i] = F[<<i, f[i - 1]>>]
    BY <1>5 DEF Steps
  <2> HIDE DEF F
  <2>2. \A i \in 1 .. n : f[i - 1] \in Seq(T)
    <3>1. \A i \in 1 .. n : i - 1 \in 0 .. n
      BY <1>1
    <3> QED
      BY <2>1, <3>1
  <2>3. \A i \in 1 .. n : f[i] = f[i - 1] \o lists[i - 1]
    BY <1>2, <2>1, <2>2
  <2>4. \A i \in 0 .. n : i = 0 \/ (i # 0 /\ i \in 1 .. n)
    BY <1>1
  <2>5. \A i \in 0 .. n : f[i] = IF i = 0 THEN <<>> ELSE f[i - 1] \o lists[i - 1]
    BY <2>1, <2>3, <2>4
  <2>6. f = [i \in 0 .. n |-> f[i]]
    BY <2>1
  <2> QED
    BY <2>5, <2>6
<1> HIDE DEF F
<1> DEFINE joined == CHOOSE h : Eqn(h)
<1>7. Eqn(joined)
  <2> HIDE DEF Eqn
  <2> QED
    BY <1>6
<1>8. Concat(lists) = joined[n]
  BY DEF Concat
<1> HIDE DEF joined
<1>9. joined[0] = <<>> /\ \A i \in 1 .. n : joined[i] = joined[i - 1] \o lists[i - 1]
  <2>1. 0 \in 0 .. n /\ \A i \in 1 .. n : i \in 0 .. n /\ i # 0
    BY <1>1
  <2> QED
    BY <1>7, <2>1
<1> DEFINE Upto(i) == UNION {ToSet(lists[k]) : k \in {k \in Ranks : k < i}}
           P == [i \in 0 .. n |-> joined[i] \in Seq(T) /\ ToSet(joined[i]) = Upto(i)]
<1>10. P[0]
  <2>1. 0 \in 0 .. n /\ joined[0] \in Seq(T) /\ ToSet(joined[0]) = {}
    BY <1>1, <1>4, <1>9 DEF ToSet
  <2>2. Upto(0) = {}
    BY DEF Ranks
  <2> HIDE DEF Upto
  <2> QED
    BY <2>1, <2>2
<1>11. ASSUME NEW i \in 1 .. n, P[i - 1] PROVE P[i]
  <2>1. i \in 0 .. n /\ i - 1 \in 0 .. n
    BY <1>1
  <2>2. joined[i - 1] \in Seq(T) /\ ToSet(joined[i - 1]) = Upto(i - 1)
    <3> HIDE DEF Upto
    <3> QED
      BY <1>11, <2>1
  <2>3. Upto(i) = Upto(i - 1) \cup ToSet(lists[i - 1])
    <3>1. \A k \in Ranks : k < i <=> k < i - 1 \/ k = i - 1
      BY DEF Ranks
    <3> QED
      BY <1>1, <3>1
  <2> HIDE DEF Upto
  <2>4. joined[i] \in Seq(T) /\ ToSet(joined[i]) = Upto(i)
    <3>1. lists[i - 1] \in Seq(T) /\ joined[i - 1] \in Seq(T) /\ joined[i] = joined[i - 1] \o lists[i - 1]
      BY <1>1, <1>9, <2>2
    <3>2. joined[i] \in Seq(T) /\ ToSet(joined[i]) = ToSet(joined[i - 1]) \cup ToSet(lists[i - 1])
      BY <3>1, ConcatFacts
    <3> QED
      BY <2>2, <2>3, <3>2
  <2> QED
    BY <2>1, <2>4
<1>12. \A i \in 0 .. n : P[i]
  <2> HIDE DEF P
  <2> QED
    BY <1>1, <1>10, <1>11, EachStep
<1>13. n \in 0 .. n
  BY <1>1
<1>14. joined[n] \in Seq(T) /\ ToSet(joined[n]) = Upto(n)
  <2> HIDE DEF Upto
  <2> QED
    BY <1>12, <1>13
<1>15. Upto(n) = UNION {ToSet(lists[k]) : k \in Ranks}
  <2>1. {k \in Ranks : k < n} = Ranks
    BY DEF Ranks
  <2> QED
    BY <2>1
<1> HIDE DEF P, Upto
<1> QED
  BY <1>8, <1>14, <1>15

-----------------------------------------------------------------------------
(* What the scheduler computes *)

\* How many tokens of their prompts the tasks of a list miss, one after the other.
LEMMA RemainingSums ==
  ASSUME NEW list \in Seq(Reqs), \A r \in Reqs : Remaining(r) \in Nat
  PROVE  /\ RemainingBefore(list, 1) = 0
         /\ \A i \in 1 .. Len(list) : /\ RemainingBefore(list, i) \in Nat
                                      /\ RemainingBefore(list, i + 1) = RemainingBefore(list, i) + Remaining(list[i])
<1> DEFINE n == Len(list)
           Eqn(h) == h = [j \in 0 .. n |-> IF j = 0 THEN 0 ELSE h[j - 1] + Remaining(list[j])]
           F == [p \in (1 .. n) \X Nat |-> p[2] + Remaining(list[p[1]])]
<1>1. n \in Nat /\ \A j \in 1 .. n : Remaining(list[j]) \in Nat
  <2>1. n \in Nat /\ \A j \in 1 .. n : list[j] \in Reqs
    BY LenProperties, ElementOfSeq
  <2> QED
    BY <2>1
<1>2. \A j \in 1 .. n, v \in Nat : F[<<j, v>>] = v + Remaining(list[j]) /\ F[<<j, v>>] \in Nat
  <2> TAKE j \in 1 .. n, v \in Nat
  <2>1. F[<<j, v>>] = v + Remaining(list[j])
    OBVIOUS
  <2>2. Remaining(list[j]) \in Nat
    BY <1>1
  <2> HIDE DEF F
  <2> QED
    BY <2>1, <2>2
<1>3. F \in [(1 .. n) \X Nat -> Nat]
  <2>1. \A p \in (1 .. n) \X Nat : p = <<p[1], p[2]>> /\ p[1] \in 1 .. n /\ p[2] \in Nat
    OBVIOUS
  <2>2. \A p \in (1 .. n) \X Nat : F[p] \in Nat
    <3> HIDE DEF F
    <3> QED
      BY <1>2, <2>1
  <2>3. F = [p \in (1 .. n) \X Nat |-> F[p]]
    OBVIOUS
  <2> HIDE DEF F
  <2> QED
    BY <2>2, <2>3
<1>5. PICK f : Steps(f, n, Nat, F, 0)
  <2>1. 0 \in Nat
    OBVIOUS
  <2> HIDE DEF F, n
  <2> QED
    BY <1>1, <1>3, <2>1, StepsExist
<1>6. Eqn(f)
  <2>1. f \in [0 .. n -> Nat] /\ f[0] = 0 /\ \A i \in 1 .. n : f[i] = F[<<i, f[i - 1]>>]
    BY <1>5 DEF Steps
  <2> HIDE DEF F
  <2>2. \A i \in 1 .. n : f[i - 1] \in Nat
    <3>1. \A i \in 1 .. n : i - 1 \in 0 .. n
      BY <1>1
    <3> QED
      BY <2>1, <3>1
  <2>3. \A i \in 1 .. n : f[i] = f[i - 1] + Remaining(list[i])
    BY <1>2, <2>1, <2>2
  <2>4. \A i \in 0 .. n : i = 0 \/ (i # 0 /\ i \in 1 .. n)
    BY <1>1
  <2>5. \A i \in 0 .. n : f[i] = IF i = 0 THEN 0 ELSE f[i - 1] + Remaining(list[i])
    BY <2>1, <2>3, <2>4
  <2>6. f = [i \in 0 .. n |-> f[i]]
    BY <2>1
  <2> QED
    BY <2>5, <2>6
<1> HIDE DEF F
<1> DEFINE sum == CHOOSE h : Eqn(h)
<1>7. Eqn(sum)
  <2> HIDE DEF Eqn
  <2> QED
    BY <1>6
<1>8. \A i \in Int : RemainingBefore(list, i) = sum[i - 1]
  BY DEF RemainingBefore
<1> HIDE DEF sum
<1>9. sum[0] = 0 /\ \A i \in 1 .. n : sum[i] = sum[i - 1] + Remaining(list[i])
  <2>1. 0 \in 0 .. n /\ \A i \in 1 .. n : i \in 0 .. n /\ i # 0
    BY <1>1
  <2> QED
    BY <1>7, <2>1
<1> DEFINE P == [i \in 0 .. n |-> sum[i] \in Nat]
<1>10. P[0]
  <2>1. 0 \in 0 .. n /\ sum[0] \in Nat
    BY <1>1, <1>9
  <2> HIDE DEF n
  <2> QED
    BY <2>1
<1>11. ASSUME NEW i \in 1 .. n, P[i - 1] PROVE P[i]
  <2>1. i \in 0 .. n /\ i - 1 \in 0 .. n
    BY <1>1
  <2>2. sum[i - 1] \in Nat
    BY <1>11, <2>1
  <2>3. sum[i] \in Nat
    BY <1>1, <1>9, <2>2
  <2> QED
    BY <2>1, <2>3
<1>12. \A i \in 0 .. n : P[i]
  <2> HIDE DEF P, n
  <2> QED
    BY <1>1, <1>10, <1>11, EachStep
<1>13. \A i \in 1 .. n : i - 1 \in 0 .. n /\ i \in Int /\ i + 1 \in Int /\ (i + 1) - 1 = i
  BY <1>1
<1>14. RemainingBefore(list, 1) = 0
  BY <1>8, <1>9
<1>15. ASSUME NEW i \in 1 .. n
       PROVE  /\ RemainingBefore(list, i) \in Nat
              /\ RemainingBefore(list, i + 1) = RemainingBefore(list, i) + Remaining(list[i])
  <2>1. RemainingBefore(list, i) = sum[i - 1] /\ RemainingBefore(list, i + 1) = sum[i]
    BY <1>8, <1>13
  <2>2. sum[i - 1] \in Nat
    BY <1>12, <1>13
  <2> QED
    BY <1>9, <2>1, <2>2
<1> QED
  BY <1>14, <1>15

\* They depend on the beginning of the list only, and grow along it.
LEMMA RemainingOfPrefix ==
  ASSUME NEW list \in Seq(Reqs), NEW long \in Seq(Reqs), \A r \in Reqs : Remaining(r) \in Nat,
         Len(list) <= Len(long), \A i \in 1 .. Len(list) : list[i] = long[i]
  PROVE  \A i \in 1 .. Len(list) : RemainingBefore(list, i) = RemainingBefore(long, i)
<1> DEFINE n == Len(list)
           P == [j \in 0 .. n |-> RemainingBefore(list, j + 1) = RemainingBefore(long, j + 1)]
<1>1. n \in Nat /\ Len(long) \in Nat
  BY LenProperties
<1>2. \A i \in 1 .. n : i \in 1 .. Len(long)
  BY <1>1
<1>3. P[0]
  <2>1. RemainingBefore(list, 1) = 0 /\ RemainingBefore(long, 1) = 0
    BY RemainingSums
  <2>2. 0 \in 0 .. n /\ 0 + 1 = 1
    BY <1>1
  <2> QED
    BY <2>1, <2>2
<1>4. ASSUME NEW j \in 1 .. n, P[j - 1] PROVE P[j]
  <2>1. j \in 0 .. n /\ j - 1 \in 0 .. n /\ (j - 1) + 1 = j
    BY <1>1
  <2>2. RemainingBefore(list, j) = RemainingBefore(long, j)
    BY <1>4, <2>1
  <2>3. RemainingBefore(list, j + 1) = RemainingBefore(list, j) + Remaining(list[j])
    BY RemainingSums
  <2>4. RemainingBefore(long, j + 1) = RemainingBefore(long, j) + Remaining(long[j])
    BY <1>2, RemainingSums
  <2> QED
    BY <2>1, <2>2, <2>3, <2>4
<1>5. \A j \in 0 .. n : P[j]
  <2> HIDE DEF P, n
  <2> QED
    BY <1>1, <1>3, <1>4, EachStep
<1> SUFFICES ASSUME NEW i \in 1 .. n PROVE RemainingBefore(list, i) = RemainingBefore(long, i)
  OBVIOUS
<1>6. i - 1 \in 0 .. n /\ (i - 1) + 1 = i
  BY <1>1
<1> QED
  BY <1>5, <1>6

\* What remains before a task does not shrink along the list.
LEMMA RemainingGrows ==
  ASSUME NEW list \in Seq(Reqs), \A r \in Reqs : Remaining(r) \in Nat, NEW m \in 1 .. Len(list)
  PROVE  \A i \in m .. Len(list) : RemainingBefore(list, m) <= RemainingBefore(list, i)
<1> DEFINE n == Len(list) - m
           P == [j \in 0 .. n |-> RemainingBefore(list, m) <= RemainingBefore(list, m + j)]
<1>1. Len(list) \in Nat /\ n \in Nat /\ m \in Nat
  BY LenProperties
<1>2. P[0]
  <2>1. 0 \in 0 .. n /\ m + 0 = m /\ RemainingBefore(list, m) \in Nat
    BY <1>1, RemainingSums
  <2>2. RemainingBefore(list, m) <= RemainingBefore(list, m + 0)
    <3>1. RemainingBefore(list, m + 0) = RemainingBefore(list, m)
      BY <2>1
    <3> QED
      BY <2>1, <3>1
  <2> HIDE DEF n
  <2> QED
    BY <2>1, <2>2
<1>3. ASSUME NEW j \in 1 .. n, P[j - 1] PROVE P[j]
  <2>1. j \in 0 .. n /\ j - 1 \in 0 .. n /\ m + (j - 1) \in 1 .. Len(list) /\ (m + (j - 1)) + 1 = m + j
    BY <1>1
  <2>2. RemainingBefore(list, m) <= RemainingBefore(list, m + (j - 1))
    BY <1>3, <2>1
  <2>3. PICK i \in 1 .. Len(list) : i = m + (j - 1)
    BY <2>1
  <2>4. RemainingBefore(list, i) \in Nat /\ RemainingBefore(list, i + 1) = RemainingBefore(list, i) + Remaining(list[i])
    BY RemainingSums
  <2>5. Remaining(list[i]) \in Nat
    BY ElementOfSeq
  <2>6. RemainingBefore(list, m) \in Nat
    BY RemainingSums
  <2>7. RemainingBefore(list, m) <= RemainingBefore(list, i + 1)
    BY <2>2, <2>3, <2>4, <2>5, <2>6
  <2> QED
    BY <2>1, <2>3, <2>7
<1>4. \A j \in 0 .. n : P[j]
  <2> HIDE DEF P, n
  <2> QED
    BY <1>1, <1>2, <1>3, EachStep
<1> SUFFICES ASSUME NEW i \in m .. Len(list) PROVE RemainingBefore(list, m) <= RemainingBefore(list, i)
  OBVIOUS
<1>5. i - m \in 0 .. n /\ m + (i - m) = i
  BY <1>1
<1> QED
  BY <1>4, <1>5

\* The tasks that share the part of a rank are those at the beginning of the list before
\* which something of it is left.
LEMMA ChunkedFacts ==
  ASSUME NEW list \in Seq(Reqs), \A r \in Reqs : Remaining(r) \in Nat, NEW k, Budget(k) \in Nat
  PROVE  /\ Chunked(list, k) \in Seq(Reqs) /\ ToSet(Chunked(list, k)) \subseteq ToSet(list)
         /\ Len(Chunked(list, k)) <= Len(list)
         /\ \A i \in 1 .. Len(Chunked(list, k)) :
              /\ Chunked(list, k)[i] = list[i]
              /\ args.chunk # NoChunk => RemainingBefore(list, i) < Budget(k)
<1>1. Len(list) \in Nat /\ DOMAIN list = 1 .. Len(list)
  BY LenProperties
<1>2. CASE args.chunk = NoChunk
  BY <1>1, <1>2 DEF Chunked
<1>3. CASE args.chunk # NoChunk
  <2> DEFINE S == {i \in DOMAIN list : RemainingBefore(list, i) < Budget(k)}
             c == Cardinality(S)
  <2>1. IsFiniteSet(DOMAIN list)
    BY <1>1, FS_Interval
  <2>2. IsFiniteSet(S) /\ c \in Nat
    BY <2>1, FS_Subset, FS_CardinalityType
  <2>3. Chunked(list, k) = UpTo(list, c)
    BY <1>3 DEF Chunked
  <2> HIDE DEF c
  <2>4. /\ UpTo(list, c) \in Seq(Reqs) /\ ToSet(UpTo(list, c)) \subseteq ToSet(list)
        /\ DOMAIN UpTo(list, c) \subseteq DOMAIN list
        /\ \A i \in DOMAIN UpTo(list, c) : i <= c /\ UpTo(list, c)[i] = list[i]
    BY <2>2, UpToFacts
  <2>5. Len(UpTo(list, c)) \in Nat /\ DOMAIN UpTo(list, c) = 1 .. Len(UpTo(list, c))
    BY <2>4, LenProperties
  <2>6. Len(UpTo(list, c)) <= Len(list)
    <3>1. CASE Len(UpTo(list, c)) > 0
      <4>1. Len(UpTo(list, c)) \in DOMAIN UpTo(list, c)
        BY <2>5, <3>1
      <4> QED
        BY <1>1, <2>4, <4>1
    <3> QED
      BY <1>1, <2>5, <3>1
  <2>7. ASSUME NEW i \in 1 .. Len(UpTo(list, c)) PROVE RemainingBefore(list, i) < Budget(k)
    <3>1. i \in 1 .. Len(list) /\ i <= c
      BY <1>1, <2>4, <2>5
    <3> SUFFICES ASSUME ~(RemainingBefore(list, i) < Budget(k)) PROVE FALSE
      OBVIOUS
    <3>2. RemainingBefore(list, i) \in Nat /\ \A j \in 1 .. Len(list) : RemainingBefore(list, j) \in Nat
      BY <3>1, RemainingSums
    <3>3. \A j \in i .. Len(list) : RemainingBefore(list, i) <= RemainingBefore(list, j)
      BY <3>1, RemainingGrows
    <3>4. \A j \in S : j \in 1 .. i - 1
      <4> TAKE j \in S
      <4>1. j \in 1 .. Len(list) /\ RemainingBefore(list, j) < Budget(k)
        BY <1>1
      <4>2. CASE j >= i
        <5>1. RemainingBefore(list, i) <= RemainingBefore(list, j)
          BY <3>1, <3>3, <4>1, <4>2
        <5> QED
          BY <3>2, <4>1, <5>1
      <4> QED
        BY <3>1, <4>1, <4>2
    <3>5. IsFiniteSet(1 .. i - 1) /\ Cardinality(1 .. i - 1) = i - 1
      <4>1. 1 \in Int /\ i - 1 \in Int
        BY <3>1
      <4>2. /\ IsFiniteSet(1 .. i - 1)
            /\ Cardinality(1 .. i - 1) = IF 1 > i - 1 THEN 0 ELSE (i - 1) - 1 + 1
        BY <4>1, FS_Interval
      <4> QED
        BY <3>1, <4>2
    <3>6. c <= i - 1
      <4>1. S \in SUBSET (1 .. i - 1)
        BY <3>4
      <4> QED
        BY <3>5, <4>1, FS_Subset DEF c
    <3> QED
      BY <2>2, <3>1, <3>6
  <2> QED
    BY <2>3, <2>4, <2>5, <2>6, <2>7
<1> QED
  BY <1>2, <1>3

-----------------------------------------------------------------------------
(* The inductive invariant *)

Statuses == {"Normal", "WillStopLength", "Stopped"}
Tokens == [of : Reqs \cup {NoReq}, pos : Nat, eos : BOOLEAN]

IsTask(t) ==
  /\ t = [type |-> t.type, consumed |-> t.consumed, next |-> t.next, gen |-> t.gen,
          numNew |-> t.numNew, status |-> t.status, waiting |-> t.waiting, owner |-> t.owner]
  /\ t.consumed \in Nat /\ t.status \in Statuses /\ t.owner \in Ranks \cup {NoRank}

PrefillItems == [r : Reqs, consumed : Nat, take : Nat]
DecodeItems == [r : Reqs, status : Statuses]
EndItems == [r : Reqs]
Messages == [kind : {"Prefill"}, items : Seq(PrefillItems)]
              \cup [kind : {"Decode"}, items : Seq(DecodeItems)]
              \cup [kind : {"EndTask"}, items : Seq(EndItems)]
CopyTypes == [type : {"none", "Prefill", "Decode"}, consumed : Nat, next : Tokens, gen : Tokens]

ArgTypes ==
  /\ args.overlap \in BOOLEAN /\ args.chunk \in Nat /\ args.maxPerDp \in Nat \ {0}

PoolTypes ==
  /\ submitted \in SUBSET Reqs
  /\ pool \in Seq(Reqs) /\ IsInjective(pool) /\ ToSet(pool) \subseteq submitted
  /\ task = [r \in Reqs |-> task[r]] /\ \A r \in Reqs : IsTask(task[r])
  /\ cursor \in Ranks

BatchTypes ==
  /\ batch.kind \in {"none", "Prefill", "Decode"} /\ batch.lists \in [Ranks -> Seq(Reqs)]
  /\ batch.take \in [Reqs -> Nat] /\ batch.outputs \in Seq(Reqs) /\ batch.normal \in SUBSET Reqs
  /\ received \in Nat
  /\ pc \in {"schedule", "select", "run", "collect", "update"}

RankTypes ==
  /\ toRank \in [Others -> Seq(Messages)]
  /\ toMain \in [Others -> Seq(Seq(Tokens))]
  /\ copy \in [Others -> [Reqs -> CopyTypes]]
  /\ kv \in [Ranks -> [Reqs -> Nat]]

\* The progress of the prompts, and the requests with a slot.
Owned(k) == {r \in ToSet(pool) : task[r].owner = k}

Tasks ==
  /\ \A r \in Reqs : /\ task[r].consumed <= PromptLen[r]
                     /\ task[r].type = IF task[r].consumed = PromptLen[r] THEN "Decode" ELSE "Prefill"
                     /\ task[r].owner = NoRank => task[r].consumed = 0 /\ task[r].status # "Stopped"
                     /\ r \notin submitted => task[r].owner = NoRank
                     /\ kv[0][r] > 0 => r \in Owned(0)
  /\ \A k \in Ranks : Cardinality(Owned(k)) <= args.maxPerDp

Typing == ArgTypes /\ PoolTypes /\ BatchTypes /\ RankTypes

-----------------------------------------------------------------------------
(* What is scheduled *)

\* What DPScheduleAssumption says of ranks and prompts.
LEMMA Assumed == /\ DpSize \in Nat \ {0} /\ PromptLen \in [Reqs -> Nat \ {0}] /\ NoReq \notin Reqs
                 /\ 0 \in Ranks /\ Others \subseteq Ranks /\ NoRank \notin Ranks
                 /\ \A k \in Others : k # 0
  BY DPScheduleAssumption DEF Ranks, Others, NoRank

\* Quotient and remainder.
LEMMA DivFacts ==
  ASSUME NEW D \in Nat \ {0}, NEW x \in Nat
  PROVE  /\ x \div D \in Nat /\ x % D \in 0 .. D - 1
         /\ x = D * (x \div D) + (x % D)
  OBVIOUS

\* What makes two slots of a rank different.
LEMMA SameSlot ==
  ASSUME NEW D \in Nat \ {0}, NEW c \in 0 .. D - 1, NEW x \in Nat, NEW y \in Nat,
         x \div D = y \div D, (c + x) % D = (c + y) % D
  PROVE  x = y
<1>1. PICK q \in Nat : q = x \div D
  BY DivFacts
<1>2. PICK a \in 0 .. D - 1 : x = D * q + a
  BY <1>1, DivFacts
<1>3. PICK b \in 0 .. D - 1 : y = D * q + b
  <2>1. y % D \in 0 .. D - 1 /\ y = D * (y \div D) + (y % D)
    BY DivFacts
  <2>2. y \div D = q
    BY <1>1
  <2> QED
    BY <2>1, <2>2
<1>sums. c + x \in Nat /\ c + y \in Nat
  OBVIOUS
<1>4. PICK m \in 0 .. D - 1 : m = (c + x) % D
  BY <1>sums, DivFacts
<1>5. PICK p \in Nat : c + x = D * p + m
  <2>1. (c + x) \div D \in Nat /\ c + x = D * ((c + x) \div D) + ((c + x) % D)
    BY <1>sums, DivFacts
  <2> QED
    BY <1>4, <2>1
<1>6. PICK r \in Nat : c + y = D * r + m
  <2>1. (c + y) \div D \in Nat /\ c + y = D * ((c + y) \div D) + ((c + y) % D)
    BY <1>sums, DivFacts
  <2>2. (c + y) % D = m
    BY <1>4
  <2> QED
    BY <2>1, <2>2
<1>7. x - y = a - b /\ x - y = D * p - D * r
  BY <1>2, <1>3, <1>5, <1>6
<1>8. D * p - D * r = D * (p - r)
  OBVIOUS
<1>9. p - r = 0
  <2>1. CASE p - r >= 1
    <3>1. D * (p - r) >= D
      BY <2>1
    <3> QED
      BY <1>7, <1>8, <3>1
  <2>2. CASE p - r <= -1
    <3>1. D * (p - r) <= -D
      BY <2>2
    <3> QED
      BY <1>7, <1>8, <3>1
  <2> QED
    BY <2>1, <2>2
<1> QED
  BY <1>7, <1>8, <1>9

\* The pool, and the requests a rank owns, are finite sets of requests.
LEMMA PoolFinite ==
  ASSUME PoolTypes
  PROVE  /\ IsFiniteSet(ToSet(pool)) /\ ToSet(pool) \subseteq Reqs
         /\ \A k : IsFiniteSet(Owned(k)) /\ Cardinality(Owned(k)) \in Nat
<1>1. pool \in Seq(Reqs) /\ DOMAIN pool = 1 .. Len(pool) /\ Len(pool) \in Nat
  BY LenProperties DEF PoolTypes
<1>2. \A i \in DOMAIN pool : pool[i] \in Reqs
  BY <1>1, ElementOfSeq
<1>3. pool \in Surjection(DOMAIN pool, ToSet(pool))
  <2>1. pool \in [DOMAIN pool -> Reqs]
    BY <1>1, LenProperties
  <2>2. pool = [i \in DOMAIN pool |-> pool[i]]
    BY <2>1
  <2>3. pool \in [DOMAIN pool -> ToSet(pool)]
    BY <2>2 DEF ToSet
  <2> QED
    BY <2>3 DEF Surjection, ToSet
<1>4. IsFiniteSet(DOMAIN pool)
  BY <1>1, FS_Interval
<1>5. IsFiniteSet(ToSet(pool))
  BY <1>3, <1>4, FS_Surjection
<1>6. \A k : Owned(k) \in SUBSET ToSet(pool)
  BY DEF Owned
<1>7. \A k : IsFiniteSet(Owned(k)) /\ Cardinality(Owned(k)) \in Nat
  BY <1>5, <1>6, FS_Subset, FS_CardinalityType
<1> QED
  BY <1>2, <1>5, <1>7 DEF ToSet

\* What the scheduler can prefill.
LEMMA PrefillIdsFacts ==
  ASSUME ArgTypes, PoolTypes
  PROVE  /\ PrefillIds \in Seq(Reqs) /\ IsInjective(PrefillIds) /\ ToSet(PrefillIds) \subseteq ToSet(pool)
         /\ \A r \in ToSet(PrefillIds) : r \in Reqs /\ task[r].type = "Prefill"
<1> DEFINE S == {r \in Reqs : task[r].type = "Prefill" /\ ~task[r].waiting}
           n == args.maxPerDp * DpSize
<1>1. PrefillIds = UpTo(Filtered(pool, S), n)
  BY DEF PrefillIds
<1>2. n \in Nat
  BY Assumed DEF ArgTypes
<1>3. pool \in Seq(Reqs) /\ IsInjective(pool)
  BY DEF PoolTypes
<1>4. \A r \in S : r \in Reqs /\ task[r].type = "Prefill"
  OBVIOUS
<1> HIDE DEF S, n
<1>5. /\ Filtered(pool, S) \in Seq(Reqs) /\ IsInjective(Filtered(pool, S))
      /\ ToSet(Filtered(pool, S)) = {r \in ToSet(pool) : r \in S}
  BY <1>3, FilteredFacts
<1>6. /\ PrefillIds \in Seq(Reqs) /\ IsInjective(PrefillIds)
      /\ ToSet(PrefillIds) \subseteq ToSet(Filtered(pool, S))
  BY <1>1, <1>2, <1>5, UpToFacts
<1> QED
  BY <1>4, <1>5, <1>6

\* Something remains of every prompt in prefill.
LEMMA RemainingType ==
  ASSUME PoolTypes, Tasks
  PROVE  \A r \in Reqs : /\ Remaining(r) \in Nat
                         /\ task[r].type = "Prefill" => Remaining(r) > 0
  BY Assumed DEF PoolTypes, Tasks, IsTask, Remaining

\* Every rank has a part of the chunk, possibly nothing.
LEMMA BudgetType ==
  ASSUME ArgTypes
  PROVE  \A k \in Ranks : Budget(k) \in Nat
<1>1. args.chunk \in Nat
  BY DEF ArgTypes
<1>2. args.chunk \div DpSize \in Nat /\ args.chunk % DpSize \in Nat
  BY <1>1, Assumed, DivFacts
<1> QED
  BY <1>2 DEF Budget

\* What each rank prefills is its own, and of each task something.
LEMMA PrefillListsFacts ==
  ASSUME ArgTypes, PoolTypes, Tasks, NEW lists, lists = PrefillLists(PrefillIds)
  PROVE  /\ lists \in [Ranks -> Seq(Reqs)]
         /\ \A k \in Ranks : \A r \in ToSet(lists[k]) :
              r \in Reqs /\ r \in ToSet(pool) /\ task[r].owner = k /\ task[r].type = "Prefill"
         /\ \A k \in Ranks : \A i \in DOMAIN lists[k] :
              args.chunk # NoChunk => /\ RemainingBefore(lists[k], i) \in Nat
                                      /\ RemainingBefore(lists[k], i) < Budget(k)
<1> DEFINE mine(k) == Filtered(PrefillIds, {r \in Reqs : task[r].owner = k})
<1>1. lists = [k \in Ranks |-> UpTo(Chunked(mine(k), k), args.maxPerDp)]
  BY DEF PrefillLists
<1>2. \A r \in Reqs : Remaining(r) \in Nat
  BY RemainingType
<1>3. ASSUME NEW k \in Ranks
      PROVE  /\ lists[k] \in Seq(Reqs)
             /\ \A r \in ToSet(lists[k]) :
                  r \in Reqs /\ r \in ToSet(pool) /\ task[r].owner = k /\ task[r].type = "Prefill"
             /\ \A i \in DOMAIN lists[k] :
                  args.chunk # NoChunk => /\ RemainingBefore(lists[k], i) \in Nat
                                          /\ RemainingBefore(lists[k], i) < Budget(k)
  <2>1. PICK own : own = mine(k)
    OBVIOUS
  <2>2. own \in Seq(Reqs) /\ ToSet(own) = {r \in ToSet(PrefillIds) : r \in {q \in Reqs : task[q].owner = k}}
    BY <2>1, PrefillIdsFacts, FilteredFacts
  <2>3. PICK part : part = Chunked(own, k)
    OBVIOUS
  <2>4. Budget(k) \in Nat
    BY BudgetType
  <2>5. /\ part \in Seq(Reqs) /\ ToSet(part) \subseteq ToSet(own) /\ Len(part) <= Len(own)
        /\ \A i \in 1 .. Len(part) : /\ part[i] = own[i]
                                     /\ args.chunk # NoChunk => RemainingBefore(own, i) < Budget(k)
    BY <1>2, <2>2, <2>3, <2>4, ChunkedFacts
  <2>6. lists[k] = UpTo(part, args.maxPerDp)
    BY <1>1, <2>1, <2>3
  <2>7. args.maxPerDp \in Nat
    BY DEF ArgTypes
  <2>8. /\ lists[k] \in Seq(Reqs) /\ ToSet(lists[k]) \subseteq ToSet(part)
        /\ DOMAIN lists[k] \subseteq DOMAIN part
        /\ \A i \in DOMAIN lists[k] : lists[k][i] = part[i]
    BY <2>5, <2>6, <2>7, UpToFacts
  <2>9. /\ DOMAIN lists[k] = 1 .. Len(lists[k]) /\ Len(lists[k]) \in Nat
        /\ DOMAIN part = 1 .. Len(part) /\ Len(part) \in Nat /\ Len(own) \in Nat
    BY <2>2, <2>5, <2>8, LenProperties
  <2>10. Len(lists[k]) <= Len(part)
    <3>1. CASE Len(lists[k]) > 0
      <4>1. Len(lists[k]) \in DOMAIN lists[k]
        BY <2>9, <3>1
      <4> QED
        BY <2>8, <2>9, <4>1
    <3> QED
      BY <2>9, <3>1
  <2>11. Len(lists[k]) <= Len(own) /\ \A i \in 1 .. Len(lists[k]) : i \in 1 .. Len(part) /\ lists[k][i] = own[i]
    BY <2>5, <2>8, <2>9, <2>10
  <2>12. \A i \in 1 .. Len(lists[k]) : RemainingBefore(lists[k], i) = RemainingBefore(own, i)
    BY <1>2, <2>2, <2>8, <2>11, RemainingOfPrefix
  <2>13. \A i \in 1 .. Len(lists[k]) : RemainingBefore(lists[k], i) \in Nat
    BY <1>2, <2>8, RemainingSums
  <2>14. \A r \in ToSet(lists[k]) :
           r \in Reqs /\ r \in ToSet(pool) /\ task[r].owner = k /\ task[r].type = "Prefill"
    BY <2>2, <2>5, <2>8, PrefillIdsFacts
  <2> QED
    BY <2>5, <2>8, <2>9, <2>11, <2>12, <2>13, <2>14
<1>4. lists = [k \in Ranks |-> lists[k]]
  BY <1>1
<1> HIDE DEF mine
<1> QED
  BY <1>3, <1>4

\* The step takes something of the prompts it lists, never past their end, and nothing of
\* the others.
LEMMA TakeFacts ==
  ASSUME ArgTypes, PoolTypes, Tasks, NEW lists, lists = PrefillLists(PrefillIds), NEW r \in Reqs
  PROVE  /\ Take(r, lists) \in Nat
         /\ IF \E k \in Ranks : r \in ToSet(lists[k])
            THEN Take(r, lists) > 0 /\ task[r].consumed + Take(r, lists) <= PromptLen[r]
            ELSE Take(r, lists) = 0
<1>1. task[r].owner \in Ranks \cup {NoRank} /\ task[r].consumed \in Nat /\ PromptLen[r] \in Nat
  BY Assumed DEF PoolTypes, IsTask
<1>2. Remaining(r) = PromptLen[r] - task[r].consumed /\ Remaining(r) \in Nat
  BY RemainingType DEF Remaining
<1>3. CASE ~ \E k \in Ranks : r \in ToSet(lists[k])
  <2>1. r \notin ToSet(IF task[r].owner = NoRank THEN <<>> ELSE lists[task[r].owner])
    BY <1>1, <1>3 DEF ToSet
  <2>2. Take(r, lists) = 0
    BY <2>1 DEF Take
  <2> QED
    BY <1>3, <2>2
<1>4. ASSUME NEW k \in Ranks, r \in ToSet(lists[k])
      PROVE  /\ Take(r, lists) \in Nat /\ Take(r, lists) > 0
             /\ task[r].consumed + Take(r, lists) <= PromptLen[r]
  <2>1. task[r].owner = k /\ task[r].type = "Prefill" /\ k # NoRank
    BY <1>4, Assumed, PrefillListsFacts
  <2>2. Remaining(r) > 0
    BY <2>1, RemainingType
  <2> DEFINE i == CHOOSE j \in DOMAIN lists[k] : lists[k][j] = r
  <2>3. i \in DOMAIN lists[k]
    BY <1>4 DEF ToSet
  <2>4. Take(r, lists) = IF args.chunk = NoChunk THEN Remaining(r)
                         ELSE Smaller(Remaining(r), Budget(k) - RemainingBefore(lists[k], i))
    BY <1>4, <2>1 DEF Take
  <2> HIDE DEF i
  <2>5. CASE args.chunk = NoChunk
    BY <1>1, <1>2, <2>2, <2>4, <2>5
  <2>6. CASE args.chunk # NoChunk
    <3>1. RemainingBefore(lists[k], i) \in Nat /\ RemainingBefore(lists[k], i) < Budget(k)
      BY <2>3, <2>6, PrefillListsFacts
    <3>2. Budget(k) \in Nat
      BY BudgetType
    <3>3. Take(r, lists) = Smaller(Remaining(r), Budget(k) - RemainingBefore(lists[k], i))
      BY <2>4, <2>6
    <3> QED
      BY <1>1, <1>2, <2>2, <3>1, <3>2, <3>3 DEF Smaller
  <2> QED
    BY <2>5, <2>6
<1> QED
  BY <1>3, <1>4

-----------------------------------------------------------------------------
(* The batch, the messages and the copies *)

\* Where the batch is, and whether the other ranks owe tokens for it.
InRound == pc = "collect" \/ (pc = "run" /\ ~args.overlap)
Batched(r) == \E k \in Ranks : r \in ToSet(batch.lists[k])

Batch ==
  /\ pc \in {"schedule", "select"} <=> batch.kind = "none"
  /\ pc = "collect" /\ args.overlap => batch.kind = "Decode"
  /\ \A k \in Ranks : ToSet(batch.lists[k]) \subseteq Owned(k)
  /\ batch.kind = "Prefill" /\ pc = "run" =>
       \A r \in Reqs : IF Batched(r)
                       THEN batch.take[r] > 0 /\ task[r].consumed + batch.take[r] <= PromptLen[r]
                       ELSE batch.take[r] = 0
  /\ batch.kind = "Decode" =>
       \A r \in Reqs : Batched(r) =>
         /\ task[r].consumed = PromptLen[r] /\ r \in ToSet(batch.outputs)
         /\ r \notin batch.normal => /\ InRound => task[r].status # "Normal"
                                     /\ ~InRound /\ args.overlap => task[r].status = "Stopped"
  /\ \A r \in ToSet(pool) : task[r].status = "Stopped" =>
       Batched(r) /\ (pc = "update" \/ (pc = "run" /\ args.overlap))

\* Every other rank owes one list of tokens while a round is on, and none otherwise.
IsReply(m) == m.kind = "Decode" \/ (m.kind = "Prefill" /\ ~args.overlap)
Owing == {k \in Others : toMain[k] # <<>> \/ \E j \in 1 .. Len(toRank[k]) : IsReply(toRank[k][j])}

Rounds ==
  /\ \A k \in Others :
       /\ \A j \in 1 .. Len(toRank[k]) : IsReply(toRank[k][j]) => j = Len(toRank[k]) /\ toMain[k] = <<>>
       /\ Len(toMain[k]) <= 1
  /\ received + Cardinality(Owing) = IF InRound THEN Awaited ELSE 0

\* The decode steps a rank has not run yet are those of the batch.
OfBatch(k, m) ==
  m.kind = "Decode" => /\ batch.kind = "Decode"
                       /\ \A i \in DOMAIN m.items :
                            /\ m.items[i].r \in ToSet(batch.lists[k])
                            /\ m.items[i].status = "Normal" <=> m.items[i].r \in batch.normal
DecodeMessages == \A k \in Others : \A j \in 1 .. Len(toRank[k]) : OfBatch(k, toRank[k][j])

\* How the cached part of the prompts goes on with each message on the way, up to what
\* rank 0 has told.
Advance(m, a, b) ==
  /\ m.kind = "Prefill" =>
       /\ \A i \in DOMAIN m.items : LET x == m.items[i] IN
            a[x.r] = x.consumed /\ x.take > 0 /\ b[x.r] = x.consumed + x.take /\ b[x.r] <= PromptLen[x.r]
       /\ \A r \in Reqs : (\A i \in DOMAIN m.items : m.items[i].r # r) => b[r] = a[r]
  /\ m.kind = "Decode" => b = a /\ \A i \in DOMAIN m.items : a[m.items[i].r] = PromptLen[m.items[i].r]
  /\ m.kind = "EndTask" =>
       \A r \in Reqs : b[r] = IF \E i \in DOMAIN m.items : m.items[i].r = r THEN 0 ELSE a[r]

Told(r) == task[r].consumed + IF pc = "run" /\ batch.kind = "Prefill" THEN batch.take[r] ELSE 0
Owed(k) == [r \in Reqs |-> IF r \in Owned(k) THEN Told(r) ELSE 0]
CachedPrompts(k) == [r \in Reqs |-> Smaller(kv[k][r], PromptLen[r])]

InUse(s) == {r \in Reqs : s[r] > 0}
Within(k, s) == Cardinality(InUse(s)) <= args.maxPerDp /\ \A r \in InUse(s) : task[r].owner = k

Course(k, st) ==
  /\ st \in [0 .. Len(toRank[k]) -> [Reqs -> Nat]]
  /\ st[0] = CachedPrompts(k)
  /\ st[Len(toRank[k])] = Owed(k)
  /\ \A j \in 1 .. Len(toRank[k]) : Advance(toRank[k][j], st[j - 1], st[j])
  /\ \A j \in 0 .. Len(toRank[k]) : Within(k, st[j])
Courses == \A k \in Others : \E st : Course(k, st)

\* The copies fit the caches.
Newest(r, n, tok) == tok.of = r /\ n + 1 = PromptLen[r] + tok.pos
DecodeUnderWay(k, r) ==
  \E j \in 1 .. Len(toRank[k]) : /\ toRank[k][j].kind = "Decode"
                                 /\ \E i \in DOMAIN toRank[k][j].items : toRank[k][j].items[i].r = r
LeftOut(k, r) ==
  \/ r \notin ToSet(pool)
  \/ batch.kind = "Decode" /\ r \in ToSet(batch.lists[k]) /\ r \notin batch.normal /\ ~DecodeUnderWay(k, r)

CopyFits(k, r, cp, n) ==
  /\ n = 0 <=> cp = NoCopy
  /\ n > 0 /\ n < PromptLen[r] => cp.type = "Prefill"
  /\ n >= PromptLen[r] => /\ cp.type = "Decode"
                          /\ IF args.overlap THEN Newest(r, n, cp.gen) \/ LeftOut(k, r)
                                             ELSE Newest(r, n, cp.next)
Copies == \A k \in Others : \A r \in Reqs : CopyFits(k, r, copy[k][r], kv[k][r])

IInv == Typing /\ Tasks /\ Batch /\ Rounds /\ DecodeMessages /\ Courses /\ Copies

-----------------------------------------------------------------------------
(* What the invariant implies *)

\* What the properties take from the invariant.
LEMMA HeadOfCourse ==
  ASSUME Typing, Courses, Copies, NEW k \in Others, toRank[k] # <<>>
  PROVE  LET m == Head(toRank[k]) IN
         /\ m \in Messages /\ m = toRank[k][1] /\ 1 \in 1 .. Len(toRank[k])
         /\ \E next \in [Reqs -> Nat] : Advance(m, CachedPrompts(k), next)
<1>1. toRank[k] \in Seq(Messages)
  BY DEF Typing, RankTypes
<1>2. Len(toRank[k]) \in Nat \ {0} /\ Head(toRank[k]) = toRank[k][1] /\ toRank[k][1] \in Messages
  BY <1>1, LenProperties, EmptySeq, ElementOfSeq, HeadTailProperties
<1>3. PICK st : Course(k, st)
  BY DEF Courses
<1>4. 1 \in 1 .. Len(toRank[k]) /\ 1 - 1 = 0 /\ 1 \in 0 .. Len(toRank[k])
  BY <1>2
<1>5. Advance(toRank[k][1], st[1 - 1], st[1])
  BY <1>3, <1>4 DEF Course
<1>6. Advance(toRank[k][1], CachedPrompts(k), st[1]) /\ st[1] \in [Reqs -> Nat]
  BY <1>3, <1>4, <1>5 DEF Course
<1> QED
  BY <1>2, <1>4, <1>6

\* What the messages carry.
LEMMA ItemTypes ==
  ASSUME NEW m \in Messages
  PROVE  /\ m.kind \in {"Prefill", "Decode", "EndTask"}
         /\ m.kind = "Prefill" => m.items \in Seq(PrefillItems)
         /\ m.kind = "Decode" => m.items \in Seq(DecodeItems)
         /\ m.kind = "EndTask" => m.items \in Seq(EndItems)
         /\ \A i \in DOMAIN m.items : m.items[i].r \in Reqs
<1>1. \/ m.kind = "Prefill" /\ m.items \in Seq(PrefillItems)
      \/ m.kind = "Decode" /\ m.items \in Seq(DecodeItems)
      \/ m.kind = "EndTask" /\ m.items \in Seq(EndItems)
  BY DEF Messages
<1>2. CASE m.kind = "Prefill" /\ m.items \in Seq(PrefillItems)
  <2>1. \A i \in DOMAIN m.items : m.items[i] \in PrefillItems
    BY <1>2, LenProperties, ElementOfSeq
  <2> QED
    BY <1>2, <2>1 DEF PrefillItems
<1>3. CASE m.kind = "Decode" /\ m.items \in Seq(DecodeItems)
  <2>1. \A i \in DOMAIN m.items : m.items[i] \in DecodeItems
    BY <1>3, LenProperties, ElementOfSeq
  <2> QED
    BY <1>3, <2>1 DEF DecodeItems
<1>4. CASE m.kind = "EndTask" /\ m.items \in Seq(EndItems)
  <2>1. \A i \in DOMAIN m.items : m.items[i] \in EndItems
    BY <1>4, LenProperties, ElementOfSeq
  <2> QED
    BY <1>4, <2>1 DEF EndItems
<1> QED
  BY <1>1, <1>2, <1>3, <1>4

\* The part of a prompt a rank has is all of it once the rank decodes.
LEMMA CachedFacts ==
  ASSUME Typing, Copies, NEW k \in Others, NEW r \in Reqs
  PROVE  /\ kv[k][r] \in Nat /\ PromptLen[r] \in Nat \ {0} /\ copy[k][r] \in CopyTypes
         /\ CachedPrompts(k)[r] = Smaller(kv[k][r], PromptLen[r])
         /\ CopyFits(k, r, copy[k][r], kv[k][r])
  BY Assumed DEF Typing, RankTypes, Copies, CachedPrompts

\* A request a rank is to decode has all of its prompt there, and its newest token.
LEMMA DecodeNews ==
  ASSUME Typing, Batch, DecodeMessages, Courses, Copies,
         NEW k \in Others, NEW i, toRank[k] # <<>>, Head(toRank[k]).kind = "Decode",
         i \in DOMAIN Items(k)
  PROVE  /\ Items(k)[i].r \in Reqs /\ kv[k][Items(k)[i].r] >= PromptLen[Items(k)[i].r]
         /\ copy[k][Items(k)[i].r].type = "Decode"
         /\ Newest(Items(k)[i].r, kv[k][Items(k)[i].r],
                   IF args.overlap THEN copy[k][Items(k)[i].r].gen ELSE copy[k][Items(k)[i].r].next)
         /\ Items(k)[i].r \in Owned(k) /\ batch.kind = "Decode" /\ Items(k)[i].r \in ToSet(batch.lists[k])
         /\ Items(k)[i].status = "Normal" <=> Items(k)[i].r \in batch.normal
<1> DEFINE r == Items(k)[i].r
<1>1. PICK m : m = Head(toRank[k])
  OBVIOUS
<1>2. m \in Messages /\ m = toRank[k][1] /\ 1 \in 1 .. Len(toRank[k]) /\ Items(k) = m.items
  BY <1>1, HeadOfCourse DEF Items
<1>3. PICK next \in [Reqs -> Nat] : Advance(m, CachedPrompts(k), next)
  BY <1>1, HeadOfCourse
<1>4. r \in Reqs
  BY <1>2, ItemTypes
<1>5. OfBatch(k, m)
  BY <1>2 DEF DecodeMessages
<1>6. /\ batch.kind = "Decode" /\ r \in ToSet(batch.lists[k])
      /\ Items(k)[i].status = "Normal" <=> r \in batch.normal
  BY <1>1, <1>2, <1>5 DEF OfBatch
<1>7. r \in Owned(k)
  BY <1>6, Assumed DEF Batch
<1>8. CachedPrompts(k)[r] = PromptLen[r]
  BY <1>1, <1>2, <1>3 DEF Advance
<1>9. kv[k][r] >= PromptLen[r]
  BY <1>4, <1>8, CachedFacts DEF Smaller
<1>10. DecodeUnderWay(k, r)
  BY <1>1, <1>2 DEF DecodeUnderWay
<1>11. ~LeftOut(k, r)
  BY <1>7, <1>10 DEF LeftOut, Owned
<1>12. CopyFits(k, r, copy[k][r], kv[k][r])
  BY <1>4, CachedFacts
<1>13. /\ copy[k][r].type = "Decode"
       /\ Newest(r, kv[k][r], IF args.overlap THEN copy[k][r].gen ELSE copy[k][r].next)
  BY <1>9, <1>11, <1>12 DEF CopyFits
<1> QED
  BY <1>4, <1>6, <1>7, <1>9, <1>13

\* A prompt goes on where the cache of the rank ends.
LEMMA PrefillNews ==
  ASSUME Typing, Courses, Copies,
         NEW k \in Others, NEW i, toRank[k] # <<>>, Head(toRank[k]).kind = "Prefill",
         i \in DOMAIN Items(k)
  PROVE  /\ Items(k)[i] \in PrefillItems
         /\ kv[k][Items(k)[i].r] = Items(k)[i].consumed /\ Items(k)[i].take > 0
         /\ Items(k)[i].consumed + Items(k)[i].take <= PromptLen[Items(k)[i].r]
         /\ IF kv[k][Items(k)[i].r] = 0 THEN copy[k][Items(k)[i].r] = NoCopy
                                        ELSE copy[k][Items(k)[i].r].type = "Prefill"
<1> DEFINE x == Items(k)[i]
           r == x.r
<1>1. PICK m : m = Head(toRank[k])
  OBVIOUS
<1>2. m \in Messages /\ m = toRank[k][1] /\ 1 \in 1 .. Len(toRank[k]) /\ Items(k) = m.items
  BY <1>1, HeadOfCourse DEF Items
<1>3. PICK next \in [Reqs -> Nat] : Advance(m, CachedPrompts(k), next)
  BY <1>1, HeadOfCourse
<1>4. x \in PrefillItems
  <2>1. m.items \in Seq(PrefillItems)
    BY <1>1, <1>2, ItemTypes
  <2> QED
    BY <1>2, <2>1, LenProperties, ElementOfSeq
<1>5. r \in Reqs /\ x.consumed \in Nat /\ x.take \in Nat
  BY <1>4 DEF PrefillItems
<1>6. CachedPrompts(k)[r] = x.consumed /\ x.take > 0 /\ x.consumed + x.take <= PromptLen[r]
  BY <1>1, <1>2, <1>3 DEF Advance
<1>7. kv[k][r] = x.consumed /\ kv[k][r] < PromptLen[r]
  BY <1>5, <1>6, CachedFacts DEF Smaller
<1>8. CopyFits(k, r, copy[k][r], kv[k][r]) /\ kv[k][r] \in Nat
  BY <1>5, CachedFacts
<1>9. IF kv[k][r] = 0 THEN copy[k][r] = NoCopy ELSE copy[k][r].type = "Prefill"
  BY <1>7, <1>8 DEF CopyFits
<1> QED
  BY <1>4, <1>6, <1>7, <1>9

\* The invariant says what a rank finds when it takes a message.
LEMMA InvRanksInStep ==
  ASSUME IInv
  PROVE  RanksInStep
<1> SUFFICES ASSUME NEW k \in Others, toRank[k] # <<>>, NEW i \in DOMAIN Items(k)
             PROVE  LET r == Items(k)[i].r IN
                    CASE Received(k, "Prefill") ->
                           /\ kv[k][r] = Items(k)[i].consumed
                           /\ copy[k][r].type = IF kv[k][r] = 0 THEN "none" ELSE "Prefill"
                      [] Received(k, "Decode") ->
                           LET newest == IF args.overlap THEN copy[k][r].gen ELSE copy[k][r].next
                           IN  copy[k][r].type = "Decode" /\ kv[k][r] + 1 = PromptLen[r] + newest.pos
                      [] Received(k, "EndTask") -> TRUE
  BY DEF RanksInStep
<1>1. Typing /\ Batch /\ DecodeMessages /\ Courses /\ Copies
  BY DEF IInv
<1>2. Head(toRank[k]).kind \in {"Prefill", "Decode", "EndTask"}
  BY <1>1, HeadOfCourse, ItemTypes
<1>3. CASE Head(toRank[k]).kind = "Prefill"
  <2>1. /\ kv[k][Items(k)[i].r] = Items(k)[i].consumed
        /\ IF kv[k][Items(k)[i].r] = 0 THEN copy[k][Items(k)[i].r] = NoCopy
                                       ELSE copy[k][Items(k)[i].r].type = "Prefill"
    BY <1>1, <1>3, PrefillNews
  <2>2. NoCopy.type = "none"
    BY DEF NoCopy
  <2> QED
    BY <1>3, <2>1, <2>2 DEF Received
<1>4. CASE Head(toRank[k]).kind = "Decode"
  <2>1. /\ copy[k][Items(k)[i].r].type = "Decode"
        /\ Newest(Items(k)[i].r, kv[k][Items(k)[i].r],
                  IF args.overlap THEN copy[k][Items(k)[i].r].gen ELSE copy[k][Items(k)[i].r].next)
    BY <1>1, <1>4, DecodeNews
  <2> QED
    BY <1>4, <2>1 DEF Received, Newest
<1>5. CASE Head(toRank[k]).kind = "EndTask"
  BY <1>5 DEF Received
<1> QED
  BY <1>2, <1>3, <1>4, <1>5

\* The invariant bounds the requests in the cache of each rank.
LEMMA InvSlotsRespected ==
  ASSUME IInv
  PROVE  SlotsRespected
<1> SUFFICES ASSUME NEW k \in Ranks
             PROVE  /\ Cardinality({r \in Reqs : kv[k][r] > 0}) <= args.maxPerDp
                    /\ \A r \in Reqs : kv[k][r] > 0 => task[r].owner = k
  BY DEF SlotsRespected
<1>1. Typing /\ Tasks /\ Courses /\ Copies /\ PoolTypes
  BY DEF IInv, Typing
<1>2. CASE k = 0
  <2>1. {r \in Reqs : kv[0][r] > 0} \in SUBSET Owned(0)
    BY <1>1 DEF Tasks
  <2>2. IsFiniteSet(Owned(0)) /\ Cardinality(Owned(0)) \in Nat /\ Cardinality(Owned(0)) <= args.maxPerDp
    BY <1>1, <1>2, PoolFinite DEF Tasks
  <2>3. Cardinality({r \in Reqs : kv[0][r] > 0}) <= Cardinality(Owned(0))
        /\ Cardinality({r \in Reqs : kv[0][r] > 0}) \in Nat
    BY <2>1, <2>2, FS_Subset, FS_CardinalityType
  <2>4. args.maxPerDp \in Nat
    BY <1>1 DEF Typing, ArgTypes
  <2> QED
    BY <1>2, <2>1, <2>2, <2>3, <2>4 DEF Owned
<1>3. CASE k # 0
  <2>1. k \in Others
    BY <1>3 DEF Others
  <2>2. PICK st : Course(k, st)
    BY <1>1, <2>1 DEF Courses
  <2>3. Within(k, CachedPrompts(k))
    <3>1. Len(toRank[k]) \in Nat
      BY <1>1, <2>1, LenProperties DEF Typing, RankTypes
    <3>2. 0 \in 0 .. Len(toRank[k])
      BY <3>1
    <3> QED
      BY <2>2, <3>2 DEF Course
  <2>4. \A r \in Reqs : kv[k][r] > 0 <=> CachedPrompts(k)[r] > 0
    BY <1>1, <2>1, CachedFacts DEF Smaller
  <2>5. {r \in Reqs : kv[k][r] > 0} = InUse(CachedPrompts(k))
    BY <2>4 DEF InUse
  <2> QED
    BY <2>3, <2>5 DEF Within
<1> QED
  BY <1>2, <1>3

-----------------------------------------------------------------------------
(* Courses *)

\* What a step that sends nothing leaves as it is.
LEMMA QuietCourses ==
  ASSUME Courses, UNCHANGED <<args, toRank>>,
         \A k \in Others : kv'[k] = kv[k] /\ Owed(k)' = Owed(k),
         \A r \in Reqs, k \in Others : task[r].owner = k => task'[r].owner = k
  PROVE  Courses'
<1> SUFFICES ASSUME NEW k \in Others PROVE \E st : Course(k, st)'
  BY DEF Courses, Others, Ranks
<1>1. PICK st : Course(k, st)
  BY DEF Courses
<1>2. toRank'[k] = toRank[k] /\ kv'[k] = kv[k] /\ args' = args
  OBVIOUS
<1>3. CachedPrompts(k)' = CachedPrompts(k)
  BY <1>2 DEF CachedPrompts
<1>4. Owed(k)' = Owed(k)
  OBVIOUS
<1>5. \A j \in 0 .. Len(toRank[k]) : Within(k, st[j])'
  <2> TAKE j \in 0 .. Len(toRank[k])
  <2>1. Within(k, st[j])
    BY <1>1 DEF Course
  <2> QED
    BY <1>2, <2>1 DEF Within, InUse
<1>6. /\ st \in [0 .. Len(toRank[k]) -> [Reqs -> Nat]]
      /\ st[0] = CachedPrompts(k)
      /\ st[Len(toRank[k])] = Owed(k)
      /\ \A j \in 1 .. Len(toRank[k]) : Advance(toRank[k][j], st[j - 1], st[j])
  BY <1>1 DEF Course
<1>7. Course(k, st)'
  BY <1>2, <1>3, <1>4, <1>5, <1>6 DEF Course
<1> QED
  BY <1>7

\* A message for every other rank that goes on from what they were told.
LEMMA SendingCourses ==
  ASSUME Typing, Courses, args' = args, NEW msg, msg \in [Others -> Messages],
         toRank' = [k \in Others |-> Append(toRank[k], msg[k])],
         \A k \in Others : /\ kv'[k] = kv[k]
                           /\ Owed(k)' \in [Reqs -> Nat]
                           /\ Advance(msg[k], Owed(k), Owed(k)')
                           /\ Cardinality(InUse(Owed(k)')) <= args.maxPerDp
                           /\ \A r \in Reqs : Owed(k)'[r] > 0 => task'[r].owner = k,
         \A r \in Reqs, k \in Others : task[r].owner = k => task'[r].owner = k
  PROVE  Courses'
<1> SUFFICES ASSUME NEW k \in Others PROVE \E st : Course(k, st)'
  BY DEF Courses, Others, Ranks
<1>1. PICK st : Course(k, st)
  BY DEF Courses
<1>2. PICK n : n = Len(toRank[k])
  OBVIOUS
<1>3. /\ n \in Nat /\ Len(toRank'[k]) = n + 1
      /\ \A j \in 1 .. n : toRank'[k][j] = toRank[k][j]
      /\ toRank'[k][n + 1] = msg[k]
  <2>1. toRank[k] \in Seq(Messages) /\ msg[k] \in Messages /\ toRank'[k] = Append(toRank[k], msg[k])
    BY DEF Typing, RankTypes
  <2> QED
    BY <1>2, <2>1, AppendProperties, LenProperties
<1>4. PICK owed \in [Reqs -> Nat] : owed = Owed(k)'
  OBVIOUS
<1> DEFINE more == [j \in 0 .. n + 1 |-> IF j = n + 1 THEN owed ELSE st[j]]
<1>5. /\ st \in [0 .. n -> [Reqs -> Nat]] /\ st[0] = CachedPrompts(k) /\ st[n] = Owed(k)
      /\ \A j \in 1 .. n : Advance(toRank[k][j], st[j - 1], st[j])
      /\ \A j \in 0 .. n : Within(k, st[j])
  BY <1>1, <1>2 DEF Course
<1>6. /\ \A j \in 0 .. n : more[j] = st[j]
      /\ more[n + 1] = owed /\ 0 \in 0 .. n /\ n \in 0 .. n
      /\ \A j \in 0 .. n + 1 : j \in 0 .. n \/ j = n + 1
      /\ \A j \in 1 .. n + 1 : j \in 1 .. n \/ j = n + 1
      /\ \A j \in 1 .. n : j \in 0 .. n /\ j - 1 \in 0 .. n
      /\ (n + 1) - 1 = n
  BY <1>3
<1>7. more \in [0 .. n + 1 -> [Reqs -> Nat]]
  BY <1>4, <1>5, <1>6
<1> HIDE DEF more
<1>8. kv'[k] = kv[k] /\ CachedPrompts(k)' = CachedPrompts(k)
  BY DEF CachedPrompts
<1>9. \A j \in 1 .. n + 1 : Advance(toRank'[k][j], more[j - 1], more[j])
  <2> TAKE j \in 1 .. n + 1
  <2>1. CASE j \in 1 .. n
    BY <1>3, <1>5, <1>6, <2>1
  <2>2. CASE j = n + 1
    <3>1. Advance(msg[k], Owed(k), owed)
      BY <1>4
    <3> QED
      BY <1>3, <1>5, <1>6, <2>2, <3>1
  <2> QED
    BY <1>6, <2>1, <2>2
<1>10. \A j \in 0 .. n + 1 : Within(k, more[j])'
  <2> TAKE j \in 0 .. n + 1
  <2>1. CASE j \in 0 .. n
    <3>1. Within(k, st[j])
      BY <1>5, <2>1
    <3>2. more[j] = st[j]
      BY <1>6, <2>1
    <3> QED
      BY <3>1, <3>2 DEF Within, InUse
  <2>2. CASE j = n + 1
    <3>1. more[j] = owed /\ Cardinality(InUse(owed)) <= args.maxPerDp
      BY <1>4, <1>6, <2>2 DEF InUse
    <3>2. \A r \in Reqs : owed[r] > 0 => task'[r].owner = k
      BY <1>4
    <3> QED
      BY <3>1, <3>2 DEF Within, InUse
  <2> QED
    BY <1>6, <2>1, <2>2
<1>11. Course(k, more)'
  <2>1. more \in [0 .. Len(toRank'[k]) -> [Reqs -> Nat]]
    BY <1>3, <1>7
  <2>2. more[0] = CachedPrompts(k)' /\ more[Len(toRank'[k])] = Owed(k)'
    BY <1>3, <1>4, <1>5, <1>6, <1>8
  <2>3. \A j \in 1 .. Len(toRank'[k]) : Advance(toRank'[k][j], more[j - 1], more[j])
    BY <1>3, <1>9
  <2> QED
    BY <1>3, <1>10, <2>1, <2>2, <2>3 DEF Course
<1> QED
  BY <1>11

\* A rank takes a message that advances its cache as the course says.
LEMMA TakingCourses ==
  ASSUME Typing, Courses, NEW k \in Others, toRank[k] # <<>>, UNCHANGED <<args, task, pool, pc, batch>>,
         toRank' = [toRank EXCEPT ![k] = Tail(@)],
         \A l \in Others \ {k} : kv'[l] = kv[l],
         \A next \in [Reqs -> Nat] :
            Advance(Head(toRank[k]), CachedPrompts(k), next) => CachedPrompts(k)' = next
  PROVE  Courses'
<1>1. \A l \in Others : Owed(l)' = Owed(l)
  BY DEF Owed, Told, Owned
<1> SUFFICES ASSUME NEW l \in Others PROVE \E st : Course(l, st)'
  BY DEF Courses, Others, Ranks
<1>2. PICK st : Course(l, st)
  BY DEF Courses
<1>within. \A s : Within(l, s)' <=> Within(l, s)
  BY DEF Within, InUse
<1>3. CASE l # k
  <2>1. toRank'[l] = toRank[l] /\ kv'[l] = kv[l]
    BY <1>3 DEF Typing, RankTypes
  <2>2. CachedPrompts(l)' = CachedPrompts(l)
    BY <2>1 DEF CachedPrompts
  <2>3. Owed(l)' = Owed(l)
    BY <1>1
  <2>4. Course(l, st)'
    BY <1>2, <1>within, <2>1, <2>2, <2>3 DEF Course
  <2> QED
    BY <2>4
<1>4. CASE l = k
  <2>1. toRank[k] \in Seq(Messages) /\ toRank'[k] = Tail(toRank[k])
    BY DEF Typing, RankTypes
  <2>2. PICK n : n = Len(toRank[k])
    OBVIOUS
  <2>3. /\ n \in Nat \ {0} /\ Len(toRank'[k]) = n - 1 /\ Head(toRank[k]) = toRank[k][1]
        /\ \A j \in 1 .. n - 1 : toRank'[k][j] = toRank[k][j + 1]
    <3>1. n \in Nat \ {0}
      BY <2>1, <2>2, LenProperties, EmptySeq
    <3>2. /\ Len(Tail(toRank[k])) = Len(toRank[k]) - 1 /\ Head(toRank[k]) = toRank[k][1]
          /\ \A j \in 1 .. Len(Tail(toRank[k])) : Tail(toRank[k])[j] = toRank[k][j + 1]
      BY <2>1, HeadTailProperties
    <3> QED
      BY <2>1, <2>2, <3>1, <3>2
  <2>4. /\ st \in [0 .. n -> [Reqs -> Nat]] /\ st[0] = CachedPrompts(k) /\ st[n] = Owed(k)
        /\ \A j \in 1 .. n : Advance(toRank[k][j], st[j - 1], st[j])
        /\ \A j \in 0 .. n : Within(k, st[j])
    BY <1>2, <1>4, <2>2 DEF Course
  <2> DEFINE rest == [j \in 0 .. n - 1 |-> st[j + 1]]
  <2>5. /\ \A j \in 0 .. n - 1 : rest[j] = st[j + 1] /\ j + 1 \in 0 .. n
        /\ \A j \in 1 .. n - 1 : j \in 0 .. n - 1 /\ j - 1 \in 0 .. n - 1 /\ j + 1 \in 1 .. n
                                 /\ (j - 1) + 1 = j /\ (j + 1) - 1 = j
        /\ 0 \in 0 .. n - 1 /\ n - 1 \in 0 .. n - 1 /\ 0 + 1 = 1 /\ (n - 1) + 1 = n /\ 1 \in 1 .. n /\ 1 - 1 = 0
    BY <2>3
  <2>6. rest \in [0 .. n - 1 -> [Reqs -> Nat]]
    BY <2>4, <2>5
  <2> HIDE DEF rest
  <2>7. rest[0] = CachedPrompts(k)'
    <3>1. Advance(toRank[k][1], st[0], st[1]) /\ rest[0] = st[1]
      BY <2>4, <2>5
    <3>2. st[1] \in [Reqs -> Nat]
      BY <2>4, <2>5
    <3> QED
      BY <2>3, <2>4, <3>1, <3>2
  <2>8. rest[n - 1] = Owed(k)'
    BY <1>1, <2>4, <2>5
  <2>9. \A j \in 1 .. n - 1 : Advance(toRank'[k][j], rest[j - 1], rest[j])
    <3> TAKE j \in 1 .. n - 1
    <3>1. Advance(toRank[k][j + 1], st[j], st[j + 1])
      BY <2>4, <2>5
    <3> QED
      BY <2>3, <2>5, <3>1
  <2>10. \A j \in 0 .. n - 1 : Within(k, rest[j])'
    BY <1>4, <1>within, <2>4, <2>5
  <2>11. Course(k, rest)'
    <3>1. \A j \in 1 .. Len(toRank'[k]) : Advance(toRank'[k][j], rest[j - 1], rest[j])
      BY <2>3, <2>9
    <3> QED
      BY <2>3, <2>6, <2>7, <2>8, <2>10, <3>1 DEF Course
  <2> QED
    BY <1>4, <2>11
<1> QED
  BY <1>3, <1>4

-----------------------------------------------------------------------------
(* The tasks of rank 0 *)

\* What a step of a rank leaves of a task.
SameButConsumed(t, u) == IsTask(u) /\ u.status = t.status /\ u.owner = t.owner

\* A prompt that goes on changes its progress and type only.
LEMMA ConsumeFacts ==
  ASSUME NEW r \in Reqs, NEW t, IsTask(t), NEW n \in Nat
  PROVE  /\ SameButConsumed(t, ConsumeReqTokens(r, t, n))
         /\ ConsumeReqTokens(r, t, n).consumed = t.consumed + n
         /\ ConsumeReqTokens(r, t, n).type = IF t.consumed + n = PromptLen[r] THEN "Decode" ELSE t.type
<1>1. ConsumeReqTokens(r, t, n) =
          [type |-> IF t.consumed + n = PromptLen[r] THEN "Decode" ELSE t.type,
           consumed |-> t.consumed + n, next |-> t.next, gen |-> t.gen,
           numNew |-> t.numNew, status |-> t.status, waiting |-> t.waiting, owner |-> t.owner]
  <2>1. PICK v : v = [t EXCEPT !.consumed = @ + n]
    OBVIOUS
  <2>2. v = [type |-> t.type, consumed |-> t.consumed + n, next |-> t.next, gen |-> t.gen,
             numNew |-> t.numNew, status |-> t.status, waiting |-> t.waiting, owner |-> t.owner]
    BY <2>1 DEF IsTask
  <2>3. ConsumeReqTokens(r, t, n) = [v EXCEPT !.type = IF t.consumed + n = PromptLen[r] THEN "Decode" ELSE t.type]
    BY <2>1 DEF IsTask, ConsumeReqTokens
  <2> QED
    BY <2>2, <2>3
<1> QED
  BY <1>1 DEF IsTask, SameButConsumed

\* A token a task is given changes neither progress nor owner.
LEMMA SetFacts ==
  ASSUME NEW t, IsTask(t), NEW tok
  PROVE  /\ SameButConsumed(t, SetGen(t, tok)) /\ SetGen(t, tok).consumed = t.consumed /\ SetGen(t, tok).type = t.type
         /\ SameButConsumed(t, SetNext(t, tok)) /\ SetNext(t, tok).consumed = t.consumed /\ SetNext(t, tok).type = t.type
<1>1. SetGen(t, tok) = [type |-> t.type, consumed |-> t.consumed, next |-> t.next, gen |-> tok,
           numNew |-> t.numNew, status |-> t.status, waiting |-> t.waiting, owner |-> t.owner]
  BY DEF IsTask, SetGen
<1>2. SetNext(t, tok) = [type |-> t.type, consumed |-> t.consumed, next |-> tok, gen |-> NoToken,
           numNew |-> t.numNew, status |-> t.status, waiting |-> t.waiting, owner |-> t.owner]
  <2>1. PICK v : v = [t EXCEPT !.next = tok]
    OBVIOUS
  <2>2. v = [type |-> t.type, consumed |-> t.consumed, next |-> tok, gen |-> t.gen,
             numNew |-> t.numNew, status |-> t.status, waiting |-> t.waiting, owner |-> t.owner]
    BY <2>1 DEF IsTask
  <2>3. SetNext(t, tok) = [v EXCEPT !.gen = NoToken]
    BY <2>1 DEF IsTask, SetNext
  <2> QED
    BY <2>2, <2>3
<1> QED
  BY <1>1, <1>2 DEF IsTask, SameButConsumed

Given(t, tok) == [SetNext(t, tok) EXCEPT !.numNew = @ + 1]

\* Nor does one that is recorded.
LEMMA GivenFacts ==
  ASSUME NEW t, IsTask(t), NEW tok
  PROVE  SameButConsumed(t, Given(t, tok)) /\ Given(t, tok).consumed = t.consumed /\ Given(t, tok).type = t.type
<1>1. PICK u : u = SetNext(t, tok)
  OBVIOUS
<1>2. IsTask(u) /\ u.status = t.status /\ u.owner = t.owner /\ u.consumed = t.consumed /\ u.type = t.type
  BY <1>1, SetFacts DEF SameButConsumed
<1>3. Given(t, tok) = [type |-> u.type, consumed |-> u.consumed, next |-> u.next, gen |-> u.gen,
           numNew |-> u.numNew + 1, status |-> u.status, waiting |-> u.waiting, owner |-> u.owner]
  BY <1>1, <1>2 DEF IsTask, Given
<1> QED
  BY <1>2, <1>3 DEF IsTask, SameButConsumed

\* update_decode_status changes the status only, and ends what is not Normal.
LEMMA UpdateFacts ==
  ASSUME NEW r \in Reqs, NEW t, IsTask(t)
  PROVE  LET u == UpdateDecodeStatus(r, t) IN
         /\ IsTask(u) /\ u.owner = t.owner /\ u.consumed = t.consumed /\ u.type = t.type
         /\ t.status # "Normal" => u.status = "Stopped"
<1> DEFINE u == UpdateDecodeStatus(r, t)
           With(s) == [type |-> t.type, consumed |-> t.consumed, next |-> t.next, gen |-> t.gen,
                       numNew |-> t.numNew, status |-> s, waiting |-> t.waiting, owner |-> t.owner]
<1>1. t.status \in Statuses /\ t = With(t.status)
  BY DEF IsTask
<1>2. \A s : [t EXCEPT !.status = s] = With(s)
  BY <1>1
<1> HIDE DEF With
<1>3. \E s \in Statuses : u = With(s) /\ (t.status # "Normal" => s = "Stopped")
  <2>1. CASE t.status = "Stopped"
    <3>1. u = t
      BY <2>1 DEF UpdateDecodeStatus
    <3> QED
      BY <1>1, <2>1, <3>1
  <2>2. CASE t.status = "WillStopLength"
    <3>1. u = [t EXCEPT !.status = "Stopped"]
      BY <2>2 DEF UpdateDecodeStatus
    <3> QED
      BY <1>2, <3>1 DEF Statuses
  <2>3. CASE t.status = "Normal"
    <3>1. \/ u = [t EXCEPT !.status = "Stopped"]
          \/ u = [t EXCEPT !.status = IF t.numNew + 1 >= MaxNew[r] THEN "WillStopLength" ELSE "Normal"]
      BY <2>3 DEF UpdateDecodeStatus
    <3>2. CASE u = [t EXCEPT !.status = "Stopped"]
      BY <1>2, <2>3, <3>2 DEF Statuses
    <3>3. CASE u = [t EXCEPT !.status = IF t.numNew + 1 >= MaxNew[r] THEN "WillStopLength" ELSE "Normal"]
      BY <1>2, <2>3, <3>3 DEF Statuses
    <3> QED
      BY <3>1, <3>2, <3>3
  <2> QED
    BY <1>1, <2>1, <2>2, <2>3 DEF Statuses
<1>4. PICK s \in Statuses : u = With(s) /\ (t.status # "Normal" => s = "Stopped")
  BY <1>3
<1>5. IsTask(u) /\ u.owner = t.owner /\ u.consumed = t.consumed /\ u.type = t.type /\ u.status = s
  BY <1>4 DEF With, IsTask
<1> QED
  BY <1>4, <1>5

\* The requests of the batch.
LEMMA BatchedFacts ==
  ASSUME Typing, Batch
  PROVE  /\ ToSet(Concat(batch.lists)) = {r \in Reqs : Batched(r)}
         /\ Concat(batch.lists) \in Seq(Reqs)
         /\ \A k \in Ranks : ToSet(batch.lists[k]) \subseteq Reqs
         /\ \A r \in Reqs : Batched(r) => r \in ToSet(pool) /\ task[r].owner \in Ranks
         /\ \A r \in Reqs, k \in Ranks : r \in Owned(k) => (Batched(r) <=> r \in ToSet(batch.lists[k]))
<1>1. batch.lists \in [Ranks -> Seq(Reqs)]
  BY DEF Typing, BatchTypes
<1>2. /\ Concat(batch.lists) \in Seq(Reqs)
      /\ ToSet(Concat(batch.lists)) = UNION {ToSet(batch.lists[k]) : k \in Ranks}
  BY <1>1, Assumed, ConcatAll
<1>3. \A k \in Ranks : ToSet(batch.lists[k]) \subseteq Reqs
  <2> TAKE k \in Ranks
  <2>1. batch.lists[k] \in Seq(Reqs)
    BY <1>1
  <2>2. \A i \in DOMAIN batch.lists[k] : batch.lists[k][i] \in Reqs
    BY <2>1, LenProperties, ElementOfSeq
  <2> QED
    BY <2>2 DEF ToSet
<1>4. \A k \in Ranks : \A r \in ToSet(batch.lists[k]) : r \in ToSet(pool) /\ task[r].owner = k
  BY DEF Batch, Owned
<1> QED
  BY <1>2, <1>3, <1>4 DEF Batched, Owned

\* The tasks after rank 0 has run the prompts.
LEMMA RunPrefillTasks ==
  ASSUME Typing, Tasks, Batch, RunPrefill
  PROVE  /\ task' = [r \in Reqs |-> task'[r]]
         /\ \A r \in Reqs : /\ SameButConsumed(task[r], task'[r])
                            /\ task'[r].consumed = task[r].consumed + batch.take[r]
                            /\ task'[r].consumed <= PromptLen[r]
                            /\ task'[r].type = IF task'[r].consumed = PromptLen[r] THEN "Decode" ELSE "Prefill"
                            /\ task[r].owner = NoRank => batch.take[r] = 0
                            /\ ~Batched(r) => batch.take[r] = 0
<1> DEFINE mine == Filtered(batch.lists[0], ToSet(batch.outputs))
           consumed == [r \in Reqs |-> IF r \in ToSet(Concat(batch.lists))
                                       THEN ConsumeReqTokens(r, task[r], batch.take[r]) ELSE task[r]]
<1>1. \A r \in Reqs : /\ IsTask(task[r]) /\ batch.take[r] \in Nat /\ PromptLen[r] \in Nat \ {0}
                      /\ task[r].consumed <= PromptLen[r]
                      /\ task[r].type = IF task[r].consumed = PromptLen[r] THEN "Decode" ELSE "Prefill"
                      /\ IF Batched(r) THEN task[r].consumed + batch.take[r] <= PromptLen[r] ELSE batch.take[r] = 0
  BY Assumed DEF Typing, PoolTypes, BatchTypes, Tasks, Batch, RunPrefill
<1>2. \A r \in Reqs : consumed[r] = IF Batched(r) THEN ConsumeReqTokens(r, task[r], batch.take[r]) ELSE task[r]
  BY BatchedFacts
<1>3. \/ \E tokens : task' = Stored(consumed, mine, tokens, SetGen)
      \/ task' = consumed
  BY DEF RunPrefill
<1>4. \A r \in Reqs : consumed[r] = task'[r] \/ \E tok : task'[r] = SetGen(consumed[r], tok)
  BY <1>3 DEF Stored
<1>5. task' = [r \in Reqs |-> task'[r]]
  BY <1>3 DEF Stored
<1> HIDE DEF consumed
<1>6. ASSUME NEW r \in Reqs
      PROVE  /\ SameButConsumed(task[r], consumed[r])
             /\ consumed[r].consumed = task[r].consumed + batch.take[r]
             /\ consumed[r].consumed <= PromptLen[r]
             /\ consumed[r].type = IF consumed[r].consumed = PromptLen[r] THEN "Decode" ELSE "Prefill"
  <2>1. IsTask(task[r]) /\ task[r].consumed \in Nat /\ batch.take[r] \in Nat /\ PromptLen[r] \in Nat
    BY <1>1 DEF IsTask
  <2>2. CASE Batched(r)
    <3>1. /\ SameButConsumed(task[r], consumed[r])
          /\ consumed[r].consumed = task[r].consumed + batch.take[r]
          /\ consumed[r].type = IF task[r].consumed + batch.take[r] = PromptLen[r] THEN "Decode" ELSE task[r].type
      BY <1>2, <2>1, <2>2, ConsumeFacts
    <3> QED
      BY <1>1, <2>1, <2>2, <3>1
  <2>3. CASE ~Batched(r)
    BY <1>1, <1>2, <2>1, <2>3 DEF SameButConsumed
  <2> QED
    BY <2>2, <2>3
<1>7. ASSUME NEW r \in Reqs
      PROVE  /\ SameButConsumed(task[r], task'[r])
             /\ task'[r].consumed = consumed[r].consumed /\ task'[r].type = consumed[r].type
  <2>1. CASE consumed[r] = task'[r]
    BY <1>6, <2>1
  <2>2. CASE \E tok : task'[r] = SetGen(consumed[r], tok)
    <3>1. PICK tok : task'[r] = SetGen(consumed[r], tok)
      BY <2>2
    <3>2. IsTask(consumed[r])
      BY <1>6 DEF SameButConsumed
    <3>3. /\ SameButConsumed(consumed[r], SetGen(consumed[r], tok))
          /\ SetGen(consumed[r], tok).consumed = consumed[r].consumed
          /\ SetGen(consumed[r], tok).type = consumed[r].type
      BY <3>2, SetFacts
    <3> QED
      BY <1>6, <3>1, <3>3 DEF SameButConsumed
  <2> QED
    BY <1>4, <2>1, <2>2
<1>8. \A r \in Reqs : task[r].owner = NoRank => ~Batched(r)
  BY Assumed, BatchedFacts
<1> QED
  BY <1>1, <1>5, <1>6, <1>7, <1>8

\* The tasks after rank 0 has run a step of the answers.
LEMMA RunDecodeTasks ==
  ASSUME Typing, Tasks, Batch, RunDecode
  PROVE  /\ task' = [r \in Reqs |-> task'[r]]
         /\ \A r \in Reqs : /\ SameButConsumed(task[r], task'[r])
                            /\ task'[r].consumed = task[r].consumed /\ task'[r].type = task[r].type
<1> DEFINE mine == IF args.overlap THEN Filtered(batch.lists[0], batch.normal) ELSE batch.lists[0]
<1>1. \A r \in Reqs : IsTask(task[r])
  BY DEF Typing, PoolTypes
<1>2. \/ \E tokens : task' = Stored(task, mine, tokens, SetGen)
      \/ task' = task
  BY DEF RunDecode
<1>3. \A r \in Reqs : task[r] = task'[r] \/ \E tok : task'[r] = SetGen(task[r], tok)
  BY <1>2 DEF Stored
<1>4. task' = [r \in Reqs |-> task'[r]]
  BY <1>2 DEF Stored, Typing, PoolTypes
<1>5. ASSUME NEW r \in Reqs
      PROVE  /\ SameButConsumed(task[r], task'[r])
             /\ task'[r].consumed = task[r].consumed /\ task'[r].type = task[r].type
  <2>1. CASE task[r] = task'[r]
    BY <1>1, <2>1 DEF SameButConsumed
  <2>2. CASE \E tok : task'[r] = SetGen(task[r], tok)
    BY <1>1, <2>2, SetFacts
  <2> QED
    BY <1>3, <2>1, <2>2
<1> QED
  BY <1>4, <1>5

\* The tasks after the tokens are recorded.
LEMMA RecordTasks ==
  ASSUME Typing, Tasks, Batch, Record
  PROVE  /\ task' = [r \in Reqs |-> task'[r]]
         /\ \A r \in Reqs : /\ IsTask(task'[r]) /\ task'[r].owner = task[r].owner
                            /\ task'[r].consumed = task[r].consumed /\ task'[r].type = task[r].type
                            /\ ~Batched(r) => task'[r] = task[r]
                            /\ r \in ToSet(batch.outputs) /\ Batched(r) /\ task[r].status # "Normal"
                                 => task'[r].status = "Stopped"
<1> DEFINE given(t, tok) == [SetNext(t, tok) EXCEPT !.numNew = @ + 1]
           stored == Stored(task, batch.outputs, Collected, given)
           all == IF batch.outputs = <<>> THEN {} ELSE ToSet(Concat(batch.lists))
<1>1. task' = [r \in Reqs |-> IF r \in all THEN UpdateDecodeStatus(r, stored[r]) ELSE task[r]]
  BY DEF Record
<1>2. \A r \in Reqs : r \in all => Batched(r)
  BY BatchedFacts
<1>3. \A r \in Reqs : r \in ToSet(batch.outputs) /\ Batched(r) => r \in all
  <2>1. batch.outputs = <<>> => ToSet(batch.outputs) = {}
    BY DEF ToSet
  <2> QED
    BY <2>1, BatchedFacts
<1> HIDE DEF all
<1>4. \A r \in Reqs : stored[r] = task[r] \/ \E tok : stored[r] = Given(task[r], tok)
  BY DEF Stored, Given
<1> HIDE DEF stored
<1>5. task' = [r \in Reqs |-> task'[r]]
  BY <1>1
<1>6. ASSUME NEW r \in Reqs
      PROVE  /\ IsTask(task'[r]) /\ task'[r].owner = task[r].owner
             /\ task'[r].consumed = task[r].consumed /\ task'[r].type = task[r].type
             /\ ~Batched(r) => task'[r] = task[r]
             /\ r \in ToSet(batch.outputs) /\ Batched(r) /\ task[r].status # "Normal"
                  => task'[r].status = "Stopped"
  <2>1. IsTask(task[r])
    BY DEF Typing, PoolTypes
  <2>2. /\ IsTask(stored[r]) /\ stored[r].owner = task[r].owner /\ stored[r].status = task[r].status
        /\ stored[r].consumed = task[r].consumed /\ stored[r].type = task[r].type
    <3>1. CASE stored[r] = task[r]
      BY <2>1, <3>1
    <3>2. CASE \E tok : stored[r] = Given(task[r], tok)
      BY <2>1, <3>2, GivenFacts DEF SameButConsumed
    <3> QED
      BY <1>4, <3>1, <3>2
  <2>3. CASE r \in all
    <3>1. task'[r] = UpdateDecodeStatus(r, stored[r])
      BY <1>1, <2>3
    <3> QED
      BY <1>2, <2>2, <2>3, <3>1, UpdateFacts
  <2>4. CASE r \notin all
    BY <1>1, <1>3, <2>1, <2>4
  <2> QED
    BY <2>3, <2>4
<1> QED
  BY <1>5, <1>6

\* Who owns what depends on the pool and the owners only.
LEMMA SameOwned ==
  ASSUME pool' = pool, \A r \in ToSet(pool) : task'[r].owner = task[r].owner
  PROVE  \A k : Owned(k)' = Owned(k)
  BY DEF Owned

\* The pool, and what a rank owns of it, are requests.
LEMMA PoolIn ==
  ASSUME Typing
  PROVE  ToSet(pool) \subseteq Reqs /\ \A k : Owned(k) \subseteq Reqs
  BY PoolFinite DEF Typing, Owned

\* RunPrefill keeps typing, tasks and batch.
LEMMA RunPrefillMain ==
  ASSUME Typing, Tasks, Batch, RunPrefill
  PROVE  Typing' /\ Tasks' /\ Batch'
<1>1. /\ pc = "run" /\ batch.kind = "Prefill" /\ pc' = IF args.overlap THEN "update" ELSE "collect"
      /\ kv' = [kv EXCEPT ![0] = [r \in Reqs |-> IF r \in ToSet(batch.lists[0])
                                                 THEN @[r] + batch.take[r] ELSE @[r]]]
      /\ UNCHANGED <<args, submitted, pool, cursor, batch, received, toRank, toMain, copy>>
  BY DEF RunPrefill
<1>2. /\ task' = [r \in Reqs |-> task'[r]]
      /\ \A r \in Reqs : /\ IsTask(task'[r]) /\ task'[r].status = task[r].status /\ task'[r].owner = task[r].owner
                         /\ task'[r].consumed = task[r].consumed + batch.take[r]
                         /\ task'[r].consumed <= PromptLen[r]
                         /\ task'[r].type = IF task'[r].consumed = PromptLen[r] THEN "Decode" ELSE "Prefill"
                         /\ task[r].owner = NoRank => batch.take[r] = 0
  BY RunPrefillTasks DEF SameButConsumed
<1>3. \A k : Owned(k)' = Owned(k)
  BY <1>1, <1>2, PoolIn, SameOwned
<1>4. /\ kv \in [Ranks -> [Reqs -> Nat]] /\ 0 \in Ranks /\ batch.take \in [Reqs -> Nat]
  BY Assumed DEF Typing, RankTypes, BatchTypes
<1>5. \A r \in Reqs : kv'[0][r] = IF r \in ToSet(batch.lists[0]) THEN kv[0][r] + batch.take[r] ELSE kv[0][r]
  BY <1>1, <1>4
<1>6. kv' \in [Ranks -> [Reqs -> Nat]]
  <2>1. [r \in Reqs |-> IF r \in ToSet(batch.lists[0]) THEN kv[0][r] + batch.take[r] ELSE kv[0][r]] \in [Reqs -> Nat]
    BY <1>4
  <2> QED
    BY <1>1, <1>4, <2>1
<1>7. Typing'
  BY <1>1, <1>2, <1>6 DEF Typing, ArgTypes, PoolTypes, BatchTypes, RankTypes
<1>8. Tasks'
  <2>1. ASSUME NEW r \in Reqs
        PROVE  /\ task'[r].consumed <= PromptLen[r]
               /\ task'[r].type = IF task'[r].consumed = PromptLen[r] THEN "Decode" ELSE "Prefill"
               /\ task'[r].owner = NoRank => task'[r].consumed = 0 /\ task'[r].status # "Stopped"
               /\ r \notin submitted' => task'[r].owner = NoRank
               /\ kv'[0][r] > 0 => r \in Owned(0)'
    <3>1. kv'[0][r] > 0 => r \in Owned(0)'
      BY <1>3, <1>4, <1>5 DEF Tasks, Batch
    <3> QED
      BY <1>1, <1>2, <3>1 DEF Tasks
  <2>2. \A k \in Ranks : Cardinality(Owned(k)') <= args'.maxPerDp
    BY <1>1, <1>3 DEF Tasks
  <2> QED
    BY <2>1, <2>2 DEF Tasks
<1>9. Batch'
  BY <1>1, <1>2, <1>3, PoolIn DEF Batch, Batched
<1> QED
  BY <1>7, <1>8, <1>9

\* RunDecode keeps typing, tasks and batch.
LEMMA RunDecodeMain ==
  ASSUME Typing, Tasks, Batch, RunDecode
  PROVE  Typing' /\ Tasks' /\ Batch'
<1> DEFINE mine == IF args.overlap THEN Filtered(batch.lists[0], batch.normal) ELSE batch.lists[0]
<1>1. /\ pc = "run" /\ batch.kind = "Decode" /\ pc' = IF args.overlap THEN "update" ELSE "collect"
      /\ kv' = [kv EXCEPT ![0] = [r \in Reqs |-> IF r \in ToSet(mine) THEN @[r] + 1 ELSE @[r]]]
      /\ UNCHANGED <<args, submitted, pool, cursor, batch, received, toRank, toMain, copy>>
  BY DEF RunDecode
<1>2. /\ task' = [r \in Reqs |-> task'[r]]
      /\ \A r \in Reqs : /\ IsTask(task'[r]) /\ task'[r].status = task[r].status /\ task'[r].owner = task[r].owner
                         /\ task'[r].consumed = task[r].consumed /\ task'[r].type = task[r].type
  BY RunDecodeTasks DEF SameButConsumed
<1>3. \A k : Owned(k)' = Owned(k)
  BY <1>1, <1>2, PoolIn, SameOwned
<1>4. /\ kv \in [Ranks -> [Reqs -> Nat]] /\ 0 \in Ranks /\ batch.lists[0] \in Seq(Reqs)
  BY Assumed DEF Typing, RankTypes, BatchTypes
<1>mine. ToSet(mine) \subseteq ToSet(batch.lists[0])
  BY <1>4, FilteredFacts
<1> HIDE DEF mine
<1>5. \A r \in Reqs : kv'[0][r] = IF r \in ToSet(mine) THEN kv[0][r] + 1 ELSE kv[0][r]
  BY <1>1, <1>4
<1>6. kv' \in [Ranks -> [Reqs -> Nat]]
  <2>1. [r \in Reqs |-> IF r \in ToSet(mine) THEN kv[0][r] + 1 ELSE kv[0][r]] \in [Reqs -> Nat]
    BY <1>4
  <2> QED
    BY <1>1, <1>4, <2>1
<1>7. Typing'
  BY <1>1, <1>2, <1>6 DEF Typing, ArgTypes, PoolTypes, BatchTypes, RankTypes
<1>8. Tasks'
  <2>1. ASSUME NEW r \in Reqs
        PROVE  /\ task'[r].consumed <= PromptLen[r]
               /\ task'[r].type = IF task'[r].consumed = PromptLen[r] THEN "Decode" ELSE "Prefill"
               /\ task'[r].owner = NoRank => task'[r].consumed = 0 /\ task'[r].status # "Stopped"
               /\ r \notin submitted' => task'[r].owner = NoRank
               /\ kv'[0][r] > 0 => r \in Owned(0)'
    <3>1. kv'[0][r] > 0 => r \in Owned(0)'
      BY <1>3, <1>4, <1>5, <1>mine DEF Tasks, Batch
    <3> QED
      BY <1>1, <1>2, <3>1 DEF Tasks
  <2>2. \A k \in Ranks : Cardinality(Owned(k)') <= args'.maxPerDp
    BY <1>1, <1>3 DEF Tasks
  <2> QED
    BY <2>1, <2>2 DEF Tasks
<1>9. Batch'
  BY <1>1, <1>2, <1>3, PoolIn DEF Batch, Batched, InRound
<1> QED
  BY <1>7, <1>8, <1>9

\* Collect keeps typing, tasks and batch.
LEMMA CollectMain ==
  ASSUME Typing, Tasks, Batch, NEW k \in Others, Collect(k)
  PROVE  Typing' /\ Tasks' /\ Batch'
<1>1. /\ toMain[k] # <<>> /\ toMain' = [toMain EXCEPT ![k] = Tail(@)] /\ received' = received + 1
      /\ UNCHANGED <<args, submitted, pool, task, cursor, batch, pc, toRank, copy, kv>>
  BY DEF Collect
<1>2. toMain' \in [Others -> Seq(Seq(Tokens))]
  <2>1. toMain \in [Others -> Seq(Seq(Tokens))] /\ Tail(toMain[k]) \in Seq(Seq(Tokens))
    BY <1>1, HeadTailProperties DEF Typing, RankTypes
  <2> QED
    BY <1>1, <2>1
<1>3. Typing'
  <2>1. PoolTypes'
    BY <1>1 DEF Typing, PoolTypes
  <2>2. ArgTypes' /\ BatchTypes' /\ RankTypes'
    BY <1>1, <1>2 DEF Typing, ArgTypes, BatchTypes, RankTypes
  <2> QED
    BY <2>1, <2>2 DEF Typing
<1>4. Tasks'
  BY <1>1 DEF Tasks, Owned
<1>5. Batch'
  BY <1>1 DEF Batch, Batched, Owned, InRound
<1> QED
  BY <1>3, <1>4, <1>5

\* Record keeps typing, tasks and batch.
LEMMA RecordMain ==
  ASSUME Typing, Tasks, Batch, Record
  PROVE  Typing' /\ Tasks' /\ Batch'
<1>1. /\ pc = "collect" /\ pc' = (IF args.overlap THEN "run" ELSE "update") /\ received' = 0
      /\ UNCHANGED <<args, submitted, pool, cursor, batch, toRank, toMain, copy, kv>>
  BY DEF Record
<1>2. /\ task' = [r \in Reqs |-> task'[r]]
      /\ \A r \in Reqs : /\ IsTask(task'[r]) /\ task'[r].owner = task[r].owner
                         /\ task'[r].consumed = task[r].consumed /\ task'[r].type = task[r].type
                         /\ ~Batched(r) => task'[r] = task[r]
                         /\ r \in ToSet(batch.outputs) /\ Batched(r) /\ task[r].status # "Normal"
                              => task'[r].status = "Stopped"
  BY RecordTasks
<1>3. \A k : Owned(k)' = Owned(k)
  BY <1>1, <1>2, PoolIn, SameOwned
<1>4. \A r \in Reqs : task[r].owner = NoRank => ~Batched(r)
  BY Assumed, BatchedFacts
<1>7. Typing'
  BY <1>1, <1>2 DEF Typing, ArgTypes, PoolTypes, BatchTypes, RankTypes
<1>8. Tasks'
  BY <1>1, <1>2, <1>3, <1>4 DEF Tasks
<1>9. Batch'
  <2>1. \A r \in ToSet(pool) : task'[r].status = "Stopped" => Batched(r)
    BY <1>1, <1>2, PoolIn DEF Batch
  <2>2. \A r \in Reqs : batch.kind = "Decode" /\ Batched(r) =>
          /\ task'[r].consumed = PromptLen[r] /\ r \in ToSet(batch.outputs)
          /\ r \notin batch.normal => task'[r].status = "Stopped"
    BY <1>1, <1>2 DEF Batch, InRound
  <2> QED
    BY <1>1, <1>2, <1>3, <2>1, <2>2 DEF Batch, Batched, InRound
<1> QED
  BY <1>7, <1>8, <1>9

-----------------------------------------------------------------------------
(* The owners *)

\* Each free slot is listed once, and is one of a rank that has it.
LEMMA FreeSlotsFacts ==
  ASSUME Typing
  PROVE  /\ FreeSlots \in Seq(Nat) /\ IsInjective(FreeSlots)
         /\ \A i \in DOMAIN FreeSlots :
              FreeSlots[i] \div DpSize < Free((cursor + FreeSlots[i]) % DpSize)
<1> DEFINE n == args.maxPerDp * DpSize
           turns == [i \in 1 .. n |-> i - 1]
           S == {x \in 0 .. n : x \div DpSize < Free((cursor + x) % DpSize)}
<1>1. n \in Nat
  BY Assumed DEF Typing, ArgTypes
<1>2. FreeSlots = Filtered(turns, S)
  BY DEF FreeSlots
<1> HIDE DEF n
<1>3. turns \in Seq(Nat)
  <2>1. turns \in [1 .. n -> Nat]
    OBVIOUS
  <2> QED
    BY <1>1, <2>1, SeqDef
<1>4. IsInjective(turns)
  BY <1>1 DEF IsInjective
<1>5. \A x \in S : x \div DpSize < Free((cursor + x) % DpSize)
  OBVIOUS
<1> HIDE DEF turns, S
<1>6. /\ Filtered(turns, S) \in Seq(Nat) /\ IsInjective(Filtered(turns, S))
      /\ ToSet(Filtered(turns, S)) = {x \in ToSet(turns) : x \in S}
  BY <1>3, <1>4, FilteredFacts
<1>7. \A i \in DOMAIN FreeSlots : FreeSlots[i] \in S
  BY <1>2, <1>6 DEF ToSet
<1> QED
  BY <1>2, <1>5, <1>6, <1>7

\* Only requests of the pool without an owner get one, each one slot.
LEMMA NewOwnersFacts ==
  ASSUME Typing, NEW new, new = NewOwners(PrefillIds, FreeSlots)
  PROVE  /\ DOMAIN new \subseteq DOMAIN FreeSlots
         /\ new # <<>> => new[Len(new)].at \in Nat
         /\ \A i \in DOMAIN new :
              /\ new[i].r \in Reqs /\ new[i].r \in ToSet(pool) /\ task[new[i].r].owner = NoRank
              /\ FreeSlots[i] \in Nat /\ new[i].at = cursor + FreeSlots[i] /\ new[i].at \in Nat
         /\ \A i, j \in DOMAIN new : new[i].r = new[j].r => i = j
<1>1. PICK slots : slots = FreeSlots
  OBVIOUS
<1>2. slots \in Seq(Nat) /\ DOMAIN slots = 1 .. Len(slots) /\ Len(slots) \in Nat
  BY <1>1, FreeSlotsFacts, LenProperties
<1> DEFINE S == {r \in Reqs : task[r].owner = NoRank}
<1>3. PICK fresh : fresh = Filtered(PrefillIds, S)
  OBVIOUS
<1>4. /\ fresh \in Seq(Reqs) /\ IsInjective(fresh)
      /\ ToSet(fresh) = {r \in ToSet(PrefillIds) : r \in S}
  <2> HIDE DEF S
  <2>1. PrefillIds \in Seq(Reqs) /\ IsInjective(PrefillIds)
    BY PrefillIdsFacts DEF Typing
  <2> QED
    BY <1>3, <2>1, FilteredFacts
<1>5. Len(fresh) \in Nat /\ DOMAIN fresh = 1 .. Len(fresh)
  BY <1>4, LenProperties
<1>6. PICK n \in Nat : n = Smaller(Len(fresh), Len(slots))
  BY <1>2, <1>5 DEF Smaller
<1>7. new = [i \in 1 .. n |-> [r |-> fresh[i], at |-> cursor + slots[i]]]
  BY <1>1, <1>3, <1>6 DEF NewOwners
<1>8. \A i \in 1 .. n : i \in DOMAIN slots /\ i \in DOMAIN fresh
  <2>1. n <= Len(slots) /\ n <= Len(fresh)
    <3>1. PICK a \in Nat : a = Len(fresh)
      BY <1>5
    <3>2. PICK b \in Nat : b = Len(slots)
      BY <1>2
    <3>3. n = Smaller(a, b)
      BY <1>6, <3>1, <3>2
    <3> QED
      BY <3>1, <3>2, <3>3 DEF Smaller
  <2> QED
    BY <1>2, <1>5, <2>1
<1>9. cursor \in Nat
  BY DEF Typing, PoolTypes, Ranks
<1>10. \A i \in DOMAIN slots : slots[i] \in Nat
  BY <1>2, ElementOfSeq
<1>11. \A i \in 1 .. n :
         /\ new[i].r = fresh[i] /\ new[i].at = cursor + slots[i]
         /\ slots[i] \in Nat /\ new[i].at \in Nat
         /\ fresh[i] \in S /\ fresh[i] \in ToSet(PrefillIds)
  <2> TAKE i \in 1 .. n
  <2>1. slots[i] \in Nat /\ fresh[i] \in ToSet(fresh)
    BY <1>8, <1>10 DEF ToSet
  <2> QED
    BY <1>4, <1>7, <1>9, <2>1
<1>12. ToSet(PrefillIds) \subseteq ToSet(pool)
  BY PrefillIdsFacts DEF Typing
<1>13. new # <<>> => new[Len(new)].at \in Nat
  <2> SUFFICES ASSUME new # <<>> PROVE new[Len(new)].at \in Nat
    OBVIOUS
  <2>1. Len(new) = n
    BY <1>6, <1>7
  <2>2. n # 0
    BY <1>7
  <2> QED
    BY <1>6, <1>11, <2>1, <2>2
<1>14. \A i, j \in 1 .. n : new[i].r = new[j].r => i = j
  BY <1>4, <1>8, <1>11 DEF IsInjective
<1>15. DOMAIN new = 1 .. n
  BY <1>7
<1> QED
  BY <1>1, <1>8, <1>11, <1>12, <1>13, <1>14, <1>15

\* Whom AssignOwners gives a slot.
LEMMA AssignTasks ==
  ASSUME Typing, NEW new, new = NewOwners(PrefillIds, FreeSlots), OwnersAssigned(new)
  PROVE  /\ task' = [r \in Reqs |-> task'[r]] /\ cursor' \in Ranks
         /\ \A r \in Reqs :
              /\ IsTask(task'[r]) /\ task'[r].status = task[r].status
              /\ task'[r].consumed = task[r].consumed /\ task'[r].type = task[r].type
              /\ IF \E i \in DOMAIN new : new[i].r = r
                 THEN \E i \in DOMAIN new : new[i].r = r /\ task'[r].owner = new[i].at % DpSize
                 ELSE task'[r] = task[r]
<1> DEFINE ownerOf(r) == (CHOOSE x \in ToSet(new) : x.r = r).at % DpSize
<1>1. /\ task' = [r \in Reqs |-> IF \E i \in DOMAIN new : new[i].r = r
                                 THEN [task[r] EXCEPT !.owner = ownerOf(r)] ELSE task[r]]
      /\ cursor' = IF new = <<>> THEN cursor ELSE (new[Len(new)].at + 1) % DpSize
  BY DEF OwnersAssigned
<1>2. \A i \in DOMAIN new : ownerOf(new[i].r) = new[i].at % DpSize
  <2> TAKE i \in DOMAIN new
  <2>1. new[i] \in ToSet(new)
    BY DEF ToSet
  <2>2. \A x \in ToSet(new) : x.r = new[i].r => x = new[i]
    BY NewOwnersFacts DEF ToSet
  <2>3. (CHOOSE x \in ToSet(new) : x.r = new[i].r) = new[i]
    BY <2>1, <2>2
  <2> QED
    BY <2>3
<1> HIDE DEF ownerOf
<1>3. cursor' \in Ranks
  <2>1. CASE new = <<>>
    BY <1>1, <2>1 DEF Typing, PoolTypes
  <2>2. CASE new # <<>>
    <3>1. PICK x \in Nat : x = new[Len(new)].at + 1
      <4>1. new[Len(new)].at \in Nat
        BY <2>2, NewOwnersFacts
      <4> QED
        BY <4>1
    <3>2. DpSize \in Nat \ {0}
      BY Assumed
    <3>3. x % DpSize \in 0 .. DpSize - 1
      BY <3>1, <3>2, DivFacts
    <3> QED
      BY <1>1, <2>2, <3>1, <3>3 DEF Ranks
  <2> QED
    BY <2>1, <2>2
<1>4. ASSUME NEW r \in Reqs
      PROVE  /\ IsTask(task'[r]) /\ task'[r].status = task[r].status
             /\ task'[r].consumed = task[r].consumed /\ task'[r].type = task[r].type
             /\ IF \E i \in DOMAIN new : new[i].r = r
                THEN \E i \in DOMAIN new : new[i].r = r /\ task'[r].owner = new[i].at % DpSize
                ELSE task'[r] = task[r]
  <2>1. PICK t : t = task[r]
    OBVIOUS
  <2>2. IsTask(t)
    BY <2>1 DEF Typing, PoolTypes
  <2>3. CASE \E i \in DOMAIN new : new[i].r = r
    <3>1. PICK i \in DOMAIN new : new[i].r = r
      BY <2>3
    <3>2. PICK k : k = new[i].at % DpSize
      OBVIOUS
    <3>3. k \in Ranks
      <4>1. PICK x \in Nat : x = new[i].at
        BY NewOwnersFacts
      <4>2. DpSize \in Nat \ {0}
        BY Assumed
      <4>3. x % DpSize \in 0 .. DpSize - 1
        BY <4>1, <4>2, DivFacts
      <4> QED
        BY <3>2, <4>1, <4>3 DEF Ranks
    <3>4. task'[r] = [t EXCEPT !.owner = k]
      BY <1>1, <1>2, <2>1, <2>3, <3>1, <3>2
    <3>5. task'[r] = [type |-> t.type, consumed |-> t.consumed, next |-> t.next, gen |-> t.gen,
                      numNew |-> t.numNew, status |-> t.status, waiting |-> t.waiting, owner |-> k]
      BY <2>2, <3>4 DEF IsTask
    <3>6. /\ IsTask(task'[r]) /\ task'[r].status = t.status /\ task'[r].owner = k
          /\ task'[r].consumed = t.consumed /\ task'[r].type = t.type
      BY <2>2, <3>3, <3>5 DEF IsTask
    <3> QED
      BY <2>1, <2>3, <3>1, <3>2, <3>6
  <2>4. CASE ~ \E i \in DOMAIN new : new[i].r = r
    BY <1>1, <2>1, <2>2, <2>4
  <2> QED
    BY <2>3, <2>4
<1>5. task' = [r \in Reqs |-> task'[r]]
  BY <1>1
<1> QED
  BY <1>3, <1>4, <1>5

\* A rank gets no more requests than it has free slots.
LEMMA SlotsGiven ==
  ASSUME Typing, Tasks, NEW new, new = NewOwners(PrefillIds, FreeSlots), OwnersAssigned(new), pool' = pool,
         \A r \in ToSet(pool) : task[r].status # "Stopped", NEW k \in Ranks
  PROVE  Cardinality(Owned(k)') <= args.maxPerDp
<1> DEFINE I == {i \in DOMAIN new : new[i].at % DpSize = k}
           G == {new[i].r : i \in I}
<1>1. DpSize \in Nat \ {0} /\ cursor \in 0 .. DpSize - 1 /\ args.maxPerDp \in Nat
  BY Assumed DEF Typing, PoolTypes, ArgTypes, Ranks
<1>2. /\ IsFiniteSet(Owned(k)) /\ Cardinality(Owned(k)) \in Nat /\ Cardinality(Owned(k)) <= args.maxPerDp
  BY PoolFinite DEF Tasks, Typing
<1>3. Occupied(k) = Cardinality(Owned(k))
  <2>1. {r \in ToSet(pool) : task[r].owner = k /\ task[r].status # "Stopped"} = Owned(k)
    BY DEF Owned
  <2> QED
    BY <2>1 DEF Occupied
<1>4. PICK free \in Nat : free = Free(k) /\ free = args.maxPerDp - Cardinality(Owned(k))
  BY <1>1, <1>2, <1>3 DEF Free
<1>5. \A i \in I : /\ i \in DOMAIN new /\ FreeSlots[i] \in Nat /\ new[i].r \in Reqs
                   /\ (cursor + FreeSlots[i]) % DpSize = k
                   /\ FreeSlots[i] \div DpSize \in 0 .. free - 1
  <2> TAKE i \in I
  <2>1. /\ i \in DOMAIN FreeSlots /\ FreeSlots[i] \in Nat /\ new[i].at = cursor + FreeSlots[i]
        /\ new[i].r \in Reqs /\ new[i].at % DpSize = k
    BY NewOwnersFacts
  <2>2. (cursor + FreeSlots[i]) % DpSize = k
    BY <2>1
  <2>3. FreeSlots[i] \div DpSize < free
    BY <1>4, <2>1, <2>2, FreeSlotsFacts
  <2>4. FreeSlots[i] \div DpSize \in Nat
    BY <1>1, <2>1, DivFacts
  <2> QED
    BY <1>4, <2>1, <2>2, <2>3, <2>4
<1>6. \A i, j \in I : FreeSlots[i] \div DpSize = FreeSlots[j] \div DpSize => i = j
  <2> TAKE i, j \in I
  <2> SUFFICES ASSUME FreeSlots[i] \div DpSize = FreeSlots[j] \div DpSize PROVE i = j
    OBVIOUS
  <2>1. PICK x \in Nat : x = FreeSlots[i]
    BY <1>5
  <2>2. PICK y \in Nat : y = FreeSlots[j]
    BY <1>5
  <2>3. x \div DpSize = y \div DpSize /\ (cursor + x) % DpSize = (cursor + y) % DpSize
    BY <1>5, <2>1, <2>2
  <2>4. x = y
    BY <1>1, <2>3, SameSlot
  <2>5. i \in DOMAIN FreeSlots /\ j \in DOMAIN FreeSlots
    BY <1>5, NewOwnersFacts
  <2> QED
    BY <2>1, <2>2, <2>4, <2>5, FreeSlotsFacts DEF IsInjective
<1> DEFINE indexOf(r) == CHOOSE i \in I : new[i].r = r
           turn == [r \in G |-> FreeSlots[indexOf(r)] \div DpSize]
<1>7. \A r \in G : indexOf(r) \in I /\ new[indexOf(r)].r = r
  OBVIOUS
<1> HIDE DEF indexOf, I
<1>8. turn \in [G -> 0 .. free - 1]
  BY <1>5, <1>7
<1>9. \A r, q \in G : turn[r] = turn[q] => r = q
  BY <1>6, <1>7
<1>10. turn \in Injection(G, 0 .. free - 1)
  BY <1>8, <1>9 DEF Injection, IsInjective
<1> HIDE DEF turn, G
<1>11. IsFiniteSet(0 .. free - 1) /\ Cardinality(0 .. free - 1) = free
  <2>1. 0 \in Int /\ free - 1 \in Int
    OBVIOUS
  <2>2. /\ IsFiniteSet(0 .. free - 1)
        /\ Cardinality(0 .. free - 1) = IF 0 > free - 1 THEN 0 ELSE (free - 1) - 0 + 1
    BY <2>1, FS_Interval
  <2> QED
    BY <2>2
<1>12. IsFiniteSet(G) /\ Cardinality(G) <= free /\ Cardinality(G) \in Nat
  BY <1>10, <1>11, FS_Injection, FS_CardinalityType
<1>13. Owned(k)' \subseteq Owned(k) \cup G
  <2> SUFFICES ASSUME NEW r \in Owned(k)', r \notin Owned(k) PROVE r \in G
    OBVIOUS
  <2>1. r \in ToSet(pool) /\ task'[r].owner = k /\ task[r].owner # k /\ r \in Reqs
    BY PoolIn DEF Owned
  <2>2. PICK i \in DOMAIN new : new[i].r = r /\ task'[r].owner = new[i].at % DpSize
    BY <2>1, AssignTasks
  <2> QED
    BY <2>1, <2>2 DEF G, I
<1>14. /\ IsFiniteSet(Owned(k) \cup G)
       /\ Cardinality(Owned(k) \cup G) \in Nat
       /\ Cardinality(Owned(k) \cup G) <= Cardinality(Owned(k)) + Cardinality(G)
  <2>1. Cardinality(Owned(k) \cap G) \in Nat
    BY <1>2, FS_Intersection, FS_CardinalityType
  <2>2. /\ IsFiniteSet(Owned(k) \cup G)
        /\ Cardinality(Owned(k) \cup G) = Cardinality(Owned(k)) + Cardinality(G) - Cardinality(Owned(k) \cap G)
    BY <1>2, <1>12, FS_Union
  <2> QED
    BY <1>2, <1>12, <2>1, <2>2, FS_CardinalityType
<1>15. Cardinality(Owned(k)') <= Cardinality(Owned(k) \cup G) /\ Cardinality(Owned(k)') \in Nat
  <2>1. Owned(k)' \in SUBSET (Owned(k) \cup G)
    BY <1>13
  <2> QED
    BY <1>14, <2>1, FS_Subset, FS_CardinalityType
<1> QED
  BY <1>1, <1>2, <1>4, <1>12, <1>14, <1>15

-----------------------------------------------------------------------------
(* Messages and batches *)

\* The items made of the requests of a list.
LEMMA MappedItems ==
  ASSUME NEW list \in Seq(Reqs), NEW T, NEW items,
         items = [i \in DOMAIN list |-> items[i]], \A i \in DOMAIN list : items[i] \in T
  PROVE  items \in Seq(T) /\ DOMAIN items = DOMAIN list /\ Len(items) = Len(list)
<1>1. Len(list) \in Nat /\ DOMAIN list = 1 .. Len(list)
  BY LenProperties
<1>2. items \in [1 .. Len(list) -> T]
  BY <1>1
<1>3. items \in Seq(T)
  BY <1>1, <1>2, SeqDef
<1>4. DOMAIN items = 1 .. Len(items) /\ Len(items) \in Nat /\ DOMAIN items = 1 .. Len(list)
  BY <1>2, <1>3, LenProperties
<1> QED
  BY <1>1, <1>3, <1>4

\* What rank 0 sends goes to every other rank.
SendsAll(msg) == msg \in [Others -> Messages] /\ toRank' = [k \in Others |-> Append(toRank[k], msg[k])]

\* A message for each rank keeps the types.
LEMMA SendsTypes ==
  ASSUME Typing, NEW msg, SendsAll(msg)
  PROVE  toRank' \in [Others -> Seq(Messages)]
<1>1. \A k \in Others : Append(toRank[k], msg[k]) \in Seq(Messages)
  <2> TAKE k \in Others
  <2>1. toRank[k] \in Seq(Messages) /\ msg[k] \in Messages
    BY DEF Typing, RankTypes, SendsAll
  <2> QED
    BY <2>1, AppendProperties
<1> QED
  BY <1>1 DEF SendsAll

\* Submit keeps typing, tasks and batch.
LEMMA SubmitMain ==
  ASSUME Typing, Tasks, Batch, NEW r \in Reqs, Submit(r)
  PROVE  /\ Typing' /\ Tasks' /\ Batch'
         /\ \A k \in Ranks : Owned(k)' = Owned(k)
         /\ ToSet(pool') = ToSet(pool) \cup {r} /\ task[r].owner = NoRank
<1>1. /\ pc = "schedule" /\ r \notin submitted /\ submitted' = submitted \cup {r} /\ pool' = Append(pool, r)
      /\ UNCHANGED <<args, task, cursor, batch, received, pc, toRank, toMain, copy, kv>>
  BY DEF Submit
<1>2. pool \in Seq(Reqs) /\ IsInjective(pool) /\ ToSet(pool) \subseteq submitted
  BY DEF Typing, PoolTypes
<1>3. r \notin ToSet(pool)
  BY <1>1, <1>2
<1>4. pool' \in Seq(Reqs) /\ IsInjective(pool') /\ ToSet(pool') = ToSet(pool) \cup {r}
  BY <1>1, <1>2, <1>3, AppendFacts
<1>5. task[r].owner = NoRank /\ task[r].status # "Stopped"
  BY <1>1 DEF Tasks
<1>6. \A k \in Ranks : Owned(k)' = Owned(k)
  BY <1>1, <1>4, <1>5, Assumed DEF Owned
<1>7. Typing'
  <2>1. PoolTypes'
    BY <1>1, <1>2, <1>4 DEF Typing, PoolTypes
  <2>2. ArgTypes' /\ BatchTypes' /\ RankTypes'
    BY <1>1 DEF Typing, ArgTypes, BatchTypes, RankTypes
  <2> QED
    BY <2>1, <2>2 DEF Typing
<1>8. Tasks'
  BY <1>1, <1>5, <1>6, Assumed DEF Tasks
<1>9. Batch'
  BY <1>1, <1>4, <1>5, <1>6 DEF Batch, Batched, InRound
<1> QED
  BY <1>4, <1>5, <1>6, <1>7, <1>8, <1>9

\* AssignOwners keeps typing, tasks and batch, and only gives owners to requests without.
LEMMA AssignOwnersMain ==
  ASSUME Typing, Tasks, Batch, AssignOwners
  PROVE  /\ Typing' /\ Tasks' /\ Batch'
         /\ \A r \in Reqs : /\ task'[r].consumed = task[r].consumed
                            /\ \/ task'[r].owner = task[r].owner
                               \/ task[r].owner = NoRank /\ r \in ToSet(pool)
<1>1. PICK new : new = NewOwners(PrefillIds, FreeSlots) /\ OwnersAssigned(new)
  BY DEF AssignOwners
<1>2. /\ pc = "schedule" /\ pc' = "select"
      /\ UNCHANGED <<args, submitted, pool, batch, received, toRank, toMain, copy, kv>>
  BY DEF AssignOwners
<1>3. /\ task' = [r \in Reqs |-> task'[r]] /\ cursor' \in Ranks
      /\ \A r \in Reqs :
           /\ IsTask(task'[r]) /\ task'[r].status = task[r].status
           /\ task'[r].consumed = task[r].consumed /\ task'[r].type = task[r].type
           /\ IF \E i \in DOMAIN new : new[i].r = r
              THEN \E i \in DOMAIN new : new[i].r = r /\ task'[r].owner = new[i].at % DpSize
              ELSE task'[r] = task[r]
  BY <1>1, AssignTasks
<1>4. \A r \in Reqs : \/ task'[r].owner = task[r].owner
                      \/ task[r].owner = NoRank /\ r \in ToSet(pool)
  BY <1>1, <1>3, NewOwnersFacts
<1>5. \A r \in ToSet(pool) : task[r].status # "Stopped"
  BY <1>2 DEF Batch
<1>6. \A k \in Ranks : Cardinality(Owned(k)') <= args.maxPerDp
  BY <1>1, <1>2, <1>5, SlotsGiven
<1>7. \A k \in Ranks : Owned(k) \subseteq Owned(k)'
  BY <1>2, <1>4, Assumed, PoolIn DEF Owned
<1>8. Typing'
  <2>1. PoolTypes'
    BY <1>2, <1>3 DEF Typing, PoolTypes
  <2>2. ArgTypes' /\ BatchTypes' /\ RankTypes'
    BY <1>2 DEF Typing, ArgTypes, BatchTypes, RankTypes
  <2> QED
    BY <2>1, <2>2 DEF Typing
<1>9. Tasks'
  <2>1. ASSUME NEW r \in Reqs
        PROVE  /\ task'[r].consumed <= PromptLen[r]
               /\ task'[r].type = IF task'[r].consumed = PromptLen[r] THEN "Decode" ELSE "Prefill"
               /\ task'[r].owner = NoRank => task'[r].consumed = 0 /\ task'[r].status # "Stopped"
               /\ r \notin submitted' => task'[r].owner = NoRank
               /\ kv'[0][r] > 0 => r \in Owned(0)'
    <3>1. task'[r].owner = NoRank => task[r].owner = NoRank
      BY <1>4
    <3>2. r \notin submitted' => task'[r].owner = NoRank
      BY <1>2, <1>4 DEF Tasks, Typing, PoolTypes
    <3>3. kv'[0][r] > 0 => r \in Owned(0)'
      BY <1>2, <1>7, Assumed DEF Tasks
    <3> QED
      BY <1>3, <3>1, <3>2, <3>3 DEF Tasks
  <2> QED
    BY <1>2, <1>6, <2>1 DEF Tasks
<1>10. Batch'
  BY <1>2, <1>3, <1>5, <1>7, PoolIn DEF Batch, Batched, InRound
<1> QED
  BY <1>3, <1>4, <1>8, <1>9, <1>10

\* The batch of prompts and its messages.
LEMMA SchedulePrefillSends ==
  ASSUME Typing, Tasks, Batch, SchedulePrefill
  PROVE  /\ batch'.kind = "Prefill" /\ batch'.lists \in [Ranks -> Seq(Reqs)] /\ batch'.normal = {}
         /\ batch'.take \in [Reqs -> Nat] /\ batch'.outputs \in Seq(Reqs)
         /\ \A k \in Ranks : ToSet(batch'.lists[k]) \subseteq Owned(k)
         /\ \A r \in Reqs : IF Batched(r)'
                            THEN batch'.take[r] > 0 /\ task[r].consumed + batch'.take[r] <= PromptLen[r]
                            ELSE batch'.take[r] = 0
         /\ \E msg : /\ SendsAll(msg)
                     /\ \A k \in Others :
                          /\ msg[k].kind = "Prefill" /\ DOMAIN msg[k].items = DOMAIN batch'.lists[k]
                          /\ \A i \in DOMAIN batch'.lists[k] :
                               /\ msg[k].items[i].r = batch'.lists[k][i]
                               /\ msg[k].items[i].consumed = task[batch'.lists[k][i]].consumed
                               /\ msg[k].items[i].take = batch'.take[batch'.lists[k][i]]
<1> DEFINE Sending(lists, take) ==
             /\ batch' = [kind |-> "Prefill", lists |-> lists, take |-> take, normal |-> {},
                          outputs |-> Filtered(Concat(lists), {r \in Reqs : take[r] = Remaining(r)})]
             /\ toRank' = [k \in Others |-> Append(toRank[k],
                             [kind |-> "Prefill",
                              items |-> [i \in DOMAIN lists[k] |-> PrefillItem(lists[k][i], take)]])]
<1>0. \E lists \in {PrefillLists(PrefillIds)} :
      \E take \in {[r \in Reqs |-> Take(r, lists)]} : Sending(lists, take)
  BY DEF SchedulePrefill, Sent, Mapped
<1>1. PICK lists, take :
        /\ lists = PrefillLists(PrefillIds) /\ take = [r \in Reqs |-> Take(r, lists)]
        /\ batch' = [kind |-> "Prefill", lists |-> lists, take |-> take, normal |-> {},
                     outputs |-> Filtered(Concat(lists), {r \in Reqs : take[r] = Remaining(r)})]
        /\ toRank' = [k \in Others |-> Append(toRank[k],
                        [kind |-> "Prefill",
                         items |-> [i \in DOMAIN lists[k] |-> PrefillItem(lists[k][i], take)]])]
  <2> HIDE DEF Sending
  <2>1. PICK lists, take : lists = PrefillLists(PrefillIds) /\ take = [r \in Reqs |-> Take(r, lists)] /\ Sending(lists, take)
    BY <1>0
  <2>2. /\ batch' = [kind |-> "Prefill", lists |-> lists, take |-> take, normal |-> {},
                     outputs |-> Filtered(Concat(lists), {r \in Reqs : take[r] = Remaining(r)})]
        /\ toRank' = [k \in Others |-> Append(toRank[k],
                        [kind |-> "Prefill",
                         items |-> [i \in DOMAIN lists[k] |-> PrefillItem(lists[k][i], take)]])]
    BY <2>1 DEF Sending
  <2> QED
    BY <2>1, <2>2, Zenon
<1>2. ArgTypes /\ PoolTypes /\ Tasks
  BY DEF Typing
<1>3. /\ lists \in [Ranks -> Seq(Reqs)]
      /\ \A k \in Ranks : \A r \in ToSet(lists[k]) : r \in Reqs /\ r \in ToSet(pool) /\ task[r].owner = k
  BY <1>1, <1>2, PrefillListsFacts
<1>4. \A r \in Reqs : /\ Take(r, lists) \in Nat
                      /\ IF \E k \in Ranks : r \in ToSet(lists[k])
                         THEN Take(r, lists) > 0 /\ task[r].consumed + Take(r, lists) <= PromptLen[r]
                         ELSE Take(r, lists) = 0
  BY <1>1, <1>2, TakeFacts
<1>5. take \in [Reqs -> Nat] /\ \A r \in Reqs : take[r] = Take(r, lists)
  BY <1>1, <1>4
<1>6. Filtered(Concat(lists), {r \in Reqs : take[r] = Remaining(r)}) \in Seq(Reqs)
  <2>1. Concat(lists) \in Seq(Reqs)
    BY <1>3, Assumed, ConcatAll
  <2> QED
    BY <2>1, FilteredFacts
<1>7. /\ batch'.kind = "Prefill" /\ batch'.lists = lists /\ batch'.normal = {} /\ batch'.take = take
      /\ batch'.outputs = Filtered(Concat(lists), {r \in Reqs : take[r] = Remaining(r)})
  BY <1>1
<1>8. \A r \in Reqs : IF Batched(r)'
                      THEN batch'.take[r] > 0 /\ task[r].consumed + batch'.take[r] <= PromptLen[r]
                      ELSE batch'.take[r] = 0
  BY <1>4, <1>5, <1>7 DEF Batched
<1> DEFINE itemsOf(k) == [i \in DOMAIN lists[k] |-> [r |-> lists[k][i], consumed |-> task[lists[k][i]].consumed,
                                                     take |-> take[lists[k][i]]]]
           msg == [k \in Others |-> [kind |-> "Prefill", items |-> itemsOf(k)]]
<1>9. toRank' = [k \in Others |-> Append(toRank[k], msg[k])]
  BY <1>1 DEF PrefillItem
<1>10. \A k \in Others : itemsOf(k) \in Seq(PrefillItems)
  <2> TAKE k \in Others
  <2>1. lists[k] \in Seq(Reqs)
    BY <1>3, Assumed
  <2>2. \A i \in DOMAIN lists[k] : lists[k][i] \in Reqs
    BY <2>1, LenProperties, ElementOfSeq
  <2>3. \A r \in Reqs : task[r].consumed \in Nat /\ take[r] \in Nat
    BY <1>2, <1>5 DEF PoolTypes, IsTask
  <2>4. \A i \in DOMAIN lists[k] : itemsOf(k)[i] \in PrefillItems
    BY <2>2, <2>3 DEF PrefillItems
  <2>5. itemsOf(k) = [i \in DOMAIN lists[k] |-> itemsOf(k)[i]]
    OBVIOUS
  <2> HIDE DEF itemsOf
  <2> QED
    BY <2>1, <2>4, <2>5, MappedItems
<1>11. \A k \in Others : /\ msg[k].kind = "Prefill" /\ msg[k].items = itemsOf(k) /\ DOMAIN itemsOf(k) = DOMAIN lists[k]
                         /\ \A i \in DOMAIN lists[k] : /\ itemsOf(k)[i].r = lists[k][i]
                                                       /\ itemsOf(k)[i].consumed = task[lists[k][i]].consumed
                                                       /\ itemsOf(k)[i].take = take[lists[k][i]]
  OBVIOUS
<1>12. msg \in [Others -> Messages]
  BY <1>10 DEF Messages
<1> HIDE DEF msg, itemsOf
<1>13. SendsAll(msg)
  BY <1>9, <1>12 DEF SendsAll
<1>14. \A k \in Others :
         /\ msg[k].kind = "Prefill" /\ DOMAIN msg[k].items = DOMAIN batch'.lists[k]
         /\ \A i \in DOMAIN batch'.lists[k] :
              /\ msg[k].items[i].r = batch'.lists[k][i]
              /\ msg[k].items[i].consumed = task[batch'.lists[k][i]].consumed
              /\ msg[k].items[i].take = batch'.take[batch'.lists[k][i]]
  BY <1>7, <1>11
<1>15. \A k \in Ranks : ToSet(lists[k]) \subseteq Owned(k)
  BY <1>3 DEF Owned
<1> QED
  BY <1>3, <1>5, <1>6, <1>7, <1>8, <1>13, <1>14, <1>15

\* SchedulePrefill keeps typing, tasks and batch.
LEMMA SchedulePrefillMain ==
  ASSUME Typing, Tasks, Batch, SchedulePrefill
  PROVE  Typing' /\ Tasks' /\ Batch'
<1>1. /\ pc = "select" /\ pc' = "run"
      /\ UNCHANGED <<args, submitted, pool, task, cursor, received, toMain, copy, kv>>
  BY DEF SchedulePrefill
<1>2. /\ batch'.kind = "Prefill" /\ batch'.lists \in [Ranks -> Seq(Reqs)] /\ batch'.normal = {}
      /\ batch'.take \in [Reqs -> Nat] /\ batch'.outputs \in Seq(Reqs)
      /\ \A k \in Ranks : ToSet(batch'.lists[k]) \subseteq Owned(k)
      /\ \A r \in Reqs : IF Batched(r)'
                         THEN batch'.take[r] > 0 /\ task[r].consumed + batch'.take[r] <= PromptLen[r]
                         ELSE batch'.take[r] = 0
  BY SchedulePrefillSends
<1>3. toRank' \in [Others -> Seq(Messages)]
  BY SchedulePrefillSends, SendsTypes
<1>4. \A k : Owned(k)' = Owned(k)
  BY <1>1 DEF Owned
<1>5. Typing'
  <2>1. PoolTypes'
    BY <1>1 DEF Typing, PoolTypes
  <2>2. ArgTypes' /\ BatchTypes' /\ RankTypes'
    BY <1>1, <1>2, <1>3 DEF Typing, ArgTypes, BatchTypes, RankTypes
  <2> QED
    BY <2>1, <2>2 DEF Typing
<1>6. Tasks'
  BY <1>1, <1>4 DEF Tasks
<1>7. Batch'
  BY <1>1, <1>2, <1>4 DEF Batch
<1> QED
  BY <1>5, <1>6, <1>7

\* Each rank decodes requests of its own.
LEMMA DecodeListsFacts ==
  ASSUME Typing
  PROVE  /\ DecodeLists \in [Ranks -> Seq(Reqs)]
         /\ \A k \in Ranks : \A r \in ToSet(DecodeLists[k]) :
              r \in Reqs /\ r \in Owned(k) /\ task[r].type = "Decode" /\ task[r].status # "Stopped"
<1> DEFINE S(k) == {r \in Reqs : /\ task[r].type = "Decode" /\ ~task[r].waiting
                                 /\ task[r].status # "Stopped" /\ task[r].owner = k}
<1>1. DecodeLists = [k \in Ranks |-> UpTo(Filtered(pool, S(k)), args.maxPerDp)]
  BY DEF DecodeLists
<1>2. pool \in Seq(Reqs) /\ args.maxPerDp \in Nat
  BY DEF Typing, PoolTypes, ArgTypes
<1>3. \A k : \A r \in S(k) : r \in Reqs /\ task[r].type = "Decode" /\ task[r].status # "Stopped" /\ task[r].owner = k
  OBVIOUS
<1> HIDE DEF S
<1>4. ASSUME NEW k \in Ranks
      PROVE  /\ DecodeLists[k] \in Seq(Reqs)
             /\ \A r \in ToSet(DecodeLists[k]) : r \in ToSet(pool) /\ r \in S(k)
  <2>1. PICK own : own = Filtered(pool, S(k))
    OBVIOUS
  <2>2. own \in Seq(Reqs) /\ ToSet(own) = {r \in ToSet(pool) : r \in S(k)}
    BY <1>2, <2>1, FilteredFacts
  <2>3. DecodeLists[k] = UpTo(own, args.maxPerDp)
    BY <1>1, <2>1
  <2>4. DecodeLists[k] \in Seq(Reqs) /\ ToSet(DecodeLists[k]) \subseteq ToSet(own)
    BY <1>2, <2>2, <2>3, UpToFacts
  <2> QED
    BY <2>2, <2>4
<1>5. DecodeLists = [k \in Ranks |-> DecodeLists[k]]
  BY <1>1
<1> QED
  BY <1>3, <1>4, <1>5 DEF Owned

\* The batch of answers and its messages.
LEMMA DispatchDecodeSends ==
  ASSUME Typing, Tasks, Batch, DispatchDecode
  PROVE  /\ batch'.kind = "Decode" /\ batch'.lists \in [Ranks -> Seq(Reqs)]
         /\ batch'.normal = {r \in Reqs : task[r].status = "Normal"}
         /\ batch'.take \in [Reqs -> Nat] /\ batch'.outputs \in Seq(Reqs)
         /\ \A k \in Ranks : ToSet(batch'.lists[k]) \subseteq Owned(k)
         /\ \A k \in Ranks : \A r \in ToSet(batch'.lists[k]) :
              r \in ToSet(batch'.outputs) /\ task[r].consumed = PromptLen[r]
         /\ \E msg : /\ SendsAll(msg)
                     /\ \A k \in Others :
                          /\ msg[k].kind = "Decode" /\ DOMAIN msg[k].items = DOMAIN batch'.lists[k]
                          /\ \A i \in DOMAIN batch'.lists[k] :
                               /\ msg[k].items[i].r = batch'.lists[k][i]
                               /\ msg[k].items[i].status = task[batch'.lists[k][i]].status
<1>1. PICK lists : lists = DecodeLists
  OBVIOUS
<1>2. /\ batch' = [NoBatch EXCEPT !.kind = "Decode", !.lists = lists,
                                  !.outputs = Concat(lists),
                                  !.normal = {r \in Reqs : task[r].status = "Normal"}]
      /\ toRank' = [k \in Others |-> Append(toRank[k],
                      [kind |-> "Decode",
                       items |-> [i \in DOMAIN lists[k] |-> DecodeItem(lists[k][i])]])]
  BY <1>1 DEF DispatchDecode, Sent, Mapped
<1>3. /\ lists \in [Ranks -> Seq(Reqs)]
      /\ \A k \in Ranks : \A r \in ToSet(lists[k]) : r \in Reqs /\ r \in Owned(k) /\ task[r].type = "Decode"
  BY <1>1, DecodeListsFacts
<1>4. /\ batch'.kind = "Decode" /\ batch'.lists = lists /\ batch'.outputs = Concat(lists)
      /\ batch'.normal = {r \in Reqs : task[r].status = "Normal"}
      /\ batch'.take = [r \in Reqs |-> 0]
  BY <1>2 DEF NoBatch
<1>5. Concat(lists) \in Seq(Reqs) /\ ToSet(Concat(lists)) = UNION {ToSet(lists[k]) : k \in Ranks}
  BY <1>3, Assumed, ConcatAll
<1>6. \A k \in Ranks : \A r \in ToSet(lists[k]) : r \in ToSet(Concat(lists)) /\ task[r].consumed = PromptLen[r]
  BY <1>3, <1>5 DEF Tasks
<1> DEFINE itemsOf(k) == [i \in DOMAIN lists[k] |-> [r |-> lists[k][i], status |-> task[lists[k][i]].status]]
           msg == [k \in Others |-> [kind |-> "Decode", items |-> itemsOf(k)]]
<1>9. toRank' = [k \in Others |-> Append(toRank[k], msg[k])]
  BY <1>2 DEF DecodeItem
<1>10. \A k \in Others : itemsOf(k) \in Seq(DecodeItems)
  <2> TAKE k \in Others
  <2>1. lists[k] \in Seq(Reqs)
    BY <1>3, Assumed
  <2>2. \A i \in DOMAIN lists[k] : lists[k][i] \in Reqs
    BY <2>1, LenProperties, ElementOfSeq
  <2>3. \A r \in Reqs : task[r].status \in Statuses
    BY DEF Typing, PoolTypes, IsTask
  <2>4. \A i \in DOMAIN lists[k] : itemsOf(k)[i] \in DecodeItems
    BY <2>2, <2>3 DEF DecodeItems
  <2>5. itemsOf(k) = [i \in DOMAIN lists[k] |-> itemsOf(k)[i]]
    OBVIOUS
  <2> HIDE DEF itemsOf
  <2> QED
    BY <2>1, <2>4, <2>5, MappedItems
<1>11. \A k \in Others : /\ msg[k].kind = "Decode" /\ msg[k].items = itemsOf(k) /\ DOMAIN itemsOf(k) = DOMAIN lists[k]
                         /\ \A i \in DOMAIN lists[k] : /\ itemsOf(k)[i].r = lists[k][i]
                                                       /\ itemsOf(k)[i].status = task[lists[k][i]].status
  OBVIOUS
<1>12. msg \in [Others -> Messages]
  BY <1>10 DEF Messages
<1> HIDE DEF msg, itemsOf
<1>13. SendsAll(msg)
  BY <1>9, <1>12 DEF SendsAll
<1>14. \A k \in Others :
         /\ msg[k].kind = "Decode" /\ DOMAIN msg[k].items = DOMAIN batch'.lists[k]
         /\ \A i \in DOMAIN batch'.lists[k] :
              /\ msg[k].items[i].r = batch'.lists[k][i]
              /\ msg[k].items[i].status = task[batch'.lists[k][i]].status
  BY <1>4, <1>11
<1>15. batch'.take \in [Reqs -> Nat]
  BY <1>4
<1> QED
  BY <1>3, <1>4, <1>5, <1>6, <1>13, <1>14, <1>15

\* DispatchDecode keeps typing, tasks and batch.
LEMMA DispatchDecodeMain ==
  ASSUME Typing, Tasks, Batch, DispatchDecode
  PROVE  Typing' /\ Tasks' /\ Batch'
<1>1. /\ pc = "select" /\ pc' = IF args.overlap THEN "collect" ELSE "run"
      /\ UNCHANGED <<args, submitted, pool, task, cursor, received, toMain, copy, kv>>
  BY DEF DispatchDecode
<1>2. /\ batch'.kind = "Decode" /\ batch'.lists \in [Ranks -> Seq(Reqs)]
      /\ batch'.normal = {r \in Reqs : task[r].status = "Normal"}
      /\ batch'.take \in [Reqs -> Nat] /\ batch'.outputs \in Seq(Reqs)
      /\ \A k \in Ranks : ToSet(batch'.lists[k]) \subseteq Owned(k)
      /\ \A k \in Ranks : \A r \in ToSet(batch'.lists[k]) :
           r \in ToSet(batch'.outputs) /\ task[r].consumed = PromptLen[r]
  BY DispatchDecodeSends
<1>3. toRank' \in [Others -> Seq(Messages)]
  BY DispatchDecodeSends, SendsTypes
<1>4. \A k : Owned(k)' = Owned(k)
  BY <1>1 DEF Owned
<1>5. Typing'
  <2>1. PoolTypes'
    BY <1>1 DEF Typing, PoolTypes
  <2>2. ArgTypes' /\ BatchTypes' /\ RankTypes'
    BY <1>1, <1>2, <1>3 DEF Typing, ArgTypes, BatchTypes, RankTypes
  <2> QED
    BY <2>1, <2>2 DEF Typing
<1>6. Tasks'
  BY <1>1, <1>4 DEF Tasks
<1>7. Batch'
  BY <1>1, <1>2, <1>4 DEF Batch, Batched, InRound
<1> QED
  BY <1>5, <1>6, <1>7

EndsRemoved(msg) ==
  \A k \in Others : /\ msg[k].kind = "EndTask"
                    /\ \A r \in Reqs : r \in Removed <=> \E i \in DOMAIN msg[k].items : msg[k].items[i].r = r

\* What is removed, and the messages that say so.
LEMMA UpdateSends ==
  ASSUME Typing, Tasks, Batch, Update
  PROVE  /\ Removed = {r \in Reqs : Batched(r) /\ task[r].status = "Stopped"}
         /\ pool' \in Seq(Reqs) /\ IsInjective(pool') /\ ToSet(pool') = ToSet(pool) \ Removed
         /\ \/ Removed = {} /\ toRank' = toRank
            \/ \E msg : SendsAll(msg) /\ EndsRemoved(msg)
<1>1. /\ pool' = Filtered(pool, Reqs \ Removed)
      /\ toRank' = IF Removed = {} THEN toRank
                   ELSE Sent("EndTask", [k \in Ranks |-> RemovedIds], LAMBDA r : [r |-> r])
  BY DEF Update
<1> DEFINE S == {r \in Reqs : task[r].status = "Stopped"}
<1>2. RemovedIds \in Seq(Reqs) /\ Removed = {r \in Reqs : Batched(r) /\ task[r].status = "Stopped"}
  <2>1. PICK all : all = Concat(batch.lists)
    OBVIOUS
  <2>2. all \in Seq(Reqs) /\ ToSet(all) = {r \in Reqs : Batched(r)}
    BY <2>1, BatchedFacts
  <2>3. RemovedIds = Filtered(all, S)
    BY <2>1 DEF RemovedIds
  <2> HIDE DEF S
  <2>4. RemovedIds \in Seq(Reqs) /\ ToSet(RemovedIds) = {r \in ToSet(all) : r \in S}
    BY <2>2, <2>3, FilteredFacts
  <2> QED
    BY <2>2, <2>4 DEF Removed, S
<1>3. pool' \in Seq(Reqs) /\ IsInjective(pool') /\ ToSet(pool') = ToSet(pool) \ Removed
  <2>1. pool \in Seq(Reqs) /\ IsInjective(pool) /\ ToSet(pool) \subseteq Reqs
    BY PoolIn DEF Typing, PoolTypes
  <2>2. /\ pool' \in Seq(Reqs) /\ IsInjective(pool')
        /\ ToSet(pool') = {r \in ToSet(pool) : r \in Reqs \ Removed}
    <3>1. PICK X : X = Reqs \ Removed
      OBVIOUS
    <3>2. pool' = Filtered(pool, X)
      BY <1>1, <3>1
    <3>3. /\ Filtered(pool, X) \in Seq(Reqs) /\ IsInjective(Filtered(pool, X))
          /\ ToSet(Filtered(pool, X)) = {r \in ToSet(pool) : r \in X}
      BY <2>1, FilteredFacts
    <3> QED
      BY <3>1, <3>2, <3>3
  <2> QED
    BY <2>1, <2>2
<1>4. CASE Removed = {}
  BY <1>1, <1>2, <1>3, <1>4
<1>5. CASE Removed # {}
  <2>1. PICK ids \in Seq(Reqs) : ids = RemovedIds
    BY <1>2
  <2> DEFINE items == [i \in DOMAIN ids |-> [r |-> ids[i]]]
             msg == [k \in Others |-> [kind |-> "EndTask", items |-> items]]
  <2>2. toRank' = [k \in Others |-> Append(toRank[k], msg[k])]
    <3>1. toRank' = Sent("EndTask", [k \in Ranks |-> ids], LAMBDA r : [r |-> r])
      BY <1>1, <1>5, <2>1
    <3>2. toRank' = [k \in Others |-> Append(toRank[k],
                      [kind |-> "EndTask",
                       items |-> [i \in DOMAIN ([l \in Ranks |-> ids][k]) |-> [r |-> [l \in Ranks |-> ids][k][i]]]])]
      BY <3>1 DEF Sent, Mapped
    <3>3. \A k \in Others : [l \in Ranks |-> ids][k] = ids
      BY Assumed
    <3> QED
      BY <3>2, <3>3
  <2>3. items \in Seq(EndItems)
    <3>1. \A i \in DOMAIN ids : ids[i] \in Reqs
      BY <2>1, LenProperties, ElementOfSeq
    <3>2. \A i \in DOMAIN ids : items[i] \in EndItems
      BY <3>1 DEF EndItems
    <3>3. items = [i \in DOMAIN ids |-> items[i]]
      OBVIOUS
    <3> HIDE DEF items
    <3> QED
      BY <2>1, <3>2, <3>3, MappedItems
  <2>4. DOMAIN items = DOMAIN ids /\ \A i \in DOMAIN ids : items[i].r = ids[i]
    OBVIOUS
  <2>5. \A r \in Reqs : r \in Removed <=> \E i \in DOMAIN items : items[i].r = r
    BY <2>1, <2>4 DEF Removed, ToSet
  <2>6. \A k \in Others : msg[k].kind = "EndTask" /\ msg[k].items = items
    OBVIOUS
  <2>7. msg \in [Others -> Messages]
    BY <2>3 DEF Messages
  <2> HIDE DEF msg, items
  <2>8. SendsAll(msg)
    BY <2>2, <2>7 DEF SendsAll
  <2>9. EndsRemoved(msg)
    BY <2>5, <2>6 DEF EndsRemoved
  <2> QED
    BY <1>2, <1>3, <2>8, <2>9
<1> QED
  BY <1>4, <1>5

\* Update keeps typing, tasks and batch.
LEMMA UpdateMain ==
  ASSUME Typing, Tasks, Batch, Update
  PROVE  Typing' /\ Tasks' /\ Batch'
<1>1. /\ pc = "update" /\ pc' = "schedule" /\ batch' = NoBatch
      /\ kv' = [kv EXCEPT ![0] = [r \in Reqs |-> IF r \in Removed THEN 0 ELSE @[r]]]
      /\ UNCHANGED <<args, submitted, task, cursor, received, toMain, copy>>
  BY DEF Update
<1>2. /\ Removed = {r \in Reqs : Batched(r) /\ task[r].status = "Stopped"}
      /\ pool' \in Seq(Reqs) /\ IsInjective(pool') /\ ToSet(pool') = ToSet(pool) \ Removed
  BY UpdateSends
<1>3. toRank' \in [Others -> Seq(Messages)]
  <2>1. toRank \in [Others -> Seq(Messages)]
    BY DEF Typing, RankTypes
  <2> QED
    BY <2>1, UpdateSends, SendsTypes
<1>4. kv \in [Ranks -> [Reqs -> Nat]] /\ 0 \in Ranks
  BY Assumed DEF Typing, RankTypes
<1>5. \A r \in Reqs : kv'[0][r] = IF r \in Removed THEN 0 ELSE kv[0][r]
  BY <1>1, <1>4
<1>6. kv' \in [Ranks -> [Reqs -> Nat]]
  <2>1. [r \in Reqs |-> IF r \in Removed THEN 0 ELSE kv[0][r]] \in [Reqs -> Nat]
    BY <1>4
  <2> QED
    BY <1>1, <1>4, <2>1
<1>7. \A k : Owned(k)' = Owned(k) \ Removed
  BY <1>1, <1>2 DEF Owned
<1>8. /\ batch'.kind = "none" /\ batch'.lists = [k \in Ranks |-> <<>>] /\ batch'.take = [r \in Reqs |-> 0]
      /\ batch'.outputs = <<>> /\ batch'.normal = {}
  BY <1>1 DEF NoBatch
<1>9. /\ batch'.lists \in [Ranks -> Seq(Reqs)] /\ batch'.take \in [Reqs -> Nat] /\ batch'.outputs \in Seq(Reqs)
  BY <1>8, EmptySeq
<1>10. Typing'
  <2>1. PoolTypes'
    BY <1>1, <1>2 DEF Typing, PoolTypes
  <2>2. ArgTypes' /\ BatchTypes' /\ RankTypes'
    BY <1>1, <1>3, <1>6, <1>8, <1>9 DEF Typing, ArgTypes, BatchTypes, RankTypes
  <2> QED
    BY <2>1, <2>2 DEF Typing
<1>11. Tasks'
  <2>1. \A r \in Reqs : kv'[0][r] > 0 => r \in Owned(0)'
    BY <1>5, <1>7 DEF Tasks
  <2>2. \A k \in Ranks : Cardinality(Owned(k)') <= args.maxPerDp
    <3> TAKE k \in Ranks
    <3>1. Owned(k)' \in SUBSET Owned(k)
      BY <1>7
    <3>2. IsFiniteSet(Owned(k)) /\ Cardinality(Owned(k)) \in Nat /\ Cardinality(Owned(k)) <= args.maxPerDp
      BY PoolFinite DEF Tasks, Typing
    <3>3. Cardinality(Owned(k)') <= Cardinality(Owned(k)) /\ Cardinality(Owned(k)') \in Nat
      BY <3>1, <3>2, FS_Subset, FS_CardinalityType
    <3>4. args.maxPerDp \in Nat
      BY DEF Typing, ArgTypes
    <3> QED
      BY <3>2, <3>3, <3>4
  <2> QED
    BY <1>1, <2>1, <2>2 DEF Tasks
<1>12. Batch'
  <2>1. \A r \in ToSet(pool') : task[r].status # "Stopped"
    BY <1>2, PoolIn DEF Batch
  <2>2. \A k \in Ranks : ToSet(batch'.lists[k]) = {}
    BY <1>8 DEF ToSet
  <2> QED
    BY <1>1, <1>8, <2>1, <2>2 DEF Batch
<1> QED
  BY <1>10, <1>11, <1>12

-----------------------------------------------------------------------------
(* Rounds *)

\* Between two rounds nothing is owed, and at their end neither.
LEMMA RoundFacts ==
  ASSUME Typing, Rounds
  PROVE  /\ IsFiniteSet(Others) /\ Cardinality(Others) = Awaited
         /\ IsFiniteSet(Owing) /\ Cardinality(Owing) \in Nat
         /\ ~InRound \/ received = Awaited => received + Cardinality(Owing) \in {0, Awaited} /\ Owing = {}
         /\ ~InRound => received = 0
         /\ Owing = {} => \A k \in Others : /\ toMain[k] = <<>>
                                            /\ \A j \in 1 .. Len(toRank[k]) : ~IsReply(toRank[k][j])
<1>1. DpSize \in Nat \ {0}
  BY Assumed
<1>2. Others = 1 .. DpSize - 1
  BY <1>1 DEF Others, Ranks
<1>3. IsFiniteSet(Others) /\ Cardinality(Others) = Awaited
  <2>1. 1 \in Int /\ DpSize - 1 \in Int
    BY <1>1
  <2>2. /\ IsFiniteSet(1 .. DpSize - 1)
        /\ Cardinality(1 .. DpSize - 1) = IF 1 > DpSize - 1 THEN 0 ELSE (DpSize - 1) - 1 + 1
    BY <2>1, FS_Interval
  <2> QED
    BY <1>1, <1>2, <2>2 DEF Awaited
<1>4. IsFiniteSet(Owing) /\ Cardinality(Owing) \in Nat
  <2>1. Owing \in SUBSET Others
    BY DEF Owing
  <2> QED
    BY <1>3, <2>1, FS_Subset, FS_CardinalityType
<1>5. received \in Nat /\ Awaited \in Nat
  BY <1>1 DEF Typing, BatchTypes, Awaited
<1>6. received + Cardinality(Owing) = IF InRound THEN Awaited ELSE 0
  BY DEF Rounds
<1>7. ~InRound => received = 0 /\ Cardinality(Owing) = 0
  BY <1>4, <1>5, <1>6
<1>8. received = Awaited => Cardinality(Owing) = 0
  BY <1>4, <1>5, <1>6
<1>9. Cardinality(Owing) = 0 => Owing = {}
  BY <1>4, FS_EmptySet
<1>10. Owing = {} => \A k \in Others : /\ toMain[k] = <<>>
                                       /\ \A j \in 1 .. Len(toRank[k]) : ~IsReply(toRank[k][j])
  BY DEF Owing
<1> QED
  BY <1>3, <1>4, <1>5, <1>6, <1>7, <1>8, <1>9, <1>10

\* A step that neither sends nor takes anything keeps the round.
LEMMA QuietRounds ==
  ASSUME Rounds, UNCHANGED <<args, toRank, toMain, received>>, InRound' = InRound
  PROVE  Rounds'
<1>1. Owing' = Owing
  BY DEF Owing, IsReply
<1> QED
  BY <1>1 DEF Rounds, IsReply

\* The messages of a queue after something is appended.
LEMMA SentMessages ==
  ASSUME Typing, NEW msg, SendsAll(msg), NEW k \in Others
  PROVE  /\ Len(toRank[k]) \in Nat /\ Len(toRank'[k]) = Len(toRank[k]) + 1
         /\ \A j \in 1 .. Len(toRank[k]) : toRank'[k][j] = toRank[k][j]
         /\ toRank'[k][Len(toRank'[k])] = msg[k]
         /\ \A j \in 1 .. Len(toRank'[k]) : j \in 1 .. Len(toRank[k]) \/ j = Len(toRank'[k])
         /\ Len(toRank'[k]) \in 1 .. Len(toRank'[k])
<1>1. toRank[k] \in Seq(Messages) /\ msg[k] \in Messages /\ toRank'[k] = Append(toRank[k], msg[k])
  BY DEF Typing, RankTypes, SendsAll
<1>2. /\ Len(Append(toRank[k], msg[k])) = Len(toRank[k]) + 1 /\ Len(toRank[k]) \in Nat
      /\ \A j \in 1 .. Len(toRank[k]) : Append(toRank[k], msg[k])[j] = toRank[k][j]
      /\ Append(toRank[k], msg[k])[Len(toRank[k]) + 1] = msg[k]
  BY <1>1, AppendProperties, LenProperties
<1> QED
  BY <1>1, <1>2

\* A message that asks for tokens opens a round, and no other one does.
LEMMA SendingRounds ==
  ASSUME Typing, Rounds, ~InRound, NEW msg, SendsAll(msg), UNCHANGED <<args, toMain, received>>,
         \/ InRound' /\ \A k \in Others : IsReply(msg[k])
         \/ ~InRound' /\ \A k \in Others : ~IsReply(msg[k])
  PROVE  Rounds'
<1>1. /\ Cardinality(Others) = Awaited /\ received = 0
      /\ \A k \in Others : toMain[k] = <<>> /\ \A j \in 1 .. Len(toRank[k]) : ~IsReply(toRank[k][j])
  BY RoundFacts
<1>2. \A m : IsReply(m)' <=> IsReply(m)
  BY DEF IsReply
<1>3. ASSUME NEW k \in Others
      PROVE  /\ \A j \in 1 .. Len(toRank'[k]) :
                  IsReply(toRank'[k][j]) => j = Len(toRank'[k]) /\ IsReply(msg[k])
             /\ IsReply(msg[k]) => \E j \in 1 .. Len(toRank'[k]) : IsReply(toRank'[k][j])
  <2>1. /\ \A j \in 1 .. Len(toRank[k]) : toRank'[k][j] = toRank[k][j]
        /\ toRank'[k][Len(toRank'[k])] = msg[k]
        /\ \A j \in 1 .. Len(toRank'[k]) : j \in 1 .. Len(toRank[k]) \/ j = Len(toRank'[k])
        /\ Len(toRank'[k]) \in 1 .. Len(toRank'[k])
    BY SentMessages
  <2> QED
    BY <1>1, <2>1
<1>4. \A k \in Others : Len(toMain'[k]) <= 1 /\ toMain'[k] = <<>>
  BY <1>1, EmptySeq
<1>5. Owing' = {k \in Others : \E j \in 1 .. Len(toRank'[k]) : IsReply(toRank'[k][j])}
  BY <1>2, <1>4 DEF Owing
<1>6. CASE InRound' /\ \A k \in Others : IsReply(msg[k])
  <2>1. Owing' = Others
    BY <1>3, <1>5, <1>6
  <2>2. received' + Cardinality(Owing') = Awaited
    <3>1. Awaited \in Nat
      BY Assumed DEF Awaited
    <3> QED
      BY <1>1, <2>1, <3>1
  <2> QED
    BY <1>2, <1>3, <1>4, <1>6, <2>2 DEF Rounds, Awaited
<1>7. CASE ~InRound' /\ \A k \in Others : ~IsReply(msg[k])
  <2>1. Owing' = {}
    BY <1>3, <1>5, <1>7
  <2>2. received' + Cardinality(Owing') = 0
    BY <1>1, <2>1, FS_EmptySet
  <2> QED
    BY <1>2, <1>3, <1>4, <1>7, <2>2 DEF Rounds, Awaited
<1> QED
  BY <1>6, <1>7

\* Collect takes what was owed.
LEMMA CollectRounds ==
  ASSUME Typing, Rounds, NEW k \in Others, Collect(k)
  PROVE  Rounds'
<1>1. /\ pc = "collect" /\ toMain[k] # <<>> /\ toMain' = [toMain EXCEPT ![k] = Tail(@)]
      /\ received' = received + 1 /\ UNCHANGED <<args, pc, toRank>>
  BY DEF Collect
<1>2. toMain \in [Others -> Seq(Seq(Tokens))] /\ received \in Nat
  BY DEF Typing, RankTypes, BatchTypes
<1>3. toMain'[k] = <<>>
  <2>1. Len(toMain[k]) <= 1 /\ toMain[k] \in Seq(Seq(Tokens)) /\ toMain'[k] = Tail(toMain[k])
    BY <1>1, <1>2 DEF Rounds
  <2>2. Len(Tail(toMain[k])) = Len(toMain[k]) - 1 /\ Len(Tail(toMain[k])) \in Nat /\ Tail(toMain[k]) \in Seq(Seq(Tokens))
    BY <1>1, <2>1, HeadTailProperties, LenProperties
  <2>3. Len(toMain[k]) \in Nat
    BY <2>1, LenProperties
  <2>4. Len(Tail(toMain[k])) = 0
    <3>1. PICK n \in Nat : n = Len(toMain[k])
      BY <2>3
    <3>2. PICK m \in Nat : m = Len(Tail(toMain[k]))
      BY <2>2
    <3>3. n <= 1 /\ m = n - 1
      BY <2>1, <2>2, <3>1, <3>2
    <3>4. m = 0
      BY <3>3
    <3> QED
      BY <3>2, <3>4
  <2> QED
    BY <2>1, <2>2, <2>4, EmptySeq
<1>4. \A l \in Others : l # k => toMain'[l] = toMain[l]
  BY <1>1, <1>2
<1>5. \A j \in 1 .. Len(toRank[k]) : ~IsReply(toRank[k][j])
  BY <1>1 DEF Rounds
<1>6. \A m : IsReply(m)' <=> IsReply(m)
  BY <1>1 DEF IsReply
<1>7. Owing' = Owing \ {k} /\ k \in Owing
  BY <1>1, <1>3, <1>4, <1>5, <1>6 DEF Owing
<1>8. Cardinality(Owing') = Cardinality(Owing) - 1 /\ Cardinality(Owing) \in Nat
  BY <1>7, RoundFacts, FS_RemoveElement
<1>9. received' + Cardinality(Owing') = received + Cardinality(Owing)
  BY <1>1, <1>2, <1>8
<1>10. InRound' /\ InRound
  BY <1>1 DEF InRound
<1>11. \A l \in Others :
         /\ \A j \in 1 .. Len(toRank'[l]) : IsReply(toRank'[l][j]) => j = Len(toRank'[l]) /\ toMain'[l] = <<>>
         /\ Len(toMain'[l]) <= 1
  <2> TAKE l \in Others
  <2>1. CASE l = k
    <3>1. /\ \A j \in 1 .. Len(toRank'[k]) : IsReply(toRank'[k][j]) => j = Len(toRank'[k]) /\ toMain'[k] = <<>>
          /\ Len(toMain'[k]) <= 1
      <4>1. toRank'[k] = toRank[k] /\ Len(<<>>) = 0
        BY <1>1, EmptySeq
      <4> QED
        BY <1>3, <1>5, <4>1
    <3> QED
      BY <2>1, <3>1
  <2>2. CASE l # k
    BY <1>1, <1>4, <2>2 DEF Rounds
  <2> QED
    BY <2>1, <2>2
<1> QED
  BY <1>6, <1>9, <1>10, <1>11 DEF Rounds, Awaited

\* Record ends the round.
LEMMA RecordRounds ==
  ASSUME Typing, Rounds, Record
  PROVE  Rounds'
<1>1. /\ pc = "collect" /\ received = Awaited /\ received' = 0 /\ pc' = IF args.overlap THEN "run" ELSE "update"
      /\ UNCHANGED <<args, toRank, toMain>>
  BY DEF Record
<1>2. ~InRound' /\ args' = args
  BY <1>1 DEF InRound
<1>3. Owing = {}
  BY <1>1, RoundFacts
<1>4. Owing' = {}
  BY <1>1, <1>3 DEF Owing, IsReply
<1>5. received' + Cardinality(Owing') = 0
  BY <1>1, <1>4, FS_EmptySet
<1> QED
  BY <1>1, <1>2, <1>5 DEF Rounds, IsReply

-----------------------------------------------------------------------------
(* Messages, copies and courses when rank 0 steps *)

\* New messages are of the new batch, and older ones did not ask for tokens.
LEMMA SendingDecode ==
  ASSUME Typing, Rounds, ~InRound, NEW msg, SendsAll(msg), \A k \in Others : OfBatch(k, msg[k])'
  PROVE  DecodeMessages'
<1> SUFFICES ASSUME NEW k \in Others, NEW j \in 1 .. Len(toRank'[k]), toRank'[k][j].kind = "Decode"
             PROVE  /\ batch'.kind = "Decode"
                    /\ \A i \in DOMAIN toRank'[k][j].items :
                         /\ toRank'[k][j].items[i].r \in ToSet(batch'.lists[k])
                         /\ toRank'[k][j].items[i].status = "Normal" <=> toRank'[k][j].items[i].r \in batch'.normal
  BY DEF DecodeMessages, OfBatch
<1>1. /\ \A i \in 1 .. Len(toRank[k]) : toRank'[k][i] = toRank[k][i]
      /\ toRank'[k][Len(toRank'[k])] = msg[k]
      /\ j \in 1 .. Len(toRank[k]) \/ j = Len(toRank'[k])
  BY SentMessages
<1>2. CASE j \in 1 .. Len(toRank[k])
  <2>1. ~IsReply(toRank[k][j])
    BY <1>2, RoundFacts
  <2>2. toRank'[k][j].kind # "Decode"
    BY <1>1, <1>2, <2>1 DEF IsReply
  <2> QED
    BY <2>2
<1>3. CASE j = Len(toRank'[k])
  <2>1. toRank'[k][j] = msg[k] /\ OfBatch(k, msg[k])'
    BY <1>1, <1>3
  <2> QED
    BY <2>1 DEF OfBatch
<1> QED
  BY <1>1, <1>2, <1>3

\* Messages and batch may stay as they are.
LEMMA QuietDecode ==
  ASSUME DecodeMessages, UNCHANGED <<toRank, batch>>
  PROVE  DecodeMessages'
  BY DEF DecodeMessages, OfBatch

\* Copies and caches that stay still fit.
LEMMA KeptCopies ==
  ASSUME Typing, Copies, UNCHANGED <<args, copy>>, \A k \in Others : kv'[k] = kv[k],
         \A k \in Others, r \in Reqs : args.overlap /\ kv[k][r] > 0 /\ LeftOut(k, r) => LeftOut(k, r)'
  PROVE  Copies'
<1> SUFFICES ASSUME NEW k \in Others, NEW r \in Reqs PROVE CopyFits(k, r, copy[k][r], kv[k][r])'
  BY DEF Copies
<1>1. CopyFits(k, r, copy[k][r], kv[k][r]) /\ kv[k][r] \in Nat /\ PromptLen[r] \in Nat \ {0}
  BY CachedFacts
<1>2. args.overlap /\ kv[k][r] > 0 /\ LeftOut(k, r) => LeftOut(k, r)'
  OBVIOUS
<1>3. kv'[k][r] = kv[k][r] /\ copy'[k][r] = copy[k][r] /\ args' = args
  OBVIOUS
<1>4. kv[k][r] >= PromptLen[r] => kv[k][r] > 0
  BY <1>1
<1> QED
  BY <1>1, <1>2, <1>3, <1>4 DEF CopyFits

\* What a rank is told to have fits its slots.
LEMMA OwedTypes ==
  ASSUME Typing, Tasks, NEW k \in Ranks, NEW s, s \in [Reqs -> Nat], \A r \in Reqs : s[r] > 0 => r \in Owned(k)
  PROVE  Cardinality(InUse(s)) <= args.maxPerDp
<1>1. InUse(s) \in SUBSET Owned(k)
  BY DEF InUse
<1>2. IsFiniteSet(Owned(k)) /\ Cardinality(Owned(k)) \in Nat /\ Cardinality(Owned(k)) <= args.maxPerDp
  BY PoolFinite DEF Tasks, Typing
<1>3. Cardinality(InUse(s)) <= Cardinality(Owned(k)) /\ Cardinality(InUse(s)) \in Nat
  BY <1>1, <1>2, FS_Subset, FS_CardinalityType
<1>4. args.maxPerDp \in Nat
  BY DEF Typing, ArgTypes
<1> QED
  BY <1>2, <1>3, <1>4

\* Progress, takes and prompts are numbers.
LEMMA TaskNumbers ==
  ASSUME Typing
  PROVE  \A r \in Reqs : task[r].consumed \in Nat /\ batch.take[r] \in Nat /\ PromptLen[r] \in Nat \ {0}
  BY Assumed DEF Typing, PoolTypes, BatchTypes, IsTask

\* The steps of rank 0 that send nothing.
LEMMA QuietSteps ==
  ASSUME IInv, \/ AssignOwners \/ RunPrefill \/ RunDecode \/ (\E k \in Others : Collect(k)) \/ Record
  PROVE  Rounds' /\ DecodeMessages' /\ Courses' /\ Copies'
<1> USE DEF IInv
<1>1. UNCHANGED <<args, toRank, batch, pool, copy>> /\ \A k \in Others : kv'[k] = kv[k]
  <2>1. kv = [k \in Ranks |-> kv[k]]
    BY DEF Typing, RankTypes
  <2> QED
    BY <2>1, Assumed DEF AssignOwners, RunPrefill, RunDecode, Collect, Record
<1>2. DecodeMessages'
  BY <1>1, QuietDecode
<1>3. Copies'
  <2>1. \A k \in Others, r \in Reqs : LeftOut(k, r) => LeftOut(k, r)'
    BY <1>1 DEF LeftOut, DecodeUnderWay
  <2> QED
    BY <1>1, <2>1, KeptCopies
<1>4. Rounds'
  <2>1. CASE AssignOwners \/ RunPrefill \/ RunDecode
    <3>1. UNCHANGED <<args, toRank, toMain, received>> /\ InRound' = InRound
      BY <2>1 DEF AssignOwners, RunPrefill, RunDecode, InRound
    <3> QED
      BY <3>1, QuietRounds
  <2>2. CASE (\E k \in Others : Collect(k))
    BY <2>2, CollectRounds
  <2>3. CASE Record
    BY <2>3, RecordRounds
  <2> QED
    BY <2>1, <2>2, <2>3
<1>5. /\ \A r \in Reqs, k \in Others : task[r].owner = k => task'[r].owner = k
      /\ \A k \in Others : Owed(k)' = Owed(k)
  <2>1. CASE AssignOwners
    <3>1. \A r \in Reqs : /\ task'[r].consumed = task[r].consumed
                          /\ \/ task'[r].owner = task[r].owner
                             \/ task[r].owner = NoRank /\ r \in ToSet(pool)
      BY <2>1, AssignOwnersMain
    <3>2. \A r \in Reqs, k \in Others : task[r].owner = k => task'[r].owner = k
      BY <3>1, Assumed
    <3>3. \A r \in Reqs : Told(r) = task[r].consumed /\ Told(r)' = task[r].consumed
      BY <2>1, <3>1, TaskNumbers DEF AssignOwners, Told
    <3>4. \A r \in Reqs, k \in Others :
            (r \in Owned(k) => r \in Owned(k)') /\ (r \in Owned(k)' /\ r \notin Owned(k) => Told(r) = 0)
      BY <1>1, <3>1, <3>2, <3>3 DEF Owned, Tasks
    <3>5. \A k \in Others : \A r \in Reqs : (IF r \in Owned(k)' THEN Told(r)' ELSE 0) = (IF r \in Owned(k) THEN Told(r) ELSE 0)
      BY <3>3, <3>4
    <3> QED
      BY <3>2, <3>5 DEF Owed
  <2>2. CASE RunPrefill
    <3>1. \A r \in Reqs : task'[r].owner = task[r].owner /\ task'[r].consumed = task[r].consumed + batch.take[r]
      BY <2>2, RunPrefillTasks DEF SameButConsumed
    <3>2. \A r \in Reqs : Told(r)' = Told(r)
      <4>1. pc = "run" /\ batch.kind = "Prefill" /\ pc' # "run"
        BY <2>2 DEF RunPrefill
      <4> QED
        BY <3>1, <4>1, TaskNumbers DEF Told
    <3>3. \A k : Owned(k)' = Owned(k)
      BY <1>1, <3>1, PoolIn, SameOwned
    <3> QED
      BY <3>1, <3>2, <3>3 DEF Owed
  <2>3. CASE RunDecode
    <3>1. \A r \in Reqs : task'[r].owner = task[r].owner /\ task'[r].consumed = task[r].consumed
      BY <2>3, RunDecodeTasks DEF SameButConsumed
    <3>2. \A r \in Reqs : Told(r)' = Told(r)
      <4>1. batch.kind = "Decode" /\ pc' # "run"
        BY <2>3 DEF RunDecode
      <4> QED
        BY <3>1, <4>1, TaskNumbers DEF Told
    <3>3. \A k : Owned(k)' = Owned(k)
      BY <1>1, <3>1, PoolIn, SameOwned
    <3> QED
      BY <3>1, <3>2, <3>3 DEF Owed
  <2>4. CASE (\E k \in Others : Collect(k))
    <3>1. task' = task /\ pc' = pc
      BY <2>4 DEF Collect
    <3> QED
      BY <1>1, <3>1 DEF Owed, Owned, Told
  <2>5. CASE Record
    <3>1. \A r \in Reqs : task'[r].owner = task[r].owner /\ task'[r].consumed = task[r].consumed
      BY <2>5, RecordTasks
    <3>2. \A r \in Reqs : Told(r)' = Told(r)
      <4>1. pc = "collect" /\ (pc' = "run" => batch.kind = "Decode")
        BY <2>5 DEF Record, Batch
      <4> QED
        BY <1>1, <3>1, <4>1, TaskNumbers DEF Told
    <3>3. \A k : Owned(k)' = Owned(k)
      BY <1>1, <3>1, PoolIn, SameOwned
    <3> QED
      BY <3>1, <3>2, <3>3 DEF Owed
  <2> QED
    BY <2>1, <2>2, <2>3, <2>4, <2>5
<1>6. Courses'
  BY <1>1, <1>5, QuietCourses
<1> QED
  BY <1>2, <1>3, <1>4, <1>6

\* Submit changes nothing that concerns the other ranks.
LEMMA SubmitOthers ==
  ASSUME IInv, NEW q \in Reqs, Submit(q)
  PROVE  Rounds' /\ DecodeMessages' /\ Courses' /\ Copies'
<1> USE DEF IInv
<1>1. UNCHANGED <<args, toRank, toMain, received, batch, task, pc, copy, kv>>
  BY DEF Submit
<1>2. /\ \A k \in Ranks : Owned(k)' = Owned(k)
      /\ ToSet(pool') = ToSet(pool) \cup {q} /\ task[q].owner = NoRank
  BY SubmitMain
<1>3. DecodeMessages'
  BY <1>1, QuietDecode
<1>4. Rounds'
  <2>1. InRound' = InRound
    BY <1>1 DEF InRound
  <2> QED
    BY <1>1, <2>1, QuietRounds
<1>5. Copies'
  <2>1. \A k \in Others, r \in Reqs : kv[k][r] > 0 => r # q
    BY <1>2, InvSlotsRespected, Assumed DEF SlotsRespected
  <2>2. \A k \in Others, r \in Reqs : kv[k][r] > 0 /\ LeftOut(k, r) => LeftOut(k, r)'
    BY <1>1, <1>2, <2>1 DEF LeftOut, DecodeUnderWay
  <2> QED
    BY <1>1, <2>2, KeptCopies
<1>6. Courses'
  <2>1. \A k \in Others : Owed(k)' = Owed(k)
    BY <1>1, <1>2, Assumed DEF Owed, Told
  <2> QED
    BY <1>1, <2>1, QuietCourses
<1> QED
  BY <1>3, <1>4, <1>5, <1>6

\* SchedulePrefill goes on from what the ranks were told.
LEMMA SchedulePrefillOthers ==
  ASSUME IInv, SchedulePrefill
  PROVE  Rounds' /\ DecodeMessages' /\ Courses' /\ Copies'
<1> USE DEF IInv
<1>1. /\ pc = "select" /\ pc' = "run"
      /\ UNCHANGED <<args, submitted, pool, task, cursor, received, toMain, copy, kv>>
  BY DEF SchedulePrefill
<1>2. /\ batch'.kind = "Prefill"
      /\ \A k \in Ranks : ToSet(batch'.lists[k]) \subseteq Owned(k)
      /\ \A r \in Reqs : IF Batched(r)'
                         THEN batch'.take[r] > 0 /\ task[r].consumed + batch'.take[r] <= PromptLen[r]
                         ELSE batch'.take[r] = 0
      /\ batch'.take \in [Reqs -> Nat] /\ batch'.lists \in [Ranks -> Seq(Reqs)]
  BY SchedulePrefillSends
<1>3. PICK msg : /\ SendsAll(msg)
                 /\ \A k \in Others :
                      /\ msg[k].kind = "Prefill" /\ DOMAIN msg[k].items = DOMAIN batch'.lists[k]
                      /\ \A i \in DOMAIN batch'.lists[k] :
                           /\ msg[k].items[i].r = batch'.lists[k][i]
                           /\ msg[k].items[i].consumed = task[batch'.lists[k][i]].consumed
                           /\ msg[k].items[i].take = batch'.take[batch'.lists[k][i]]
  BY SchedulePrefillSends
<1>4. ~InRound /\ batch.kind = "none"
  BY <1>1 DEF InRound, Batch
<1>5. Rounds'
  <2>1. \/ InRound' /\ \A k \in Others : IsReply(msg[k])
        \/ ~InRound' /\ \A k \in Others : ~IsReply(msg[k])
    BY <1>1, <1>3 DEF InRound, IsReply
  <2> QED
    BY <1>1, <1>3, <1>4, <2>1, SendingRounds
<1>6. DecodeMessages'
  <2>1. \A k \in Others : OfBatch(k, msg[k])'
    BY <1>3 DEF OfBatch
  <2> QED
    BY <1>3, <1>4, <2>1, SendingDecode
<1>7. Copies'
  <2>1. \A k \in Others, r \in Reqs : LeftOut(k, r) => LeftOut(k, r)'
    BY <1>1, <1>4 DEF LeftOut
  <2> QED
    BY <1>1, <2>1, KeptCopies
<1>8. \A k : Owned(k)' = Owned(k)
  BY <1>1 DEF Owned
<1>9. \A r \in Reqs : /\ Told(r) = task[r].consumed /\ Told(r)' = task[r].consumed + batch'.take[r]
                      /\ Told(r) \in Nat /\ Told(r)' \in Nat /\ batch'.take[r] \in Nat
  BY <1>1, <1>2, TaskNumbers DEF Told
<1>10. ASSUME NEW k \in Others
       PROVE  /\ kv'[k] = kv[k] /\ Owed(k)' \in [Reqs -> Nat]
              /\ Advance(msg[k], Owed(k), Owed(k)')
              /\ Cardinality(InUse(Owed(k)')) <= args.maxPerDp
              /\ \A r \in Reqs : Owed(k)'[r] > 0 => task'[r].owner = k
  <2>1. \A r \in Reqs : /\ Owed(k)[r] = (IF r \in Owned(k) THEN task[r].consumed ELSE 0)
                        /\ Owed(k)'[r] = IF r \in Owned(k) THEN task[r].consumed + batch'.take[r] ELSE 0
    BY <1>8, <1>9 DEF Owed
  <2>2. Owed(k)' = [r \in Reqs |-> Owed(k)'[r]]
    BY DEF Owed
  <2>3. Owed(k)' \in [Reqs -> Nat]
    <3>1. \A r \in Reqs : Owed(k)'[r] \in Nat
      BY <1>9, <2>1
    <3> QED
      BY <2>2, <3>1
  <2>4. \A r \in Reqs : Owed(k)'[r] > 0 => r \in Owned(k)
    BY <2>1
  <2>5. Cardinality(InUse(Owed(k)')) <= args.maxPerDp
    <3>1. PICK s : s = Owed(k)'
      OBVIOUS
    <3>2. Cardinality(InUse(s)) <= args.maxPerDp
      BY <2>3, <2>4, <3>1, Assumed, OwedTypes
    <3> QED
      BY <3>1, <3>2 DEF InUse
  <2>6. \A r \in Reqs : Owed(k)'[r] > 0 => task'[r].owner = k
    BY <1>1, <2>4 DEF Owned
  <2>7. batch'.lists[k] \in Seq(Reqs) /\ k \in Ranks
    BY <1>2, Assumed
  <2>8. \A i \in DOMAIN batch'.lists[k] :
          /\ batch'.lists[k][i] \in Owned(k) /\ batch'.lists[k][i] \in Reqs
          /\ batch'.lists[k][i] \in ToSet(batch'.lists[k])
    BY <1>2, <2>7, PoolIn DEF ToSet
  <2>9. \A r \in Reqs : r \in Owned(k) /\ r \notin ToSet(batch'.lists[k]) => batch'.take[r] = 0
    <3>1. \A r \in Reqs : r \in Owned(k) /\ r \notin ToSet(batch'.lists[k]) => ~Batched(r)'
      BY <1>2 DEF Batched, Owned
    <3> QED
      BY <1>2, <3>1
  <2>10. \A i \in DOMAIN batch'.lists[k] : LET r == batch'.lists[k][i] IN
           /\ r \in Reqs /\ Owed(k)[r] = task[r].consumed /\ batch'.take[r] > 0
           /\ Owed(k)'[r] = task[r].consumed + batch'.take[r] /\ Owed(k)'[r] <= PromptLen[r]
    <3> TAKE i \in DOMAIN batch'.lists[k]
    <3>1. PICK r \in Reqs : r = batch'.lists[k][i] /\ r \in Owned(k) /\ r \in ToSet(batch'.lists[k])
      BY <2>8
    <3>2. Batched(r)'
      BY <2>7, <3>1 DEF Batched
    <3>3. /\ Owed(k)[r] = task[r].consumed /\ batch'.take[r] > 0
          /\ Owed(k)'[r] = task[r].consumed + batch'.take[r] /\ Owed(k)'[r] <= PromptLen[r]
      BY <1>2, <2>1, <3>1, <3>2
    <3> QED
      BY <3>1, <3>3
  <2>11. \A r \in Reqs : (\A i \in DOMAIN batch'.lists[k] : batch'.lists[k][i] # r) => Owed(k)'[r] = Owed(k)[r]
    <3> SUFFICES ASSUME NEW r \in Reqs, \A i \in DOMAIN batch'.lists[k] : batch'.lists[k][i] # r
                 PROVE  Owed(k)'[r] = Owed(k)[r]
      OBVIOUS
    <3>1. r \notin ToSet(batch'.lists[k])
      BY DEF ToSet
    <3> QED
      BY <1>9, <2>1, <2>9, <3>1
  <2>12. Advance(msg[k], Owed(k), Owed(k)')
    <3>1. PICK was, now : was = Owed(k) /\ now = Owed(k)'
      OBVIOUS
    <3>2. /\ msg[k].kind = "Prefill" /\ DOMAIN msg[k].items = DOMAIN batch'.lists[k]
          /\ \A i \in DOMAIN batch'.lists[k] :
               /\ msg[k].items[i].r = batch'.lists[k][i]
               /\ msg[k].items[i].consumed = task[batch'.lists[k][i]].consumed
               /\ msg[k].items[i].take = batch'.take[batch'.lists[k][i]]
      BY <1>3
    <3>3. \A i \in DOMAIN msg[k].items : LET x == msg[k].items[i] IN
            was[x.r] = x.consumed /\ x.take > 0 /\ now[x.r] = x.consumed + x.take /\ now[x.r] <= PromptLen[x.r]
      BY <2>10, <3>1, <3>2
    <3>4. \A r \in Reqs : (\A i \in DOMAIN msg[k].items : msg[k].items[i].r # r) => now[r] = was[r]
      BY <2>11, <3>1, <3>2
    <3>5. Advance(msg[k], was, now)
      BY <3>2, <3>3, <3>4 DEF Advance
    <3> QED
      BY <3>1, <3>5
  <2> QED
    BY <1>1, <2>3, <2>5, <2>6, <2>12
<1>11. Courses'
  <2>1. msg \in [Others -> Messages] /\ toRank' = [k \in Others |-> Append(toRank[k], msg[k])]
    BY <1>3 DEF SendsAll
  <2>2. \A r \in Reqs, k \in Others : task[r].owner = k => task'[r].owner = k
    BY <1>1
  <2> QED
    BY <1>1, <1>10, <2>1, <2>2, SendingCourses
<1> QED
  BY <1>5, <1>6, <1>7, <1>11

\* DispatchDecode asks for steps of prompts that are complete.
LEMMA DispatchDecodeOthers ==
  ASSUME IInv, DispatchDecode
  PROVE  Rounds' /\ DecodeMessages' /\ Courses' /\ Copies'
<1> USE DEF IInv
<1>1. /\ pc = "select" /\ pc' = IF args.overlap THEN "collect" ELSE "run"
      /\ UNCHANGED <<args, submitted, pool, task, cursor, received, toMain, copy, kv>>
  BY DEF DispatchDecode
<1>2. /\ batch'.kind = "Decode" /\ batch'.lists \in [Ranks -> Seq(Reqs)]
      /\ batch'.normal = {r \in Reqs : task[r].status = "Normal"}
      /\ \A k \in Ranks : ToSet(batch'.lists[k]) \subseteq Owned(k)
      /\ \A k \in Ranks : \A r \in ToSet(batch'.lists[k]) : task[r].consumed = PromptLen[r]
  BY DispatchDecodeSends
<1>3. PICK msg : /\ SendsAll(msg)
                 /\ \A k \in Others :
                      /\ msg[k].kind = "Decode" /\ DOMAIN msg[k].items = DOMAIN batch'.lists[k]
                      /\ \A i \in DOMAIN batch'.lists[k] :
                           /\ msg[k].items[i].r = batch'.lists[k][i]
                           /\ msg[k].items[i].status = task[batch'.lists[k][i]].status
  BY DispatchDecodeSends
<1>4. ~InRound /\ InRound' /\ batch.kind = "none"
  BY <1>1 DEF InRound, Batch
<1>5. Rounds'
  <2>1. \A k \in Others : IsReply(msg[k])
    BY <1>3 DEF IsReply
  <2> QED
    BY <1>1, <1>3, <1>4, <2>1, SendingRounds
<1>6. \A k \in Others : \A i \in DOMAIN batch'.lists[k] :
        /\ batch'.lists[k][i] \in Owned(k) /\ batch'.lists[k][i] \in Reqs
        /\ batch'.lists[k][i] \in ToSet(batch'.lists[k])
  BY <1>2, Assumed, PoolIn DEF ToSet
<1>7. DecodeMessages'
  <2>1. \A k \in Others : OfBatch(k, msg[k])'
    BY <1>2, <1>3, <1>6 DEF OfBatch
  <2> QED
    BY <1>3, <1>4, <2>1, SendingDecode
<1>8. Copies'
  <2>1. \A k \in Others, r \in Reqs : LeftOut(k, r) => LeftOut(k, r)'
    BY <1>1, <1>4 DEF LeftOut
  <2> QED
    BY <1>1, <2>1, KeptCopies
<1>9. \A r \in Reqs : Told(r) = task[r].consumed /\ Told(r)' = task[r].consumed /\ Told(r) \in Nat
  BY <1>1, <1>2, TaskNumbers DEF Told
<1>10. ASSUME NEW k \in Others
       PROVE  /\ kv'[k] = kv[k] /\ Owed(k)' \in [Reqs -> Nat]
              /\ Advance(msg[k], Owed(k), Owed(k)')
              /\ Cardinality(InUse(Owed(k)')) <= args.maxPerDp
              /\ \A r \in Reqs : Owed(k)'[r] > 0 => task'[r].owner = k
  <2>1. Owed(k)' = Owed(k)
    BY <1>1, <1>9 DEF Owed, Owned
  <2>2. PICK s : s = Owed(k)
    OBVIOUS
  <2>3. \A r \in Reqs : s[r] = IF r \in Owned(k) THEN task[r].consumed ELSE 0
    BY <1>9, <2>2 DEF Owed
  <2>4. s \in [Reqs -> Nat]
    BY <1>9, <2>2 DEF Owed
  <2>5. Cardinality(InUse(s)) <= args.maxPerDp
    BY <2>3, <2>4, Assumed, OwedTypes
  <2>6. \A r \in Reqs : s[r] > 0 => task'[r].owner = k
    BY <1>1, <2>3 DEF Owned
  <2>7. /\ msg[k].kind = "Decode" /\ DOMAIN msg[k].items = DOMAIN batch'.lists[k]
        /\ \A i \in DOMAIN batch'.lists[k] : msg[k].items[i].r = batch'.lists[k][i]
    BY <1>3
  <2>8. \A i \in DOMAIN batch'.lists[k] : s[batch'.lists[k][i]] = PromptLen[batch'.lists[k][i]]
    BY <1>2, <1>6, <2>3, Assumed
  <2>9. Advance(msg[k], s, s)
    BY <2>7, <2>8 DEF Advance
  <2>10. Cardinality(InUse(Owed(k)')) <= args.maxPerDp
    BY <2>1, <2>2, <2>5 DEF InUse
  <2> QED
    BY <1>1, <2>1, <2>2, <2>4, <2>6, <2>9, <2>10
<1>11. Courses'
  <2>1. msg \in [Others -> Messages] /\ toRank' = [k \in Others |-> Append(toRank[k], msg[k])]
    BY <1>3 DEF SendsAll
  <2>2. \A r \in Reqs, k \in Others : task[r].owner = k => task'[r].owner = k
    BY <1>1
  <2> QED
    BY <1>1, <1>10, <2>1, <2>2, SendingCourses
<1> QED
  BY <1>5, <1>7, <1>8, <1>11

\* Update tells the ranks what ends, which they then may forget.
LEMMA UpdateOthers ==
  ASSUME IInv, Update
  PROVE  Rounds' /\ DecodeMessages' /\ Courses' /\ Copies'
<1> USE DEF IInv
<1>1. /\ pc = "update" /\ pc' = "schedule" /\ batch' = NoBatch
      /\ UNCHANGED <<args, submitted, task, cursor, received, toMain, copy>>
      /\ kv' = [kv EXCEPT ![0] = [r \in Reqs |-> IF r \in Removed THEN 0 ELSE @[r]]]
  BY DEF Update
<1>2. \A k \in Others : kv'[k] = kv[k]
  BY <1>1, Assumed DEF Typing, RankTypes
<1>3. /\ Removed = {r \in Reqs : Batched(r) /\ task[r].status = "Stopped"}
      /\ ToSet(pool') = ToSet(pool) \ Removed
      /\ \/ Removed = {} /\ toRank' = toRank
         \/ \E msg : SendsAll(msg) /\ EndsRemoved(msg)
  BY UpdateSends
<1>4. ~InRound /\ ~InRound'
  BY <1>1 DEF InRound
<1>5. \A k : Owned(k)' = Owned(k) \ Removed
  BY <1>1, <1>3 DEF Owned
<1>6. \A r \in Reqs : Told(r) = task[r].consumed /\ Told(r)' = task[r].consumed /\ Told(r) \in Nat
  BY <1>1, TaskNumbers DEF Told
<1>7. Copies'
  <2>1. ASSUME NEW k \in Others, NEW r \in Reqs, args.overlap, LeftOut(k, r)
        PROVE  LeftOut(k, r)'
    <3>1. CASE r \notin ToSet(pool)
      BY <1>3, <3>1 DEF LeftOut
    <3>2. CASE batch.kind = "Decode" /\ r \in ToSet(batch.lists[k]) /\ r \notin batch.normal
      <4>1. Batched(r)
        BY <3>2, Assumed DEF Batched
      <4>2. task[r].status = "Stopped"
        BY <1>4, <2>1, <3>2, <4>1 DEF Batch
      <4>3. r \notin ToSet(pool')
        BY <1>3, <4>1, <4>2
      <4> QED
        BY <4>3 DEF LeftOut
    <3> QED
      BY <2>1, <3>1, <3>2 DEF LeftOut
  <2> QED
    BY <1>1, <1>2, <2>1, KeptCopies
<1>8. CASE Removed = {} /\ toRank' = toRank
  <2>1. Rounds'
    <3>1. UNCHANGED <<args, toRank, toMain, received>> /\ InRound' = InRound
      BY <1>1, <1>8 DEF InRound
    <3> QED
      BY <3>1, QuietRounds
  <2>2. DecodeMessages'
    <3>1. \A k \in Others : \A j \in 1 .. Len(toRank[k]) : toRank[k][j].kind # "Decode"
      BY <1>4, RoundFacts DEF IsReply
    <3> QED
      BY <1>8, <3>1 DEF DecodeMessages, OfBatch
  <2>3. \A k \in Others : Owed(k)' = Owed(k)
    BY <1>5, <1>6, <1>8 DEF Owed
  <2>4. Courses'
    <3>1. \A r \in Reqs, k \in Others : task[r].owner = k => task'[r].owner = k
      BY <1>1
    <3> QED
      BY <1>1, <1>2, <1>8, <2>3, <3>1, QuietCourses
  <2> QED
    BY <1>7, <2>1, <2>2, <2>4
<1>9. CASE \E msg : SendsAll(msg) /\ EndsRemoved(msg)
  <2>1. PICK msg : SendsAll(msg) /\ EndsRemoved(msg)
    BY <1>9
  <2>2. \A k \in Others : msg[k].kind = "EndTask"
    BY <2>1 DEF EndsRemoved
  <2>3. Rounds'
    <3>1. \A k \in Others : ~IsReply(msg[k])
      BY <2>2 DEF IsReply
    <3> QED
      BY <1>1, <1>4, <2>1, <3>1, SendingRounds
  <2>4. DecodeMessages'
    <3>1. \A k \in Others : OfBatch(k, msg[k])'
      BY <2>2 DEF OfBatch
    <3> QED
      BY <1>4, <2>1, <3>1, SendingDecode
  <2>5. ASSUME NEW k \in Others
        PROVE  /\ Owed(k)' \in [Reqs -> Nat]
               /\ Advance(msg[k], Owed(k), Owed(k)')
               /\ Cardinality(InUse(Owed(k)')) <= args.maxPerDp
               /\ \A r \in Reqs : Owed(k)'[r] > 0 => task'[r].owner = k
    <3>1. PICK was, now : was = Owed(k) /\ now = Owed(k)'
      OBVIOUS
    <3>2. \A r \in Reqs : /\ was[r] = (IF r \in Owned(k) THEN task[r].consumed ELSE 0)
                          /\ now[r] = IF r \in Owned(k) \ Removed THEN task[r].consumed ELSE 0
      BY <1>5, <1>6, <3>1 DEF Owed
    <3>3. now \in [Reqs -> Nat]
      <4>1. now = [r \in Reqs |-> now[r]] /\ \A r \in Reqs : now[r] \in Nat
        BY <1>6, <3>1, <3>2 DEF Owed
      <4> QED
        BY <4>1
    <3>4. Cardinality(InUse(now)) <= args.maxPerDp
      BY <3>2, <3>3, Assumed, OwedTypes
    <3>5. \A r \in Reqs : now[r] > 0 => task'[r].owner = k
      BY <1>1, <3>2 DEF Owned
    <3>6. Advance(msg[k], was, now)
      <4>1. \A r \in Reqs : r \in Removed <=> \E i \in DOMAIN msg[k].items : msg[k].items[i].r = r
        BY <2>1 DEF EndsRemoved
      <4>2. \A r \in Reqs : now[r] = IF r \in Removed THEN 0 ELSE was[r]
        BY <3>2
      <4> QED
        BY <2>2, <4>1, <4>2 DEF Advance
    <3>7. Cardinality(InUse(Owed(k)')) <= args.maxPerDp
      BY <3>1, <3>4 DEF InUse
    <3> QED
      BY <3>1, <3>3, <3>5, <3>6, <3>7
  <2>6. Courses'
    <3>1. msg \in [Others -> Messages] /\ toRank' = [k \in Others |-> Append(toRank[k], msg[k])]
      BY <2>1 DEF SendsAll
    <3>2. \A r \in Reqs, k \in Others : task[r].owner = k => task'[r].owner = k
      BY <1>1
    <3> QED
      BY <1>1, <1>2, <2>5, <3>1, <3>2, SendingCourses
  <2> QED
    BY <1>7, <2>3, <2>4, <2>6
<1> QED
  BY <1>3, <1>8, <1>9

-----------------------------------------------------------------------------
(* The other ranks *)

\* The messages that remain when a rank has taken one.
LEMMA TailMessages ==
  ASSUME Typing, NEW k \in Others, toRank[k] # <<>>, toRank' = [toRank EXCEPT ![k] = Tail(@)]
  PROVE  /\ toRank' \in [Others -> Seq(Messages)]
         /\ \A l \in Others \ {k} : toRank'[l] = toRank[l]
         /\ Len(toRank[k]) \in Nat \ {0} /\ Len(toRank'[k]) = Len(toRank[k]) - 1
         /\ Head(toRank[k]) = toRank[k][1]
         /\ \A j \in 1 .. Len(toRank'[k]) : j + 1 \in 1 .. Len(toRank[k]) /\ toRank'[k][j] = toRank[k][j + 1]
<1>1. toRank \in [Others -> Seq(Messages)]
  BY DEF Typing, RankTypes
<1>2. toRank[k] \in Seq(Messages) /\ toRank'[k] = Tail(toRank[k])
  BY <1>1
<1>3. /\ Tail(toRank[k]) \in Seq(Messages) /\ Len(Tail(toRank[k])) = Len(toRank[k]) - 1
      /\ Head(toRank[k]) = toRank[k][1]
      /\ \A j \in 1 .. Len(Tail(toRank[k])) : Tail(toRank[k])[j] = toRank[k][j + 1]
  BY <1>2, HeadTailProperties
<1>4. Len(toRank[k]) \in Nat \ {0}
  BY <1>2, LenProperties, EmptySeq
<1>5. \A j \in 1 .. Len(toRank[k]) - 1 : j + 1 \in 1 .. Len(toRank[k])
  BY <1>4
<1> QED
  BY <1>1, <1>2, <1>3, <1>4, <1>5

\* A rank that takes a message of the round answers it.
LEMMA TakingRounds ==
  ASSUME Typing, Rounds, NEW k \in Others, toRank[k] # <<>>, toRank' = [toRank EXCEPT ![k] = Tail(@)],
         UNCHANGED <<args, mainVars>>,
         IF IsReply(Head(toRank[k])) THEN \E tokens \in Seq(Tokens) : toMain' = [toMain EXCEPT ![k] = Append(@, tokens)]
                                     ELSE toMain' = toMain
  PROVE  Rounds' /\ toMain' \in [Others -> Seq(Seq(Tokens))]
<1>1. /\ \A l \in Others \ {k} : toRank'[l] = toRank[l]
      /\ Len(toRank[k]) \in Nat \ {0} /\ Len(toRank'[k]) = Len(toRank[k]) - 1
      /\ Head(toRank[k]) = toRank[k][1]
      /\ \A j \in 1 .. Len(toRank'[k]) : j + 1 \in 1 .. Len(toRank[k]) /\ toRank'[k][j] = toRank[k][j + 1]
  BY TailMessages
<1>2. \A m : IsReply(m)' <=> IsReply(m)
  BY DEF IsReply
<1>3. received' = received /\ InRound' = InRound /\ Awaited' = Awaited
  BY DEF InRound, mainVars, Awaited
<1>4. toMain \in [Others -> Seq(Seq(Tokens))]
  BY DEF Typing, RankTypes
<1>5. CASE IsReply(Head(toRank[k]))
  <2>1. PICK tokens \in Seq(Tokens) : toMain' = [toMain EXCEPT ![k] = Append(@, tokens)]
    BY <1>5
  <2>2. 1 = Len(toRank[k]) /\ toMain[k] = <<>>
    <3>1. 1 \in 1 .. Len(toRank[k]) /\ IsReply(toRank[k][1])
      BY <1>1, <1>5
    <3> QED
      BY <3>1 DEF Rounds
  <2>3. Len(toRank'[k]) = 0
    BY <1>1, <2>2
  <2>4. toMain'[k] = Append(<<>>, tokens) /\ \A l \in Others \ {k} : toMain'[l] = toMain[l]
    BY <1>4, <2>1, <2>2
  <2>5. toMain'[k] \in Seq(Seq(Tokens)) /\ Len(toMain'[k]) = 1 /\ toMain'[k] # <<>>
    <3>1. /\ <<>> \in Seq(Seq(Tokens)) /\ Len(<<>>) = 0
      BY EmptySeq
    <3>2. /\ Append(<<>>, tokens) \in Seq(Seq(Tokens)) /\ Len(Append(<<>>, tokens)) = Len(<<>>) + 1
      BY <3>1, AppendProperties
    <3>3. Len(toMain'[k]) = 1
      BY <2>4, <3>1, <3>2
    <3>4. toMain'[k] # <<>>
      <4>1. Len(toMain'[k]) # Len(<<>>)
        <5>1. PICK n \in Nat : n = Len(toMain'[k])
          BY <3>3
        <5>2. PICK z \in Nat : z = Len(<<>>)
          BY <3>1
        <5>3. n = 1 /\ z = 0
          BY <3>1, <3>3, <5>1, <5>2
        <5> QED
          BY <5>1, <5>2, <5>3
      <4> QED
        BY <4>1
    <3> QED
      BY <2>4, <3>2, <3>3, <3>4
  <2>6. toMain' \in [Others -> Seq(Seq(Tokens))]
    BY <1>4, <2>1, <2>4, <2>5
  <2>7. k \in Owing /\ k \in Owing'
    BY <1>1, <1>5, <2>2, <2>5 DEF Owing
  <2>8. Owing' = Owing
    <3>1. \A l \in Others : l \in Owing' <=> l \in Owing
      <4> TAKE l \in Others
      <4>1. CASE l = k
        BY <2>7, <4>1
      <4>2. CASE l # k
        BY <1>1, <1>2, <2>4, <4>2 DEF Owing
      <4> QED
        BY <4>1, <4>2
    <3>2. Owing \subseteq Others /\ Owing' \subseteq Others
      BY DEF Owing
    <3> QED
      BY <3>1, <3>2
  <2>9. \A l \in Others :
          /\ \A j \in 1 .. Len(toRank'[l]) : IsReply(toRank'[l][j]) => j = Len(toRank'[l]) /\ toMain'[l] = <<>>
          /\ Len(toMain'[l]) <= 1
    <3> TAKE l \in Others
    <3>1. CASE l = k
      BY <2>3, <2>5, <3>1
    <3>2. CASE l # k
      BY <1>1, <2>4, <3>2 DEF Rounds
    <3> QED
      BY <3>1, <3>2
  <2> QED
    BY <1>2, <1>3, <2>6, <2>8, <2>9 DEF Rounds
<1>6. CASE ~IsReply(Head(toRank[k]))
  <2>1. toMain' = toMain
    BY <1>6
  <2>2. \A j \in 1 .. Len(toRank[k]) : IsReply(toRank[k][j]) =>
          j - 1 \in 1 .. Len(toRank'[k]) /\ toRank'[k][j - 1] = toRank[k][j]
    <3> TAKE j \in 1 .. Len(toRank[k])
    <3> SUFFICES ASSUME IsReply(toRank[k][j])
                 PROVE  j - 1 \in 1 .. Len(toRank'[k]) /\ toRank'[k][j - 1] = toRank[k][j]
      OBVIOUS
    <3>1. j # 1
      BY <1>1, <1>6
    <3>2. j - 1 \in 1 .. Len(toRank'[k]) /\ (j - 1) + 1 = j
      BY <1>1, <3>1
    <3> QED
      BY <1>1, <3>2
  <2>3. \A j \in 1 .. Len(toRank'[k]) : IsReply(toRank'[k][j]) => j = Len(toRank'[k]) /\ toMain[k] = <<>>
    <3> TAKE j \in 1 .. Len(toRank'[k])
    <3> SUFFICES ASSUME IsReply(toRank'[k][j]) PROVE j = Len(toRank'[k]) /\ toMain[k] = <<>>
      OBVIOUS
    <3>1. j + 1 \in 1 .. Len(toRank[k]) /\ IsReply(toRank[k][j + 1])
      BY <1>1
    <3>2. j + 1 = Len(toRank[k]) /\ toMain[k] = <<>>
      BY <3>1 DEF Rounds
    <3> QED
      BY <1>1, <3>2
  <2>4. (\E j \in 1 .. Len(toRank[k]) : IsReply(toRank[k][j])) <=> (\E j \in 1 .. Len(toRank'[k]) : IsReply(toRank'[k][j]))
    BY <1>1, <2>2
  <2>5. Owing' = Owing
    BY <1>1, <1>2, <2>1, <2>4 DEF Owing
  <2>6. \A l \in Others :
          /\ \A j \in 1 .. Len(toRank'[l]) : IsReply(toRank'[l][j]) => j = Len(toRank'[l]) /\ toMain'[l] = <<>>
          /\ Len(toMain'[l]) <= 1
    <3> TAKE l \in Others
    <3>1. CASE l = k
      BY <2>1, <2>3, <3>1 DEF Rounds
    <3>2. CASE l # k
      BY <1>1, <2>1, <3>2 DEF Rounds
    <3> QED
      BY <3>1, <3>2
  <2> QED
    BY <1>2, <1>3, <1>4, <2>1, <2>5, <2>6 DEF Rounds
<1> QED
  BY <1>5, <1>6

\* What the step of another rank leaves as it is.
LEMMA TakingRest ==
  ASSUME Typing, Tasks, Batch, DecodeMessages, NEW k \in Others, toRank[k] # <<>>,
         toRank' = [toRank EXCEPT ![k] = Tail(@)], UNCHANGED <<args, mainVars>>, kv'[0] = kv[0]
  PROVE  /\ ArgTypes' /\ PoolTypes' /\ BatchTypes' /\ Tasks' /\ Batch' /\ DecodeMessages'
         /\ \A l \in Others, r \in Reqs : LeftOut(l, r) => LeftOut(l, r)'
<1>1. UNCHANGED <<args, submitted, pool, task, cursor, batch, received, pc>>
  BY DEF mainVars
<1>2. /\ \A l \in Others \ {k} : toRank'[l] = toRank[l]
      /\ \A j \in 1 .. Len(toRank'[k]) : j + 1 \in 1 .. Len(toRank[k]) /\ toRank'[k][j] = toRank[k][j + 1]
  BY TailMessages
<1>3. PoolTypes'
  BY <1>1 DEF Typing, PoolTypes
<1>4. ArgTypes' /\ BatchTypes'
  BY <1>1 DEF Typing, ArgTypes, BatchTypes
<1>5. \A l : Owned(l)' = Owned(l)
  BY <1>1 DEF Owned
<1>6. Tasks'
  BY <1>1, <1>5 DEF Tasks
<1>7. Batch'
  BY <1>1, <1>5 DEF Batch, Batched, InRound
<1>8. DecodeMessages'
  <2> SUFFICES ASSUME NEW l \in Others, NEW j \in 1 .. Len(toRank'[l]), toRank'[l][j].kind = "Decode"
               PROVE  /\ batch.kind = "Decode"
                      /\ \A i \in DOMAIN toRank'[l][j].items :
                           /\ toRank'[l][j].items[i].r \in ToSet(batch.lists[l])
                           /\ toRank'[l][j].items[i].status = "Normal" <=> toRank'[l][j].items[i].r \in batch.normal
    BY <1>1 DEF DecodeMessages, OfBatch
  <2>1. \E i \in 1 .. Len(toRank[l]) : toRank'[l][j] = toRank[l][i]
    BY <1>2
  <2>2. PICK i \in 1 .. Len(toRank[l]) : toRank'[l][j] = toRank[l][i]
    BY <2>1
  <2>3. OfBatch(l, toRank[l][i])
    BY DEF DecodeMessages
  <2> QED
    BY <2>2, <2>3 DEF OfBatch
<1>9. ASSUME NEW l \in Others, NEW r \in Reqs, LeftOut(l, r) PROVE LeftOut(l, r)'
  <2>1. DecodeUnderWay(l, r)' => DecodeUnderWay(l, r)
    <3>1. CASE l = k
      BY <1>2, <3>1 DEF DecodeUnderWay
    <3>2. CASE l # k
      BY <1>2, <3>2 DEF DecodeUnderWay
    <3> QED
      BY <3>1, <3>2
  <2> QED
    BY <1>1, <1>9, <2>1 DEF LeftOut
<1> QED
  BY <1>3, <1>4, <1>6, <1>7, <1>8, <1>9

\* The copies fit when those of the rank that steps do.
LEMMA TakingCopies ==
  ASSUME Typing, Copies, NEW k \in Others, UNCHANGED args,
         \A l \in Others \ {k} : copy'[l] = copy[l] /\ kv'[l] = kv[l],
         \A l \in Others, r \in Reqs : LeftOut(l, r) => LeftOut(l, r)',
         \A r \in Reqs : \/ copy'[k][r] = copy[k][r] /\ kv'[k][r] = kv[k][r]
                         \/ CopyFits(k, r, copy[k][r], kv[k][r])'
  PROVE  Copies'
<1>1. ASSUME NEW l \in Others, NEW r \in Reqs, copy'[l][r] = copy[l][r], kv'[l][r] = kv[l][r]
      PROVE  CopyFits(l, r, copy[l][r], kv[l][r])'
  <2>1. CopyFits(l, r, copy[l][r], kv[l][r])
    BY DEF Copies
  <2>2. LeftOut(l, r) => LeftOut(l, r)'
    OBVIOUS
  <2> QED
    BY <1>1, <2>1, <2>2 DEF CopyFits
<1>2. ASSUME NEW l \in Others, NEW r \in Reqs PROVE CopyFits(l, r, copy[l][r], kv[l][r])'
  <2>1. CASE l # k
    BY <1>1, <2>1
  <2>2. CASE l = k
    <3>1. CopyFits(k, r, copy[k][r], kv[k][r])'
      BY <1>1
    <3> QED
      BY <2>2, <3>1 DEF CopyFits
  <2> QED
    BY <2>1, <2>2
<1> QED
  BY <1>2 DEF Copies

-----------------------------------------------------------------------------
(* What a message makes of the copies *)

\* What an operation on a copy changes.
LEMMA CopyChanges ==
  ASSUME NEW r \in Reqs, NEW cp \in CopyTypes, NEW tok \in Tokens, NEW n \in Nat
  PROVE  /\ SetGen(cp, tok) \in CopyTypes /\ SetGen(cp, tok).type = cp.type /\ SetGen(cp, tok).gen = tok
         /\ SetNext(cp, tok) \in CopyTypes /\ SetNext(cp, tok).type = cp.type /\ SetNext(cp, tok).next = tok
         /\ ConsumeReqTokens(r, cp, n) \in CopyTypes
         /\ ConsumeReqTokens(r, cp, n).type = IF cp.consumed + n = PromptLen[r] THEN "Decode" ELSE cp.type
<1>1. /\ cp = [type |-> cp.type, consumed |-> cp.consumed, next |-> cp.next, gen |-> cp.gen]
      /\ cp.type \in {"none", "Prefill", "Decode"} /\ cp.consumed \in Nat
      /\ cp.next \in Tokens /\ cp.gen \in Tokens
  BY DEF CopyTypes
<1>2. NoToken \in Tokens
  BY DEF NoToken, Tokens
<1>3. SetGen(cp, tok) = [type |-> cp.type, consumed |-> cp.consumed, next |-> cp.next, gen |-> tok]
  BY <1>1 DEF SetGen
<1>4. SetNext(cp, tok) = [type |-> cp.type, consumed |-> cp.consumed, next |-> tok, gen |-> NoToken]
  <2>1. PICK v : v = [cp EXCEPT !.next = tok]
    OBVIOUS
  <2>2. v = [type |-> cp.type, consumed |-> cp.consumed, next |-> tok, gen |-> cp.gen]
    BY <1>1, <2>1
  <2>3. SetNext(cp, tok) = [v EXCEPT !.gen = NoToken]
    BY <2>1 DEF SetNext
  <2> QED
    BY <2>2, <2>3
<1>5. ConsumeReqTokens(r, cp, n) =
        [type |-> IF cp.consumed + n = PromptLen[r] THEN "Decode" ELSE cp.type,
         consumed |-> cp.consumed + n, next |-> cp.next, gen |-> cp.gen]
  <2>1. PICK v : v = [cp EXCEPT !.consumed = @ + n]
    OBVIOUS
  <2>2. v = [type |-> cp.type, consumed |-> cp.consumed + n, next |-> cp.next, gen |-> cp.gen]
    BY <1>1, <2>1
  <2>3. ConsumeReqTokens(r, cp, n) =
          [v EXCEPT !.type = IF cp.consumed + n = PromptLen[r] THEN "Decode" ELSE @]
    BY <2>1 DEF ConsumeReqTokens
  <2> QED
    BY <2>2, <2>3
<1>6. cp.consumed + n \in Nat
  BY <1>1
<1> QED
  BY <1>1, <1>2, <1>3, <1>4, <1>5, <1>6 DEF CopyTypes

\* The task a rank prefills, one it knows or a new one.
LEMMA PrefillCopyFacts ==
  ASSUME NEW k \in Others, NEW r \in Reqs, copy[k][r] \in CopyTypes, ItemOf(k, r).consumed \in Nat,
         copy[k][r] = NoCopy \/ copy[k][r].type = "Prefill"
  PROVE  /\ PrefillCopy(k, r) \in CopyTypes /\ PrefillCopy(k, r).type = "Prefill"
         /\ PrefillCopy(k, r).consumed = ItemOf(k, r).consumed
<1>1. PICK cp : cp = IF copy[k][r] = NoCopy THEN NewCopy ELSE copy[k][r]
  OBVIOUS
<1>2. NoToken \in Tokens
  BY DEF NoToken, Tokens
<1>3. NewCopy = [type |-> "Prefill", consumed |-> 0, next |-> NoToken, gen |-> NoToken]
  BY DEF NewCopy, NoCopy
<1>4. cp \in CopyTypes /\ cp.type = "Prefill"
  BY <1>1, <1>2, <1>3 DEF CopyTypes
<1>5. PrefillCopy(k, r) = [cp EXCEPT !.consumed = ItemOf(k, r).consumed]
  BY <1>1 DEF PrefillCopy
<1>6. PrefillCopy(k, r) = [type |-> "Prefill", consumed |-> ItemOf(k, r).consumed, next |-> cp.next, gen |-> cp.gen]
  BY <1>4, <1>5 DEF CopyTypes
<1> QED
  BY <1>4, <1>6 DEF CopyTypes

\* The token of each task of a list.
LEMMA TokensOf ==
  ASSUME NEW list \in Seq(Reqs), NEW token, \A r \in ToSet(list) : token[r] \in Tokens,
         NEW tokens, tokens = [i \in DOMAIN list |-> token[list[i]]]
  PROVE  /\ tokens \in Seq(Tokens)
         /\ \A r \in ToSet(list) : tokens[CHOOSE i \in DOMAIN list : list[i] = r] = token[r]
<1>1. DOMAIN list = 1 .. Len(list) /\ Len(list) \in Nat
  BY LenProperties
<1>2. \A i \in DOMAIN list : list[i] \in ToSet(list)
  BY DEF ToSet
<1>3. tokens \in [1 .. Len(list) -> Tokens]
  BY <1>1, <1>2
<1>4. tokens \in Seq(Tokens)
  BY <1>1, <1>3, SeqDef
<1>5. ASSUME NEW r \in ToSet(list)
      PROVE  tokens[CHOOSE i \in DOMAIN list : list[i] = r] = token[r]
  <2>1. \E i \in DOMAIN list : list[i] = r
    BY DEF ToSet
  <2>2. PICK c : c = CHOOSE i \in DOMAIN list : list[i] = r
    OBVIOUS
  <2>3. c \in DOMAIN list /\ list[c] = r
    BY <2>1, <2>2
  <2> QED
    BY <2>2, <2>3
<1> QED
  BY <1>4, <1>5

\* The requests a message names.
LEMMA ListedFacts ==
  ASSUME Typing, Courses, Copies, NEW k \in Others, toRank[k] # <<>>
  PROVE  /\ Listed(k) \in Seq(Reqs)
         /\ DOMAIN Listed(k) = DOMAIN Items(k) /\ \A i \in DOMAIN Items(k) : Listed(k)[i] = Items(k)[i].r
         /\ \A r : r \in ToSet(Listed(k)) <=> \E i \in DOMAIN Items(k) : Items(k)[i].r = r
         /\ \A r \in ToSet(Listed(k)) : \E i \in DOMAIN Items(k) : ItemOf(k, r) = Items(k)[i] /\ Items(k)[i].r = r
<1>1. PICK m : m = Head(toRank[k])
  OBVIOUS
<1>2. m \in Messages /\ Items(k) = m.items
  BY <1>1, HeadOfCourse DEF Items
<1>3. \A i \in DOMAIN m.items : m.items[i].r \in Reqs
  BY <1>2, ItemTypes
<1>4. m.items \in Seq(PrefillItems) \/ m.items \in Seq(DecodeItems) \/ m.items \in Seq(EndItems)
  BY <1>2, ItemTypes
<1>5. DOMAIN m.items = 1 .. Len(m.items) /\ Len(m.items) \in Nat
  BY <1>4, LenProperties
<1>6. Listed(k) = [i \in DOMAIN m.items |-> m.items[i].r]
  BY <1>2 DEF Listed, Mapped
<1>7. Listed(k) \in [1 .. Len(m.items) -> Reqs]
  BY <1>3, <1>5, <1>6
<1>8. Listed(k) \in Seq(Reqs)
  BY <1>5, <1>7, SeqDef
<1>9. \A r : r \in ToSet(Listed(k)) <=> \E i \in DOMAIN Items(k) : Items(k)[i].r = r
  BY <1>2, <1>6 DEF ToSet
<1>10. ASSUME NEW r \in ToSet(Listed(k))
       PROVE  \E i \in DOMAIN Items(k) : ItemOf(k, r) = Items(k)[i] /\ Items(k)[i].r = r
  <2>1. \E x \in ToSet(Items(k)) : x.r = r
    BY <1>9 DEF ToSet
  <2>2. ItemOf(k, r) \in ToSet(Items(k)) /\ ItemOf(k, r).r = r
    BY <2>1 DEF ItemOf
  <2> QED
    BY <2>2 DEF ToSet
<1> QED
  BY <1>2, <1>6, <1>8, <1>9, <1>10

\* A rank takes a message as its course says.
Takes(k) ==
  /\ toRank[k] # <<>> /\ toRank' = [toRank EXCEPT ![k] = Tail(@)]
  /\ UNCHANGED <<args, mainVars>>
  /\ IF IsReply(Head(toRank[k])) THEN \E tokens \in Seq(Tokens) : toMain' = [toMain EXCEPT ![k] = Append(@, tokens)]
                                 ELSE toMain' = toMain
  /\ kv' \in [Ranks -> [Reqs -> Nat]] /\ \A l \in Ranks \ {k} : kv'[l] = kv[l]
  /\ copy' \in [Others -> [Reqs -> CopyTypes]] /\ \A l \in Others \ {k} : copy'[l] = copy[l]
  /\ \A r \in Reqs : \/ copy'[k][r] = copy[k][r] /\ kv'[k][r] = kv[k][r]
                     \/ CopyFits(k, r, copy[k][r], kv[k][r])'
  /\ \A next \in [Reqs -> Nat] :
       Advance(Head(toRank[k]), CachedPrompts(k), next) =>
         \A r \in Reqs : next[r] = Smaller(kv'[k][r], PromptLen[r])

\* Such a step keeps the invariant.
LEMMA TakingMain ==
  ASSUME IInv, NEW k \in Others, Takes(k)
  PROVE  IInv'
<1>1. /\ Typing /\ Tasks /\ Batch /\ Rounds /\ DecodeMessages /\ Courses /\ Copies
      /\ ArgTypes /\ PoolTypes /\ BatchTypes /\ RankTypes
  BY DEF IInv, Typing
<1>2. k \in Ranks /\ k # 0 /\ 0 \in Ranks /\ Others \subseteq Ranks
  BY Assumed
<1>3. /\ toRank[k] # <<>> /\ toRank' = [toRank EXCEPT ![k] = Tail(@)]
      /\ UNCHANGED <<args, mainVars>>
      /\ kv' \in [Ranks -> [Reqs -> Nat]] /\ kv'[0] = kv[0]
      /\ \A l \in Others \ {k} : kv'[l] = kv[l]
      /\ copy' \in [Others -> [Reqs -> CopyTypes]] /\ \A l \in Others \ {k} : copy'[l] = copy[l]
  BY <1>2 DEF Takes
<1>4. IF IsReply(Head(toRank[k])) THEN \E tokens \in Seq(Tokens) : toMain' = [toMain EXCEPT ![k] = Append(@, tokens)]
                                  ELSE toMain' = toMain
  BY DEF Takes
<1>5. UNCHANGED args /\ UNCHANGED <<args, task, pool, pc, batch>>
  BY <1>3 DEF mainVars
<1>6. Rounds' /\ toMain' \in [Others -> Seq(Seq(Tokens))]
  BY <1>1, <1>3, <1>4, TakingRounds
<1>7. toRank' \in [Others -> Seq(Messages)]
  BY <1>1, <1>3, TailMessages
<1>8. RankTypes'
  BY <1>3, <1>6, <1>7 DEF RankTypes
<1>9. /\ ArgTypes' /\ PoolTypes' /\ BatchTypes' /\ Tasks' /\ Batch' /\ DecodeMessages'
      /\ \A l \in Others, r \in Reqs : LeftOut(l, r) => LeftOut(l, r)'
  BY <1>1, <1>3, TakingRest
<1>10. Copies'
  <2>1. \A r \in Reqs : \/ copy'[k][r] = copy[k][r] /\ kv'[k][r] = kv[k][r]
                        \/ CopyFits(k, r, copy[k][r], kv[k][r])'
    BY DEF Takes
  <2>2. \A l \in Others \ {k} : copy'[l] = copy[l] /\ kv'[l] = kv[l]
    BY <1>3
  <2> QED
    BY <1>1, <1>5, <1>9, <2>1, <2>2, TakingCopies
<1>11. Courses'
  <2>1. CachedPrompts(k)' = [r \in Reqs |-> Smaller(kv'[k][r], PromptLen[r])]
    BY DEF CachedPrompts
  <2>2. ASSUME NEW next \in [Reqs -> Nat], Advance(Head(toRank[k]), CachedPrompts(k), next)
        PROVE  CachedPrompts(k)' = next
    <3>1. \A r \in Reqs : next[r] = Smaller(kv'[k][r], PromptLen[r])
      BY <2>2 DEF Takes
    <3>2. next = [r \in Reqs |-> next[r]]
      OBVIOUS
    <3> QED
      BY <2>1, <3>1, <3>2
  <2> QED
    BY <1>1, <1>3, <1>5, <2>2, TakingCourses
<1>12. Typing'
  BY <1>8, <1>9 DEF Typing
<1> QED
  BY <1>6, <1>9, <1>10, <1>11, <1>12 DEF IInv

\* RankEndTask keeps the invariant.
LEMMA EndTaskIInv ==
  ASSUME IInv, NEW k \in Others, RankEndTask(k)
  PROVE  IInv'
<1> DEFINE m == Head(toRank[k])
           gone(r) == r \in ToSet(Listed(k))
           cp == [r \in Reqs |-> IF gone(r) THEN NoCopy ELSE copy[k][r]]
           n == [r \in Reqs |-> IF gone(r) THEN 0 ELSE kv[k][r]]
<1>1. /\ Typing /\ Courses /\ Copies /\ RankTypes
  BY DEF IInv, Typing
<1>2. /\ toRank[k] # <<>> /\ m.kind = "EndTask"
      /\ copy' = [copy EXCEPT ![k] = [r \in Reqs |-> IF gone(r) THEN NoCopy ELSE @[r]]]
      /\ kv' = [kv EXCEPT ![k] = [r \in Reqs |-> IF gone(r) THEN 0 ELSE @[r]]]
      /\ toRank' = [toRank EXCEPT ![k] = Tail(@)]
      /\ UNCHANGED <<args, mainVars>> /\ toMain' = toMain
  BY DEF RankEndTask, Received
<1>3. /\ \A r : gone(r) <=> \E i \in DOMAIN m.items : m.items[i].r = r
  BY <1>1, <1>2, ListedFacts DEF Items
<1>4. /\ copy[k] \in [Reqs -> CopyTypes] /\ kv[k] \in [Reqs -> Nat] /\ k \in Ranks
      /\ \A r \in Reqs : PromptLen[r] \in Nat \ {0}
  BY <1>1, Assumed DEF RankTypes
<1>5. NoCopy \in CopyTypes
  BY DEF NoCopy, NoToken, CopyTypes, Tokens
<1>6. cp \in [Reqs -> CopyTypes] /\ n \in [Reqs -> Nat]
  BY <1>4, <1>5
<1>7. copy' = [copy EXCEPT ![k] = cp] /\ kv' = [kv EXCEPT ![k] = n]
  BY <1>1, <1>2, <1>4 DEF RankTypes
<1>8. \A r \in Reqs : \/ cp[r] = copy[k][r] /\ n[r] = kv[k][r]
                      \/ CopyFits(k, r, copy[k][r], kv[k][r])'
  <2> TAKE r \in Reqs
  <2>1. CASE ~gone(r)
    BY <2>1
  <2>2. CASE gone(r)
    <3>1. kv'[k][r] = 0 /\ copy'[k][r] = NoCopy
      BY <1>1, <1>4, <1>7, <2>2 DEF RankTypes
    <3> QED
      BY <1>4, <3>1 DEF CopyFits
  <2> QED
    BY <2>1, <2>2
<1>9. ASSUME NEW next \in [Reqs -> Nat], Advance(m, CachedPrompts(k), next), NEW r \in Reqs
      PROVE  next[r] = Smaller(n[r], PromptLen[r])
  <2>1. next[r] = IF gone(r) THEN 0 ELSE CachedPrompts(k)[r]
    BY <1>2, <1>3, <1>9 DEF Advance
  <2> QED
    BY <1>4, <2>1 DEF CachedPrompts, Smaller
<1>10. ~IsReply(m)
  BY <1>2 DEF IsReply
<1>11. /\ kv' \in [Ranks -> [Reqs -> Nat]] /\ kv'[k] = n /\ \A l \in Ranks \ {k} : kv'[l] = kv[l]
       /\ copy' \in [Others -> [Reqs -> CopyTypes]] /\ copy'[k] = cp /\ \A l \in Others \ {k} : copy'[l] = copy[l]
  BY <1>1, <1>4, <1>6, <1>7 DEF RankTypes
<1> HIDE DEF cp, n, gone
<1>12. Takes(k)
  BY <1>2, <1>8, <1>9, <1>10, <1>11 DEF Takes
<1> QED
  BY <1>12, TakingMain

\* What the step of a prompt makes of the copy of its task.
LEMMA PrefillSteps ==
  ASSUME IInv, NEW k \in Others, toRank[k] # <<>>, Head(toRank[k]).kind = "Prefill",
         NEW r \in Reqs, r \in ToSet(Listed(k))
  PROVE  /\ ItemOf(k, r).consumed = kv[k][r] /\ ItemOf(k, r).take \in Nat /\ ItemOf(k, r).take > 0
         /\ kv[k][r] + ItemOf(k, r).take <= PromptLen[r]
         /\ PrefillCopy(k, r) \in CopyTypes /\ PrefillCopy(k, r).type = "Prefill"
         /\ PrefillCopy(k, r).consumed = kv[k][r]
<1>1. Typing /\ Courses /\ Copies
  BY DEF IInv
<1>2. PICK i \in DOMAIN Items(k) : ItemOf(k, r) = Items(k)[i] /\ Items(k)[i].r = r
  BY <1>1, ListedFacts
<1>3. PICK x : x = Items(k)[i]
  OBVIOUS
<1>4. /\ x \in PrefillItems /\ kv[k][r] = x.consumed /\ x.take > 0 /\ x.consumed + x.take <= PromptLen[r]
      /\ IF kv[k][r] = 0 THEN copy[k][r] = NoCopy ELSE copy[k][r].type = "Prefill"
  BY <1>1, <1>2, <1>3, PrefillNews
<1>5. x.consumed \in Nat /\ x.take \in Nat
  BY <1>4 DEF PrefillItems
<1>6. copy[k][r] \in CopyTypes
  BY <1>1, CachedFacts
<1>7. /\ PrefillCopy(k, r) \in CopyTypes /\ PrefillCopy(k, r).type = "Prefill"
      /\ PrefillCopy(k, r).consumed = x.consumed
  BY <1>2, <1>3, <1>4, <1>5, <1>6, PrefillCopyFacts
<1> QED
  BY <1>2, <1>3, <1>4, <1>5, <1>7

\* What a rank makes of the prompts of a message.
LEMMA PrefillIInv ==
  ASSUME IInv, NEW k \in Others, RankPrefill(k)
  PROVE  IInv'
<1> DEFINE m == Head(toRank[k])
           list == Listed(k)
           in(r) == r \in ToSet(list)
           known == [r \in Reqs |-> IF in(r) THEN PrefillCopy(k, r) ELSE copy[k][r]]
           outputs == Filtered(list, {r \in ToSet(list) :
                                       known[r].consumed + ItemOf(k, r).take = PromptLen[r]})
           consumed == [r \in Reqs |-> IF in(r) THEN ConsumeReqTokens(r, known[r], ItemOf(k, r).take)
                                                ELSE known[r]]
           n == [r \in Reqs |-> IF in(r) THEN kv[k][r] + ItemOf(k, r).take ELSE kv[k][r]]
           ended(E) == Ended(outputs, E, LAMBDA r : AfterPrompt(r, known[r], kv[k][r]))
<1>1. Typing /\ Courses /\ Copies /\ RankTypes
  BY DEF IInv, Typing
<1>2. /\ toRank[k] # <<>> /\ m.kind = "Prefill"
      /\ kv' = [kv EXCEPT ![k] = [r \in Reqs |-> IF in(r) THEN @[r] + ItemOf(k, r).take ELSE @[r]]]
      /\ \E E \in Endings(outputs) :
           IF args.overlap
           THEN /\ copy' = [copy EXCEPT ![k] = Stored(consumed, outputs, ended(E), SetGen)]
                /\ UNCHANGED toMain
           ELSE /\ copy' = [copy EXCEPT ![k] = Stored(consumed, outputs, ended(E), SetNext)]
                /\ toMain' = [toMain EXCEPT ![k] = Append(@, ended(E))]
      /\ toRank' = [toRank EXCEPT ![k] = Tail(@)]
      /\ UNCHANGED <<args, mainVars>>
  BY DEF RankPrefill, Received
<1>3. PICK E \in Endings(outputs) :
           IF args.overlap
           THEN /\ copy' = [copy EXCEPT ![k] = Stored(consumed, outputs, ended(E), SetGen)]
                /\ UNCHANGED toMain
           ELSE /\ copy' = [copy EXCEPT ![k] = Stored(consumed, outputs, ended(E), SetNext)]
                /\ toMain' = [toMain EXCEPT ![k] = Append(@, ended(E))]
  BY <1>2
<1>4. /\ copy[k] \in [Reqs -> CopyTypes] /\ kv[k] \in [Reqs -> Nat] /\ k \in Ranks
      /\ \A r \in Reqs : PromptLen[r] \in Nat \ {0}
  BY <1>1, Assumed DEF RankTypes
<1>5. \A r \in Reqs : in(r) =>
         /\ ItemOf(k, r).consumed = kv[k][r] /\ ItemOf(k, r).take \in Nat /\ ItemOf(k, r).take > 0
         /\ kv[k][r] + ItemOf(k, r).take <= PromptLen[r]
         /\ known[r] \in CopyTypes /\ known[r].type = "Prefill" /\ known[r].consumed = kv[k][r]
  <2> TAKE r \in Reqs
  <2> SUFFICES ASSUME in(r)
               PROVE  /\ ItemOf(k, r).consumed = kv[k][r] /\ ItemOf(k, r).take \in Nat /\ ItemOf(k, r).take > 0
                      /\ kv[k][r] + ItemOf(k, r).take <= PromptLen[r]
                      /\ known[r] \in CopyTypes /\ known[r].type = "Prefill" /\ known[r].consumed = kv[k][r]
    OBVIOUS
  <2>1. known[r] = PrefillCopy(k, r)
    OBVIOUS
  <2> HIDE DEF known
  <2> QED
    BY <1>2, <2>1, PrefillSteps
<1>6. list \in Seq(Reqs) /\ \A r : in(r) => r \in Reqs
  <2>1. list \in Seq(Reqs)
    BY <1>1, <1>2, ListedFacts
  <2> QED
    BY <2>1, <1>1, <1>2, ListedFacts, ElementOfSeq, LenProperties DEF ToSet
<1>7. /\ outputs \in Seq(Reqs)
      /\ \A r : r \in ToSet(outputs) <=> in(r) /\ kv[k][r] + ItemOf(k, r).take = PromptLen[r]
  <2> DEFINE S == {r \in ToSet(list) : known[r].consumed + ItemOf(k, r).take = PromptLen[r]}
  <2>1. outputs = Filtered(list, S)
    OBVIOUS
  <2>2. \A r : r \in S <=> in(r) /\ kv[k][r] + ItemOf(k, r).take = PromptLen[r]
    BY <1>5, <1>6
  <2> HIDE DEF S, outputs, known
  <2>3. outputs \in Seq(Reqs) /\ ToSet(outputs) = {x \in ToSet(list) : x \in S}
    BY <1>6, <2>1, FilteredFacts
  <2> QED
    BY <2>2, <2>3
<1>8. n \in [Reqs -> Nat] /\ \A r \in Reqs : n[r] = IF in(r) THEN kv[k][r] + ItemOf(k, r).take ELSE kv[k][r]
  <2>1. \A r \in Reqs : n[r] \in Nat
    BY <1>4, <1>5
  <2> QED
    BY <2>1
<1>9. kv' = [kv EXCEPT ![k] = n]
  BY <1>1, <1>2, <1>4 DEF RankTypes
<1>10. kv' \in [Ranks -> [Reqs -> Nat]] /\ kv'[k] = n /\ \A l \in Ranks \ {k} : kv'[l] = kv[l]
  <2> HIDE DEF n
  <2> QED
    BY <1>1, <1>4, <1>8, <1>9 DEF RankTypes
<1> DEFINE token == [r \in Reqs |-> [of |-> r, pos |-> 1, eos |-> r \in E]]
<1>11. \A r \in Reqs : token[r] \in Tokens
  <2> TAKE r \in Reqs
  <2>1. CASE r \in E
    <3>1. (r \in E) = TRUE
      BY <2>1, Zenon
    <3>2. token[r] = [of |-> r, pos |-> 1, eos |-> TRUE]
      BY <3>1, Zenon
    <3> QED
      BY <3>2 DEF Tokens
  <2>2. CASE ~(r \in E)
    <3>1. (r \in E) = FALSE
      BY <2>2, SMT
    <3>2. token[r] = [of |-> r, pos |-> 1, eos |-> FALSE]
      BY <3>1, Zenon
    <3> QED
      BY <3>2 DEF Tokens
  <2> QED
    BY <2>1, <2>2
<1>12. ended(E) = [i \in DOMAIN outputs |-> token[outputs[i]]]
  <2>1. \A r \in ToSet(outputs) : [AfterPrompt(r, known[r], kv[k][r]) EXCEPT !.eos = r \in E] = token[r]
    <3> TAKE r \in ToSet(outputs)
    <3>1. r \in Reqs /\ known[r].consumed = kv[k][r]
      BY <1>5, <1>6, <1>7
    <3>2. AfterPrompt(r, known[r], kv[k][r]) = [of |-> r, pos |-> 1, eos |-> FALSE]
      BY <3>1 DEF AfterPrompt
    <3>3. token[r] = [of |-> r, pos |-> 1, eos |-> r \in E]
      BY <3>1, Zenon
    <3> HIDE DEF token, known
    <3>4. PICK e : e = (r \in E)
      OBVIOUS
    <3>5. [AfterPrompt(r, known[r], kv[k][r]) EXCEPT !.eos = e] = [of |-> r, pos |-> 1, eos |-> e]
      BY <3>2
    <3> QED
      BY <3>3, <3>4, <3>5, Zenon
  <2>2. \A i \in DOMAIN outputs : outputs[i] \in ToSet(outputs)
    BY DEF ToSet
  <2> HIDE DEF outputs, token, known
  <2> QED
    BY <2>1, <2>2 DEF Ended, Mapped
<1>13. PICK tokens : tokens = ended(E)
  OBVIOUS
<1>14. /\ tokens \in Seq(Tokens)
       /\ \A r \in ToSet(outputs) : tokens[CHOOSE i \in DOMAIN outputs : outputs[i] = r] = token[r]
  <2>1. \A r \in ToSet(outputs) : token[r] \in Tokens
    BY <1>6, <1>7, <1>11
  <2>2. tokens = [i \in DOMAIN outputs |-> token[outputs[i]]]
    <3> HIDE DEF outputs, token, ended
    <3> QED
      BY <1>12, <1>13
  <2>3. outputs \in Seq(Reqs)
    BY <1>7
  <2> HIDE DEF outputs, token, ended
  <2> QED
    BY <2>1, <2>2, <2>3, TokensOf
\* The copies afterwards.
<1> DEFINE cp == [r \in Reqs |-> IF r \in ToSet(outputs)
                                 THEN IF args.overlap THEN SetGen(consumed[r], token[r])
                                                      ELSE SetNext(consumed[r], token[r])
                                 ELSE consumed[r]]
<1>15. copy' = [copy EXCEPT ![k] = cp]
  <2>1. CASE args.overlap
    <3>1. copy' = [copy EXCEPT ![k] = Stored(consumed, outputs, tokens, SetGen)]
      BY <1>3, <1>13, <2>1
    <3>2. Stored(consumed, outputs, tokens, SetGen) = cp
      <4>1. Stored(consumed, outputs, tokens, SetGen) =
              [r \in Reqs |-> IF r \in ToSet(outputs)
                              THEN SetGen(consumed[r], tokens[CHOOSE i \in DOMAIN outputs : outputs[i] = r])
                              ELSE consumed[r]]
        <5> HIDE DEF consumed, outputs
        <5> QED
          BY DEF Stored
      <4>2. cp = [r \in Reqs |-> IF r \in ToSet(outputs) THEN SetGen(consumed[r], token[r]) ELSE consumed[r]]
        BY <2>1
      <4> HIDE DEF consumed, outputs, token, cp
      <4> QED
        BY <1>14, <4>1, <4>2
    <3> QED
      BY <3>1, <3>2
  <2>2. CASE ~args.overlap
    <3>1. copy' = [copy EXCEPT ![k] = Stored(consumed, outputs, tokens, SetNext)]
      BY <1>3, <1>13, <2>2
    <3>2. Stored(consumed, outputs, tokens, SetNext) = cp
      <4>1. Stored(consumed, outputs, tokens, SetNext) =
              [r \in Reqs |-> IF r \in ToSet(outputs)
                              THEN SetNext(consumed[r], tokens[CHOOSE i \in DOMAIN outputs : outputs[i] = r])
                              ELSE consumed[r]]
        <5> HIDE DEF consumed, outputs
        <5> QED
          BY DEF Stored
      <4>2. cp = [r \in Reqs |-> IF r \in ToSet(outputs) THEN SetNext(consumed[r], token[r]) ELSE consumed[r]]
        BY <2>2
      <4> HIDE DEF consumed, outputs, token, cp
      <4> QED
        BY <1>14, <4>1, <4>2
    <3> QED
      BY <3>1, <3>2
  <2> QED
    BY <2>1, <2>2
<1>16. \A r \in Reqs : /\ consumed[r] \in CopyTypes
                       /\ in(r) => consumed[r].type = IF n[r] = PromptLen[r] THEN "Decode" ELSE "Prefill"
                       /\ ~in(r) => consumed[r] = copy[k][r]
  <2> TAKE r \in Reqs
  <2>1. CASE in(r)
    <3>1. PICK t : t = known[r]
      OBVIOUS
    <3>2. PICK take \in Nat : take = ItemOf(k, r).take
      BY <1>5, <2>1
    <3>3. t \in CopyTypes /\ t.type = "Prefill" /\ t.consumed = kv[k][r] /\ n[r] = kv[k][r] + take
      BY <1>5, <1>8, <2>1, <3>1, <3>2
    <3>4. consumed[r] = ConsumeReqTokens(r, t, take)
      BY <2>1, <3>1, <3>2
    <3>5. NoToken \in Tokens
      BY DEF NoToken, Tokens
    <3> HIDE DEF consumed, known, n
    <3>6. /\ ConsumeReqTokens(r, t, take) \in CopyTypes
          /\ ConsumeReqTokens(r, t, take).type = IF t.consumed + take = PromptLen[r] THEN "Decode" ELSE t.type
      BY <3>3, <3>5, CopyChanges
    <3> QED
      BY <2>1, <3>3, <3>4, <3>6
  <2>2. CASE ~in(r)
    BY <1>4, <2>2
  <2> QED
    BY <2>1, <2>2
<1>17. \A r \in Reqs : /\ cp[r] \in CopyTypes /\ cp[r].type = consumed[r].type
                       /\ r \notin ToSet(outputs) => cp[r] = consumed[r]
                       /\ r \in ToSet(outputs) => (IF args.overlap THEN cp[r].gen ELSE cp[r].next) = token[r]
  <2> TAKE r \in Reqs
  <2>1. PICK t \in CopyTypes : t = consumed[r]
    BY <1>16
  <2>2. PICK tok \in Tokens : tok = token[r]
    BY <1>11
  <2>3. cp[r] = IF r \in ToSet(outputs) THEN IF args.overlap THEN SetGen(t, tok) ELSE SetNext(t, tok) ELSE t
    BY <2>1, <2>2
  <2>4. /\ SetGen(t, tok) \in CopyTypes /\ SetGen(t, tok).type = t.type /\ SetGen(t, tok).gen = tok
        /\ SetNext(t, tok) \in CopyTypes /\ SetNext(t, tok).type = t.type /\ SetNext(t, tok).next = tok
    BY CopyChanges
  <2> HIDE DEF cp, consumed, token, outputs
  <2> QED
    BY <2>1, <2>2, <2>3, <2>4
<1>18. copy' \in [Others -> [Reqs -> CopyTypes]] /\ copy'[k] = cp /\ \A l \in Others \ {k} : copy'[l] = copy[l]
  <2>1. cp \in [Reqs -> CopyTypes]
    BY <1>17
  <2> HIDE DEF cp
  <2> QED
    BY <1>1, <1>15, <2>1 DEF RankTypes
<1>19. \A r \in Reqs : \/ copy'[k][r] = copy[k][r] /\ kv'[k][r] = kv[k][r]
                       \/ CopyFits(k, r, copy[k][r], kv[k][r])'
  <2> TAKE r \in Reqs
  <2>1. CASE ~in(r)
    <3>1. n[r] = kv[k][r] /\ r \notin ToSet(outputs)
      BY <1>7, <1>8, <2>1
    <3>2. cp[r] = copy[k][r]
      <4> HIDE DEF cp, consumed, outputs, n
      <4> QED
        BY <1>16, <1>17, <2>1, <3>1
    <3> HIDE DEF cp, n
    <3> QED
      BY <1>10, <1>18, <3>1, <3>2
  <2>2. CASE in(r)
    <3>1. n[r] > 0 /\ n[r] <= PromptLen[r] /\ (r \in ToSet(outputs) <=> n[r] = PromptLen[r])
      <4>1. PICK take : take = ItemOf(k, r).take
        OBVIOUS
      <4>2. take \in Nat /\ take > 0 /\ kv[k][r] + take <= PromptLen[r] /\ kv[k][r] \in Nat
        BY <1>4, <1>5, <2>2, <4>1
      <4>3. n[r] = kv[k][r] + take
        BY <1>8, <2>2, <4>1
      <4> HIDE DEF n, outputs, in
      <4>4. r \in ToSet(outputs) <=> kv[k][r] + take = PromptLen[r]
        BY <1>7, <2>2, <4>1
      <4> QED
        BY <4>2, <4>3, <4>4
    <3>2. cp[r].type = IF n[r] = PromptLen[r] THEN "Decode" ELSE "Prefill"
      <4> HIDE DEF cp, consumed, outputs, n
      <4> QED
        BY <1>16, <1>17, <2>2
    <3>3. n[r] = PromptLen[r] => Newest(r, n[r], IF args.overlap THEN cp[r].gen ELSE cp[r].next)
      <4>1. token[r].of = r /\ token[r].pos = 1
        OBVIOUS
      <4> HIDE DEF cp, consumed, outputs, n, token
      <4> QED
        BY <1>4, <1>17, <3>1, <4>1 DEF Newest
    <3>4. cp[r] # NoCopy
      <4>1. NoCopy.type = "none"
        BY DEF NoCopy
      <4> HIDE DEF cp, n
      <4> QED
        BY <3>2, <4>1
    <3>5. n[r] \in Nat /\ PromptLen[r] \in Nat /\ args' = args
      BY <1>2, <1>4, <1>8
    <3> HIDE DEF cp, n, outputs
    <3>6. copy'[k][r] = cp[r] /\ kv'[k][r] = n[r]
      BY <1>10, <1>18
    <3>7. PICK c : c = cp[r]
      OBVIOUS
    <3>8. PICK q : q = n[r]
      OBVIOUS
    <3>9. /\ q \in Nat /\ q > 0 /\ q <= PromptLen[r] /\ c # NoCopy
          /\ c.type = IF q = PromptLen[r] THEN "Decode" ELSE "Prefill"
          /\ q = PromptLen[r] => Newest(r, q, IF args.overlap THEN c.gen ELSE c.next)
          /\ copy'[k][r] = c /\ kv'[k][r] = q
      BY <3>1, <3>2, <3>3, <3>4, <3>5, <3>6, <3>7, <3>8
    <3>10. CopyFits(k, r, copy[k][r], kv[k][r])'
      BY <3>5, <3>9 DEF CopyFits, Newest
    <3> QED
      BY <3>10
  <2> QED
    BY <2>1, <2>2
<1>20. ASSUME NEW next \in [Reqs -> Nat], Advance(m, CachedPrompts(k), next), NEW r \in Reqs
       PROVE  next[r] = Smaller(n[r], PromptLen[r])
  <2>1. CachedPrompts(k)[r] = Smaller(kv[k][r], PromptLen[r])
    BY DEF CachedPrompts
  <2>2. CASE ~in(r)
    <3>1. \A i \in DOMAIN m.items : m.items[i].r # r
      BY <1>1, <1>2, <2>2, ListedFacts DEF Items
    <3>2. next[r] = CachedPrompts(k)[r]
      BY <1>2, <1>20, <3>1 DEF Advance
    <3> QED
      BY <1>8, <2>1, <2>2, <3>2
  <2>3. CASE in(r)
    <3>1. PICK i \in DOMAIN Items(k) : ItemOf(k, r) = Items(k)[i] /\ Items(k)[i].r = r
      BY <1>1, <1>2, <2>3, ListedFacts
    <3>2. next[r] = ItemOf(k, r).consumed + ItemOf(k, r).take
      <4>1. PICK x : x = Items(k)[i]
        OBVIOUS
      <4>2. Items(k) = m.items /\ x.r = r
        BY <3>1, <4>1 DEF Items
      <4>3. next[x.r] = x.consumed + x.take
        BY <1>2, <1>20, <3>1, <4>1, <4>2 DEF Advance
      <4> QED
        BY <3>1, <4>1, <4>2, <4>3
    <3>3. next[r] = n[r] /\ n[r] <= PromptLen[r]
      BY <1>5, <1>8, <2>3, <3>2
    <3> HIDE DEF n
    <3> QED
      BY <3>3 DEF Smaller
  <2> QED
    BY <2>2, <2>3
<1>21. IF IsReply(m) THEN \E y \in Seq(Tokens) : toMain' = [toMain EXCEPT ![k] = Append(@, y)]
                     ELSE toMain' = toMain
  <2>1. IsReply(m) <=> ~args.overlap
    BY <1>2 DEF IsReply
  <2>2. CASE args.overlap
    BY <1>3, <2>1, <2>2
  <2>3. CASE ~args.overlap
    <3>1. toMain' = [toMain EXCEPT ![k] = Append(@, tokens)]
      BY <1>3, <1>13, <2>3
    <3> QED
      BY <1>14, <2>1, <2>3, <3>1
  <2> QED
    BY <2>2, <2>3
<1>22. Takes(k)
  <2>1. kv'[k] = n
    BY <1>10
  <2> HIDE DEF n, cp, in
  <2> QED
    BY <1>2, <1>10, <1>18, <1>19, <1>20, <1>21, <2>1 DEF Takes
<1> QED
  BY <1>22, TakingMain

\* The newest token of a task whose rank decodes it.
Current(k, r) == IF args.overlap THEN copy[k][r].gen ELSE copy[k][r].next

\* What a rank finds when it is to decode a request.
LEMMA DecodeSteps ==
  ASSUME IInv, NEW k \in Others, toRank[k] # <<>>, Head(toRank[k]).kind = "Decode",
         NEW r \in Reqs, r \in ToSet(Listed(k))
  PROVE  /\ copy[k][r] \in CopyTypes /\ copy[k][r].type = "Decode"
         /\ kv[k][r] \in Nat /\ PromptLen[r] \in Nat \ {0} /\ kv[k][r] >= PromptLen[r]
         /\ Current(k, r) \in Tokens /\ Newest(r, kv[k][r], Current(k, r))
         /\ batch.kind = "Decode" /\ r \in ToSet(batch.lists[k])
         /\ ItemOf(k, r).status = "Normal" <=> r \in batch.normal
<1>1. Typing /\ Courses /\ Copies /\ Batch /\ DecodeMessages
  BY DEF IInv
<1>2. PICK i \in DOMAIN Items(k) : ItemOf(k, r) = Items(k)[i] /\ Items(k)[i].r = r
  BY <1>1, ListedFacts
<1>3. /\ kv[k][r] >= PromptLen[r] /\ copy[k][r].type = "Decode"
      /\ Newest(r, kv[k][r], IF args.overlap THEN copy[k][r].gen ELSE copy[k][r].next)
      /\ batch.kind = "Decode" /\ r \in ToSet(batch.lists[k])
      /\ Items(k)[i].status = "Normal" <=> r \in batch.normal
  BY <1>1, <1>2, DecodeNews
<1>4. copy[k][r] \in CopyTypes /\ kv[k][r] \in Nat /\ PromptLen[r] \in Nat \ {0}
  BY <1>1, CachedFacts
<1>5. Current(k, r) \in Tokens
  BY <1>4 DEF Current, CopyTypes
<1> QED
  BY <1>2, <1>3, <1>4, <1>5 DEF Current

\* When all tasks of a list still hold a token, they give one each.
LEMMA GeneratedFacts ==
  ASSUME NEW tasks, NEW list \in Seq(Reqs),
         \A r \in ToSet(list) : tasks[r].gen \in Tokens /\ tasks[r].gen # NoToken
  PROVE  /\ Generated(tasks, list) \in Seq(Tokens)
         /\ \A r \in ToSet(list) : Generated(tasks, list)[CHOOSE i \in DOMAIN list : list[i] = r] = tasks[r].gen
<1> DEFINE S == {r \in Reqs : tasks[r].gen # NoToken}
           gens == [r \in Reqs |-> tasks[r].gen]
<1>1. \A i \in DOMAIN list : list[i] \in ToSet(list) /\ list[i] \in Reqs
  BY LenProperties, ElementOfSeq DEF ToSet
<1>2. ToSet(list) \subseteq Reqs
  BY <1>1 DEF ToSet
<1>3. ToSet(list) \subseteq S
  BY <1>2
<1>4. Generated(tasks, list) = [i \in DOMAIN Filtered(list, S) |-> tasks[Filtered(list, S)[i]].gen]
  BY DEF Generated, Mapped
<1>5. \A r \in ToSet(list) : gens[r] = tasks[r].gen /\ gens[r] \in Tokens
  BY <1>2
<1> HIDE DEF S, gens
<1>6. Filtered(list, S) = list
  BY <1>3, FilteredAll
<1>7. Generated(tasks, list) = [i \in DOMAIN list |-> gens[list[i]]]
  BY <1>1, <1>4, <1>5, <1>6
<1>8. PICK last : last = Generated(tasks, list)
  OBVIOUS
<1>9. /\ last \in Seq(Tokens)
      /\ \A r \in ToSet(list) : last[CHOOSE i \in DOMAIN list : list[i] = r] = gens[r]
  <2>1. PICK token : token = gens
    OBVIOUS
  <2>2. (\A r \in ToSet(list) : token[r] \in Tokens) /\ last = [i \in DOMAIN list |-> token[list[i]]]
    BY <1>5, <1>7, <1>8, <2>1
  <2>3. last \in Seq(Tokens)
    BY <2>2, TokensOf
  <2>4. \A r \in ToSet(list) : last[CHOOSE i \in DOMAIN list : list[i] = r] = token[r]
    <3> TAKE r \in ToSet(list)
    <3>1. \E i \in DOMAIN list : list[i] = r
      BY DEF ToSet
    <3>2. PICK c : c = CHOOSE i \in DOMAIN list : list[i] = r
      OBVIOUS
    <3>3. c \in DOMAIN list /\ list[c] = r
      BY <3>1, <3>2
    <3> QED
      BY <2>2, <3>2, <3>3
  <2> QED
    BY <2>1, <2>3, <2>4
<1> QED
  BY <1>5, <1>8, <1>9

\* What a rank makes of a step of the answers.
LEMMA DecodeIInv ==
  ASSUME IInv, NEW k \in Others, RankDecode(k)
  PROVE  IInv'
<1> DEFINE m == Head(toRank[k])
           list == Listed(k)
           in(r) == r \in ToSet(list)
           last == Generated(copy[k], list)
           known == IF args.overlap THEN Stored(copy[k], list, last, SetNext) ELSE copy[k]
           run == IF args.overlap THEN Filtered(list, {r \in ToSet(list) : ItemOf(k, r).status = "Normal"})
                  ELSE list
           n == [r \in Reqs |-> IF r \in ToSet(run) THEN kv[k][r] + 1 ELSE kv[k][r]]
           ended(E) == Ended(run, E, LAMBDA r : AfterToken(r, known[r], kv[k][r]))
<1>1. Typing /\ Courses /\ Copies /\ RankTypes /\ Rounds
  BY DEF IInv, Typing
<1>2. /\ toRank[k] # <<>> /\ m.kind = "Decode"
      /\ kv' = [kv EXCEPT ![k] = [r \in Reqs |-> IF r \in ToSet(run) THEN @[r] + 1 ELSE @[r]]]
      /\ \E E \in Endings(run) :
           /\ copy' = [copy EXCEPT ![k] = IF args.overlap
                                          THEN Stored(known, run, ended(E), SetGen)
                                          ELSE Stored(known, run, ended(E), SetNext)]
           /\ toMain' = [toMain EXCEPT ![k] = Append(@, IF args.overlap THEN last ELSE ended(E))]
      /\ toRank' = [toRank EXCEPT ![k] = Tail(@)]
      /\ UNCHANGED <<args, mainVars>>
  BY DEF RankDecode, Received
<1>3. PICK E \in Endings(run) :
           /\ copy' = [copy EXCEPT ![k] = IF args.overlap
                                          THEN Stored(known, run, ended(E), SetGen)
                                          ELSE Stored(known, run, ended(E), SetNext)]
           /\ toMain' = [toMain EXCEPT ![k] = Append(@, IF args.overlap THEN last ELSE ended(E))]
  BY <1>2
<1>4. /\ copy[k] \in [Reqs -> CopyTypes] /\ kv[k] \in [Reqs -> Nat] /\ k \in Ranks
      /\ \A r \in Reqs : PromptLen[r] \in Nat \ {0}
  BY <1>1, Assumed DEF RankTypes
<1>5. list \in Seq(Reqs) /\ \A r : in(r) => r \in Reqs
  <2>1. list \in Seq(Reqs)
    BY <1>1, <1>2, ListedFacts
  <2> QED
    BY <2>1, <1>1, <1>2, ListedFacts, ElementOfSeq, LenProperties DEF ToSet
<1>6. \A r : in(r) =>
         /\ copy[k][r] \in CopyTypes /\ copy[k][r].type = "Decode"
         /\ kv[k][r] \in Nat /\ PromptLen[r] \in Nat \ {0} /\ kv[k][r] >= PromptLen[r]
         /\ Current(k, r) \in Tokens /\ Newest(r, kv[k][r], Current(k, r))
         /\ batch.kind = "Decode" /\ r \in ToSet(batch.lists[k])
         /\ ItemOf(k, r).status = "Normal" <=> r \in batch.normal
  BY <1>2, <1>5, DecodeSteps
\* The tokens the rank has kept are all those the batch needs.
<1>8. args.overlap => /\ last \in Seq(Tokens)
                      /\ \A r \in ToSet(list) : last[CHOOSE i \in DOMAIN list : list[i] = r] = copy[k][r].gen
  <2> SUFFICES ASSUME args.overlap
               PROVE  /\ last \in Seq(Tokens)
                      /\ \A r \in ToSet(list) : last[CHOOSE i \in DOMAIN list : list[i] = r] = copy[k][r].gen
    OBVIOUS
  <2>1. \A r \in ToSet(list) : copy[k][r].gen \in Tokens /\ copy[k][r].gen # NoToken
    <3> TAKE r \in ToSet(list)
    <3>1. r \in Reqs /\ copy[k][r].gen.of = r /\ copy[k][r].gen \in Tokens
      BY <1>5, <1>6 DEF Current, Newest
    <3> QED
      BY <3>1, Assumed DEF NoToken
  <2>2. PICK tasks : tasks = copy[k]
    OBVIOUS
  <2>3. list \in Seq(Reqs) /\ \A r \in ToSet(list) : tasks[r].gen \in Tokens /\ tasks[r].gen # NoToken
    BY <1>5, <2>1, <2>2
  <2>4. /\ Generated(tasks, list) \in Seq(Tokens)
        /\ \A r \in ToSet(list) : Generated(tasks, list)[CHOOSE i \in DOMAIN list : list[i] = r] = tasks[r].gen
    <3> HIDE DEF list, run, known, ended
    <3> QED
      BY <2>3, GeneratedFacts
  <2> QED
    BY <2>2, <2>4
<1>9. \A r \in Reqs : /\ known[r] \in CopyTypes
                      /\ ~in(r) => known[r] = copy[k][r]
                      /\ in(r) => known[r].type = "Decode" /\ known[r].next = Current(k, r)
                      /\ in(r) /\ ~args.overlap => known[r] = copy[k][r]
  <2> TAKE r \in Reqs
  <2>1. CASE ~args.overlap
    <3>1. known[r] = copy[k][r]
      BY <2>1
    <3> HIDE DEF known
    <3> QED
      BY <1>4, <1>6, <2>1, <3>1 DEF Current
  <2>2. CASE args.overlap
    <3>1. known[r] = IF r \in ToSet(list) THEN SetNext(copy[k][r], last[CHOOSE i \in DOMAIN list : list[i] = r])
                                          ELSE copy[k][r]
      <4> HIDE DEF list, last
      <4> QED
        BY <2>2 DEF Stored
    <3>2. CASE ~in(r)
      <4> HIDE DEF known, last
      <4> QED
        BY <1>4, <3>1, <3>2
    <3>3. CASE in(r)
      <4>1. PICK tok : tok = copy[k][r].gen
        OBVIOUS
      <4>2. tok \in Tokens /\ tok = Current(k, r)
        BY <1>6, <2>2, <3>3, <4>1 DEF Current
      <4>3. known[r] = SetNext(copy[k][r], tok)
        <5> HIDE DEF known, last, list
        <5> QED
          BY <1>8, <2>2, <3>1, <3>3, <4>1
      <4>4. /\ SetNext(copy[k][r], tok) \in CopyTypes /\ SetNext(copy[k][r], tok).type = copy[k][r].type
            /\ SetNext(copy[k][r], tok).next = tok
        <5>1. copy[k][r] \in CopyTypes /\ 0 \in Nat
          BY <1>4
        <5> QED
          BY <4>2, <5>1, CopyChanges
      <4> HIDE DEF known, last
      <4> QED
        BY <1>6, <2>2, <3>3, <4>2, <4>3, <4>4
    <3> QED
      BY <3>2, <3>3
  <2> QED
    BY <2>1, <2>2
\* The tasks that run.
<1>10. /\ run \in Seq(Reqs)
       /\ \A r : r \in ToSet(run) <=> in(r) /\ (args.overlap => r \in batch.normal)
  <2>1. CASE ~args.overlap
    BY <1>5, <2>1
  <2>2. CASE args.overlap
    <3> DEFINE S == {r \in ToSet(list) : ItemOf(k, r).status = "Normal"}
    <3>1. run = Filtered(list, S)
      BY <2>2
    <3>2. \A r : r \in S <=> in(r) /\ r \in batch.normal
      BY <1>6
    <3> HIDE DEF S, run, list
    <3>3. run \in Seq(Reqs) /\ ToSet(run) = {x \in ToSet(list) : x \in S}
      BY <1>5, <3>1, FilteredFacts
    <3> QED
      BY <2>2, <3>2, <3>3
  <2> QED
    BY <2>1, <2>2
<1>11. n \in [Reqs -> Nat] /\ \A r \in Reqs : n[r] = IF r \in ToSet(run) THEN kv[k][r] + 1 ELSE kv[k][r]
  <2>1. \A r \in Reqs : n[r] \in Nat
    BY <1>4
  <2> QED
    BY <2>1
<1>12. kv' \in [Ranks -> [Reqs -> Nat]] /\ kv'[k] = n /\ \A l \in Ranks \ {k} : kv'[l] = kv[l]
  <2>1. kv' = [kv EXCEPT ![k] = n]
    BY <1>1, <1>2, <1>4 DEF RankTypes
  <2> HIDE DEF n
  <2> QED
    BY <1>1, <1>4, <1>11, <2>1 DEF RankTypes
<1> DEFINE token == [r \in Reqs |-> [of |-> r, pos |-> Current(k, r).pos + 1, eos |-> r \in E]]
<1>13. \A r \in ToSet(run) : r \in Reqs /\ token[r] \in Tokens /\ token[r].of = r /\ token[r].pos = Current(k, r).pos + 1
  <2> TAKE r \in ToSet(run)
  <2>1. r \in Reqs /\ Current(k, r).pos + 1 \in Nat
    BY <1>5, <1>6, <1>10 DEF Tokens
  <2>2. CASE r \in E
    <3>1. (r \in E) = TRUE
      BY <2>2, Zenon
    <3>2. token[r] = [of |-> r, pos |-> Current(k, r).pos + 1, eos |-> TRUE]
      BY <2>1, <3>1, Zenon
    <3> HIDE DEF token
    <3> QED
      BY <2>1, <3>2 DEF Tokens
  <2>3. CASE ~(r \in E)
    <3>1. (r \in E) = FALSE
      BY <2>3, SMT
    <3>2. token[r] = [of |-> r, pos |-> Current(k, r).pos + 1, eos |-> FALSE]
      BY <2>1, <3>1, Zenon
    <3> HIDE DEF token
    <3> QED
      BY <2>1, <3>2 DEF Tokens
  <2> QED
    BY <2>2, <2>3
<1>14. \A r \in ToSet(run) : [AfterToken(r, known[r], kv[k][r]) EXCEPT !.eos = r \in E] = token[r]
  <2> TAKE r \in ToSet(run)
  <2>1. r \in Reqs /\ known[r].next = Current(k, r) /\ Newest(r, kv[k][r], Current(k, r))
        /\ kv[k][r] \in Nat /\ PromptLen[r] \in Nat /\ Current(k, r).pos \in Nat
    <3>1. in(r) /\ r \in Reqs
      BY <1>5, <1>10
    <3> HIDE DEF known
    <3> QED
      BY <1>6, <1>9, <3>1 DEF Tokens
  <2> HIDE DEF known
  <2>2. PICK c : c = Current(k, r)
    OBVIOUS
  <2>3. c.of = r /\ kv[k][r] + 1 = PromptLen[r] + c.pos
    BY <2>1, <2>2 DEF Newest
  <2>4. c.pos = kv[k][r] - PromptLen[r] + 1
    BY <2>1, <2>2, <2>3
  <2>5. AfterToken(r, known[r], kv[k][r]) = [of |-> r, pos |-> c.pos + 1, eos |-> FALSE]
    BY <2>1, <2>2, <2>3, <2>4 DEF AfterToken
  <2>6. token[r] = [of |-> r, pos |-> c.pos + 1, eos |-> r \in E]
    BY <2>1, <2>2, Zenon
  <2> HIDE DEF token
  <2>7. PICK e : e = (r \in E)
    OBVIOUS
  <2>8. [AfterToken(r, known[r], kv[k][r]) EXCEPT !.eos = e] = [of |-> r, pos |-> c.pos + 1, eos |-> e]
    BY <2>5
  <2> QED
    BY <2>6, <2>7, <2>8, Zenon
<1>15. PICK tokens : tokens = ended(E)
  OBVIOUS
<1>16. /\ tokens \in Seq(Tokens)
       /\ \A r \in ToSet(run) : tokens[CHOOSE i \in DOMAIN run : run[i] = r] = token[r]
  <2>1. \A i \in DOMAIN run : run[i] \in ToSet(run)
    BY DEF ToSet
  <2>2. tokens = [i \in DOMAIN run |-> token[run[i]]]
    <3> HIDE DEF run, token, known
    <3> QED
      BY <1>14, <1>15, <2>1 DEF Ended, Mapped
  <2>3. run \in Seq(Reqs)
    BY <1>10
  <2>4. \A r \in ToSet(run) : token[r] \in Tokens
    <3> HIDE DEF run, token
    <3> QED
      BY <1>13
  <2>5. PICK tok : tok = token
    OBVIOUS
  <2> HIDE DEF run, token, ended
  <2>6. /\ tokens = [i \in DOMAIN run |-> tok[run[i]]] /\ \A r \in ToSet(run) : tok[r] \in Tokens
    BY <2>2, <2>4, <2>5
  <2>7. /\ tokens \in Seq(Tokens)
        /\ \A r \in ToSet(run) : tokens[CHOOSE i \in DOMAIN run : run[i] = r] = tok[r]
    BY <2>3, <2>6, TokensOf
  <2> QED
    BY <2>5, <2>7
\* The copies afterwards.
<1> DEFINE cp == [r \in Reqs |-> IF r \in ToSet(run)
                                 THEN IF args.overlap THEN SetGen(known[r], token[r])
                                                      ELSE SetNext(known[r], token[r])
                                 ELSE known[r]]
<1>17. copy' = [copy EXCEPT ![k] = cp]
  <2>1. CASE args.overlap
    <3>1. copy' = [copy EXCEPT ![k] = Stored(known, run, tokens, SetGen)]
      BY <1>3, <1>15, <2>1
    <3>2. Stored(known, run, tokens, SetGen) =
            [r \in Reqs |-> IF r \in ToSet(run)
                            THEN SetGen(known[r], tokens[CHOOSE i \in DOMAIN run : run[i] = r])
                            ELSE known[r]]
      <4> HIDE DEF known, run
      <4> QED
        BY DEF Stored
    <3>3. cp = [r \in Reqs |-> IF r \in ToSet(run) THEN SetGen(known[r], token[r]) ELSE known[r]]
      <4> HIDE DEF known, run, token
      <4> QED
        BY <2>1
    <3>4. Stored(known, run, tokens, SetGen) = cp
      <4>1. \A r \in ToSet(run) : tokens[CHOOSE i \in DOMAIN run : run[i] = r] = token[r]
        BY <1>16
      <4> HIDE DEF known, run, token, cp
      <4> QED
        BY <3>2, <3>3, <4>1
    <3> QED
      BY <3>1, <3>4
  <2>2. CASE ~args.overlap
    <3>1. copy' = [copy EXCEPT ![k] = Stored(known, run, tokens, SetNext)]
      BY <1>3, <1>15, <2>2
    <3>2. Stored(known, run, tokens, SetNext) =
            [r \in Reqs |-> IF r \in ToSet(run)
                            THEN SetNext(known[r], tokens[CHOOSE i \in DOMAIN run : run[i] = r])
                            ELSE known[r]]
      <4> HIDE DEF known, run
      <4> QED
        BY DEF Stored
    <3>3. cp = [r \in Reqs |-> IF r \in ToSet(run) THEN SetNext(known[r], token[r]) ELSE known[r]]
      <4> HIDE DEF known, run, token
      <4> QED
        BY <2>2
    <3>4. Stored(known, run, tokens, SetNext) = cp
      <4>1. \A r \in ToSet(run) : tokens[CHOOSE i \in DOMAIN run : run[i] = r] = token[r]
        BY <1>16
      <4> HIDE DEF known, run, token, cp
      <4> QED
        BY <3>2, <3>3, <4>1
    <3> QED
      BY <3>1, <3>4
  <2> QED
    BY <2>1, <2>2
<1>18. \A r \in Reqs : /\ cp[r] \in CopyTypes /\ cp[r].type = known[r].type
                       /\ r \notin ToSet(run) => cp[r] = known[r]
                       /\ r \in ToSet(run) => (IF args.overlap THEN cp[r].gen ELSE cp[r].next) = token[r]
  <2> TAKE r \in Reqs
  <2>1. PICK t \in CopyTypes : t = known[r]
    BY <1>9
  <2>2. PICK tok : tok = token[r]
    OBVIOUS
  <2>3. cp[r] = IF r \in ToSet(run) THEN IF args.overlap THEN SetGen(t, tok) ELSE SetNext(t, tok) ELSE t
    <3> HIDE DEF known, run, token
    <3> QED
      BY <2>1, <2>2
  <2> HIDE DEF cp, known, token, run
  <2>4. ASSUME r \in ToSet(run)
        PROVE  /\ SetGen(t, tok) \in CopyTypes /\ SetGen(t, tok).type = t.type /\ SetGen(t, tok).gen = tok
               /\ SetNext(t, tok) \in CopyTypes /\ SetNext(t, tok).type = t.type /\ SetNext(t, tok).next = tok
    <3>1. tok \in Tokens /\ 0 \in Nat
      BY <1>13, <2>2, <2>4
    <3> QED
      BY <3>1, CopyChanges
  <2> QED
    BY <2>1, <2>2, <2>3, <2>4
<1>19. copy' \in [Others -> [Reqs -> CopyTypes]] /\ copy'[k] = cp /\ \A l \in Others \ {k} : copy'[l] = copy[l]
  <2>1. cp \in [Reqs -> CopyTypes]
    BY <1>18
  <2> HIDE DEF cp
  <2> QED
    BY <1>1, <1>17, <2>1 DEF RankTypes
\* The message was the last one the rank had.
<1>20. ~ \E j \in 1 .. Len(toRank'[k]) : TRUE
  <2>1. /\ Len(toRank[k]) \in Nat \ {0} /\ Len(toRank'[k]) = Len(toRank[k]) - 1 /\ m = toRank[k][1]
    BY <1>1, <1>2, TailMessages
  <2>2. 1 \in 1 .. Len(toRank[k]) /\ IsReply(toRank[k][1])
    BY <1>2, <2>1 DEF IsReply
  <2>3. 1 = Len(toRank[k])
    BY <1>1, <2>2 DEF Rounds
  <2>4. PICK z \in Nat : z = Len(toRank'[k])
    BY <2>1, <2>3
  <2>5. z = 0
    <3>1. PICK y \in Nat : y = Len(toRank[k])
      BY <2>1
    <3> QED
      BY <2>1, <2>3, <2>4, <3>1
  <2> QED
    BY <2>4, <2>5
<1>21. UNCHANGED <<args, pool, batch>>
  BY <1>2 DEF mainVars
<1>22. \A r \in Reqs : \/ copy'[k][r] = copy[k][r] /\ kv'[k][r] = kv[k][r]
                       \/ CopyFits(k, r, copy[k][r], kv[k][r])'
  <2> TAKE r \in Reqs
  <2>1. PICK c : c = cp[r]
    OBVIOUS
  <2>2. PICK q : q = n[r]
    OBVIOUS
  <2>3. copy'[k][r] = c /\ kv'[k][r] = q
    <3> HIDE DEF cp, n
    <3> QED
      BY <1>12, <1>19, <2>1, <2>2
  <2>4. CASE ~in(r)
    <3>1. r \notin ToSet(run)
      BY <1>10, <2>4
    <3>2. q = kv[k][r] /\ c = copy[k][r]
      <4> HIDE DEF cp, n, run, known
      <4> QED
        BY <1>9, <1>11, <1>18, <2>1, <2>2, <2>4, <3>1
    <3> QED
      BY <2>3, <3>2
  <2>5. CASE in(r)
    <3>1. PICK p : p = kv[k][r]
      OBVIOUS
    <3>2. /\ p \in Nat /\ PromptLen[r] \in Nat \ {0} /\ p >= PromptLen[r]
          /\ Current(k, r) \in Tokens /\ Newest(r, p, Current(k, r))
          /\ batch.kind = "Decode" /\ r \in ToSet(batch.lists[k])
      BY <1>6, <2>5, <3>1
    <3>3. c.type = "Decode"
      <4> HIDE DEF cp, known
      <4> QED
        BY <1>9, <1>18, <2>1, <2>5
    <3>4. NoCopy.type = "none" /\ c # NoCopy
      BY <3>3 DEF NoCopy
    <3>5. CASE r \in ToSet(run)
      <4>1. q = p + 1
        <5> HIDE DEF n, run
        <5> QED
          BY <1>11, <2>2, <3>1, <3>5
      <4>2. PICK t : t = IF args.overlap THEN c.gen ELSE c.next
        OBVIOUS
      <4>3. t.of = r /\ t.pos = Current(k, r).pos + 1
        <5> HIDE DEF cp, run, token, known
        <5> QED
          BY <1>13, <1>18, <2>1, <3>5, <4>2
      <4>4. p + 1 = PromptLen[r] + Current(k, r).pos /\ Current(k, r).pos \in Nat
        BY <3>2 DEF Newest, Tokens
      <4>5. q + 1 = PromptLen[r] + t.pos
        BY <3>2, <4>1, <4>3, <4>4
      <4>6. Newest(r, q, t) /\ q > 0 /\ q >= PromptLen[r] /\ q \in Nat
        BY <3>2, <4>1, <4>3, <4>5 DEF Newest
      <4>7. CopyFits(k, r, copy[k][r], kv[k][r])'
        BY <1>21, <2>3, <3>2, <3>3, <3>4, <4>2, <4>6 DEF CopyFits, Newest
      <4> QED
        BY <4>7
    <3>6. CASE r \notin ToSet(run)
      <4>1. args.overlap /\ r \notin batch.normal
        BY <1>10, <2>5, <3>6
      <4>2. q = p
        <5> HIDE DEF n, run
        <5> QED
          BY <1>11, <2>2, <3>1, <3>6
      <4>3. ~DecodeUnderWay(k, r)'
        BY <1>20 DEF DecodeUnderWay
      <4>4. LeftOut(k, r)'
        BY <1>21, <3>2, <4>1, <4>3 DEF LeftOut
      <4>5. CopyFits(k, r, copy[k][r], kv[k][r])'
        BY <1>21, <2>3, <3>2, <3>3, <3>4, <4>1, <4>2, <4>4 DEF CopyFits
      <4> QED
        BY <4>5
    <3> QED
      BY <3>5, <3>6
  <2> QED
    BY <2>4, <2>5
<1>23. ASSUME NEW next \in [Reqs -> Nat], Advance(m, CachedPrompts(k), next), NEW r \in Reqs
       PROVE  next[r] = Smaller(n[r], PromptLen[r])
  <2>1. next = CachedPrompts(k)
    BY <1>2, <1>23 DEF Advance
  <2>2. next[r] = Smaller(kv[k][r], PromptLen[r])
    BY <2>1 DEF CachedPrompts
  <2>3. CASE r \notin ToSet(run)
    <3> HIDE DEF n, run
    <3> QED
      BY <1>11, <2>2, <2>3
  <2>4. CASE r \in ToSet(run)
    <3>1. kv[k][r] \in Nat /\ PromptLen[r] \in Nat /\ kv[k][r] >= PromptLen[r]
      BY <1>6, <1>10, <2>4
    <3>2. n[r] = kv[k][r] + 1
      <4> HIDE DEF n, run
      <4> QED
        BY <1>11, <2>4
    <3> HIDE DEF n, run
    <3> QED
      BY <2>2, <3>1, <3>2 DEF Smaller
  <2> QED
    BY <2>3, <2>4
<1>24. IF IsReply(m) THEN \E y \in Seq(Tokens) : toMain' = [toMain EXCEPT ![k] = Append(@, y)]
                     ELSE toMain' = toMain
  <2>1. IsReply(m)
    BY <1>2 DEF IsReply
  <2>2. PICK y : y = IF args.overlap THEN last ELSE tokens
    OBVIOUS
  <2>3. y \in Seq(Tokens)
    <3> HIDE DEF last
    <3> QED
      BY <1>8, <1>16, <2>2
  <2>4. toMain' = [toMain EXCEPT ![k] = Append(@, y)]
    <3> HIDE DEF last, ended
    <3> QED
      BY <1>3, <1>15, <2>2
  <2> QED
    BY <2>1, <2>3, <2>4
<1>25. Takes(k)
  <2>1. kv'[k] = n
    BY <1>12
  <2> HIDE DEF n, cp, in, run, known, last, list, token, ended
  <2> QED
    BY <1>2, <1>12, <1>19, <1>22, <1>23, <1>24, <2>1 DEF Takes
<1> QED
  BY <1>25, TakingMain

-----------------------------------------------------------------------------
(* The invariant and the theorems *)

\* The invariant holds at first.
LEMMA InitIInv == Init => IInv
<1> SUFFICES ASSUME Init PROVE IInv
  OBVIOUS
<1>1. /\ args \in [overlap : Overlaps, chunk : ChunkSizes, maxPerDp : MaxPerDps]
      /\ submitted = {} /\ pool = <<>> /\ task = [r \in Reqs |-> NewTask] /\ cursor = 0
      /\ batch = NoBatch /\ received = 0 /\ pc = "schedule"
      /\ toRank = [k \in Others |-> <<>>] /\ toMain = [k \in Others |-> <<>>]
      /\ copy = [k \in Others |-> [r \in Reqs |-> NoCopy]]
      /\ kv = [k \in Ranks |-> [r \in Reqs |-> 0]]
  BY DEF Init
<1>2. /\ DpSize \in Nat \ {0} /\ PromptLen \in [Reqs -> Nat \ {0}] /\ 0 \in Ranks /\ Others \subseteq Ranks
      /\ NoRank \notin Ranks
  BY Assumed
<1>3. ArgTypes
  BY <1>1, DPScheduleAssumption DEF ArgTypes
<1>4. /\ \A T : <<>> \in Seq(T)
      /\ ToSet(<<>>) = {} /\ IsInjective(<<>>) /\ Len(<<>>) = 0 /\ DOMAIN <<>> = {}
  <2>1. Len(<<>>) = 0 /\ \A T : <<>> \in Seq(T)
    BY EmptySeq
  <2>2. DOMAIN <<>> = {}
    OBVIOUS
  <2> QED
    BY <2>1, <2>2 DEF ToSet, IsInjective
<1>5. PoolTypes
  <2>1. \A r \in Reqs : IsTask(task[r])
    BY <1>1 DEF NewTask, IsTask, Statuses
  <2> QED
    BY <1>1, <1>2, <1>4, <2>1 DEF PoolTypes
<1>6. /\ batch.kind = "none" /\ batch.lists = [k \in Ranks |-> <<>>] /\ batch.take = [r \in Reqs |-> 0]
      /\ batch.outputs = <<>> /\ batch.normal = {}
  BY <1>1 DEF NoBatch
<1>7. BatchTypes
  BY <1>1, <1>4, <1>6 DEF BatchTypes
<1>8. RankTypes
  <2>1. NoCopy \in CopyTypes
    BY DEF NoCopy, NoToken, CopyTypes, Tokens
  <2> QED
    BY <1>1, <1>4, <2>1 DEF RankTypes
<1>9. \A k : Owned(k) = {}
  BY <1>1, <1>4 DEF Owned
<1>10. Tasks
  <2>1. \A r \in Reqs : task[r].consumed = 0 /\ task[r].type = "Prefill" /\ task[r].status = "Normal"
                        /\ task[r].owner = NoRank /\ kv[0][r] = 0 /\ PromptLen[r] > 0 /\ PromptLen[r] \in Nat
    BY <1>1, <1>2 DEF NewTask
  <2>2. Cardinality({}) = 0
    BY FS_EmptySet
  <2>3. args.maxPerDp \in Nat
    BY <1>3 DEF ArgTypes
  <2>4. \A k \in Ranks : Cardinality(Owned(k)) <= args.maxPerDp
    BY <1>9, <2>2, <2>3
  <2> QED
    BY <1>1, <2>1, <2>4 DEF Tasks
<1>11. \A r : ~Batched(r)
  BY <1>4, <1>6 DEF Batched
<1>12. Batch
  BY <1>1, <1>4, <1>6, <1>11 DEF Batch
<1>13. \A k \in Others : toRank[k] = <<>> /\ toMain[k] = <<>> /\ Len(toRank[k]) = 0 /\ Len(toMain[k]) = 0
                         /\ 1 .. Len(toRank[k]) = {} /\ 0 .. Len(toRank[k]) = {0}
  BY <1>1, <1>4
<1>14. Rounds
  <2>1. Owing = {}
    BY <1>13 DEF Owing
  <2>2. Cardinality(Owing) = 0 /\ ~InRound
    BY <1>1, <2>1, FS_EmptySet DEF InRound
  <2> QED
    BY <1>1, <1>13, <2>2 DEF Rounds
<1>15. DecodeMessages
  BY <1>13 DEF DecodeMessages
<1>16. Courses
  <2> SUFFICES ASSUME NEW k \in Others PROVE \E st : Course(k, st)
    BY DEF Courses
  <2> DEFINE zero == [r \in Reqs |-> 0]
  <2>1. PICK st : st = [j \in {0} |-> zero]
    OBVIOUS
  <2>2. CachedPrompts(k) = zero
    <3>1. \A r \in Reqs : kv[k][r] = 0 /\ PromptLen[r] \in Nat \ {0}
      BY <1>1, <1>2
    <3> QED
      BY <3>1 DEF CachedPrompts, Smaller
  <2>3. Owed(k) = zero
    BY <1>9 DEF Owed
  <2>4. InUse(zero) = {}
    BY DEF InUse
  <2> HIDE DEF zero
  <2>5. Within(k, zero)
    <3>1. args.maxPerDp \in Nat /\ Cardinality({}) = 0
      BY <1>3, FS_EmptySet DEF ArgTypes
    <3> QED
      BY <2>4, <3>1 DEF Within
  <2>6. st \in [{0} -> [Reqs -> Nat]] /\ st[0] = zero
    <3>1. zero \in [Reqs -> Nat]
      BY DEF zero
    <3> QED
      BY <2>1, <3>1
  <2>7. Course(k, st)
    BY <1>13, <2>2, <2>3, <2>5, <2>6 DEF Course
  <2> QED
    BY <2>7
<1>17. Copies
  <2> SUFFICES ASSUME NEW k \in Others, NEW r \in Reqs PROVE CopyFits(k, r, copy[k][r], kv[k][r])
    BY DEF Copies
  <2>1. copy[k][r] = NoCopy /\ kv[k][r] = 0 /\ PromptLen[r] \in Nat \ {0}
    BY <1>1, <1>2
  <2> QED
    BY <2>1 DEF CopyFits
<1> QED
  BY <1>3, <1>5, <1>7, <1>8, <1>10, <1>12, <1>14, <1>15, <1>16, <1>17 DEF IInv, Typing

\* The invariant speaks of the variables only.
LEMMA SameIInv ==
  ASSUME IInv, UNCHANGED vars
  PROVE  IInv'
<1>1. UNCHANGED <<args, submitted, pool, task, cursor, batch, received, pc, toRank, toMain, copy, kv>>
  BY DEF vars, mainVars
<1>2. Typing /\ Tasks /\ Batch /\ Rounds /\ DecodeMessages /\ Courses /\ Copies
  BY DEF IInv
<1>3. PoolTypes'
  BY <1>1, <1>2 DEF Typing, PoolTypes
<1>4. ArgTypes' /\ BatchTypes' /\ RankTypes'
  BY <1>1, <1>2 DEF Typing, ArgTypes, BatchTypes, RankTypes
<1>5. \A k : Owned(k)' = Owned(k)
  BY <1>1 DEF Owned
<1>6. Tasks'
  BY <1>1, <1>2, <1>5 DEF Tasks
<1>7. Batch'
  BY <1>1, <1>2, <1>5 DEF Batch, Batched, InRound
<1>8. Rounds'
  <2>1. UNCHANGED <<args, toRank, toMain, received>> /\ InRound' = InRound
    BY <1>1 DEF InRound
  <2> QED
    BY <1>2, <2>1, QuietRounds
<1>9. DecodeMessages'
  BY <1>1, <1>2, QuietDecode
<1>10. Courses'
  <2>1. UNCHANGED <<args, toRank>>
    BY <1>1
  <2>2. \A k \in Others : kv'[k] = kv[k] /\ Owed(k)' = Owed(k)
    BY <1>1, <1>5 DEF Owed, Told
  <2>3. \A r \in Reqs, k \in Others : task[r].owner = k => task'[r].owner = k
    BY <1>1
  <2> QED
    BY <1>2, <2>1, <2>2, <2>3, QuietCourses
<1>11. Copies'
  <2>1. \A k \in Others, r \in Reqs : LeftOut(k, r) => LeftOut(k, r)'
    BY <1>1 DEF LeftOut, DecodeUnderWay
  <2>2. UNCHANGED <<args, copy>> /\ \A k \in Others : kv'[k] = kv[k]
    BY <1>1
  <2> QED
    BY <1>2, <2>1, <2>2, KeptCopies
<1> QED
  BY <1>3, <1>4, <1>6, <1>7, <1>8, <1>9, <1>10, <1>11 DEF IInv, Typing

\* Every step keeps the invariant.
LEMMA NextIInv == IInv /\ [Next]_vars => IInv'
<1> SUFFICES ASSUME IInv, [Next]_vars PROVE IInv'
  OBVIOUS
<1>1. Typing /\ Tasks /\ Batch /\ Rounds /\ DecodeMessages /\ Courses /\ Copies
  BY DEF IInv
<1>2. CASE AssignOwners
  BY <1>1, <1>2, AssignOwnersMain, QuietSteps DEF IInv
<1>3. CASE SchedulePrefill
  BY <1>1, <1>3, SchedulePrefillMain, SchedulePrefillOthers DEF IInv
<1>4. CASE ScheduleDecode
  <2>1. DispatchDecode
    BY <1>4 DEF ScheduleDecode
  <2> QED
    BY <1>1, <2>1, DispatchDecodeMain, DispatchDecodeOthers DEF IInv
<1>5. CASE RunPrefill
  BY <1>1, <1>5, RunPrefillMain, QuietSteps DEF IInv
<1>6. CASE RunDecode
  BY <1>1, <1>6, RunDecodeMain, QuietSteps DEF IInv
<1>7. ASSUME NEW k \in Others, Collect(k) PROVE IInv'
  BY <1>1, <1>7, CollectMain, QuietSteps DEF IInv
<1>8. CASE Record
  BY <1>1, <1>8, RecordMain, QuietSteps DEF IInv
<1>9. CASE Update
  BY <1>1, <1>9, UpdateMain, UpdateOthers DEF IInv
<1>10. ASSUME NEW k \in Others, OtherRank(k) PROVE IInv'
  BY <1>10, PrefillIInv, DecodeIInv, EndTaskIInv DEF OtherRank
<1>11. ASSUME NEW r \in Reqs, Submit(r) PROVE IInv'
  BY <1>1, <1>11, SubmitMain, SubmitOthers DEF IInv
<1>12. CASE UNCHANGED vars
  BY <1>12, SameIInv
<1> QED
  BY <1>2, <1>3, <1>4, <1>5, <1>6, <1>7, <1>8, <1>9, <1>10, <1>11, <1>12 DEF Next, MainRank

\* All that is proved here is kept by every step of DPSchedule.
THEOREM Inductive == Spec => []IInv
<1>1. Init => IInv
  BY InitIInv
<1>2. IInv /\ [Next]_vars => IInv'
  BY NextIInv
<1> QED
  BY <1>1, <1>2, PTL DEF Spec

\* Whatever rank 0 schedules before the others have read its messages, a rank that takes
\* one finds the prompt where the message continues it, and the newest token when it is
\* to decode (deserialize_prefill_tasks and the steps after it).
THEOREM RanksStayInStep == Spec => []RanksInStep
<1>1. IInv => RanksInStep
  BY InvRanksInStep
<1> QED
  BY <1>1, Inductive, PTL

\* No rank ever caches more requests than it has slots, nor one it does not own, although
\* rank 0 gives a slot away before the rank has heard of the end of its last request.
THEOREM SlotsStayRespected == Spec => []SlotsRespected
<1>1. IInv => SlotsRespected
  BY InvSlotsRespected
<1> QED
  BY <1>1, Inductive, PTL
=============================================================================
