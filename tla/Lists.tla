------------------------------- MODULE Lists -------------------------------
(***************************************************************************)
(* What the schedulers do with Python lists.                               *)
(***************************************************************************)
EXTENDS Integers, SequencesExt

Smaller(a, b) == IF a <= b THEN a ELSE b
UpTo(s, n) == SubSeq(s, 1, Smaller(n, Len(s)))

Mapped(list, f(_)) == [i \in DOMAIN list |-> f(list[i])]

\* The elements of the list that are in S, in order.
Filtered(list, S) ==
  LET kept[i \in 0 .. Len(list)] == IF i = 0 THEN <<>>
                                    ELSE IF list[i] \in S THEN Append(kept[i - 1], list[i])
                                    ELSE kept[i - 1]
  IN  kept[Len(list)]
=============================================================================
