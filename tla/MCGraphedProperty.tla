-------------------------- MODULE MCGraphedProperty --------------------------
(***************************************************************************)
(* Four sources of two shapes with two values each, and a key per shape.   *)
(***************************************************************************)
EXTENDS GraphedProperty, Naturals

Sources == (1 .. 2) \X {"short", "long"}
Squares == [s \in Sources |-> s[1] * s[1]]
Sizes == [s \in Sources |-> s[2]]
=============================================================================
