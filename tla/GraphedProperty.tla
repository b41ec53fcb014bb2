--------------------------- MODULE GraphedProperty ---------------------------
(***************************************************************************)
(* One tensor cached by cuda_graph_safe_cached_property and one function   *)
(* wrapped by make_dispatched_graphed_callables that uses it.              *)
(*                                                                         *)
(* The tensor is F[x] for a source x that changes between uses.  It lives  *)
(* in a StaticTensor (the buffer and a shape kept by Python) beside a flag *)
(* that says whether it is up to date.  The first call of the function     *)
(* with a key runs it once (the warm-up), then captures a graph, which     *)
(* runs Python but no kernel; later calls with the key replay the graph,   *)
(* which runs kernels but no Python, and then run the graph's post hooks.  *)
(***************************************************************************)
CONSTANTS
  X,          \* values of the source
  Key,        \* keys of the graphs
  Value,      \* contents of the tensor
  Shape,      \* its shapes
  F,          \* the cached property: X -> Value
  ShapeOf,    \* the shape of F[x]
  KeyOf,      \* the key the caller passes when the source is x
  Nothing     \* no graph, nothing returned

\* A graph is captured for one shape: the caller's key must tell shapes apart.
KeysTellShapes ==
  /\ F \in [X -> Value] /\ ShapeOf \in [X -> Shape] /\ KeyOf \in [X -> Key]
  /\ \A y, z \in X : KeyOf[y] = KeyOf[z] => ShapeOf[y] = ShapeOf[z]
ASSUME KeysTellShapesAssumption == KeysTellShapes

Tensor == [val : Value, shape : Shape]
\* computes: the property was not up to date at the capture, so its kernels
\* are part of the graph and a post hook is registered; view: the shape of
\* the tensor the captured kernels read.
Graph == [computes : BOOLEAN, view : Shape]
ASSUME NothingAssumption == Nothing \notin Tensor \cup Graph

VARIABLES
  x,          \* the source, device memory the kernels read
  upToDate,   \* the flag
  static,     \* the StaticTensor
  graphs,     \* [Key -> Graph or Nothing]
  got         \* what the last read returned, Nothing after an update

graphedVars == <<x, upToDate, static, graphs, got>>

GraphedInit ==
  /\ x \in X
  /\ upToDate = FALSE
  /\ static \in Tensor
  /\ graphs = [k \in Key |-> Nothing]
  /\ got = Nothing

-----------------------------------------------------------------------------
\* The property evaluated: StaticTensor.set of its value.
Fresh == [val |-> F[x], shape |-> ShapeOf[x]]

\* The owner changes the source and clears the flag.
Update(y) ==
  /\ x' = y
  /\ upToDate' = FALSE
  /\ got' = Nothing
  /\ UNCHANGED <<static, graphs>>

\* The property read outside of a graph.
Read ==
  /\ static' = IF upToDate THEN static ELSE Fresh
  /\ upToDate' = TRUE
  /\ got' = static'
  /\ UNCHANGED <<x, graphs>>

\* The first call with a key.  The warm-up run evaluates the property without
\* setting the flag, so that the capture, which finds the flag as the call
\* did, records the evaluation; the capture or its hook sets the flag.
CallCapture(k) ==
  /\ graphs[k] = Nothing
  /\ static' = IF upToDate THEN static ELSE Fresh
  /\ graphs' = [graphs EXCEPT ![k] = [computes |-> ~upToDate, view |-> static'.shape]]
  /\ upToDate' = TRUE
  /\ got' = static'
  /\ UNCHANGED x

\* A slip: nobody ensures the consistency.
MayReplayAlways(g) == TRUE

\* "The reusing behaviour should be consistent for the same graph object": a
\* graph that was captured with the property up to date is replayed only so.
MayReplay(g) == ~g.computes => upToDate

\* A slip: the hook sets the flag only, the buffer keeps its last shape.
ReplayKeepingShape(k) ==
  LET g == graphs[k]
  IN /\ g # Nothing
     /\ MayReplay(g)
     /\ static' = IF g.computes THEN [static EXCEPT !.val = F[x]] ELSE static
     /\ upToDate' = (upToDate \/ g.computes)
     /\ got' = [val |-> static'.val, shape |-> g.view]
     /\ UNCHANGED <<x, graphs>>

\* A replay evaluates the property if its kernels were captured, and the hook
\* restores the shape and sets the flag; the result is read through the view.
CallReplay(k) ==
  LET g == graphs[k]
  IN /\ g # Nothing
     /\ MayReplay(g)
     /\ static' = IF g.computes THEN [val |-> F[x], shape |-> g.view] ELSE static
     /\ upToDate' = (upToDate \/ g.computes)
     /\ got' = [val |-> static'.val, shape |-> g.view]
     /\ UNCHANGED <<x, graphs>>

Call == CallCapture(KeyOf[x]) \/ CallReplay(KeyOf[x])

GraphedNext == (\E y \in X : Update(y)) \/ Read \/ Call

GraphedSpec == GraphedInit /\ [][GraphedNext]_graphedVars

-----------------------------------------------------------------------------
GraphedTypeOK ==
  /\ x \in X
  /\ upToDate \in BOOLEAN
  /\ static \in Tensor
  /\ graphs \in [Key -> Graph \cup {Nothing}]
  /\ got \in Tensor \cup {Nothing}

\* A flag that says "up to date" is right about contents and shape, whoever
\* set it: a read, a capture whose kernels never ran, or the hook of a replay
\* whose Python never ran (cuda_graph.py:253-267).
FlagHonest == upToDate => static = Fresh

\* Every read, inside a graph or outside, returns the property of the present
\* source in its present shape: the four uses the decorator's documentation
\* lists (cuda_graph.py:217-220).
ReadsPresent == got # Nothing => got = Fresh

\* What makes it so: a graph captured under a key has the shape of every
\* source that is called with that key.
ViewsFit ==
  \A k \in Key : graphs[k] # Nothing =>
    \A y \in X : KeyOf[y] = k => graphs[k].view = ShapeOf[y]
=============================================================================
