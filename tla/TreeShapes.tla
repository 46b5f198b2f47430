------------------------------- MODULE TreeShapes -------------------------------
(***************************************************************************)
(* All the ordered trees of NodeCount nodes under a root, for the MC       *)
(* modules that run over every small body.                                 *)
(***************************************************************************)
EXTENDS Naturals, Sequences

CONSTANT NodeCount

Root == 0
Node == 1 .. NodeCount
Holder == {Root} \cup Node

(* A shape is the parent of each node, numbered in document order: a node  *)
(* hangs from the one before it or from one of that one's ancestors.       *)
Ancestors(p, n) ==
  LET up[m \in Holder] == IF m = Root THEN {Root} ELSE {m} \cup up[p[m]]
  IN  up[n]

Shapes ==
  {p \in [Node -> Holder] :
     \A n \in Node : p[n] < n /\ p[n] \in Ancestors(p, n - 1)}

Kids(p) ==
  [h \in Holder |-> SelectSeq([i \in 1 .. NodeCount |-> i], LAMBDA n : p[n] = h)]

IsInner(p, n) == n < NodeCount /\ p[n + 1] = n
===============================================================================
