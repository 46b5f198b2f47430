------------------------------ MODULE MCResultMap ------------------------------
(***************************************************************************)
(* ResultMapWalk on all small resultMaps: every shape of NodeCount nodes   *)
(* with every tag at an inner node and the tags of MCLeafKinds at a leaf.  *)
(***************************************************************************)
EXTENDS ResultMapWalk

CONSTANT MCLeafKinds

Small == INSTANCE TreeShapes

MCInnerKinds == {"nested", "discriminator", "case", "other"}

MCTrees ==
  {[kind |-> pk[2], kids |-> Small!Kids(pk[1])] :
     pk \in {q \in Small!Shapes \X [Node -> MCLeafKinds \cup MCInnerKinds] :
              \A n \in Node :
                q[2][n] \in IF Small!IsInner(q[1], n) THEN MCInnerKinds ELSE MCLeafKinds}}
===============================================================================
