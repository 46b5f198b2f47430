------------------------------- MODULE MCFlatten -------------------------------
(***************************************************************************)
(* FlattenBody on all small bodies: every shape of four nodes with every   *)
(* kind a family admits at a leaf and at an inner node, and one more node  *)
(* at the end of the body.                                                 *)
(***************************************************************************)
EXTENDS FlattenBody

CONSTANT MCFamilies    \* which families

Small == INSTANCE TreeShapes

MCShapes == {Small!Kids(p) : p \in {q \in Small!Shapes : q[NodeCount] = Root}}

(* when and otherwise are put under a choose only, and a choose holds only *)
(* them and one kind of stray text, tag or choose.                         *)
MCWellPlaced(t, leaf, inner) ==
  \A h \in Holder :
    \A k \in {t.kids[h][i] : i \in DOMAIN t.kids[h]} :
      /\ t.kind[k] \in IF t.kids[k] = << >> THEN leaf ELSE inner
      /\ IF h # Root /\ t.kind[h] = "choose"
         THEN t.kind[k] \in BranchKind \cup {"text", "include", "choose"}
         ELSE t.kind[k] \notin BranchKind

(* The kinds a family admits.  Branching: branches, includes among them,   *)
(* and unknown tags.  Wrapping: wrappers, with text, blanks and prepends   *)
(* for them to work on.  Boundary: includes at the ends of wrappers, next  *)
(* to branches.  Strays: ifs, and a choose with something in it that is no *)
(* branch.                                                                 *)
MCLeaf == [
  branching |-> {"text", "include", "choose", "if", "when", "otherwise",
                 "unknown"},
  wrapping  |-> {"text", "blank", "noRefid", "bind", "is", "iterate", "when"},
  boundary  |-> {"text", "include", "if"},
  strays    |-> {"text", "if", "when"}]

MCInner == [
  branching |-> {"choose", "if", "when", "otherwise", "where", "unknown"},
  wrapping  |-> {"is", "where", "foreach", "iterate", "dynamic", "known",
                 "choose"},
  boundary  |-> {"if", "where"},
  strays    |-> {"choose"}]

(* A bind at the end adds nothing to the alternatives; an if takes the     *)
(* strays beyond the cap.                                                  *)
MCLast(f) == IF f = "strays" THEN "if" ELSE "bind"

MCKinds == UNION {MCLeaf[f] \cup MCInner[f] : f \in MCFamilies}

MCTrees ==
  {t \in [kind : MCKinds \X MCKinds \X MCKinds \X MCKinds \X {"bind", "if"},
          kids : MCShapes] :
     \E f \in MCFamilies :
       /\ t.kind[NodeCount] = MCLast(f)
       /\ MCWellPlaced(t, MCLeaf[f] \cup {MCLast(f)}, MCInner[f])}

(* The abstract specification, on the same body and the same result.       *)
Promise == INSTANCE FlattenSpec WITH tree <- tree, result <- result
PromiseKept == Promise!Spec
===============================================================================
