------------------------------ MODULE UnionEngine ------------------------------
(***************************************************************************)
(* The second pass of `flatten_body`, run when the first exceeded the cap: *)
(* every text run and include once, in document order, whatever tags they  *)
(* are under.  It cannot fail.                                             *)
(***************************************************************************)
EXTENDS FlattenState

UStepping(type) ==
  phase = "union" /\ stack # << >> /\ Top.type = type /\ ~ arrived

Consume == [Top EXCEPT !.idx = @ + 1]

(* Advance past the segment, adding what it contributes.                   *)
Contribute(pieces, paths, includes) ==
  /\ stack' = WithTop([Consume EXCEPT !.pieces = @ \o pieces])
  /\ ctx' = [ctx EXCEPT !.paths = @ \o paths, !.includes = @ \o includes]
  /\ UNCHANGED <<tree, phase, arrived, incoming, branchCount, result>>

(* descend_union: at the nesting limit the body contributes nothing.       *)
UDescend(n, c) ==
  /\ IF DepthReached
     THEN /\ stack' = WithTop(Consume)
          /\ ctx' = [c EXCEPT !.diags = Append(@, Diag("NestingLimitExceeded", n))]
     ELSE /\ stack' = Append(WithTop(Consume), UnionFrame(n))
          /\ ctx' = [c EXCEPT !.depth = @ + 1]
  /\ UNCHANGED <<tree, phase, arrived, incoming, branchCount, result>>

UnionText ==
  /\ UStepping("Union") /\ HasSegment /\ IsText(tree, Segment)
  /\ LET run == TextRun(tree, Top.node, Top.idx)
     IN  /\ stack' = WithTop([Top EXCEPT
                       !.idx = RunEnd(tree, Top.node, Top.idx),
                       !.pieces = Append(@, [what |-> "text", of |-> run])])
         /\ ctx' = [ctx EXCEPT !.paths = @ \o run]
  /\ UNCHANGED <<tree, phase, arrived, incoming, branchCount, result>>

UnionInclude ==
  /\ UStepping("Union") /\ HasSegment /\ tree.kind[Segment] \in IncludeKind
  /\ Contribute(<<[what |-> "include", of |-> <<Segment>>]>>, << >>,
                RecordedInclude(Segment))

UnionBind ==
  /\ UStepping("Union") /\ HasSegment /\ tree.kind[Segment] = "bind"
  /\ Contribute(<< >>, <<Segment>>, << >>)

UnionChoose ==
  /\ UStepping("Union") /\ HasSegment /\ tree.kind[Segment] = "choose"
  /\ stack' = Append(WithTop(Consume), UnionChooseFrame(Segment))
  /\ UNCHANGED <<tree, phase, arrived, incoming, ctx, branchCount, result>>

(* Every other tag is a transparent container; an iterate's property is    *)
(* recorded first.                                                         *)
UnionContainer ==
  /\ UStepping("Union") /\ HasSegment
  /\ tree.kind[Segment] \notin TextKind \cup IncludeKind \cup {"bind", "choose"}
  /\ UDescend(Segment, IF tree.kind[Segment] = "iterate"
                       THEN [ctx EXCEPT !.paths = Append(@, Segment)] ELSE ctx)

(* A choose's branches are walked one by one, its other children skipped   *)
(* without a word.                                                         *)
UnionBranch ==
  /\ UStepping("UnionChoose") /\ HasSegment /\ tree.kind[Segment] \in BranchKind
  /\ UDescend(Segment, ctx)

UnionSkip ==
  /\ UStepping("UnionChoose") /\ HasSegment /\ tree.kind[Segment] \notin BranchKind
  /\ Contribute(<< >>, << >>, << >>)

(* A frame with nothing left hands its pieces down; the last one's are the *)
(* text of the union, and flatten_body adds its diagnostic.                *)
UnionEnd ==
  /\ \E type \in {"Union", "UnionChoose"} : UStepping(type)
  /\ ~ HasSegment
  /\ stack' = Below
  /\ ctx' = [ctx EXCEPT !.depth = @ - (IF Top.type = "Union" THEN 1 ELSE 0)]
  /\ IF Below = << >>
     THEN /\ phase' = "done"
          /\ result' = [kind |-> "union", pieces |-> Top.pieces,
                        count |-> branchCount,
                        diags |-> Append(ctx.diags, Diag("BranchLimitExceeded", Root)),
                        paths |-> ctx.paths, includes |-> ctx.includes]
          /\ arrived' = FALSE
          /\ incoming' = << >>
     ELSE /\ arrived' = TRUE
          /\ incoming' = Top.pieces
          /\ UNCHANGED <<phase, result>>
  /\ UNCHANGED <<tree, branchCount>>

UnionDeliver ==
  /\ phase = "union" /\ stack # << >> /\ arrived
  /\ stack' = WithTop([Top EXCEPT !.pieces = @ \o incoming])
  /\ arrived' = FALSE
  /\ incoming' = << >>
  /\ UNCHANGED <<tree, phase, ctx, branchCount, result>>

UnionNext ==
  \/ UnionText \/ UnionInclude \/ UnionBind \/ UnionChoose \/ UnionContainer
  \/ UnionBranch \/ UnionSkip \/ UnionEnd \/ UnionDeliver
===============================================================================
