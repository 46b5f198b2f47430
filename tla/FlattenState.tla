----------------------------- MODULE FlattenState -----------------------------
(***************************************************************************)
(* The state of `flatten_body` (src/src/flatten.rs): the worklist that     *)
(* replaced the call stack, the finished result on its way to the frame    *)
(* below, and the side channels every pass fills.  CartesianEngine and     *)
(* UnionEngine are the two passes over it; FlattenBody runs one after the  *)
(* other.                                                                  *)
(***************************************************************************)
EXTENDS BodyTree, FiniteSets, Integers

CONSTANTS
  BranchLimit,   \* BRANCH_LIMIT, 32 in the code
  DepthLimit     \* DEPTH_LIMIT, 256 in the code

ASSUME LimitsAssumption ==
  /\ BranchLimit \in Nat \ {0}
  /\ DepthLimit \in Nat \ {0}

VARIABLES
  tree,          \* the body being flattened
  phase,         \* which pass of flatten_body runs
  stack,         \* the suspended frames, the running one last
  arrived,       \* whether `incoming` is Some
  incoming,      \* what a finished frame delivers to the one below
  ctx,           \* Ctx: depth, the unknown-element flag and the side channels
  branchCount,   \* the count the cartesian pass gave up with
  result         \* what flatten_body returned

vars == <<tree, phase, stack, arrived, incoming, ctx, branchCount, result>>

(***************************************************************************)
(* A piece of assembled text: a text run, an include token, a prepend a    *)
(* <dynamic> may still remove, or wrapper text nothing can remove.         *)
(***************************************************************************)
Piece == [what : {"text", "include", "prepend", "wrapper"}, of : Seq(Node)]

(* One branch alternative, with the tags whose conditions activate it.     *)
Alt == [pieces : Seq(Piece), conds : Seq(Node)]

EmptyAlt == [pieces |-> << >>, conds |-> << >>]

NoTag == 0    \* `pending` is None: no descent of the frame is under way

(***************************************************************************)
(* Frames of the cartesian pass.  `acc` is BodyFrame's accumulator or      *)
(* ChooseFrame's `local`; `pending` is the tag whose descent is under way, *)
(* which determines its PendingKind; `was` is the unknown-element flag to  *)
(* restore, meaningful when that tag is transparent.                       *)
(***************************************************************************)
Frame ==
  [type : {"Body", "Choose"}, node : Holder, idx : Nat \ {0}, acc : Seq(Alt),
   pending : Node \cup {NoTag}, was : BOOLEAN, hasOtherwise : BOOLEAN]

BodyFrame(h) ==
  [type |-> "Body", node |-> h, idx |-> 1, acc |-> <<EmptyAlt>>,
   pending |-> NoTag, was |-> FALSE, hasOtherwise |-> FALSE]

ChooseFrame(h) ==
  [type |-> "Choose", node |-> h, idx |-> 1, acc |-> << >>,
   pending |-> NoTag, was |-> FALSE, hasOtherwise |-> FALSE]

(* Frames of the union pass.                                               *)
UFrame ==
  [type : {"Union", "UnionChoose"}, node : Holder, idx : Nat \ {0},
   pieces : Seq(Piece)]

UnionFrame(h) == [type |-> "Union", node |-> h, idx |-> 1, pieces |-> << >>]

UnionChooseFrame(h) ==
  [type |-> "UnionChoose", node |-> h, idx |-> 1, pieces |-> << >>]

(* The codes of the diagnostics the passes emit, and the tag each is about. *)
Diagnostic ==
  [code : {"UnknownElement", "IncludeAtWrapperBoundary", "NestingLimitExceeded",
           "BranchLimitExceeded"},
   at : Holder]

Diag(c, n) == [code |-> c, at |-> n]

Ctx ==
  [depth : Int, insideUnknown : BOOLEAN, diags : Seq(Diagnostic),
   paths : Seq(Node), includes : Seq(Node)]

FreshCtx ==
  [depth |-> 0, insideUnknown |-> FALSE, diags |-> << >>, paths |-> << >>,
   includes |-> << >>]

NoResult == [kind |-> "none"]

-------------------------------------------------------------------------------
Top == stack[Len(stack)]
Below == SubSeq(stack, 1, Len(stack) - 1)
WithTop(f) == Append(Below, f)

(* The segment the running frame looks at, when it has one left.           *)
HasSegment == Top.idx <= Len(tree.kids[Top.node])
Segment == tree.kids[Top.node][Top.idx]

(* The frames whose push counted as a nesting level: a choose's own loop   *)
(* over its children did not.                                              *)
Levels(s) == {i \in DOMAIN s : s[i].type \in {"Body", "Union"}}

(* The check of descend_body and descend_union.                            *)
DepthReached == ctx.depth >= DepthLimit

(* record_include: nothing to record of an include without a refid.        *)
RecordedInclude(n) == IF tree.kind[n] = "include" THEN <<n>> ELSE << >>
===============================================================================
