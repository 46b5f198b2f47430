------------------------------ MODULE FlattenBody ------------------------------
(***************************************************************************)
(* `flatten_body`: the cartesian pass and, when it gives up, the union     *)
(* pass from scratch on a fresh Ctx.                                       *)
(***************************************************************************)
EXTENDS CartesianEngine, UnionEngine

(* run_flatten_engine goes through descend_body too, so that the root's    *)
(* own frame is nesting level one.                                         *)
Init ==
  /\ tree \in Trees
  /\ phase = "cartesian"
  /\ stack = <<BodyFrame(Root)>>
  /\ arrived = FALSE
  /\ incoming = << >>
  /\ ctx = [FreshCtx EXCEPT !.depth = 1]
  /\ branchCount = 0
  /\ result = NoResult

\* Mutated: the abandoned pass leaves its side channels behind.
FallBackKeepingCtx ==
  /\ phase = "overflow"
  /\ phase' = "union"
  /\ stack' = <<UnionFrame(Root)>>
  /\ ctx' = [ctx EXCEPT !.depth = 1]
  /\ UNCHANGED <<tree, arrived, incoming, branchCount, result>>

(* The Err arm of flatten_body: nothing of the attempt is kept but the     *)
(* count.                                                                  *)
FallBack ==
  /\ phase = "overflow"
  /\ phase' = "union"
  /\ stack' = <<UnionFrame(Root)>>
  /\ ctx' = [FreshCtx EXCEPT !.depth = 1]
  /\ UNCHANGED <<tree, arrived, incoming, branchCount, result>>

Next == CartesianNext \/ FallBack \/ UnionNext

(* One thread runs the loop to its end, so an enabled step is taken.       *)
Spec == Init /\ [][Next]_vars /\ WF_vars(Next)

-------------------------------------------------------------------------------
(* Types of the state, phase by phase.                                     *)
TypeOK ==
  /\ tree \in Tree
  /\ phase \in {"cartesian", "overflow", "union", "done"}
  /\ phase = "cartesian" => stack \in Seq(Frame) /\ incoming \in Seq(Alt)
  /\ phase = "union" => stack \in Seq(UFrame) /\ incoming \in Seq(Piece)
  /\ phase \in {"overflow", "done"} => stack = << >> /\ incoming = << >>
  /\ arrived \in BOOLEAN
  /\ ctx \in Ctx
  /\ branchCount \in Nat

(* Ctx::depth is decremented away from where it is incremented: in `run`,  *)
(* when a frame is popped or, after an Err, drained unheard.  It must      *)
(* still be the number of bodies being walked, at every step and when a    *)
(* pass is over, and it never exceeds the limit.                           *)
DepthCountsLevels ==
  /\ ctx.depth = Cardinality(Levels(stack))
  /\ ctx.depth <= DepthLimit

(* `deliver` quietly does nothing on a frame that is not waiting.  It      *)
(* never comes to that, and no alternatives are lost to it: in the         *)
(* cartesian pass exactly the frames below the top one are waiting, each   *)
(* for the tag the frame above it walks, and the top one waits just when   *)
(* an answer has arrived for it.                                           *)
WaitingFrames ==
  phase = "cartesian" =>
    /\ stack # << >>
    /\ \A i \in 1 .. Len(stack) - 1 : stack[i].pending = stack[i + 1].node
    /\ \A i \in 1 .. Len(stack) - 1 : stack[i].pending # NoTag
    /\ (Top.pending # NoTag) <=> arrived

(* A choose's frame is pushed without a look at the nesting limit.  The    *)
(* worklist stays bounded all the same, for a choose never comes to lie    *)
(* directly on a choose: at most two frames a level.                       *)
ChoosesApart ==
  /\ stack # << >> => 1 \in Levels(stack)
  /\ \A i \in 1 .. Len(stack) - 1 : i \in Levels(stack) \/ i + 1 \in Levels(stack)

WorklistBounded == ChoosesApart /\ Len(stack) <= 2 * DepthLimit

(* The cap bounds what is ever materialised, not only the answer: no body  *)
(* frame accumulates more alternatives than the cap or loses them all, and *)
(* what is delivered exceeds it at most by a choose's implicit "no         *)
(* branch", which is added after the last check; an answer is never        *)
(* empty, for a choose that counts on its otherwise has heard of it.       *)
FrameWithinCap(f) ==
  /\ Len(f.acc) <= BranchLimit
  /\ f.type = "Body" \/ (f.hasOtherwise /\ f.pending = NoTag) => Len(f.acc) >= 1

AlternativesWithinCap ==
  /\ phase = "cartesian" =>
       /\ \A i \in DOMAIN stack : FrameWithinCap(stack[i])
       /\ arrived => Len(incoming) \in 1 .. BranchLimit + 1
  /\ result.kind = "variants" => Len(result.alts) \in 1 .. BranchLimit

(* The flag that silences nested unknown elements is up exactly while the  *)
(* body of one is being walked, so that it silences no sibling after it.   *)
UnknownFlagIsScoped ==
  phase = "cartesian" =>
    (ctx.insideUnknown <=>
       \E i \in DOMAIN stack :
         stack[i].pending # NoTag /\ IsUnknown(tree, stack[i].pending)
         /\ stack[i].type = "Body")

(* Property paths and includes come out in document order, each physical   *)
(* one once, whichever pass they come from: the alternatives multiply, the *)
(* side channels do not, and nothing of an abandoned pass survives.        *)
Ascending(s) == \A i, j \in DOMAIN s : i < j => s[i] < s[j]

SideChannelsInDocumentOrder == Ascending(ctx.paths) /\ Ascending(ctx.includes)

(* README.md:156 of the include that opens or closes a where, set or trim: *)
(* "it's emitted whenever an `<include>` is the first or last              *)
(* non-whitespace direct child".  Stated of wrappers at the top level.     *)
BoundaryIncludesReported ==
  phase = "done" =>
    \A i \in DOMAIN tree.kids[Root] :
      LET n == tree.kids[Root][i]
          reported == {result.diags[j].at : j \in {k \in DOMAIN result.diags :
                         result.diags[k].code = "IncludeAtWrapperBoundary"}}
      IN  tree.kind[n] = "where" =>
            \A j \in DOMAIN BoundaryIncludes(tree, n) :
              BoundaryIncludes(tree, n)[j] \in reported

(* Whatever the body, flattening comes to an end.                          *)
Termination == <>(phase = "done")
===============================================================================
