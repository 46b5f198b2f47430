---------------------------- MODULE CartesianEngine ----------------------------
(***************************************************************************)
(* The first pass of `flatten_body`: BodyFrame and ChooseFrame on the      *)
(* worklist `run` drives.  One action is one turn of a frame's `step` loop *)
(* or one `deliver`, together with what `run` does with its answer.        *)
(***************************************************************************)
EXTENDS FlattenState

Running(type) ==
  /\ phase = "cartesian"
  /\ stack # << >>
  /\ Top.type = type

Stepping(type) == Running(type) /\ ~ arrived

Delivering(type) == Running(type) /\ arrived

-------------------------------------------------------------------------------
(* finish_pending, try_combine: the alternatives of one tag from those of  *)
(* its body, and their product with what the frame gathered so far.        *)

(* An alternative for the condition being false, then those of the body.   *)
Guarded(n, lead, alts) ==
  <<EmptyAlt>> \o
  [i \in DOMAIN alts |-> [pieces |-> lead \o alts[i].pieces,
                          conds |-> <<n>> \o alts[i].conds]]

IsBlank(pieces) ==
  \A i \in DOMAIN pieces :
    /\ pieces[i].what = "text"
    /\ \A j \in DOMAIN pieces[i].of : tree.kind[pieces[i].of[j]] = "blank"

(* assemble, to_piece: wrapper text before the body, in which a prepend is *)
(* plain text from now on.                                                 *)
Wrapped(n, pieces) ==
  <<[what |-> "wrapper", of |-> <<n>>]>> \o
  [i \in DOMAIN pieces |->
     IF pieces[i].what = "prepend" THEN [pieces[i] EXCEPT !.what = "wrapper"]
                                   ELSE pieces[i]]

WrappedUnlessBlank(n, pieces) ==
  IF IsBlank(pieces) THEN << >> ELSE Wrapped(n, pieces)

WithoutFirstPrepend(pieces) ==
  LET found == {i \in DOMAIN pieces : pieces[i].what = "prepend"}
      first == CHOOSE i \in found : \A j \in found : i <= j
  IN  IF found = {} THEN pieces
      ELSE SubSeq(pieces, 1, first - 1) \o SubSeq(pieces, first + 1, Len(pieces))

(* What a wrapper makes of the text of one alternative; a transparent tag  *)
(* and a choose leave it as it is.                                         *)
WrapperText(n, pieces) ==
  CASE tree.kind[n] = "where" -> WrappedUnlessBlank(n, pieces)
    [] tree.kind[n] \in {"foreach", "iterate"} -> Wrapped(n, pieces)
    [] tree.kind[n] = "dynamic" ->
         WrappedUnlessBlank(n, WithoutFirstPrepend(pieces))
    [] OTHER -> pieces

FinishPending(n, alts) ==
  CASE tree.kind[n] = "if" -> Guarded(n, << >>, alts)
    [] tree.kind[n] = "is" ->
         Guarded(n, <<[what |-> "prepend", of |-> <<n>>]>>, alts)
    [] OTHER -> [i \in DOMAIN alts |->
                   [alts[i] EXCEPT !.pieces = WrapperText(n, @)]]

Joined(a, b) == [pieces |-> a.pieces \o b.pieces, conds |-> a.conds \o b.conds]

\* Mutated: the first operand varies fastest.
CombinedByColumn(acc, local) ==
  [k \in 1 .. Len(acc) * Len(local) |->
     Joined(acc[((k - 1) % Len(acc)) + 1], local[((k - 1) \div Len(acc)) + 1])]

(* Every alternative of acc with every one of local, the latter varying    *)
(* fastest.                                                                *)
Combined(acc, local) ==
  [k \in 1 .. Len(acc) * Len(local) |->
     Joined(acc[((k - 1) \div Len(local)) + 1], local[((k - 1) % Len(local)) + 1])]

\* Mutated: only a conditional's own alternatives are held to the cap.
ExcessOfOneTag(n, acc, local) ==
  IF tree.kind[n] \in {"if", "is"} /\ Len(local) > BranchLimit THEN Len(local) ELSE 0

(* The count a delivery gives up with, 0 when it stays within the cap.     *)
Excess(n, acc, local) ==
  IF tree.kind[n] \in {"if", "is"} /\ Len(local) > BranchLimit THEN Len(local)
  ELSE IF Len(acc) * Len(local) > BranchLimit THEN Len(acc) * Len(local)
  ELSE 0

-------------------------------------------------------------------------------
(* What `run` does with the answer of a frame.                             *)

\* Mutated: the drained frames keep their nesting levels.
FailKeepingDepth(n, c) ==
  /\ phase' = "overflow"
  /\ branchCount' = n
  /\ stack' = << >>
  /\ arrived' = FALSE
  /\ incoming' = << >>
  /\ ctx' = [c EXCEPT !.depth = @ - 1]
  /\ UNCHANGED <<tree, result>>

\* Mutated: the suspended frames are left on the worklist.
FailKeepingFrames(n, c) ==
  /\ phase' = "overflow"
  /\ branchCount' = n
  /\ stack' = Below
  /\ arrived' = FALSE
  /\ incoming' = << >>
  /\ ctx' = [c EXCEPT !.depth = @ - 1]
  /\ UNCHANGED <<tree, result>>

(* Advance::Finished(Err(n)): every suspended frame is dropped unheard.    *)
Fail(n, c) ==
  /\ phase' = "overflow"
  /\ branchCount' = n
  /\ stack' = << >>
  /\ arrived' = FALSE
  /\ incoming' = << >>
  /\ ctx' = [c EXCEPT !.depth = @ - Cardinality(Levels(stack))]
  /\ UNCHANGED <<tree, result>>

(* Advance::Finished(Ok(alts)): the frame is popped and alts go to the one *)
(* below, or are the whole answer when it was the last.                    *)
Finish(alts) ==
  /\ stack' = Below
  /\ ctx' = [ctx EXCEPT !.depth = @ - (IF Top.type = "Body" THEN 1 ELSE 0)]
  /\ IF Below = << >>
     THEN /\ phase' = "done"
          /\ result' = [kind |-> "variants", alts |-> alts, diags |-> ctx.diags,
                        paths |-> ctx.paths, includes |-> ctx.includes]
          /\ arrived' = FALSE
          /\ incoming' = << >>
     ELSE /\ arrived' = TRUE
          /\ incoming' = alts
          /\ UNCHANGED <<phase, result>>
  /\ UNCHANGED <<tree, branchCount>>

\* Mutated: the flag is left up.
FlagLeftUp(f, c) == c.insideUnknown

(* restore_inside_unknown: what the flag is once f resumes.                *)
RestoredFlag(f, c) ==
  IF f.type = "Body" /\ IsTransparent(tree, f.pending) THEN f.was
  ELSE c.insideUnknown

(* deliver, on frame f at the top: fold alts in and resume, or give up.    *)
Absorb(f, alts, c) ==
  LET n == f.pending
      local == IF f.type = "Body" THEN FinishPending(n, alts)
               ELSE IF tree.kind[n] = "when" THEN Tail(Guarded(n, << >>, alts))
               ELSE alts
      excess == IF f.type = "Body" THEN Excess(n, f.acc, local)
                ELSE IF Len(f.acc) + Len(local) > BranchLimit
                     THEN Len(f.acc) + Len(local) ELSE 0
      acc == IF f.type = "Body" THEN Combined(f.acc, local) ELSE f.acc \o local
      restored == [c EXCEPT !.insideUnknown = RestoredFlag(f, c)]
  IN  IF excess > 0 THEN Fail(excess, restored)
      ELSE /\ stack' = WithTop([f EXCEPT !.acc = acc, !.pending = NoTag])
           /\ ctx' = restored
           /\ arrived' = FALSE
           /\ incoming' = << >>
           /\ UNCHANGED <<tree, phase, branchCount, result>>

(* descend_body for the tag n that frame f, at the top, just consumed: the *)
(* body of n gets a frame of its own, unless the nesting is already at the *)
(* limit, when an empty body is delivered on the spot.                     *)
Descend(f, n, c) ==
  LET suspended == [f EXCEPT !.pending = n, !.was = ctx.insideUnknown]
  IN  IF DepthReached
      THEN Absorb(suspended, <<EmptyAlt>>,
                  [c EXCEPT !.diags = Append(@, Diag("NestingLimitExceeded", n))])
      ELSE /\ stack' = Append(WithTop(suspended), BodyFrame(n))
           /\ ctx' = [c EXCEPT !.depth = @ + 1]
           /\ UNCHANGED <<tree, phase, arrived, incoming, branchCount, result>>

-------------------------------------------------------------------------------
(* BodyFrame::step, one action per arm.                                    *)

Consumed == [Top EXCEPT !.idx = @ + 1]

AppendToEach(alts, piece) ==
  [i \in DOMAIN alts |-> [alts[i] EXCEPT !.pieces = Append(@, piece)]]

BodyText ==
  /\ Stepping("Body") /\ HasSegment /\ IsText(tree, Segment)
  /\ LET run == TextRun(tree, Top.node, Top.idx)
     IN  /\ stack' = WithTop([Top EXCEPT
                       !.idx = RunEnd(tree, Top.node, Top.idx),
                       !.acc = AppendToEach(@, [what |-> "text", of |-> run])])
         /\ ctx' = [ctx EXCEPT !.paths = @ \o run]
  /\ UNCHANGED <<tree, phase, arrived, incoming, branchCount, result>>

(* The token is rendered with or without a refid to record.                *)
BodyInclude ==
  /\ Stepping("Body") /\ HasSegment /\ tree.kind[Segment] \in IncludeKind
  /\ stack' = WithTop([Consumed EXCEPT
                !.acc = AppendToEach(@, [what |-> "include", of |-> <<Segment>>])])
  /\ ctx' = [ctx EXCEPT !.includes = @ \o RecordedInclude(Segment)]
  /\ UNCHANGED <<tree, phase, arrived, incoming, branchCount, result>>

BodyBind ==
  /\ Stepping("Body") /\ HasSegment /\ tree.kind[Segment] = "bind"
  /\ stack' = WithTop(Consumed)
  /\ ctx' = [ctx EXCEPT !.paths = Append(@, Segment)]
  /\ UNCHANGED <<tree, phase, arrived, incoming, branchCount, result>>

\* Mutated: the body frame does not wait for the choose.
BodyChooseUnawaited ==
  /\ Stepping("Body") /\ HasSegment /\ tree.kind[Segment] = "choose"
  /\ stack' = Append(WithTop(Consumed), ChooseFrame(Segment))
  /\ UNCHANGED <<tree, phase, arrived, incoming, ctx, branchCount, result>>

(* A choose gets a frame of its own whatever the nesting.                  *)
BodyChoose ==
  /\ Stepping("Body") /\ HasSegment /\ tree.kind[Segment] = "choose"
  /\ stack' = Append(WithTop([Consumed EXCEPT !.pending = Segment]),
                     ChooseFrame(Segment))
  /\ UNCHANGED <<tree, phase, arrived, incoming, ctx, branchCount, result>>

(* if, is*, where, set, trim, foreach, iterate and dynamic.                *)
BodyWrapper ==
  /\ Stepping("Body") /\ HasSegment
  /\ tree.kind[Segment] \in {"if", "is", "where", "foreach", "iterate", "dynamic"}
  /\ LET boundary == IF tree.kind[Segment] = "where"
                     THEN BoundaryIncludes(tree, Segment) ELSE << >>
         warnings == [i \in DOMAIN boundary |->
                        Diag("IncludeAtWrapperBoundary", boundary[i])]
         property == IF tree.kind[Segment] = "iterate" THEN <<Segment>> ELSE << >>
     IN  Descend(Consumed, Segment, [ctx EXCEPT !.diags = @ \o warnings,
                                                !.paths = @ \o property])

(* The catch-all arm: only the outermost of nested unknown elements is     *)
(* reported.                                                               *)
BodyTransparent ==
  /\ Stepping("Body") /\ HasSegment /\ IsTransparent(tree, Segment)
  /\ LET unknown == IsUnknown(tree, Segment)
         report == IF unknown /\ ~ ctx.insideUnknown
                   THEN <<Diag("UnknownElement", Segment)>> ELSE << >>
     IN  Descend(Consumed, Segment,
                 [ctx EXCEPT !.diags = @ \o report,
                             !.insideUnknown = @ \/ unknown])

BodyEnd ==
  /\ Stepping("Body") /\ ~ HasSegment
  /\ Finish(Top.acc)

BodyDeliver ==
  /\ Delivering("Body")
  /\ Absorb(Top, incoming, ctx)

-------------------------------------------------------------------------------
(* ChooseFrame::step and ::deliver.                                        *)

\* Mutated: the cursor stays on the stray child.
ChooseStrayStuck ==
  /\ Stepping("Choose") /\ HasSegment /\ tree.kind[Segment] \notin BranchKind
  /\ stack' = stack
  /\ ctx' = ctx
  /\ UNCHANGED <<tree, phase, arrived, incoming, branchCount, result>>

\* Mutated: a choose straight under a choose gets a frame as well.
ChooseStrayDescended ==
  /\ Stepping("Choose") /\ HasSegment /\ tree.kind[Segment] \notin BranchKind
  /\ stack' = WithTop(Consumed) \o
       (IF tree.kind[Segment] = "choose" THEN <<ChooseFrame(Segment)>> ELSE << >>)
  /\ UNCHANGED <<tree, phase, arrived, incoming, ctx, branchCount, result>>

(* Text between the branches is dropped; any other tag is reported.        *)
ChooseStray ==
  /\ Stepping("Choose") /\ HasSegment /\ tree.kind[Segment] \notin BranchKind
  /\ stack' = WithTop(Consumed)
  /\ ctx' = IF IsText(tree, Segment) THEN ctx
            ELSE [ctx EXCEPT !.diags = Append(@, Diag("UnknownElement", Segment))]
  /\ UNCHANGED <<tree, phase, arrived, incoming, branchCount, result>>

ChooseBranch ==
  /\ Stepping("Choose") /\ HasSegment /\ tree.kind[Segment] \in BranchKind
  /\ Descend([Consumed EXCEPT !.hasOtherwise = @ \/ tree.kind[Segment] = "otherwise"],
             Segment, ctx)

(* Without an otherwise, "no branch" is one more alternative; it is added  *)
(* after the last check against the cap.                                   *)
ChooseEnd ==
  /\ Stepping("Choose") /\ ~ HasSegment
  /\ Finish(IF Top.hasOtherwise THEN Top.acc ELSE Append(Top.acc, EmptyAlt))

ChooseDeliver ==
  /\ Delivering("Choose")
  /\ Absorb(Top, incoming, ctx)

CartesianNext ==
  \/ BodyText \/ BodyInclude \/ BodyBind \/ BodyChoose \/ BodyWrapper
  \/ BodyTransparent \/ BodyEnd \/ BodyDeliver
  \/ ChooseStray \/ ChooseBranch \/ ChooseEnd \/ ChooseDeliver
===============================================================================
