--------------------------- MODULE FlattenReference ---------------------------
(***************************************************************************)
(* What flattening promises of a body, without frames, stack or order of   *)
(* work: the alternatives by structural recursion, the side channels by    *)
(* which segments are in reach at all.  The dispatch on tag names is the   *)
(* code's; how the worklist gets there is not repeated here.               *)
(***************************************************************************)
EXTENDS BodyTree, SequencesExt

CONSTANTS BranchLimit, DepthLimit

Pick(S) == CHOOSE x \in S : TRUE

ParentOf(t, n) == Pick({h \in Holder : \E i \in DOMAIN t.kids[h] : t.kids[h][i] = n})

IsChoose(t, h) == h # Root /\ t.kind[h] = "choose"

(* The nesting level of the body of n; a choose adds none.                 *)
LevelOf(t) ==
  LET level[n \in Holder] ==
        IF n = Root THEN 1
        ELSE level[ParentOf(t, n)] + (IF IsChoose(t, n) THEN 0 ELSE 1)
  IN  level

(* Whether n has a body that counts where it stands: a choose looks only   *)
(* at its branches.                                                        *)
HasBody(t, n) ==
  IF IsChoose(t, ParentOf(t, n)) THEN t.kind[n] \in BranchKind
  ELSE t.kind[n] \notin TextKind \cup IncludeKind \cup {"bind"}

IsCut(t, n) == HasBody(t, n) /\ ~ IsChoose(t, n) /\ LevelOf(t)[n] > DepthLimit

Walked(t) ==
  LET walked[n \in Holder] ==
        n = Root \/ (walked[ParentOf(t, n)] /\ HasBody(t, n) /\ ~ IsCut(t, n))
  IN  walked

(* The segments some body frame comes across.                              *)
InReach(t, n) == Walked(t)[ParentOf(t, n)] /\ ~ IsChoose(t, ParentOf(t, n))

-------------------------------------------------------------------------------
(* The alternatives.                                                       *)

Empty == [pieces |-> << >>, conds |-> << >>]

PieceOf(w, s) == [what |-> w, of |-> s]

IndexIn(t, n) ==
  Pick({i \in DOMAIN t.kids[ParentOf(t, n)] : t.kids[ParentOf(t, n)][i] = n})

StartsRun(t, n) ==
  IsText(t, n) /\ (IndexIn(t, n) = 1
                   \/ ~ IsText(t, t.kids[ParentOf(t, n)][IndexIn(t, n) - 1]))

RunPiece(t, n) == PieceOf("text", TextRun(t, ParentOf(t, n), IndexIn(t, n)))

When(n, alt) == [alt EXCEPT !.conds = <<n>> \o @]

Visible(t, pieces) ==
  \E i \in DOMAIN pieces :
    pieces[i].what # "text" \/ \E m \in ToSet(pieces[i].of) : t.kind[m] # "blank"

(* A prepend inside a wrapper is ordinary text outside it.                 *)
Around(n, pieces) ==
  <<PieceOf("wrapper", <<n>>)>> \o
  [i \in DOMAIN pieces |->
     IF pieces[i].what = "prepend" THEN PieceOf("wrapper", pieces[i].of)
     ELSE pieces[i]]

FirstPrependGone(pieces) ==
  LET first == SelectInSeq(pieces, LAMBDA p : p.what = "prepend")
  IN  IF first = 0 THEN pieces ELSE RemoveAt(pieces, first)

Rewrite(t, n, pieces) ==
  CASE t.kind[n] = "where" /\ ~ Visible(t, pieces) -> << >>
    [] t.kind[n] = "dynamic" /\ ~ Visible(t, FirstPrependGone(pieces)) -> << >>
    [] t.kind[n] \in {"where", "foreach", "iterate"} -> Around(n, pieces)
    [] t.kind[n] = "dynamic" -> Around(n, FirstPrependGone(pieces))
    [] t.kind[n] = "is" -> <<PieceOf("prepend", <<n>>)>> \o pieces
    [] OTHER -> pieces

(* A tag's alternatives where it stands in a body, from those of its body. *)
TagAlternatives(t, n, inner) ==
  LET rewritten == [i \in DOMAIN inner |->
                      [inner[i] EXCEPT !.pieces = Rewrite(t, n, @)]]
  IN  CASE t.kind[n] \in {"if", "is"} ->
             <<Empty>> \o [i \in DOMAIN inner |-> When(n, rewritten[i])]
        [] t.kind[n] \in IncludeKind ->
             <<[Empty EXCEPT !.pieces = <<PieceOf("include", <<n>>)>>]>>
        [] t.kind[n] = "bind" -> <<Empty>>
        [] OTHER -> rewritten

(* Document order of the left operand first: all pairs, row by row.        *)
Pairs(A, B) ==
  FlattenSeq([i \in DOMAIN A |->
    [j \in DOMAIN B |-> [pieces |-> A[i].pieces \o B[j].pieces,
                         conds |-> A[i].conds \o B[j].conds]]])

Alternatives(t) ==
  LET walked == Walked(t)
      alts[h \in Holder] ==
        LET kids == t.kids[h]
            one(k) ==
              IF IsText(t, k)
              THEN <<[Empty EXCEPT !.pieces =
                        IF StartsRun(t, k) THEN <<RunPiece(t, k)>> ELSE << >>]>>
              ELSE TagAlternatives(t, k, alts[k])
            branches == SelectSeq(kids, LAMBDA k : t.kind[k] \in BranchKind)
            branch(k) == IF t.kind[k] = "when"
                         THEN [i \in DOMAIN alts[k] |-> When(k, alts[k][i])]
                         ELSE alts[k]
            noBranch == IF \E i \in DOMAIN branches : t.kind[branches[i]] = "otherwise"
                        THEN << >> ELSE <<Empty>>
        IN  IF ~ walked[h] THEN <<Empty>>
            ELSE IF IsChoose(t, h)
            THEN FlattenSeq([i \in DOMAIN branches |-> branch(branches[i])]) \o noBranch
            ELSE FoldLeft(Pairs, <<Empty>>, [i \in DOMAIN kids |-> one(kids[i])])
  IN  alts[Root]

-------------------------------------------------------------------------------
(* The side channels.                                                      *)

InOrder(S) == SetToSortSeq(S, LAMBDA a, b : a < b)

Paths(t) ==
  InOrder({n \in Node : /\ t.kind[n] \in TextKind \cup {"bind", "iterate"}
                        /\ InReach(t, n)})

Includes(t) == InOrder({n \in Node : t.kind[n] = "include" /\ InReach(t, n)})

RECURSIVE Ancestors(_, _)
Ancestors(t, n) ==
  IF n = Root THEN {} ELSE {ParentOf(t, n)} \cup Ancestors(t, ParentOf(t, n))

UnknownInBody(t, n) == n # Root /\ IsUnknown(t, n) /\ ~ IsChoose(t, ParentOf(t, n))

DiagAt(c, n) == [code |-> c, at |-> n]

NestingDiagnostics(t, n) ==
  IF Walked(t)[ParentOf(t, n)] /\ IsCut(t, n)
  THEN <<DiagAt("NestingLimitExceeded", n)>> ELSE << >>

(* What the cartesian pass has to say on coming to n.                      *)
TagDiagnostics(t, n) ==
  LET parent == ParentOf(t, n)
      stray == IsChoose(t, parent) /\ ~ IsText(t, n) /\ t.kind[n] \notin BranchKind
      odd == UnknownInBody(t, n) /\ \A m \in Ancestors(t, n) : ~ UnknownInBody(t, m)
      boundary == IF t.kind[n] = "where" /\ InReach(t, n)
                  THEN BoundaryIncludes(t, n) ELSE << >>
  IN  IF ~ Walked(t)[parent] THEN << >>
      ELSE (IF stray \/ odd THEN <<DiagAt("UnknownElement", n)>> ELSE << >>)
           \o [i \in DOMAIN boundary |->
                 DiagAt("IncludeAtWrapperBoundary", boundary[i])]
           \o NestingDiagnostics(t, n)

Concatenated(F(_)) == FlattenSeq([n \in 1 .. NodeCount |-> F(n)])

(* The text of the union: each run and each include in reach, once.        *)
UnionPieces(t) ==
  Concatenated(LAMBDA n :
    IF ~ InReach(t, n) THEN << >>
    ELSE IF StartsRun(t, n) THEN <<RunPiece(t, n)>>
    ELSE IF t.kind[n] \in IncludeKind THEN <<PieceOf("include", <<n>>)>>
    ELSE << >>)

-------------------------------------------------------------------------------
(* The results a caller may be given: all alternatives when the cap        *)
(* allows, otherwise the union and a lower bound above the cap of how many *)
(* there would have been.                                                  *)
Permitted(t) ==
  LET alts == Alternatives(t)
      total == Len(alts)
  IN  IF total <= BranchLimit
      THEN {[kind |-> "variants", alts |-> alts,
             diags |-> Concatenated(LAMBDA n : TagDiagnostics(t, n)),
             paths |-> Paths(t), includes |-> Includes(t)]}
      ELSE {[kind |-> "union", pieces |-> UnionPieces(t), count |-> c,
             diags |-> Append(Concatenated(LAMBDA n : NestingDiagnostics(t, n)),
                              DiagAt("BranchLimitExceeded", Root)),
             paths |-> Paths(t), includes |-> Includes(t)]
              : c \in BranchLimit + 1 .. total}
===============================================================================
