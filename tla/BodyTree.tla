------------------------------- MODULE BodyTree -------------------------------
(***************************************************************************)
(* The body of one statement or fragment as the flattening engines see it: *)
(* a tree of text segments and dynamic tags.  `capture_body` delivers one  *)
(* level of it (a Vec<BodySegment>), and every descent calls               *)
(* `capture_subtree` for the next.                                         *)
(*                                                                         *)
(* A node is a number, in document order; what the text says, and the      *)
(* values of the attributes, are left out.                                 *)
(***************************************************************************)
EXTENDS Naturals, Sequences

CONSTANTS
  NodeCount,   \* how many segments and tags the body holds
  Trees        \* the bodies under consideration

Root == 0                      \* the statement itself
Node == 1 .. NodeCount
Holder == {Root} \cup Node     \* whatever can have a body

(***************************************************************************)
(* What the engines tell apart.  "where" stands for where, set and trim,   *)
(* whose only differences are in the wrapper text; "is" for every iBatis   *)
(* is* conditional; "known" for an element `is_known_ignorable_element`    *)
(* names and "unknown" for any other name.                                 *)
(***************************************************************************)
TextKind == {"text", "blank"}
IncludeKind == {"include", "noRefid"}    \* an include with and without a refid
BranchKind == {"when", "otherwise"}
TagKind == IncludeKind \cup BranchKind \cup
  {"bind", "choose", "if", "is", "where", "foreach", "iterate", "dynamic",
   "known", "unknown"}
Kind == TextKind \cup TagKind

Tree == [kind : [Node -> Kind], kids : [Holder -> Seq(Node)]]

(* The last node of what h holds, or h itself.                             *)
LastIn(t) ==
  LET last[h \in Holder] ==
        IF t.kids[h] = << >> THEN h ELSE last[t.kids[h][Len(t.kids[h])]]
  IN  last

(* Whatever is inside h is numbered behind h and up to LastIn(t)[h], and   *)
(* each child with all that it holds ahead of the next.                    *)
Numbered(t) ==
  \A h \in Holder :
    LET kids == t.kids[h]
    IN  /\ h <= LastIn(t)[h] /\ LastIn(t)[h] \in Holder
        /\ \A i \in DOMAIN kids :
             h < kids[i] /\ LastIn(t)[kids[i]] <= LastIn(t)[h]
        /\ \A i, j \in DOMAIN kids : i < j => LastIn(t)[kids[i]] < kids[j]

ASSUME TreesAssumption ==
  /\ NodeCount \in Nat
  /\ \A t \in Trees : t \in Tree /\ Numbered(t)

IsText(t, n) == t.kind[n] \in TextKind

(* Tags a body frame hands its catch-all arm: their content is folded in   *)
(* as if the tag were not there.  A when or an otherwise outside a choose  *)
(* is one of them.                                                         *)
IsTransparent(t, n) == t.kind[n] \in BranchKind \cup {"known", "unknown"}

IsUnknown(t, n) == t.kind[n] \in BranchKind \cup {"unknown"}

Earliest(S) == CHOOSE i \in S : \A j \in S : i <= j
Latest(S) == CHOOSE i \in S : \A j \in S : j <= i

(* The exclusive end of the maximal run of text that starts at segment i:  *)
(* the engines normalise adjacent text segments as one piece.              *)
RunEnd(t, h, i) ==
  LET kids == t.kids[h]
      stops == {j \in i .. Len(kids) : ~ IsText(t, kids[j])}
  IN  IF stops = {} THEN Len(kids) + 1 ELSE Earliest(stops)

TextRun(t, h, i) == SubSeq(t.kids[h], i, RunEnd(t, h, i) - 1)

(***************************************************************************)
(* The includes that are the first or the last segment of h that is not    *)
(* blank text, where a single include is both but is named once.           *)
(***************************************************************************)
BoundaryIncludes(t, h) ==
  LET kids == t.kids[h]
      content == {i \in DOMAIN kids : t.kind[kids[i]] # "blank"}
      ifInclude(i) == IF t.kind[kids[i]] \in IncludeKind THEN <<kids[i]>> ELSE << >>
  IN  IF content = {} THEN << >>
      ELSE ifInclude(Earliest(content)) \o
           (IF Earliest(content) = Latest(content) THEN << >>
            ELSE ifInclude(Latest(content)))
===============================================================================
