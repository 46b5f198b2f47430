---------------------------- MODULE MarkupReference ----------------------------
(***************************************************************************)
(* What MarkupWalk's result ought to be, told from the document alone: by  *)
(* the nesting of its tags where they nest, by the recovery rules at the   *)
(* head of src/src/parse.rs where they do not.                             *)
(***************************************************************************)
EXTENDS MarkupWalk, FiniteSetsExt, SequencesExt

Broken == <<"none">>    \* no stack of open elements: the tags do not nest

(* The stack of open elements with one more token.                         *)
Nested(before, t) ==
  IF before = Broken \/ t.type \in {"bad", "stuck"} THEN Broken
  ELSE IF t.type = "start" THEN Append(before, t.name)
  ELSE IF t.type # "end" THEN before
  ELSE IF before # << >> /\ Last(before) = t.name THEN Front(before)
  ELSE Broken

(* What is open after each token, of the elements opened since from.       *)
Nesting(from) ==
  LET after[i \in from .. Len(doc)] ==
        IF i = from THEN << >> ELSE Nested(after[i - 1], doc[i])
  IN  after

WellNested(from, to) == Nesting(from)[to] = << >>

(* Where an element that starts at from ends, if everything in it nests.   *)
Ends(from) == {e \in from + 1 .. Len(doc) : WellNested(from, e)}
End(from) == Min(Ends(from))

HasRoot ==
  \E i \in 1 .. Len(doc) : /\ doc[i].type \in {"start", "empty"}
                           /\ doc[i].name \in RootName
                           /\ RootStart = i - 1

RootNests == HasRoot /\ Ends(RootStart) # {}

(* Where the direct children of the element at from start that are of the  *)
(* given types.                                                            *)
Children(from, types) ==
  {i \in from + 1 .. End(from) - 1 :
     doc[i + 1].type \in types /\ Len(Nesting(from)[i]) = 1}

InOrder(P) ==
  [k \in 1 .. Cardinality(P) |-> CHOOSE i \in P : Cardinality({j \in P : j < i}) = k - 1]

SegmentAt(i) ==
  [type |-> IF doc[i + 1].type \in TagType THEN "tag" ELSE "text", from |-> i, to |-> End(i)]

ReferenceSegments(from) ==
  LET kids == InOrder(Children(from, {"start", "empty", "text", "amp"}))
  IN  [k \in DOMAIN kids |-> SegmentAt(kids[k])]

ElementAt(i) ==
  [name |-> doc[i + 1].name, from |-> i, to |-> End(i),
   segments |-> ReferenceSegments(i), truncated |-> FALSE]

RootChildren == Children(RootStart, {"start", "empty"})
Captured == {i \in RootChildren : doc[i + 1].name \in CapturedName}
Stray == {i \in RootChildren : doc[i + 1].name \notin CapturedName \cup IgnorableName}

ReferenceElements ==
  LET kids == InOrder(Captured) IN [k \in DOMAIN kids |-> ElementAt(kids[k])]

Unclosed == {d \in diags : d.code = "UnclosedTag"}

(* A mapper whose tags nest yields exactly its children, whatever precedes *)
(* or follows it.  One whose tags do not nest never passes without an      *)
(* UnclosedTag, although none of the loops compares names and each of them *)
(* believes the first End that comes its way.                              *)
StructureOrReport ==
  pass = "document" /\ mapper /\ loop \in {"trailing", "done"} =>
    IF RootNests THEN elements = ReferenceElements ELSE Unclosed # {}

(* And no false alarm, on the first reading or on the second of any tag    *)
(* whose own tags nest.                                                    *)
NoFalseAlarm ==
  \A d \in Unclosed :
    /\ RootNests => d.from < RootStart
    /\ pass = "subtree" /\ WellNested(element, limit) => d.from \notin element .. limit - 1

(* Every tag between the children of the root is accounted for: ignored by *)
(* name or reported.                                                       *)
StrayElementsReported ==
  pass = "document" /\ mapper /\ loop = "done" /\ RootNests =>
    {d \in diags : d.code = "UnknownElement"} =
      {Diag("UnknownElement", i, End(i)) : i \in Stray}

-------------------------------------------------------------------------------
(* The recovery rules.  A closing tag closes the element of its name, and  *)
(* with it those opened since (rule 1), or nothing when there is none      *)
(* (rule 2).                                                               *)
Recovered ==
  LET after[i \in 0 .. Len(doc)] ==
        IF i = 0 THEN << >>
        ELSE LET before == after[i - 1]
                 t == doc[i]
                 named == {k \in DOMAIN before : before[k] = t.name}
             IN  IF t.type = "start" THEN Append(before, t.name)
                 ELSE IF t.type = "end" /\ named # {}
                 THEN SubSeq(before, 1, Max(named) - 1)
                 ELSE before
  IN  after

IsOrphan(i) ==
  doc[i + 1].type = "end" /\ doc[i + 1].name \notin ToSet(Recovered[i])

ClosesOthers(i) ==
  /\ doc[i + 1].type = "end"
  /\ ~ IsOrphan(i)
  /\ doc[i + 1].name # Last(Recovered[i])

Orphans == {i \in 0 .. Len(doc) - 1 : IsOrphan(i)}
Closers == {i \in 0 .. Len(doc) - 1 : ClosesOthers(i)}

(* The elements a document opens directly under its root while the root is *)
(* open.  What is behind it is trailing content and ignored by design.     *)
RecoveredElements ==
  LET above(i) == Len(Recovered[i]) - Len(Recovered[RootStart])
  IN  {i \in RootStart + 1 .. Len(doc) - 1 :
         /\ doc[i + 1].type \in {"start", "empty"} /\ doc[i + 1].name \in CapturedName
         /\ above(i) = 1
         /\ \A j \in RootStart + 1 .. i : above(j) > 0}

AllElementsFound ==
  pass = "document" /\ loop = "done" =>
    RecoveredElements \subseteq {elements[i].from : i \in DOMAIN elements}

PlainMarkup == \A i \in DOMAIN doc : doc[i].type \notin {"bad", "stuck"}

(* parse.rs:14, recovery rule 1: "Unclosed tag -> implicitly closed when   *)
(* the parent closes".  Of documents in which one end tag has elements to  *)
(* close with its own, and no other fault.                                 *)
UnclosedTagImplicitlyClosed ==
  /\ HasRoot /\ PlainMarkup
  /\ Orphans = {} /\ Cardinality(Closers) = 1
  /\ Recovered[Len(doc)] = << >>
  => AllElementsFound

(* parse.rs:16, recovery rule 2: "Orphan closing tag -> ignored".  Of      *)
(* documents with one orphan end tag, and no other fault.                  *)
OrphanIgnored ==
  /\ HasRoot /\ PlainMarkup
  /\ Cardinality(Orphans) = 1 /\ Closers = {}
  /\ Recovered[Len(doc)] = << >>
  => AllElementsFound
===============================================================================
