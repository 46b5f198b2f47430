------------------------------- MODULE MarkupWalk -------------------------------
(***************************************************************************)
(* How src/src/parse.rs walks a document that may be broken anywhere: the  *)
(* five loops of parse_str, build_mapper, capture_body, skip_subtree and   *)
(* scan_trailing_content over one reader, and capture_subtree's second     *)
(* reading of a tag already skipped.  What an element's attributes and     *)
(* body mean is left to MapperBuild and FlattenBody; here it is which      *)
(* elements and segments are found, where they end, and what is reported.  *)
(*                                                                         *)
(* One action is one turn of the innermost loop under way.                 *)
(***************************************************************************)
EXTENDS XmlReader, FiniteSets

CONSTANT Docs    \* the documents under consideration

ASSUME DocsAssumption == Docs \subseteq Seq(Token)

VARIABLES
  pass,       \* "document", or "subtree" when a tag is read a second time
  loop,       \* the innermost loop under way
  element,    \* where the element being walked starts (child_start, tag_start)
  child,      \* where the tag skipped inside a captured body starts
  depth,      \* skip_subtree's depth
  lastErr,    \* last_err_pos of each loop
  segments,   \* what capture_body has gathered
  elements,   \* the elements with a body or without that were collected
  tags,       \* dynamic tags captured and not yet read a second time
  diags,      \* the diagnostics; dedup_diagnostics makes them a set
  mapper      \* whether the result has a mapper

place == <<pass, loop, element, child, depth>>
found == <<segments, elements, tags, mapper>>
vars == <<doc, limit, pos, open, place, lastErr, found, diags>>

Loop == {"root", "mapper", "body", "skip", "trailing", "done"}
NoPos == -1

Segment == [type : {"text", "tag"}, from : Nat, to : Nat]
Element ==
  [name : CapturedName, from : Nat, to : Nat, segments : Seq(Segment),
   truncated : BOOLEAN]
Diagnostic ==
  [code : {"UnknownElement", "UnclosedTag", "InvalidEntity"}, from : Int, to : Int]

Diag(c, from, to) == [code |-> c, from |-> from, to |-> to]

(* An unclosed_tag from where something started to the end of the source.  *)
NeverClosed(from) == Diag("UnclosedTag", from, limit)

Report(D) == diags' = diags \cup D

(* The diagnostic of one more reference the reader cannot resolve.         *)
EntityReport == IF Tok.type = "amp" THEN {Diag("InvalidEntity", pos, pos + 1)} ELSE {}

(* Where build_mapper's own root element starts.                           *)
RootStart ==
  LET roots == {i \in 1 .. Len(doc) : doc[i].type \in {"start", "empty"}}
  IN  (CHOOSE i \in roots : \A j \in roots : i <= j) - 1

-------------------------------------------------------------------------------
(* What every loop does alike.                                             *)

\* Mutated: an error that is met once more is recovered from once more.
FirstErrorEver == TRUE

(* A loop gives up only when it is where it failed before.                 *)
FirstError == lastErr[loop] # pos

\* Mutated: the error goes unreported.
RecoverSilently ==
  /\ loop \in {"root", "mapper", "body", "skip"}
  /\ Fails /\ FirstError
  /\ Read
  /\ lastErr' = [lastErr EXCEPT ![loop] = pos]
  /\ UNCHANGED <<place, found, diags>>

(* recovery_diagnostic: the reader has got past the fault, carry on.       *)
Recover ==
  /\ loop \in {"root", "mapper", "body", "skip"}
  /\ Fails /\ FirstError
  /\ Read
  /\ lastErr' = [lastErr EXCEPT ![loop] = pos]
  /\ Report({Diag("UnclosedTag", pos, pos)})
  /\ UNCHANGED <<place, found>>

(* Events outside captured bodies that leave nothing but a diagnostic.     *)
PassOver ==
  /\ loop \in {"root", "mapper", "trailing"}
  /\ Sees({"text", "amp", "comment"})
  /\ Read
  /\ Report(EntityReport)
  /\ UNCHANGED <<place, found, lastErr>>

-------------------------------------------------------------------------------
(* parse_str.                                                              *)

RootOpens ==
  /\ loop = "root" /\ Sees({"start"}) /\ Tok.name \in RootName
  /\ Read
  /\ loop' = "mapper"
  /\ mapper' = TRUE
  /\ UNCHANGED <<pass, element, child, depth, segments, elements, tags, diags, lastErr>>

(* A self-closed root is complete at once.                                 *)
RootEmpty ==
  /\ loop = "root" /\ Sees({"empty"}) /\ Tok.name \in RootName
  /\ Read
  /\ loop' = "trailing"
  /\ mapper' = TRUE
  /\ UNCHANGED <<pass, element, child, depth, segments, elements, tags, diags, lastErr>>

(* Any other root, or none at all.                                         *)
RootForeign ==
  /\ loop = "root" /\ Sees({"start", "empty"}) /\ Tok.name \notin RootName
  /\ Read
  /\ loop' = "done"
  /\ Report({Diag("UnknownElement", pos, pos + 1)})
  /\ UNCHANGED <<pass, element, child, depth, found, lastErr>>

RootMissing ==
  /\ loop = "root" /\ AtEof
  /\ loop' = "done"
  /\ Report({Diag("UnknownElement", NoPos, NoPos)})
  /\ UNCHANGED <<doc, limit, pos, open, pass, element, child, depth, found, lastErr>>

RootGivesUp ==
  /\ loop = "root" /\ Fails /\ ~ FirstError
  /\ Read
  /\ loop' = "done"
  /\ Report({Diag("UnclosedTag", pos, pos)})
  /\ UNCHANGED <<pass, element, child, depth, found, lastErr>>

-------------------------------------------------------------------------------
(* build_mapper.                                                           *)

(* The loop ends; parse_str goes on to what follows the root.              *)
MapperDone ==
  /\ loop' = "trailing"
  /\ UNCHANGED <<pass, element, child, depth, found, lastErr>>

MapperCloses == loop = "mapper" /\ Closes /\ Read /\ MapperDone /\ UNCHANGED diags

MapperEof ==
  /\ loop = "mapper" /\ AtEof
  /\ MapperDone
  /\ Report({NeverClosed(RootStart)})
  /\ UNCHANGED <<doc, limit, pos, open>>

MapperGivesUp ==
  /\ loop = "mapper" /\ Fails /\ ~ FirstError
  /\ Read /\ MapperDone
  /\ Report({NeverClosed(pos)})

(* A statement, fragment or resultMap with a body.                         *)
MapperCaptures ==
  /\ loop = "mapper" /\ Sees({"start"}) /\ Tok.name \in CapturedName
  /\ Read
  /\ loop' = "body" /\ element' = pos /\ segments' = << >>
  /\ lastErr' = [lastErr EXCEPT !["body"] = NoPos]
  /\ UNCHANGED <<pass, child, depth, elements, tags, mapper, diags>>

(* Any other element: skip_subtree.                                        *)
MapperSkips ==
  /\ loop = "mapper" /\ Sees({"start"}) /\ Tok.name \notin CapturedName
  /\ Read
  /\ loop' = "skip" /\ element' = pos /\ depth' = 1
  /\ lastErr' = [lastErr EXCEPT !["skip"] = NoPos]
  /\ UNCHANGED <<pass, child, found, diags>>

\* Mutated: nothing is known to be ignorable.
UnknownReportAlways(name, from, to) == {Diag("UnknownElement", from, to)}

UnknownReport(name, from, to) ==
  IF name \in IgnorableName THEN {} ELSE {Diag("UnknownElement", from, to)}

MapperEmpty ==
  /\ loop = "mapper" /\ Sees({"empty"})
  /\ Read
  /\ IF Tok.name \in CapturedName
     THEN /\ elements' = Append(elements,
               [name |-> Tok.name, from |-> pos, to |-> pos + 1,
                segments |-> << >>, truncated |-> FALSE])
          /\ UNCHANGED diags
     ELSE /\ Report(UnknownReport(Tok.name, pos, pos + 1))
          /\ UNCHANGED elements
  /\ UNCHANGED <<place, segments, tags, mapper, lastErr>>

-------------------------------------------------------------------------------
(* capture_body, and what its two callers do with its answer: build_mapper *)
(* collects the element and breaks when the input was truncated,           *)
(* capture_subtree's callers have no use for that.  The tags it captured   *)
(* are there for flatten_body and collect_mappings to read again.          *)

BodyEnds(segs, end, truncated) ==
  /\ IF pass = "document"
     THEN /\ elements' = Append(elements,
               [name |-> doc[element + 1].name, from |-> element, to |-> end,
                segments |-> segs, truncated |-> truncated])
          /\ loop' = IF truncated THEN "trailing" ELSE "mapper"
     ELSE /\ loop' = "done"
          /\ UNCHANGED elements
  /\ tags' = tags \cup {segs[i] : i \in {j \in DOMAIN segs : segs[j].type = "tag"}}
  /\ segments' = << >>
  /\ child' = NoPos
  /\ depth' = 0
  /\ UNCHANGED <<pass, element, mapper, lastErr>>

BodyCloses ==
  /\ loop = "body" /\ Closes
  /\ Read
  /\ BodyEnds(segments, pos + 1, FALSE)
  /\ UNCHANGED diags

BodyEof ==
  /\ loop = "body" /\ AtEof
  /\ BodyEnds(segments, pos, TRUE)
  /\ Report({NeverClosed(element)})
  /\ UNCHANGED <<doc, limit, pos, open>>

BodyGivesUp ==
  /\ loop = "body" /\ Fails /\ ~ FirstError
  /\ Read
  /\ BodyEnds(segments, pos, TRUE)
  /\ Report({NeverClosed(pos)})

(* Text, a reference, CDATA or a self-closed tag is a segment.             *)
BodySegment ==
  /\ loop = "body" /\ Sees({"text", "amp", "empty"})
  /\ Read
  /\ segments' = Append(segments,
       [type |-> IF Tok.type = "empty" THEN "tag" ELSE "text",
        from |-> pos, to |-> pos + 1])
  /\ Report(EntityReport)
  /\ UNCHANGED <<place, elements, tags, mapper, lastErr>>

BodyIgnores ==
  /\ loop = "body" /\ Sees({"comment"})
  /\ Read
  /\ UNCHANGED <<place, found, diags, lastErr>>

BodySkips ==
  /\ loop = "body" /\ Sees({"start"})
  /\ Read
  /\ loop' = "skip" /\ child' = pos /\ depth' = 1
  /\ lastErr' = [lastErr EXCEPT !["skip"] = NoPos]
  /\ UNCHANGED <<pass, element, found, diags>>

-------------------------------------------------------------------------------
(* skip_subtree, and what build_mapper and capture_body do with its        *)
(* answer.                                                                 *)

InBody == child # NoPos
SkipStart == IF InBody THEN child ELSE element

\* Mutated: the count goes on past zero.
SkipCountsOn ==
  /\ loop = "skip"
  /\ \/ Sees({"start"}) /\ depth' = depth + 1
     \/ Closes /\ depth' = depth - 1
     \/ Sees({"empty", "text", "amp", "comment"}) /\ UNCHANGED depth
  /\ Read
  /\ UNCHANGED <<pass, loop, element, child, found, diags, lastErr>>

\* Mutated: an element inside the skipped one is not counted.
SkipCountsFlat ==
  /\ loop = "skip"
  /\ \/ Sees({"start", "empty", "text", "amp", "comment"})
     \/ Closes /\ depth > 1
  /\ Read
  /\ UNCHANGED <<place, found, diags, lastErr>>

SkipCounts ==
  /\ loop = "skip"
  /\ \/ Sees({"start"}) /\ depth' = depth + 1
     \/ Closes /\ depth > 1 /\ depth' = depth - 1
     \/ Sees({"empty", "text", "amp", "comment"}) /\ UNCHANGED depth
  /\ Read
  /\ UNCHANGED <<pass, loop, element, child, found, diags, lastErr>>

\* Mutated: the marker takes in the token after the tag.
SkipClosesLate ==
  /\ loop = "skip" /\ Closes /\ depth = 1
  /\ Read
  /\ IF InBody
     THEN /\ segments' = Append(segments, [type |-> "tag", from |-> child, to |-> pos + 2])
          /\ UNCHANGED diags
     ELSE /\ Report(UnknownReport(doc[element + 1].name, element, pos + 1))
          /\ UNCHANGED segments
  /\ loop' = IF InBody THEN "body" ELSE "mapper"
  /\ child' = NoPos /\ depth' = 0
  /\ UNCHANGED <<pass, element, elements, tags, mapper, lastErr>>

\* Mutated: the marker starts where the element does.
SkipClosesStale ==
  /\ loop = "skip" /\ Closes /\ depth = 1
  /\ Read
  /\ IF InBody
     THEN /\ segments' = Append(segments, [type |-> "tag", from |-> element, to |-> pos + 1])
          /\ UNCHANGED diags
     ELSE /\ Report(UnknownReport(doc[element + 1].name, element, pos + 1))
          /\ UNCHANGED segments
  /\ loop' = IF InBody THEN "body" ELSE "mapper"
  /\ child' = NoPos /\ depth' = 0
  /\ UNCHANGED <<pass, element, elements, tags, mapper, lastErr>>

SkipCloses ==
  /\ loop = "skip" /\ Closes /\ depth = 1
  /\ Read
  /\ IF InBody
     THEN /\ segments' = Append(segments, [type |-> "tag", from |-> child, to |-> pos + 1])
          /\ UNCHANGED diags
     ELSE /\ Report(UnknownReport(doc[element + 1].name, element, pos + 1))
          /\ UNCHANGED segments
  /\ loop' = IF InBody THEN "body" ELSE "mapper"
  /\ child' = NoPos /\ depth' = 0
  /\ UNCHANGED <<pass, element, elements, tags, mapper, lastErr>>

(* SkipOutcome::Eof and ::Err: the tag is lost, and the walk with it.      *)
SkipAbandoned ==
  /\ loop = "skip"
  /\ \/ AtEof /\ UNCHANGED <<doc, limit, pos, open>>
     \/ Fails /\ ~ FirstError /\ Read
  /\ IF InBody THEN BodyEnds(segments, pos, TRUE)
     ELSE /\ loop' = "trailing"
          /\ depth' = 0
          /\ UNCHANGED <<pass, element, child, found, lastErr>>
  /\ Report({NeverClosed(SkipStart)})

-------------------------------------------------------------------------------
(* scan_trailing_content: errors after the root are not reported.          *)

TrailingIgnores ==
  /\ loop = "trailing"
  /\ \/ Sees({"start", "empty"}) \/ Closes
  /\ Read
  /\ UNCHANGED <<place, found, diags, lastErr>>

\* Mutated: what is wrong after the root is reported as in it.
TrailingRecoversLoudly ==
  /\ loop = "trailing" /\ Fails /\ FirstError
  /\ Read
  /\ lastErr' = [lastErr EXCEPT !["trailing"] = pos]
  /\ Report({Diag("UnclosedTag", pos, pos)})
  /\ UNCHANGED <<place, found>>

TrailingRecovers ==
  /\ loop = "trailing" /\ Fails /\ FirstError
  /\ Read
  /\ lastErr' = [lastErr EXCEPT !["trailing"] = pos]
  /\ UNCHANGED <<place, found, diags>>

TrailingEnds ==
  /\ loop = "trailing"
  /\ \/ AtEof /\ UNCHANGED <<doc, limit, pos, open>>
     \/ Fails /\ ~ FirstError /\ Read
  /\ loop' = "done"
  /\ UNCHANGED <<pass, element, child, depth, found, diags, lastErr>>

-------------------------------------------------------------------------------
(* capture_subtree: a fresh reader over the span of a tag, of which the    *)
(* engines of flatten.rs and collect_mappings ask for one tag at a time.   *)
(* A self-closed tag has nothing inside.                                   *)
CaptureSubtree ==
  /\ loop = "done"
  /\ \E t \in tags :
       /\ tags' = tags \ {t}
       /\ IF doc[t.from + 1].type = "empty"
          THEN UNCHANGED <<doc, limit, pos, open, place, lastErr, segments>>
          ELSE /\ OpenOver(t.from, t.to)
               /\ pass' = "subtree" /\ loop' = "body" /\ element' = t.from
               /\ segments' = << >>
               /\ lastErr' = [lastErr EXCEPT !["body"] = NoPos]
               /\ UNCHANGED <<child, depth>>
  /\ UNCHANGED <<elements, mapper, diags>>

Init ==
  /\ doc \in Docs
  /\ limit = Len(doc) /\ pos = 0 /\ open = << >>
  /\ pass = "document" /\ loop = "root"
  /\ element = NoPos /\ child = NoPos /\ depth = 0
  /\ lastErr = [l \in Loop |-> NoPos]
  /\ segments = << >> /\ elements = << >> /\ tags = {}
  /\ diags = {} /\ mapper = FALSE

Next ==
  \/ Recover \/ PassOver
  \/ RootOpens \/ RootEmpty \/ RootForeign \/ RootMissing \/ RootGivesUp
  \/ MapperCloses \/ MapperEof \/ MapperGivesUp
  \/ MapperCaptures \/ MapperSkips \/ MapperEmpty
  \/ BodyCloses \/ BodyEof \/ BodyGivesUp \/ BodySegment \/ BodyIgnores \/ BodySkips
  \/ SkipCounts \/ SkipCloses \/ SkipAbandoned
  \/ TrailingIgnores \/ TrailingRecovers \/ TrailingEnds
  \/ CaptureSubtree

(* One thread runs the loops, so an enabled step is taken.                 *)
Spec == Init /\ [][Next]_vars /\ WF_vars(Next)

-------------------------------------------------------------------------------
TypeOK ==
  /\ doc \in Seq(Token) /\ limit \in 0 .. Len(doc) /\ pos \in 0 .. limit
  /\ open \in Seq(TagName)
  /\ pass \in {"document", "subtree"} /\ loop \in Loop
  /\ element \in Nat \cup {NoPos} /\ child \in Nat \cup {NoPos} /\ depth \in Nat
  /\ lastErr \in [Loop -> Nat \cup {NoPos}]
  /\ segments \in Seq(Segment) /\ elements \in Seq(Element)
  /\ \A t \in tags : t \in Segment /\ t.to <= Len(doc)
  /\ \A d \in diags : d \in Diagnostic
  /\ mapper \in BOOLEAN

(* How many elements the loops under way take to be open.                  *)
Level ==
  LET base == IF pass = "subtree" THEN 0 ELSE 1
  IN  CASE loop = "mapper" -> 1
        [] loop = "body" -> base + 1
        [] loop = "skip" -> depth + (IF InBody THEN base + 1 ELSE 1)
        [] OTHER -> 0

(* The loops count nesting by the events they see, the reader by the names *)
(* it holds open, and a closing tag that does not match takes a name from  *)
(* the reader that no loop accounts for.  From then on their ideas of      *)
(* where they are differ.  The reader is never the one deeper, and they    *)
(* never differ without a diagnostic at the closing tag to show for it.    *)
ReaderAgrees ==
  loop \in {"mapper", "body", "skip"} =>
    /\ Len(open) <= Level
    /\ Len(open) < Level =>
         \E d \in diags :
           /\ d.code = "UnclosedTag" /\ d.from = d.to
           /\ d.from >= (IF pass = "subtree" THEN element ELSE RootStart)
           /\ doc[d.from + 1].type = "end"

(* However broken the document, the spans handed out are sound: elements   *)
(* do not overlap, segments lie inside their element, one after the other, *)
(* and a tag read a second time yields only tags strictly inside it, which *)
(* is what makes the descent of flatten_body end.                          *)
Apart(spans) ==
  \A i, j \in DOMAIN spans : i < j => spans[i].to <= spans[j].from

Inside(segs, from, to) ==
  \A i \in DOMAIN segs :
    from < segs[i].from /\ segs[i].from < segs[i].to /\ segs[i].to <= to

SpansNest ==
  /\ Apart(elements)
  /\ \A i \in DOMAIN elements :
       /\ Apart(elements[i].segments)
       /\ Inside(elements[i].segments, elements[i].from, elements[i].to)
  /\ loop \in {"body", "skip"} /\ segments # << >> =>
       Apart(segments) /\ Inside(segments, element, pos)

(* The two readings of a tag's bytes agree on where it ends, although the  *)
(* second reader starts without the names the first one held open: nothing *)
(* of the tag is left unread.                                              *)
SubtreeReadToItsEnd == pass = "subtree" /\ loop = "done" => pos = limit

(* No document keeps the loops busy forever, not even one at which the     *)
(* reader stays put.                                                       *)
Termination == <>(loop = "done" /\ tags = {})
===============================================================================
