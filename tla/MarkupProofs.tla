------------------------------ MODULE MarkupProofs ------------------------------
(***************************************************************************)
(* What holds of the walk over the markup for every document, well-formed  *)
(* or broken anywhere: its types, that what it collects nests, that the    *)
(* reader and the loops agree on how deep they are or a diagnostic says    *)
(* why not, that a captured tag reads the same the second time, that       *)
(* nothing which nests is blamed, and that a mapper which nests yields     *)
(* just its children.                                                      *)
(***************************************************************************)
EXTENDS MarkupReference, CommonLemmas, FiniteSetTheorems

-----------------------------------------------------------------------------
(* What holds wherever the walk is.                                        *)

(* TypeOK taken apart: the reader, the walk, what it has found and what it *)
(* has reported.                                                           *)
ReaderOK ==
  /\ doc \in Seq(Token) /\ limit \in 0 .. Len(doc) /\ pos \in 0 .. limit
  /\ open \in Seq(TagName)

WalkOK ==
  /\ pass \in {"document", "subtree"} /\ loop \in Loop
  /\ element \in Nat \cup {NoPos} /\ child \in Nat \cup {NoPos} /\ depth \in Nat
  /\ lastErr \in [Loop -> Nat \cup {NoPos}] /\ mapper \in BOOLEAN

FoundOK ==
  /\ segments \in Seq(Segment) /\ elements \in Seq(Element)
  /\ \A t \in tags : t \in Segment /\ t.to <= Len(doc)

DiagsOK == \A d \in diags : d \in Diagnostic

(* TypeOK is these four parts.                                             *)
LEMMA TypeParts == TypeOK <=> ReaderOK /\ WalkOK /\ FoundOK /\ DiagsOK
BY DEF TypeOK, ReaderOK, WalkOK, FoundOK, DiagsOK

(* The next token is one, and a tag has a tag's name.                      *)
LEMMA TokTyped ==
  ASSUME ReaderOK, ~ AtEof
  PROVE  /\ Tok \in Token
         /\ Tok.type \in TagType \cup {"text", "amp", "comment", "bad", "stuck"}
         /\ Tok.type \in TagType => Tok.name \in TagName
<1>1. pos + 1 \in 1 .. Len(doc)
  BY DEF ReaderOK, AtEof
<1>2. Tok \in Token
  BY <1>1 DEF ReaderOK, Tok
<1>3. QED
  BY <1>2 DEF Token, TagType

(* read_event keeps the reader well-formed, and moves one token on unless  *)
(* it is at markup it cannot get past.                                     *)
LEMMA ReadTyped ==
  ASSUME ReaderOK, ~ AtEof, Read
  PROVE  /\ ReaderOK'
         /\ pos' \in {pos, pos + 1}
         /\ Tok.type # "stuck" => pos' = pos + 1
<1>1. pos' \in {pos, pos + 1} /\ pos' \in 0 .. limit
  BY DEF ReaderOK, Read, AtEof
<1>2. open' \in Seq(TagName)
  <2>1. CASE Tok.type = "start"
    BY <2>1, TokTyped DEF Read, ReaderOK, TagType
  <2>2. CASE Tok.type # "start"
    BY <2>2 DEF Read, ReaderOK
  <2>3. QED
    BY <2>1, <2>2
<1>3. QED
  BY <1>1, <1>2 DEF ReaderOK, Read

(* A span of the document that starts at an opening or a self-closed tag.  *)
TagStart(t) ==
  t.from < t.to /\ t.to <= Len(doc) /\ doc[t.from + 1].type \in {"start", "empty"}

(* What capture_body has captured as a tag starts at one.                  *)
TagsStart ==
  /\ \A t \in tags : TagStart(t)
  /\ \A i \in DOMAIN segments : segments[i].type = "tag" => TagStart(segments[i])
  /\ InBody => doc[child + 1].type = "start"

LoopsInPlace ==
  /\ loop \in {"root", "mapper", "trailing"} => pass = "document"
  /\ loop # "skip" => child = NoPos /\ depth = 0
  /\ loop = "skip" => depth >= 1
  /\ loop \in {"body", "skip"} => element # NoPos /\ element < pos
  /\ InBody => element < child /\ child < pos
  /\ pass = "subtree" /\ loop = "skip" => InBody
  /\ pass = "document" /\ (loop = "body" \/ InBody) => doc[element + 1].name \in CapturedName
  /\ loop \notin {"body", "skip"} \/ (loop = "skip" /\ ~ InBody) => segments = << >>
  /\ loop = "root" => open = << >>

(* The root element starts behind the cursor in every loop that runs       *)
(* inside it, which is what RootStart (the start of the unclosed_tag at    *)
(* the end of the input) relies on.                                        *)
RootBehind ==
  pass = "document" /\ loop \in {"mapper", "body", "skip"} =>
    RootStart \in Nat /\ RootStart < pos

(* What every proof below relies on.                                       *)
Framing == ReaderOK /\ WalkOK /\ FoundOK /\ DiagsOK /\ TagsStart /\ LoopsInPlace /\ RootBehind

(* Whatever the walk does to the reader is one read_event, nothing, or a   *)
(* fresh reader over a captured tag.                                       *)
LEMMA ReaderSteps ==
  ASSUME Next
  PROVE  \/ ~ AtEof /\ Read
         \/ UNCHANGED <<doc, limit, pos, open>>
         \/ /\ CaptureSubtree
            /\ \E t \in tags : doc[t.from + 1].type # "empty" /\ OpenOver(t.from, t.to)
<1>1. CASE Recover \/ PassOver
  BY <1>1 DEF Recover, Fails, Sees, PassOver
<1>2. CASE RootOpens \/ RootEmpty \/ RootForeign \/ RootMissing \/ RootGivesUp
  BY <1>2 DEF RootOpens, Sees, RootEmpty, RootForeign, RootMissing, RootGivesUp,
      Fails
<1>3. CASE MapperCloses \/ MapperEof \/ MapperGivesUp \/ MapperCaptures \/
          MapperSkips \/ MapperEmpty
  BY <1>3 DEF MapperCloses, Closes, Sees, MapperEof, MapperGivesUp, Fails,
      MapperCaptures, MapperSkips, MapperEmpty
<1>4. CASE BodyCloses \/ BodyEof \/ BodyGivesUp \/ BodySegment \/ BodyIgnores \/
          BodySkips
  BY <1>4 DEF BodyCloses, Closes, Sees, BodyEof, BodyGivesUp, Fails,
      BodySegment, BodyIgnores, BodySkips
<1>5. CASE SkipCounts \/ SkipCloses \/ SkipAbandoned
  BY <1>5 DEF SkipCounts, Closes, Sees, SkipCloses, SkipAbandoned, Fails
<1>6. CASE TrailingIgnores \/ TrailingRecovers \/ TrailingEnds
  BY <1>6 DEF TrailingIgnores, Closes, Sees, TrailingRecovers, Fails,
      TrailingEnds
<1>7. CASE CaptureSubtree
  BY <1>7 DEF CaptureSubtree
<1> QED
  BY <1>1, <1>2, <1>3, <1>4, <1>5, <1>6, <1>7 DEF Next

(* The reader stays well-formed.                                           *)
LEMMA ReaderStep ==
  ASSUME Framing, Next
  PROVE  ReaderOK'
<1>1. CASE ~ AtEof /\ Read
  BY <1>1, ReadTyped DEF Framing
<1>2. CASE UNCHANGED <<doc, limit, pos, open>>
  BY <1>2 DEF Framing, ReaderOK
<1>3. ASSUME NEW t \in tags, doc[t.from + 1].type # "empty", OpenOver(t.from, t.to)
      PROVE  ReaderOK'
  <2>1. t \in Segment /\ t.to <= Len(doc) /\ t.from < t.to /\ doc[t.from + 1].type = "start"
    BY <1>3 DEF Framing, FoundOK, TagsStart, TagStart
  <2>2. t.from \in Nat /\ t.to \in Nat
    BY <2>1 DEF Segment
  <2>3. doc \in Seq(Token) /\ t.from + 1 \in 1 .. Len(doc)
    BY <2>1, <2>2 DEF Framing, ReaderOK
  <2>4. doc[t.from + 1].name \in TagName
    BY <2>1, <2>3 DEF Token, TagType
  <2> QED
    BY <2>1, <2>2, <2>3, <2>4, <1>3 DEF ReaderOK, OpenOver
<1> QED
  BY <1>1, <1>2, <1>3, ReaderSteps

(* So do the variables of the loops.                                       *)
LEMMA WalkStep ==
  ASSUME Framing, Next
  PROVE  WalkOK'
<1> USE DEF Framing, WalkOK, Loop, NoPos
<1>a. pos \in Nat
  BY DEF ReaderOK
<1>1. CASE Recover \/ PassOver
  BY <1>1, <1>a DEF Recover, PassOver, place, found
<1>2. CASE RootOpens \/ RootEmpty \/ RootForeign \/ RootMissing \/ RootGivesUp
  BY <1>2, <1>a DEF RootOpens, RootEmpty, RootForeign, RootMissing, RootGivesUp,
      place, found
<1>3. CASE MapperCloses \/ MapperEof \/ MapperGivesUp \/ MapperCaptures \/
          MapperSkips \/ MapperEmpty
  BY <1>3, <1>a DEF MapperCloses, MapperDone, MapperEof, MapperGivesUp,
      MapperCaptures, MapperSkips, MapperEmpty, place, found
<1>4. CASE BodyCloses \/ BodyEof \/ BodyGivesUp \/ BodySegment \/ BodyIgnores \/
          BodySkips
  BY <1>4, <1>a DEF BodyCloses, BodyEnds, BodyEof, BodyGivesUp, BodySegment,
      BodyIgnores, BodySkips, place, found
<1>5. CASE SkipCounts \/ SkipCloses \/ SkipAbandoned
  BY <1>5, <1>a, SMTT(30) DEF SkipCounts, SkipCloses, SkipAbandoned, BodyEnds, place,
      found
<1>6. CASE TrailingIgnores \/ TrailingRecovers \/ TrailingEnds
  BY <1>6, <1>a DEF TrailingIgnores, TrailingRecovers, TrailingEnds, place,
      found
<1>7. CASE CaptureSubtree
  BY <1>7, <1>a, SMTT(30) DEF CaptureSubtree, OpenOver, FoundOK, Segment, place, found
<1> QED
  BY <1>1, <1>2, <1>3, <1>4, <1>5, <1>6, <1>7 DEF Next

(* A loop that ends or begins leaves its variables where the others expect *)
(* them.                                                                   *)
LEMMA LoopsInPlaceStep ==
  ASSUME Framing, Next
  PROVE  LoopsInPlace'
<1> USE DEF LoopsInPlace, NoPos, InBody
<1>a. /\ pos \in Nat /\ element \in Int /\ child \in Int /\ depth \in Nat
      /\ pass \in {"document", "subtree"} /\ LoopsInPlace
  BY DEF ReaderOK, WalkOK, Framing
<1>1. CASE Recover \/ PassOver
  BY <1>1, <1>a DEF Recover, Fails, Sees, PassOver, place, found, Tok, Read
<1>2. CASE RootOpens \/ RootEmpty \/ RootForeign \/ RootMissing \/ RootGivesUp
  BY <1>2, <1>a DEF RootOpens, Sees, RootEmpty, RootForeign, RootMissing,
      RootGivesUp, Fails, place, found, Tok, Read
<1>3. CASE MapperCloses \/ MapperEof \/ MapperGivesUp \/ MapperCaptures \/
          MapperSkips \/ MapperEmpty
  BY <1>3, <1>a DEF MapperCloses, Closes, Sees, MapperDone, MapperEof,
      MapperGivesUp, Fails, MapperCaptures, MapperSkips, MapperEmpty, place,
      found, Tok, Read
<1>4. CASE BodyCloses \/ BodyEof \/ BodyGivesUp \/ BodySegment \/ BodyIgnores \/
          BodySkips
  BY <1>4, <1>a DEF BodyCloses, Closes, Sees, BodyEnds, BodyEof, BodyGivesUp,
      Fails, BodySegment, BodyIgnores, BodySkips, place, found, Tok, Read
<1>5. CASE SkipCounts \/ SkipCloses \/ SkipAbandoned
  BY <1>5, <1>a DEF SkipCounts, Closes, Sees, SkipCloses, SkipAbandoned, Fails,
      BodyEnds, place, found, Tok, Read
<1>6. CASE TrailingIgnores \/ TrailingRecovers \/ TrailingEnds
  BY <1>6, <1>a DEF TrailingIgnores, Closes, Sees, TrailingRecovers, Fails,
      TrailingEnds, place, found, Tok, Read
<1>7. CASE CaptureSubtree
  <2>1. PICK t \in tags : CaptureSubtree!2!(t)
    BY <1>7, Zenon DEF CaptureSubtree
  <2>2. t.from \in Nat
    BY DEF Framing, FoundOK, Segment
  <2> QED
    BY <1>7, <2>1, <2>2, <1>a DEF CaptureSubtree, OpenOver, place
<1> QED
  BY <1>1, <1>2, <1>3, <1>4, <1>5, <1>6, <1>7 DEF Next

(* What capture_body hands out is well-formed.                             *)
LEMMA BodyEndsTyped ==
  ASSUME Framing, loop \in {"body", "skip"}, loop = "skip" => InBody,
         NEW end \in Nat, NEW truncated \in BOOLEAN,
         BodyEnds(segments, end, truncated), doc' = doc
  PROVE  FoundOK' /\ TagsStart'
<1> DEFINE taken == {segments[i] : i \in {j \in DOMAIN segments : segments[j].type = "tag"}}
<1>1. segments \in Seq(Segment) /\ elements \in Seq(Element)
  BY DEF Framing, FoundOK
<1>2. \A t \in taken : t \in Segment /\ TagStart(t)
  BY <1>1 DEF Framing, TagsStart
<1>3. tags' = tags \cup taken /\ segments' = << >> /\ child' = NoPos
  BY DEF BodyEnds
<1>4. elements' \in Seq(Element)
  <2>1. CASE pass = "document"
    <3> DEFINE e == [name |-> doc[element + 1].name, from |-> element, to |-> end,
                     segments |-> segments, truncated |-> truncated]
    <3>1. element \in Nat /\ doc[element + 1].name \in CapturedName
      BY <2>1 DEF Framing, LoopsInPlace, WalkOK
    <3>2. e \in Element
      BY <3>1, <1>1 DEF Element
    <3> QED
      BY <3>2, <2>1, <1>1 DEF BodyEnds
  <2>2. CASE pass # "document"
    BY <2>2, <1>1 DEF BodyEnds
  <2> QED
    BY <2>1, <2>2
<1>5. FoundOK'
  <2>1. \A t \in tags' : t \in Segment /\ t.to <= Len(doc)
    BY <1>2, <1>3 DEF Framing, FoundOK, TagStart
  <2> QED
    BY <2>1, <1>3, <1>4 DEF FoundOK
<1>6. \A t \in tags' : TagStart(t)
  BY <1>2, <1>3 DEF Framing, TagsStart
<1> QED
  BY <1>3, <1>5, <1>6 DEF TagsStart, TagStart, InBody

(* One more segment that is well-formed.                                   *)
LEMMA SegmentAdded ==
  ASSUME FoundOK, TagsStart, UNCHANGED <<doc, elements, tags>>, child' \in {child, NoPos},
         NEW s \in Segment, s.type = "tag" => TagStart(s), segments' = Append(segments, s)
  PROVE  FoundOK' /\ TagsStart'
<1>1. segments \in Seq(Segment)
  BY DEF FoundOK
<1>2. segments' \in Seq(Segment)
  BY <1>1
<1>3. \A i \in DOMAIN segments' :
        segments'[i] = s \/ (i \in DOMAIN segments /\ segments'[i] = segments[i])
  BY <1>1
<1>4. \A i \in DOMAIN segments' : segments'[i].type = "tag" => TagStart(segments'[i])
  BY <1>3 DEF TagsStart
<1> QED
  BY <1>2, <1>4 DEF FoundOK, TagsStart, TagStart, InBody

(* No segment that was not there before.                                   *)
LEMMA SegmentsDropped ==
  ASSUME FoundOK, TagsStart, segments' \in {segments, << >>}, tags' \subseteq tags,
         UNCHANGED <<doc, elements, child>>
  PROVE  FoundOK' /\ TagsStart'
<1>1. segments' \in Seq(Segment)
  <2>1. segments \in Seq(Segment) /\ << >> \in Seq(Segment)
    BY DEF FoundOK
  <2> QED
    BY <2>1
<1>2. \A i \in DOMAIN segments' : i \in DOMAIN segments /\ segments'[i] = segments[i]
  OBVIOUS
<1> QED
  BY <1>1, <1>2 DEF FoundOK, TagsStart, TagStart, InBody

(* What is found stays well-formed, and captured tags start at a tag.      *)
LEMMA FoundStep ==
  ASSUME Framing, Next
  PROVE  FoundOK' /\ TagsStart'
<1>a. FoundOK /\ TagsStart
  BY DEF Framing
<1>b. pos \in Nat /\ limit \in Nat /\ pos <= limit /\ limit <= Len(doc) /\ doc \in Seq(Token)
  BY DEF Framing, ReaderOK
<1>c. UNCHANGED <<doc, child, tags, segments, elements>> => FoundOK' /\ TagsStart'
  BY <1>a DEF FoundOK, TagsStart, TagStart, InBody
<1>1. CASE Recover \/ PassOver \/ RootOpens \/ RootEmpty \/ RootForeign \/
          RootMissing \/ RootGivesUp
  BY <1>1, <1>c DEF Recover, PassOver, RootOpens, RootEmpty, RootForeign,
      RootMissing, RootGivesUp, place, found, Read
<1>2. CASE MapperCloses \/ MapperEof \/ MapperGivesUp
  BY <1>2, <1>c DEF MapperCloses, MapperDone, MapperEof, MapperGivesUp, place,
      found, Read
<1>3. CASE MapperCaptures \/ MapperSkips
  <2>1. /\ segments' \in {segments, << >>} /\ elements' = elements /\ tags' = tags
        /\ child' = child /\ doc' = doc
    BY <1>3 DEF MapperCaptures, MapperSkips, Read, found
  <2> QED
    BY <2>1, SegmentsDropped DEF Framing
<1>4. CASE MapperEmpty
  <2> DEFINE e == [name |-> Tok.name, from |-> pos, to |-> pos + 1,
                   segments |-> << >>, truncated |-> FALSE]
  <2>1. Tok.name \in CapturedName => e \in Element
    BY <1>b DEF Element
  <2>2. elements' \in Seq(Element)
    BY <1>4, <2>1, <1>a DEF MapperEmpty, FoundOK
  <2> QED
    BY <1>4, <2>2, <1>a DEF MapperEmpty, Read, place, FoundOK, TagsStart, TagStart, InBody
<1>5. CASE BodyCloses \/ BodyEof \/ BodyGivesUp
  <2>1. /\ loop = "body" /\ doc' = doc
        /\ \/ BodyEnds(segments, pos + 1, FALSE)
           \/ BodyEnds(segments, pos, TRUE)
    BY <1>5 DEF BodyCloses, BodyEof, BodyGivesUp, Read
  <2>2. CASE BodyEnds(segments, pos + 1, FALSE)
    <3>1. pos + 1 \in Nat /\ FALSE \in BOOLEAN
      BY <1>b
    <3> QED
      BY <2>1, <2>2, <3>1, BodyEndsTyped
  <2>3. CASE BodyEnds(segments, pos, TRUE)
    BY <2>1, <2>3, <1>b, BodyEndsTyped
  <2> QED
    BY <2>1, <2>2, <2>3
<1>6. CASE BodySegment
  <2> DEFINE s == [type |-> IF Tok.type = "empty" THEN "tag" ELSE "text",
                   from |-> pos, to |-> pos + 1]
  <2>1. segments' = Append(segments, s) /\ ~ AtEof
    BY <1>6 DEF BodySegment, Sees
  <2>2. s \in Segment /\ (s.type = "tag" => TagStart(s))
    BY <2>1, <1>b DEF Segment, TagStart, Tok, AtEof
  <2>3. UNCHANGED <<doc, child, elements, tags>>
    BY <1>6 DEF BodySegment, Read, place
  <2> QED
    BY <2>1, <2>2, <2>3, SegmentAdded DEF Framing
<1>7. CASE BodyIgnores \/ BodySkips
  <2>1. CASE BodyIgnores
    BY <2>1, <1>c DEF BodyIgnores, Read, place, found
  <2>2. CASE BodySkips
    <3>1. child' = pos /\ doc' = doc /\ UNCHANGED found /\ Tok.type = "start"
      BY <2>2 DEF BodySkips, Read, Sees
    <3> QED
      BY <3>1, <1>a DEF FoundOK, TagsStart, TagStart, InBody, found, Tok
  <2> QED
    BY <1>7, <2>1, <2>2
<1>8. CASE SkipCounts
  BY <1>8, <1>c DEF SkipCounts, place, found, Read
<1>9. CASE SkipCloses
  <2>1. CASE InBody
    <3> DEFINE s == [type |-> "tag", from |-> child, to |-> pos + 1]
    <3>1. segments' = Append(segments, s) /\ ~ AtEof /\ child' = NoPos
      BY <1>9, <2>1 DEF SkipCloses, Closes, Sees
    <3>2. child \in Nat /\ child < pos /\ doc[child + 1].type = "start"
      BY <2>1 DEF Framing, WalkOK, LoopsInPlace, TagsStart, InBody
    <3>3. s \in Segment /\ TagStart(s)
      BY <3>1, <3>2, <1>b DEF Segment, TagStart, AtEof
    <3>4. UNCHANGED <<doc, elements, tags>>
      BY <1>9 DEF SkipCloses, Read
    <3> QED
      BY <3>1, <3>3, <3>4, SegmentAdded DEF Framing
  <2>2. CASE ~ InBody
    BY <1>9, <2>2, <1>a DEF SkipCloses, Read, FoundOK, TagsStart, TagStart, InBody
  <2> QED
    BY <2>1, <2>2
<1>10. CASE SkipAbandoned
  <2>1. CASE InBody
    <3>1. /\ loop = "skip" /\ doc' = doc
          /\ \E end \in Nat, truncated \in BOOLEAN : BodyEnds(segments, end, truncated)
      BY <1>10, <2>1, <1>b DEF SkipAbandoned, Read
    <3> QED
      BY <3>1, <2>1, BodyEndsTyped
  <2>2. CASE ~ InBody
    BY <1>10, <2>2, <1>c DEF SkipAbandoned, Read, found
  <2> QED
    BY <2>1, <2>2
<1>11. CASE TrailingIgnores \/ TrailingRecovers \/ TrailingEnds
  BY <1>11, <1>c DEF TrailingIgnores, TrailingRecovers, TrailingEnds, place,
      found, Read
<1>12. CASE CaptureSubtree
  <2>1. /\ segments' \in {segments, << >>} /\ elements' = elements /\ tags' \subseteq tags
        /\ child' = child /\ doc' = doc
    BY <1>12 DEF CaptureSubtree, OpenOver, place
  <2> QED
    BY <2>1, SegmentsDropped DEF Framing
<1> QED
  BY <1>1, <1>2, <1>3, <1>4, <1>5, <1>6, <1>7, <1>8, <1>9, <1>10, <1>11, <1>12
      DEF Next

(* RootStart is where the first tag of the document starts: no tag lies    *)
(* before it.                                                              *)
LEMMA RootFirst ==
  ASSUME ReaderOK, NEW i \in 1 .. Len(doc), doc[i].type \in {"start", "empty"}
  PROVE  RootStart \in Nat /\ RootStart < i
<1> DEFINE roots == {k \in 1 .. Len(doc) : doc[k].type \in {"start", "empty"}}
           least == CHOOSE k \in roots : \A j \in roots : k <= j
<1>1. roots \subseteq Nat /\ i \in roots
  OBVIOUS
<1>2. \E k \in roots : \A j \in roots : k <= j
  <2> HIDE DEF roots
  <2> QED
    BY <1>1, NatLeast
<1>3. least \in roots /\ \A j \in roots : least <= j
  BY <1>2
<1>4. RootStart = least - 1
  BY Zenon DEF RootStart
<1>5. least \in 1 .. Len(doc) /\ least <= i
  BY <1>3, <1>1
<1> HIDE DEF least
<1> QED
  BY <1>4, <1>5

(* The root element stays behind the cursor.                               *)
LEMMA RootBehindStep ==
  ASSUME Framing, Next
  PROVE  RootBehind'
<1>a. RootBehind /\ LoopsInPlace /\ ReaderOK /\ pos \in Nat
  BY DEF Framing, ReaderOK
<1>b. doc' = doc => RootStart' = RootStart
  BY DEF RootStart
<1>c. doc' = doc /\ (pos' >= pos \/ CaptureSubtree)
  BY <1>a, ReaderSteps DEF Read, ReaderOK, OpenOver
<1>1. CASE RootOpens
  <2>1. /\ pos + 1 \in 1 .. Len(doc) /\ doc[pos + 1].type \in {"start", "empty"}
        /\ pos' = pos + 1
    BY <1>1, <1>a DEF RootOpens, Sees, AtEof, Tok, ReaderOK, Read
  <2>2. RootStart \in Nat /\ RootStart < pos + 1
    BY <2>1, <1>a, RootFirst
  <2> QED
    BY <2>1, <2>2, <1>b, <1>c DEF RootBehind
<1>2. CASE CaptureSubtree
  BY <1>2, <1>a, <1>b DEF CaptureSubtree, OpenOver, RootBehind, place
<1>3. CASE ~ RootOpens /\ ~ CaptureSubtree
  <2>1. /\ pass' = pass
        /\ loop' \in {"mapper", "body", "skip"} => loop \in {"mapper", "body", "skip"}
    BY <1>3 DEF Next, place, BodyEnds, MapperDone, Recover, PassOver, RootOpens, RootEmpty,
       RootForeign, RootMissing, RootGivesUp, MapperCloses, MapperEof, MapperGivesUp,
       MapperCaptures, MapperSkips, MapperEmpty, BodyCloses, BodyEof, BodyGivesUp, BodySegment,
       BodyIgnores, BodySkips, SkipCounts, SkipCloses, SkipAbandoned, TrailingIgnores,
       TrailingRecovers, TrailingEnds, CaptureSubtree
  <2>2. pos' \in Nat /\ pos' >= pos
    BY ReaderStep, <1>3, <1>c DEF ReaderOK
  <2> QED
    BY <2>1, <2>2, <1>a, <1>b, <1>c DEF RootBehind
<1> QED
  BY <1>1, <1>2, <1>3

(* Every diagnostic the loops build is one.                                *)
LEMMA ReportTyped ==
  ASSUME Framing, NEW c \in {"UnknownElement", "UnclosedTag", "InvalidEntity"},
         NEW from \in Int, NEW to \in Int
  PROVE  Diag(c, from, to) \in Diagnostic
BY DEF Diag, Diagnostic

(* What is reported stays well-formed.                                     *)
LEMMA DiagsStep ==
  ASSUME Framing, Next
  PROVE  DiagsOK'
<1>a. DiagsOK /\ LoopsInPlace
  BY DEF Framing
<1>b. pos \in Int /\ limit \in Int /\ element \in Int /\ child \in Int
  BY DEF Framing, ReaderOK, WalkOK, NoPos
<1>c. loop = "mapper" => RootStart \in Int
  BY DEF Framing, RootBehind, LoopsInPlace
<1>d. \A d \in diags' : d \in diags \/ d \in Diagnostic
  <2> USE DEF Diagnostic, Diag, NeverClosed, EntityReport, UnknownReport, Report, NoPos
  <2>1. CASE Recover \/ PassOver
    BY <2>1, <1>b, <1>c DEF Recover, PassOver, SkipStart
  <2>2. CASE RootOpens \/ RootEmpty \/ RootForeign \/ RootMissing \/ RootGivesUp
    BY <2>2, <1>b, <1>c DEF RootOpens, RootEmpty, RootForeign, RootMissing,
        RootGivesUp, SkipStart
  <2>3. CASE MapperCloses \/ MapperEof \/ MapperGivesUp \/ MapperCaptures \/
            MapperSkips \/ MapperEmpty
    BY <2>3, <1>b, <1>c DEF MapperCloses, MapperEof, MapperGivesUp,
        MapperCaptures, MapperSkips, MapperEmpty, SkipStart
  <2>4. CASE BodyCloses
    BY <2>4, <1>b, <1>c DEF BodyCloses, SkipStart
  <2>5. CASE BodyEof
    BY <2>5, <1>b, <1>c DEF BodyEof, SkipStart
  <2>6. CASE BodyGivesUp
    BY <2>6, <1>b, <1>c DEF BodyGivesUp, SkipStart
  <2>7. CASE BodySegment
    BY <2>7, <1>b, <1>c DEF BodySegment, SkipStart
  <2>8. CASE BodyIgnores
    BY <2>8, <1>b, <1>c DEF BodyIgnores, SkipStart
  <2>9. CASE BodySkips
    BY <2>9, <1>b, <1>c DEF BodySkips, SkipStart
  <2>10. CASE SkipCounts
    BY <2>10, <1>b, <1>c DEF SkipCounts, SkipStart
  <2>11. CASE SkipCloses
    BY <2>11, <1>b, <1>c DEF SkipCloses, SkipStart
  <2>12. CASE SkipAbandoned
    BY <2>12, <1>b, <1>c DEF SkipAbandoned, SkipStart
  <2>13. CASE TrailingIgnores \/ TrailingRecovers \/ TrailingEnds
    BY <2>13, <1>b, <1>c DEF TrailingIgnores, TrailingRecovers, TrailingEnds,
        SkipStart
  <2>14. CASE CaptureSubtree
    BY <2>14, <1>b, <1>c DEF CaptureSubtree, SkipStart
  <2> QED
    BY <2>1, <2>2, <2>3, <2>4, <2>5, <2>6, <2>7, <2>8, <2>9, <2>10, <2>11,
        <2>12, <2>13, <2>14 DEF Next
<1> QED
  BY <1>a, <1>d DEF DiagsOK

(* A fresh parse_str.                                                      *)
LEMMA InitFraming == Init => Framing
<1> SUFFICES ASSUME Init PROVE Framing
  OBVIOUS
<1>1. doc \in Seq(Token)
  BY DocsAssumption DEF Init
<1>2. ReaderOK
  BY <1>1 DEF Init, ReaderOK
<1>3. WalkOK /\ DiagsOK
  BY DEF Init, WalkOK, DiagsOK, Loop, NoPos
<1>4. FoundOK /\ TagsStart /\ LoopsInPlace /\ RootBehind
  BY DEF Init, FoundOK, TagsStart, LoopsInPlace, RootBehind, InBody
<1> QED
  BY <1>2, <1>3, <1>4 DEF Framing

(* Every step of the walk.                                                 *)
LEMMA FramingStep == Framing /\ [Next]_vars => Framing'
<1>1. ASSUME Framing, Next PROVE Framing'
  BY <1>1, ReaderStep, WalkStep, FoundStep, DiagsStep, LoopsInPlaceStep, RootBehindStep DEF
     Framing
<1>2. ASSUME Framing, UNCHANGED vars PROVE Framing'
  BY <1>2 DEF Framing, vars, place, found, ReaderOK, WalkOK, FoundOK, DiagsOK, TagsStart,
     TagStart,
     InBody, LoopsInPlace, RootBehind, RootStart
<1> QED
  BY <1>1, <1>2

(* The types and the places of the loops' variables, for every document:   *)
(* the invariant the theorems below stand on.                              *)
THEOREM AlwaysFraming == Spec => []Framing
BY InitFraming, FramingStep, PTL DEF Spec

(* The walk of parse_str, build_mapper, capture_body, skip_subtree and     *)
(* scan_trailing_content keeps its types on every document.                *)
THEOREM WellTyped == Spec => []TypeOK
<1>1. Framing => TypeOK
  BY TypeParts DEF Framing
<1> QED
  BY <1>1, AlwaysFraming, PTL

-----------------------------------------------------------------------------
(* Spans.                                                                  *)

(* SpansNest made inductive: the segments of the body under way lie before *)
(* the tag being skipped in it, and the elements collected lie before the  *)
(* one being walked.                                                       *)
SegmentsNest ==
  /\ Apart(segments) /\ Inside(segments, element, pos)
  /\ InBody => \A i \in DOMAIN segments : segments[i].to <= child

ElementsNest ==
  /\ Apart(elements)
  /\ \A i \in DOMAIN elements :
       /\ Apart(elements[i].segments)
       /\ Inside(elements[i].segments, elements[i].from, elements[i].to)
  /\ pass = "document" =>
       \A i \in DOMAIN elements :
         elements[i].to <= IF loop \in {"body", "skip"} THEN element ELSE pos

(* One more span behind all the others.                                    *)
LEMMA ApartAppended ==
  ASSUME NEW S, NEW spans \in Seq(S), Apart(spans),
         NEW e, \A i \in DOMAIN spans : spans[i].to <= e.from
  PROVE  Apart(Append(spans, e))
<1> DEFINE longer == Append(spans, e)
<1> SUFFICES ASSUME NEW i \in DOMAIN longer, NEW j \in DOMAIN longer, i < j
             PROVE  longer[i].to <= longer[j].from
  BY DEF Apart
<1>1. i \in DOMAIN spans /\ longer[i] = spans[i]
  OBVIOUS
<1>2. CASE j \in DOMAIN spans
  BY <1>1, <1>2 DEF Apart
<1>3. CASE j \notin DOMAIN spans
  <2>1. longer[j] = e
    BY <1>3
  <2> QED
    BY <1>1, <2>1
<1> QED
  BY <1>2, <1>3

(* One more segment inside the element, which may have grown.              *)
LEMMA InsideAppended ==
  ASSUME NEW segs \in Seq(Segment), NEW from \in Int, NEW to \in Int, NEW later \in Int,
         Inside(segs, from, to), to <= later,
         NEW s \in Segment, from < s.from, s.from < s.to, s.to <= later
  PROVE  Inside(Append(segs, s), from, later)
<1> SUFFICES ASSUME NEW i \in DOMAIN Append(segs, s)
             PROVE  /\ from < Append(segs, s)[i].from
                    /\ Append(segs, s)[i].from < Append(segs, s)[i].to
                    /\ Append(segs, s)[i].to <= later
  BY DEF Inside
<1>1. CASE i \in DOMAIN segs
  <2>1. Append(segs, s)[i] = segs[i] /\ segs[i] \in Segment
    BY <1>1
  <2> QED
    BY <1>1, <2>1 DEF Inside, Segment
<1>2. CASE i \notin DOMAIN segs
  <2>1. Append(segs, s)[i] = s
    BY <1>2
  <2> QED
    BY <2>1
<1> QED
  BY <1>1, <1>2

(* An element that grows keeps its segments inside.                        *)
LEMMA InsideWider ==
  ASSUME NEW segs \in Seq(Segment), NEW from \in Int, NEW to \in Int, NEW later \in Int,
         Inside(segs, from, to), to <= later
  PROVE  Inside(segs, from, later)
<1> SUFFICES ASSUME NEW i \in DOMAIN segs
             PROVE  from < segs[i].from /\ segs[i].from < segs[i].to /\ segs[i].to <= later
  BY DEF Inside
<1>1. segs[i] \in Segment
  OBVIOUS
<1> QED
  BY <1>1 DEF Inside, Segment

(* The segments under way stay in order and inside their element.          *)
LEMMA SegmentsNestStep ==
  ASSUME Framing, SegmentsNest, Next
  PROVE  SegmentsNest'
<1>a. /\ segments \in Seq(Segment) /\ pos \in Nat /\ element \in Int /\ child \in Int
      /\ LoopsInPlace /\ pos' \in Nat
  BY ReaderStep DEF Framing, FoundOK, ReaderOK, WalkOK, NoPos
<1>b. segments' = << >> => SegmentsNest'
  BY DEF SegmentsNest, Apart, Inside
<1>c. /\ segments' = segments /\ element' = element /\ pos' >= pos
      /\ child' = child \/ child' = NoPos
      => SegmentsNest'
  <2> SUFFICES ASSUME segments' = segments, element' = element, pos' >= pos,
                      child' = child \/ child' = NoPos
               PROVE  SegmentsNest'
    OBVIOUS
  <2>1. Inside(segments, element, pos')
    BY <1>a, InsideWider DEF SegmentsNest
  <2> QED
    BY <2>1 DEF SegmentsNest, Apart, Inside, InBody
<1>d. loop # "done" => pos' >= pos
  BY <1>a, ReaderSteps DEF Read, CaptureSubtree
<1>e. ASSUME NEW s \in Segment, element < s.from, s.from < s.to, s.to <= pos', pos <= pos',
             \A i \in DOMAIN segments : segments[i].to <= s.from,
             segments' = Append(segments, s), element' = element, child' = NoPos
      PROVE  SegmentsNest'
  <2>1. Apart(Append(segments, s)) /\ Inside(Append(segments, s), element, pos')
    BY <1>a, <1>e, ApartAppended, InsideAppended DEF SegmentsNest
  <2> QED
    BY <1>e, <2>1 DEF SegmentsNest, Apart, Inside, InBody
<1>1. CASE Recover \/ PassOver \/ RootOpens \/ RootEmpty \/ RootForeign \/
          RootMissing \/ RootGivesUp
  BY <1>1, <1>a, <1>b, <1>c, <1>d DEF Recover, PassOver, RootOpens, RootEmpty,
      RootForeign, RootMissing, RootGivesUp, place, found
<1>2. CASE MapperCloses \/ MapperEof \/ MapperGivesUp \/ MapperCaptures \/
          MapperSkips \/ MapperEmpty
  <2>1. segments' = << >>
    BY <1>2, <1>a DEF MapperCloses, MapperEof, MapperGivesUp, MapperDone, MapperCaptures,
       MapperSkips, MapperEmpty,
       found, LoopsInPlace
  <2> QED
    BY <2>1, <1>b
<1>3. CASE BodyCloses \/ BodyEof \/ BodyGivesUp
  BY <1>3, <1>a, <1>b, <1>c, <1>d DEF BodyCloses, BodyEnds, BodyEof,
      BodyGivesUp, place, found
<1>4. CASE BodySegment
  <2> DEFINE s == [type |-> IF Tok.type = "empty" THEN "tag" ELSE "text",
                   from |-> pos, to |-> pos + 1]
  <2>1. /\ segments' = Append(segments, s) /\ pos' = pos + 1 /\ element' = element
        /\ child' = NoPos
    BY <1>4, <1>a DEF BodySegment, Sees, Read, place, LoopsInPlace
  <2>2. s \in Segment /\ element < s.from /\ s.from < s.to /\ s.to <= pos'
    BY <1>4, <2>1, <1>a DEF BodySegment, Segment, LoopsInPlace
  <2>3. \A i \in DOMAIN segments : segments[i].to <= s.from
    BY DEF SegmentsNest, Inside
  <2> HIDE DEF s
  <2> QED
    BY <2>1, <2>2, <2>3, <1>a, <1>e
<1>5. CASE BodyIgnores \/ BodySkips
  <2>1. CASE BodyIgnores
    BY <2>1, <1>c, <1>d, <1>5 DEF BodyIgnores, place, found
  <2>2. CASE BodySkips
    <3>1. segments' = segments /\ element' = element /\ child' = pos /\ pos' >= pos
      BY <2>2, <1>a DEF BodySkips, Read, found
    <3>2. Inside(segments, element, pos')
      BY <1>a, <3>1, InsideWider DEF SegmentsNest
    <3> QED
      BY <3>1, <3>2 DEF SegmentsNest, Apart, Inside, InBody
  <2> QED
    BY <1>5, <2>1, <2>2
<1>6. CASE SkipCounts
  BY <1>6, <1>a, <1>b, <1>c, <1>d DEF SkipCounts, place, found
<1>7. CASE SkipCloses
  <2>1. CASE InBody
    <3> DEFINE s == [type |-> "tag", from |-> child, to |-> pos + 1]
    <3>1. /\ segments' = Append(segments, s) /\ pos' = pos + 1 /\ element' = element
          /\ child' = NoPos
      BY <1>7, <2>1, <1>a DEF SkipCloses, Closes, Sees, Read
    <3>2. s \in Segment /\ element < s.from /\ s.from < s.to /\ s.to <= pos'
      BY <2>1, <3>1, <1>a DEF Segment, LoopsInPlace, InBody, Framing, WalkOK
    <3>3. \A i \in DOMAIN segments : segments[i].to <= s.from
      BY <2>1 DEF SegmentsNest
    <3> HIDE DEF s
    <3> QED
      BY <3>1, <3>2, <3>3, <1>a, <1>e
  <2>2. CASE ~ InBody
    <3>1. segments' = << >>
      BY <1>7, <2>2, <1>a DEF SkipCloses, LoopsInPlace
    <3> QED
      BY <3>1, <1>b
  <2> QED
    BY <2>1, <2>2
<1>8. CASE SkipAbandoned
  <2>1. segments' = << >>
    BY <1>8, <1>a DEF SkipAbandoned, BodyEnds, LoopsInPlace, found
  <2> QED
    BY <2>1, <1>b
<1>9. CASE TrailingIgnores \/ TrailingRecovers \/ TrailingEnds
  BY <1>9, <1>a, <1>b, <1>c, <1>d DEF TrailingIgnores, TrailingRecovers,
      TrailingEnds, place, found
<1>10. CASE CaptureSubtree
  <2>1. segments' = << >>
    BY <1>10, <1>a DEF CaptureSubtree, LoopsInPlace
  <2> QED
    BY <2>1, <1>b
<1> QED
  BY <1>1, <1>2, <1>3, <1>4, <1>5, <1>6, <1>7, <1>8, <1>9, <1>10 DEF Next

(* The elements collected stay apart, and each keeps its segments inside.  *)
LEMMA ElementsNestStep ==
  ASSUME Framing, SegmentsNest, ElementsNest, Next
  PROVE  ElementsNest'
<1>a. /\ elements \in Seq(Element) /\ segments \in Seq(Segment) /\ pos \in Nat
      /\ element \in Int
      /\ LoopsInPlace /\ pos' \in Nat
  BY ReaderStep DEF Framing, FoundOK, ReaderOK, WalkOK, NoPos
<1>b. ASSUME NEW i \in DOMAIN elements PROVE elements[i].to \in Nat
  <2>1. elements[i] \in Element
    BY <1>a
  <2> QED
    BY <2>1 DEF Element
<1>c. loop # "done" => pos' >= pos
  BY <1>a, ReaderSteps DEF Read, CaptureSubtree
<1>d. ASSUME elements' = elements, pos' >= pos,
             pass' = "document" => pass = "document",
             loop' \in {"body", "skip"} =>
               (element' = IF loop \in {"body", "skip"} THEN element ELSE pos)
      PROVE  ElementsNest'
  <2>1. ASSUME pass' = "document", NEW i \in DOMAIN elements
        PROVE  elements[i].to <= IF loop' \in {"body", "skip"} THEN element' ELSE pos'
    BY <2>1, <1>a, <1>b, <1>d DEF ElementsNest, LoopsInPlace
  <2> QED
    BY <2>1, <1>d DEF ElementsNest, Apart, Inside
<1>e. ASSUME NEW e \in Element, elements' = Append(elements, e), pass = "document",
             \A i \in DOMAIN elements : elements[i].to <= e.from,
             e.from <= e.to, e.to <= pos', loop' \notin {"body", "skip"},
             Apart(e.segments), Inside(e.segments, e.from, e.to)
      PROVE  ElementsNest'
  <2>1. Apart(elements')
    <3>1. Apart(elements)
      BY DEF ElementsNest
    <3> QED
      BY <3>1, <1>a, <1>e, ApartAppended
  <2>2. \A i \in DOMAIN elements' :
          elements'[i] = e \/ (i \in DOMAIN elements /\ elements'[i] = elements[i])
    BY <1>a, <1>e
  <2>3. ASSUME NEW i \in DOMAIN elements'
        PROVE  /\ Apart(elements'[i].segments)
               /\ Inside(elements'[i].segments, elements'[i].from, elements'[i].to)
    BY <2>2, <1>e DEF ElementsNest
  <2>4. ASSUME NEW i \in DOMAIN elements' PROVE elements'[i].to <= pos'
    <3>1. e.from \in Nat /\ e.to \in Nat
      BY DEF Element
    <3> QED
      BY <2>2, <3>1, <1>a, <1>b, <1>e
  <2> QED
    BY <2>1, <2>3, <2>4, <1>e DEF ElementsNest, Apart, Inside
<1>f. ASSUME loop \in {"body", "skip"}, loop = "skip" => InBody, NEW end \in {pos, pos + 1},
             end <= pos',
             NEW truncated \in BOOLEAN, BodyEnds(segments, end, truncated)
      PROVE  ElementsNest'
  <2>1. CASE pass = "document"
    <3> DEFINE e == [name |-> doc[element + 1].name, from |-> element, to |-> end,
                     segments |-> segments, truncated |-> truncated]
    <3>1. element \in Nat /\ element < pos /\ doc[element + 1].name \in CapturedName
      BY <2>1, <1>f DEF Framing, LoopsInPlace, WalkOK
    <3>2. e \in Element /\ e.from <= e.to /\ e.to <= pos'
      BY <3>1, <1>a, <1>f DEF Element
    <3>3. elements' = Append(elements, e) /\ loop' \notin {"body", "skip"}
      BY <2>1, <1>f DEF BodyEnds
    <3>4. \A i \in DOMAIN elements : elements[i].to <= e.from
      BY <2>1, <1>f DEF ElementsNest
    <3>5. Apart(e.segments) /\ Inside(e.segments, e.from, e.to)
      BY <1>a, <1>f, InsideWider DEF SegmentsNest
    <3> HIDE DEF e
    <3> QED
      BY <2>1, <3>2, <3>3, <3>4, <3>5, <1>e
  <2>2. CASE pass # "document"
    BY <2>2, <1>f DEF BodyEnds, ElementsNest, Apart, Inside
  <2> QED
    BY <2>1, <2>2
<1>1. CASE Recover \/ PassOver \/ RootOpens \/ RootEmpty \/ RootForeign \/
          RootMissing \/ RootGivesUp
  BY <1>1, <1>a, <1>c, <1>d DEF Recover, PassOver, RootOpens, RootEmpty,
      RootForeign, RootMissing, RootGivesUp, place, found, LoopsInPlace
<1>2. CASE MapperCloses \/ MapperEof \/ MapperGivesUp \/ MapperCaptures \/
          MapperSkips
  BY <1>2, <1>a, <1>c, <1>d DEF MapperCloses, MapperDone, MapperEof,
      MapperGivesUp, MapperCaptures, MapperSkips, place, found, LoopsInPlace
<1>3. CASE MapperEmpty
  <2> DEFINE e == [name |-> Tok.name, from |-> pos, to |-> pos + 1,
                   segments |-> << >>, truncated |-> FALSE]
  <2>1. CASE Tok.name \in CapturedName
    <3>1. /\ e \in Element /\ elements' = Append(elements, e) /\ e.from <= e.to
          /\ e.to <= pos' /\ loop' = "mapper"
      BY <2>1, <1>3, <1>a DEF Element, MapperEmpty, Read, Sees, place
    <3>2. Apart(e.segments) /\ Inside(e.segments, e.from, e.to)
      BY DEF Apart, Inside
    <3>3. pass = "document" /\ \A i \in DOMAIN elements : elements[i].to <= e.from
      BY <1>3, <1>a DEF ElementsNest, MapperEmpty, LoopsInPlace
    <3> HIDE DEF e
    <3> QED
      BY <3>1, <3>2, <3>3, <1>e
  <2>2. CASE Tok.name \notin CapturedName
    BY <2>2, <1>3, <1>a, <1>c, <1>d DEF MapperEmpty, place
  <2> QED
    BY <2>1, <2>2
<1>4. CASE BodyCloses \/ BodyEof \/ BodyGivesUp
  <2>1. CASE BodyCloses
    <3>1. /\ loop = "body" /\ BodyEnds(segments, pos + 1, FALSE) /\ pos' = pos + 1
          /\ FALSE \in BOOLEAN
      BY <2>1 DEF BodyCloses, Closes, Sees, Read
    <3>2. pos + 1 \in {pos, pos + 1} /\ pos + 1 <= pos'
      BY <3>1, <1>a
    <3> QED
      BY <3>1, <3>2, <1>f, Zenon
  <2>2. CASE BodyEof \/ BodyGivesUp
    <3>1. loop = "body" /\ BodyEnds(segments, pos, TRUE) /\ pos <= pos' /\ TRUE \in BOOLEAN
      BY <2>2, <1>c DEF BodyEof, BodyGivesUp
    <3> QED
      BY <3>1, <1>a, <1>f
  <2> QED
    BY <1>4, <2>1, <2>2
<1>5. CASE BodySegment \/ BodyIgnores \/ BodySkips \/ SkipCounts \/ SkipCloses
  BY <1>5, <1>a, <1>c, <1>d DEF BodySegment, BodyIgnores, BodySkips, SkipCounts,
      SkipCloses, place, found, LoopsInPlace
<1>6. CASE SkipAbandoned
  <2>1. CASE InBody
    <3>1. loop = "skip" /\ BodyEnds(segments, pos, TRUE) /\ pos <= pos' /\ TRUE \in BOOLEAN
      BY <1>6, <2>1, <1>c DEF SkipAbandoned
    <3> QED
      BY <3>1, <2>1, <1>a, <1>f
  <2>2. CASE ~ InBody
    BY <1>6, <2>2, <1>a, <1>c, <1>d DEF SkipAbandoned, found
  <2> QED
    BY <2>1, <2>2
<1>7. CASE TrailingIgnores \/ TrailingRecovers \/ TrailingEnds
  BY <1>7, <1>a, <1>c, <1>d DEF TrailingIgnores, TrailingRecovers, TrailingEnds,
      place, found, LoopsInPlace
<1>8. CASE CaptureSubtree
  <2>1. /\ elements' = elements
        /\ pass' = "document" => pass' = pass /\ pos' = pos /\ loop' = loop /\ loop = "done"
    BY <1>8 DEF CaptureSubtree, place
  <2> QED
    BY <2>1 DEF ElementsNest, Apart, Inside
<1> QED
  BY <1>1, <1>2, <1>3, <1>4, <1>5, <1>6, <1>7, <1>8 DEF Next

(* The spans nest while they are being collected, too.                     *)
THEOREM AlwaysNest == Spec => [](SegmentsNest /\ ElementsNest)
<1> DEFINE Nest == SegmentsNest /\ ElementsNest
<1>1. Init => Nest
  BY DEF Init, SegmentsNest, ElementsNest, Apart, Inside, InBody
<1>2. Framing /\ Nest /\ [Next]_vars => Nest'
  <2>1. ASSUME Framing, Nest, Next PROVE Nest'
    BY <2>1, SegmentsNestStep, ElementsNestStep
  <2>2. ASSUME Nest, UNCHANGED vars PROVE Nest'
    BY <2>2 DEF vars, place, found, SegmentsNest, ElementsNest, Apart, Inside, InBody
  <2> QED
    BY <2>1, <2>2
<1> QED
  BY <1>1, <1>2, AlwaysFraming, PTL DEF Spec

(* However broken the document, the elements build_mapper collects do not  *)
(* overlap, and the segments capture_body cuts them into lie inside them,  *)
(* one after the other.                                                    *)
THEOREM SpansAlwaysNest == Spec => []SpansNest
<1>1. SegmentsNest /\ ElementsNest => SpansNest
  BY DEF SegmentsNest, ElementsNest, SpansNest
<1> QED
  BY <1>1, AlwaysNest, PTL

-----------------------------------------------------------------------------
(* The reader and the loops.                                               *)

(* Level without its CASE, for the solvers.                                *)
Levels ==
  /\ loop = "mapper" => Level = 1
  /\ loop = "body" => Level = IF pass = "subtree" THEN 1 ELSE 2
  /\ loop = "skip" => Level = depth + (IF InBody /\ pass # "subtree" THEN 2 ELSE 1)

(* That is what Level is.                                                  *)
LEMMA LevelIs == Levels
<1> USE DEF Levels
<1>1. loop = "mapper" => Level = 1
  BY Zenon DEF Level
<1>2. CASE pass = "subtree"
  <2>1. 0 + 1 = 1
    OBVIOUS
  <2>2. loop = "body" => Level = 1
    BY <1>2, <2>1, Zenon DEF Level
  <2>3. loop = "skip" => Level = depth + (IF InBody THEN 1 ELSE 1)
    BY <1>2, <2>1, Zenon DEF Level
  <2> QED
    BY <1>1, <1>2, <2>2, <2>3
<1>3. CASE pass # "subtree"
  <2>1. 1 + 1 = 2
    OBVIOUS
  <2>2. loop = "body" => Level = 2
    BY <1>3, <2>1, Zenon DEF Level
  <2>3. loop = "skip" => Level = depth + (IF InBody THEN 2 ELSE 1)
    BY <1>3, <2>1, Zenon DEF Level
  <2> QED
    BY <1>1, <1>3, <2>2, <2>3
<1> QED
  BY <1>2, <1>3

(* How many names one read_event leaves open: one more, one less, or as    *)
(* many.                                                                   *)
LEMMA OpenAfterRead ==
  ASSUME ReaderOK, ~ AtEof, Read
  PROVE  /\ Len(open) \in Nat
         /\ Sees({"start"}) => Len(open') = Len(open) + 1
         /\ Closes => Len(open') = Len(open) - 1
         /\ ~ Sees({"start", "end"}) => open' = open
         /\ ~ Sees({"start"}) => Len(open') \in {Len(open), Len(open) - 1} \cap Nat
<1>1. open \in Seq(TagName) /\ Len(open) \in Nat
  BY DEF ReaderOK
<1>2. CASE Tok.type = "start"
  BY <1>1, <1>2 DEF Read, Sees, Closes
<1>3. CASE Tok.type = "end" /\ open # << >>
  <2>1. open' = SubSeq(open, 1, Len(open) - 1) /\ Len(open) > 0
    BY <1>1, <1>3 DEF Read
  <2>2. Len(open') = Len(open) - 1
    BY <1>1, <2>1, AllButLast
  <2> QED
    BY <1>1, <1>3, <2>1, <2>2 DEF Sees, Closes
<1>4. CASE ~ (Tok.type = "start") /\ ~ (Tok.type = "end" /\ open # << >>)
  <2>1. open' = open
    BY <1>4 DEF Read
  <2> QED
    BY <1>1, <1>4, <2>1 DEF Sees, Closes
<1> QED
  BY <1>2, <1>3, <1>4

(* A closing tag that did not match has been reported.                     *)
Blamed ==
  \E d \in diags :
    /\ d.code = "UnclosedTag" /\ d.from = d.to
    /\ d.from >= (IF pass = "subtree" THEN element ELSE RootStart)
    /\ doc[d.from + 1].type = "end"

(* Counting on alike keeps the reader and the loops in agreement.          *)
LEMMA AgreesCarried ==
  ASSUME loop \in {"mapper", "body", "skip"} =>
           Len(open) <= Level /\ (Len(open) < Level => Blamed),
         loop \in {"mapper", "body", "skip"}, doc' = doc, pass' = pass,
         pass = "subtree" => element' = element, diags \subseteq diags',
         Len(open) \in Int, Level \in Int, NEW d \in Int,
         Len(open') = Len(open) + d, Level' = Level + d
  PROVE  ReaderAgrees'
<1>1. Len(open') <= Level' /\ (Len(open') < Level' => Len(open) < Level)
  OBVIOUS
<1>2. Blamed => Blamed'
  BY DEF Blamed, RootStart
<1> QED
  BY <1>1, <1>2 DEF ReaderAgrees, Blamed

(* Every step of the walk keeps the reader and the loops in agreement:     *)
(* they count on alike, or a closing tag that does not match is reported.  *)
LEMMA ReaderAgreesStep ==
  ASSUME Framing, ReaderAgrees, Next
  PROVE  ReaderAgrees'
<1> DEFINE Busy == loop \in {"mapper", "body", "skip"}
<1>a. /\ pos \in Nat /\ element \in Int /\ depth \in Nat /\ pass \in {"document", "subtree"}
      /\ LoopsInPlace /\ RootBehind /\ ReaderOK
  BY DEF Framing, ReaderOK, WalkOK, NoPos
<1>b. Len(open) \in Nat
  BY <1>a DEF ReaderOK
<1>c. Busy => Len(open) <= Level /\ (Len(open) < Level => Blamed)
  BY DEF ReaderAgrees, Blamed
<1>d. ~ Busy' => ReaderAgrees'
  BY DEF ReaderAgrees
<1>e. /\ loop' = "mapper" => Level' = 1
      /\ loop' = "body" => Level' = IF pass' = "subtree" THEN 1 ELSE 2
      /\ loop' = "skip" => Level' = depth' + (IF InBody' /\ pass' # "subtree" THEN 2 ELSE 1)
  <2>1. Levels'
    BY LevelIs, PTL
  <2> QED
    BY <2>1 DEF Levels
<1>f. Busy => Level \in Int
  BY <1>a, LevelIs DEF Levels, Busy
<1>g. ASSUME Busy, doc' = doc, pass' = pass, pass = "subtree" => element' = element,
             diags \subseteq diags', NEW d \in Int, Len(open') = Len(open) + d,
             Level' = Level + d
      PROVE  ReaderAgrees'
  BY <1>b, <1>c, <1>f, <1>g, AgreesCarried DEF Busy
<1>h. ASSUME ~ AtEof, Read
      PROVE  /\ Sees({"start"}) => Len(open') = Len(open) + 1
             /\ Closes => Len(open') = Len(open) - 1
             /\ ~ Sees({"start", "end"}) => open' = open
             /\ ~ Sees({"start"}) => Len(open') \in {Len(open), Len(open) - 1} \cap Nat
             /\ doc' = doc
  BY <1>a, <1>h, OpenAfterRead DEF Read
<1>i. ASSUME ~ AtEof, Read, ~ Sees({"start", "end"}), diags \subseteq diags', UNCHANGED place
      PROVE  ReaderAgrees'
  <2>1. CASE Busy
    <3>1. Len(open') = Len(open) + 0 /\ Level' = Level + 0
      BY <1>i, <2>1, <1>b, <1>h, <1>e, <1>f, LevelIs DEF place, Busy, Levels, InBody
    <3>2. doc' = doc /\ pass' = pass /\ element' = element /\ 0 \in Int
      BY <1>i, <1>h DEF place
    <3> QED
      BY <1>i, <2>1, <3>1, <3>2, <1>g
  <2>2. CASE ~ Busy
    BY <1>i, <2>2, <1>d DEF place, Busy
  <2> QED
    BY <2>1, <2>2
<1> HIDE DEF Busy
<1>1. CASE Recover
  <2>1. /\ Sees({"end", "bad", "stuck"}) /\ Read
        /\ diags' = diags \cup {Diag("UnclosedTag", pos, pos)}
        /\ ~ Closes /\ UNCHANGED place
    BY <1>1 DEF Recover, Fails, Sees, Closes, Report
  <2>2. CASE Busy /\ Sees({"end"})
    <3>1. Len(open') <= Len(open) /\ Level' = Level
      BY <2>1, <2>2, <1>b, <1>h, <1>e, LevelIs DEF Sees, place, Busy, Levels, InBody
    <3>2. Blamed'
      <4>1. doc' = doc /\ doc[pos + 1].type = "end" /\ pass' = pass /\ element' = element
        BY <2>1, <2>2 DEF Sees, Tok, Read, place
      <4>2. pos >= (IF pass = "subtree" THEN element ELSE RootStart)
        BY <2>2, <1>a DEF Busy, LoopsInPlace, RootBehind
      <4>3. RootStart' = RootStart
        BY <4>1 DEF RootStart
      <4> DEFINE d == Diag("UnclosedTag", pos, pos)
      <4>4. d \in diags' /\ d.code = "UnclosedTag" /\ d.from = pos /\ d.to = pos
        BY <2>1 DEF Diag
      <4> HIDE DEF d
      <4> QED
        BY <4>1, <4>2, <4>3, <4>4 DEF Blamed
    <3>3. Len(open') <= Level'
      BY <3>1, <2>2, <1>b, <1>c, <1>f, <1>h, <2>1 DEF Sees
    <3> QED
      BY <3>2, <3>3 DEF ReaderAgrees, Blamed
  <2>3. CASE Busy /\ ~ Sees({"end"})
    <3>1. Len(open') = Len(open) + 0 /\ Level' = Level + 0
      BY <2>1, <2>3, <1>b, <1>h, <1>e, <1>f, LevelIs DEF Sees, place, Busy, Levels, InBody
    <3> QED
      BY <2>1, <2>3, <3>1, <1>g DEF place, Read
  <2>4. CASE ~ Busy
    BY <2>1, <2>4, <1>d DEF place, Busy
  <2> QED
    BY <2>2, <2>3, <2>4
<1>2. CASE PassOver \/ MapperEmpty
  <2>1. /\ ~ AtEof /\ Read /\ ~ Sees({"start", "end"}) /\ diags \subseteq diags'
        /\ UNCHANGED place
    BY <1>2 DEF PassOver, MapperEmpty, Sees, Report
  <2> QED
    BY <2>1, <1>i
<1>3. CASE RootOpens
  <2>1. Len(open') = 1 /\ loop' = "mapper"
    BY <1>3, <1>a, <1>h DEF RootOpens, LoopsInPlace, Sees
  <2> QED
    BY <2>1, <1>e DEF ReaderAgrees
<1>4. CASE RootEmpty \/ RootForeign \/ RootMissing \/ RootGivesUp \/
          MapperCloses \/ MapperEof \/ MapperGivesUp \/ TrailingIgnores \/
          TrailingRecovers \/ TrailingEnds \/ BodyEof \/ BodyGivesUp \/
          SkipAbandoned
  BY <1>4, <1>d DEF RootEmpty, RootForeign, RootMissing, RootGivesUp,
      MapperCloses, MapperDone, MapperEof, MapperGivesUp, TrailingIgnores,
      TrailingRecovers, TrailingEnds, BodyEof, BodyEnds, BodyGivesUp,
      SkipAbandoned, Busy, place, found
<1>5. CASE MapperCaptures \/ MapperSkips
  <2>1. /\ ~ AtEof /\ Read /\ Sees({"start"}) /\ diags' = diags /\ pass = "document"
        /\ pass' = pass
        /\ Busy /\ Level = 1 /\ Level' = 2
    BY <1>5, <1>a, <1>e, LevelIs DEF MapperCaptures, MapperSkips, Sees, found, LoopsInPlace,
       Levels, Busy, InBody
  <2> QED
    BY <2>1, <1>g, <1>h
<1>6. CASE BodyCloses
  <2>1. CASE pass = "document"
    <3>1. /\ ~ AtEof /\ Read /\ Closes /\ diags' = diags /\ pass' = pass
          /\ Busy /\ Level = 2 /\ Level' = 1
      BY <1>6, <2>1, <1>e, LevelIs DEF BodyCloses, BodyEnds, Closes, Sees, Levels, Busy
    <3> QED
      BY <2>1, <3>1, <1>b, <1>g, <1>h
  <2>2. CASE pass # "document"
    BY <1>6, <2>2, <1>d DEF BodyCloses, BodyEnds, Busy
  <2> QED
    BY <2>1, <2>2
<1>7. CASE BodySegment \/ BodyIgnores
  <2>1. /\ ~ AtEof /\ Read /\ ~ Sees({"start", "end"}) /\ diags \subseteq diags'
        /\ UNCHANGED place
    BY <1>7 DEF BodySegment, BodyIgnores, Sees, Report
  <2> QED
    BY <2>1, <1>i
<1>8. CASE BodySkips
  <2>1. /\ ~ AtEof /\ Read /\ Sees({"start"}) /\ diags' = diags /\ pass' = pass
        /\ element' = element
        /\ Busy /\ loop = "body" /\ loop' = "skip" /\ depth' = 1 /\ InBody'
    BY <1>8, <1>a DEF BodySkips, Sees, found, Busy, InBody, NoPos
  <2>2. Level' = Level + 1
    BY <2>1, <1>e, LevelIs DEF Levels
  <2> QED
    BY <2>1, <2>2, <1>g, <1>h
<1>9. CASE SkipCounts
  <2>1. /\ ~ AtEof /\ Read /\ diags' = diags /\ pass' = pass /\ element' = element
        /\ child' = child
        /\ Busy /\ loop = "skip" /\ loop' = "skip" /\ depth' \in Nat
    BY <1>9, <1>a, WalkStep DEF SkipCounts, Closes, Sees, found, Busy, WalkOK
  <2>2. PICK d \in {-1, 0, 1} : depth' = depth + d /\ Len(open') = Len(open) + d
    <3>1. CASE Sees({"start"}) /\ depth' = depth + 1
      BY <3>1, <2>1, <1>b, <1>h
    <3>2. CASE Closes /\ depth' = depth - 1
      BY <3>2, <2>1, <1>a, <1>b, <1>h
    <3>3. CASE Sees({"empty", "text", "amp", "comment"}) /\ depth' = depth
      BY <3>3, <2>1, <1>a, <1>b, <1>h DEF Sees
    <3> QED
      BY <1>9, <3>1, <3>2, <3>3 DEF SkipCounts
  <2>3. Level' = Level + d
    BY <2>1, <2>2, <1>a, <1>e, LevelIs DEF Levels, InBody
  <2> QED
    BY <2>1, <2>2, <2>3, <1>g, <1>h
<1>10. CASE SkipCloses
  <2>1. /\ ~ AtEof /\ Read /\ Closes /\ diags \subseteq diags' /\ pass' = pass
        /\ element' = element
        /\ loop = "skip" /\ depth = 1 /\ loop' = IF InBody THEN "body" ELSE "mapper"
    BY <1>10 DEF SkipCloses, Closes, Sees, Report
  <2>2. Level' = Level - 1 /\ Busy
    BY <2>1, <1>a, <1>e, LevelIs DEF Levels, Busy, LoopsInPlace
  <2>3. Len(open') = Len(open) + (-1) /\ Level' = Level + (-1) /\ -1 \in Int
    BY <2>1, <2>2, <1>b, <1>f, <1>h
  <2> QED
    BY <2>1, <2>2, <2>3, <1>g, <1>h
<1>11. CASE CaptureSubtree
  <2>1. CASE loop' \in {"mapper", "body", "skip"}
    <3>1. Len(open') = 1 /\ loop' = "body" /\ pass' = "subtree"
      BY <1>11, <2>1 DEF CaptureSubtree, OpenOver, place
    <3> QED
      BY <3>1, <1>e DEF ReaderAgrees
  <2>2. CASE loop' \notin {"mapper", "body", "skip"}
    BY <2>2 DEF ReaderAgrees
  <2> QED
    BY <2>1, <2>2
<1> QED
  BY <1>1, <1>2, <1>3, <1>4, <1>5, <1>6, <1>7, <1>8, <1>9, <1>10, <1>11 DEF Next

(* In no document does the reader hold more names open than the loops      *)
(* account for, and it never holds fewer without a diagnostic at the       *)
(* closing tag that is to blame.                                           *)
THEOREM ReaderAlwaysAgrees == Spec => []ReaderAgrees
<1>1. Init => ReaderAgrees
  BY DEF Init, ReaderAgrees
<1>2. Framing /\ ReaderAgrees /\ [Next]_vars => ReaderAgrees'
  <2>1. ASSUME Framing, ReaderAgrees, UNCHANGED vars PROVE ReaderAgrees'
    BY <2>1, LevelIs DEF vars, place, found, ReaderAgrees, Level, InBody, RootStart
  <2> QED
    BY <2>1, ReaderAgreesStep
<1> QED
  BY <1>1, <1>2, AlwaysFraming, PTL DEF Spec

-----------------------------------------------------------------------------
(* The second reading of a tag.                                            *)

(* A reader's stack of names, and how many elements a loop that counts     *)
(* Start and End takes to be open.                                         *)
RunState == [open : Seq(TagName), level : Int]

(* What one more token does to both.                                       *)
After(s, t) ==
  IF t.type = "start" THEN [open |-> Append(s.open, t.name), level |-> s.level + 1]
  ELSE IF t.type = "end" /\ s.open # << >>
  THEN [open |-> SubSeq(s.open, 1, Len(s.open) - 1),
        level |-> IF t.name = s.open[Len(s.open)] THEN s.level - 1 ELSE s.level]
  ELSE s

(* A reader that is started at token from + 1 and reads up to to, without  *)
(* coming upon markup it cannot get past; run[k] is where it stands after  *)
(* k tokens.                                                               *)
IsRun(text, run, from, to) ==
  /\ run \in [from + 1 .. to -> RunState]
  /\ run[from + 1] = [open |-> <<text[from + 1].name>>, level |-> 1]
  /\ \A k \in from + 1 .. to - 1 :
       text[k + 1].type # "stuck" /\ run[k + 1] = After(run[k], text[k + 1])

(* The element at which it starts is not closed on the way.                *)
StaysOpen(run, from, to) == \A k \in from + 1 .. to - 1 : run[k].level >= 1

(* Read by itself, a captured tag is open up to its last token.            *)
ClosesItself(text, t) ==
  text[t.from + 1].type = "start" =>
    \E run : IsRun(text, run, t.from, t.to) /\ StaysOpen(run, t.from, t.to)

(* Every tag that was captured is such a tag.                              *)
TagsClosed ==
  /\ \A t \in tags : ClosesItself(doc, t)
  /\ \A i \in DOMAIN segments : segments[i].type = "tag" => ClosesItself(doc, segments[i])

(* While skip_subtree skips a tag in a body, a reader started at that tag  *)
(* would hold open what the real one does, the names from outside the tag  *)
(* left off, and would count at least as many elements: it may only miss   *)
(* closing tags, never see more of them.                                   *)
SkipRun ==
  InBody =>
    \E run :
      /\ IsRun(doc, run, child, pos) /\ StaysOpen(run, child, pos + 1)
      /\ run[pos].level >= depth
      /\ Suffix(run[pos].open, open)

(* The second reading of a tag is such a run, it has not failed where it   *)
(* stands, and it ends where the tag does.                                 *)
SubtreeRun ==
  /\ pass = "subtree" /\ loop \in {"body", "skip"} =>
       /\ lastErr["body"] < pos
       /\ loop = "skip" => lastErr["skip"] < pos
       /\ \E run :
            /\ IsRun(doc, run, element, limit) /\ StaysOpen(run, element, limit)
            /\ run[pos] = [open |-> open, level |-> depth + 1]
  /\ pass = "subtree" /\ loop = "done" => pos = limit

(* One more token keeps a run's state well-formed.                         *)
LEMMA AfterTyped ==
  ASSUME NEW s \in RunState, NEW t \in Token
  PROVE  After(s, t) \in RunState
<1>1. s.open \in Seq(TagName) /\ s.level \in Int
  BY DEF RunState
<1>2. CASE t.type = "start"
  <2>1. t.name \in TagName
    BY <1>2 DEF Token
  <2> QED
    BY <1>1, <1>2, <2>1 DEF After, RunState
<1>3. CASE t.type # "start"
  <2>1. s.open # << >> => SubSeq(s.open, 1, Len(s.open) - 1) \in Seq(TagName)
    BY <1>1
  <2> QED
    BY <1>1, <1>3, <2>1 DEF After, RunState
<1> QED
  BY <1>2, <1>3

(* A reader that holds open the end of what another one does still does so *)
(* after one more token, and counts no closing tag the other one does not  *)
(* accept.                                                                 *)
LEMMA AfterFollows ==
  ASSUME ReaderOK, ~ AtEof, Read, NEW s \in RunState, Suffix(s.open, open)
  PROVE  /\ Suffix(After(s, Tok).open, open')
         /\ Tok.type = "start" => After(s, Tok).level = s.level + 1
         /\ Closes => After(s, Tok).level >= s.level - 1
         /\ Tok.type # "start" /\ ~ Closes => After(s, Tok).level = s.level
<1>1. s.open \in Seq(TagName) /\ s.level \in Int /\ open \in Seq(TagName)
  BY DEF RunState, ReaderOK
<1>2. CASE Tok.type = "start"
  <2>1. Tok.name \in TagName
    BY <1>2, TokTyped DEF TagType
  <2>2. After(s, Tok) = [open |-> Append(s.open, Tok.name), level |-> s.level + 1]
    BY <1>2 DEF After
  <2>3. open' = Append(open, Tok.name)
    BY <1>2 DEF Read
  <2>4. Suffix(Append(s.open, Tok.name), Append(open, Tok.name))
    BY <1>1, <2>1, SuffixAppended
  <2> QED
    BY <1>1, <1>2, <2>2, <2>3, <2>4 DEF Closes, Sees
<1>3. CASE Tok.type = "end" /\ s.open # << >>
  <2>1. /\ open # << >> /\ s.open[Len(s.open)] = open[Len(open)]
        /\ Suffix(SubSeq(s.open, 1, Len(s.open) - 1), SubSeq(open, 1, Len(open) - 1))
    BY <1>1, <1>3, SuffixCut
  <2>2. After(s, Tok) = [open |-> SubSeq(s.open, 1, Len(s.open) - 1),
                         level |-> IF Tok.name = s.open[Len(s.open)]
                                   THEN s.level - 1 ELSE s.level]
    BY <1>3 DEF After
  <2>3. open' = SubSeq(open, 1, Len(open) - 1)
    BY <1>3, <2>1 DEF Read
  <2>4. Closes <=> Tok.name = s.open[Len(s.open)]
    BY <1>3, <2>1 DEF Closes, Sees
  <2> QED
    BY <1>1, <1>3, <2>1, <2>2, <2>3, <2>4
<1>4. CASE Tok.type = "end" /\ s.open = << >>
  <2>1. After(s, Tok) = s
    BY <1>4 DEF After
  <2>2. open' \in Seq(TagName)
    BY ReadTyped DEF ReaderOK
  <2>3. Suffix(s.open, open')
    BY <1>4, <2>2 DEF Suffix
  <2> QED
    BY <1>1, <1>4, <2>1, <2>3
<1>5. CASE Tok.type \notin {"start", "end"}
  <2>1. After(s, Tok) = s /\ open' = open /\ ~ Closes
    BY <1>5 DEF After, Read, Closes, Sees
  <2> QED
    BY <1>1, <1>5, <2>1
<1> QED
  BY <1>2, <1>3, <1>4, <1>5

(* A reader with the same names open does what the other one does.         *)
LEMMA AfterMatches ==
  ASSUME ReaderOK, ~ AtEof, Read, NEW s \in RunState, s.open = open
  PROVE  /\ After(s, Tok).open = open'
         /\ Tok.type = "start" => After(s, Tok).level = s.level + 1
         /\ Closes => After(s, Tok).level = s.level - 1
         /\ Tok.type # "start" /\ ~ Closes => After(s, Tok).level = s.level
<1>1. CASE Tok.type = "start"
  BY <1>1 DEF After, Read, Closes, Sees
<1>2. CASE Tok.type = "end" /\ open # << >>
  BY <1>2 DEF After, Read, Closes, Sees
<1>3. CASE Tok.type # "start" /\ ~ (Tok.type = "end" /\ open # << >>)
  BY <1>3 DEF After, Read, Closes, Sees
<1> QED
  BY <1>1, <1>2, <1>3

(* A run goes on for one more token.                                       *)
LEMMA RunExtended ==
  ASSUME ReaderOK, ~ AtEof, Tok.type # "stuck", NEW from \in Nat, from < pos,
         NEW run, IsRun(doc, run, from, pos)
  PROVE  \E longer :
           /\ IsRun(doc, longer, from, pos + 1)
           /\ \A k \in from + 1 .. pos : longer[k] = run[k]
           /\ longer[pos + 1] = After(run[pos], Tok)
<1> DEFINE next == After(run[pos], Tok)
           longer == [k \in from + 1 .. pos + 1 |-> IF k = pos + 1 THEN next ELSE run[k]]
<1>1. pos \in Nat /\ pos \in from + 1 .. pos /\ from + 1 \in from + 1 .. pos
  BY DEF ReaderOK
<1>2. run \in [from + 1 .. pos -> RunState] /\ run[pos] \in RunState
  BY <1>1 DEF IsRun
<1>3. next \in RunState
  BY <1>2, TokTyped, AfterTyped
<1> HIDE DEF next
<1>4. longer \in [from + 1 .. pos + 1 -> RunState]
  <2>1. ASSUME NEW k \in from + 1 .. pos + 1, k # pos + 1 PROVE run[k] \in RunState
    <3>1. k \in from + 1 .. pos
      BY <1>1, <2>1
    <3> QED
      BY <1>2, <3>1
  <2> QED
    BY <1>3, <2>1
<1>5. \A k \in from + 1 .. pos : k \in from + 1 .. pos + 1 /\ k # pos + 1
  BY <1>1
<1>6. \A k \in from + 1 .. pos : longer[k] = run[k]
  BY <1>5
<1>7. longer[pos + 1] = next
  BY <1>1
<1> HIDE DEF longer
<1>8. ASSUME NEW k \in from + 1 .. (pos + 1) - 1
      PROVE  doc[k + 1].type # "stuck" /\ longer[k + 1] = After(longer[k], doc[k + 1])
  <2>1. k \in from + 1 .. pos
    BY <1>1
  <2>2. CASE k = pos
    BY <2>1, <2>2, <1>6, <1>7 DEF Tok, next
  <2>3. CASE k # pos
    <3>1. k \in from + 1 .. pos - 1 /\ k + 1 \in from + 1 .. pos
      BY <1>1, <2>1, <2>3
    <3> QED
      BY <2>1, <3>1, <1>6 DEF IsRun
  <2> QED
    BY <2>2, <2>3
<1>9. longer[from + 1] = [open |-> <<doc[from + 1].name>>, level |-> 1]
  BY <1>1, <1>6 DEF IsRun
<1>10. IsRun(doc, longer, from, pos + 1)
  BY <1>4, <1>8, <1>9, Zenon DEF IsRun
<1> QED
  BY <1>6, <1>7, <1>10, Zenon DEF next

(* One turn of skip_subtree takes the run along.                           *)
LEMMA SkipRunRead ==
  ASSUME Framing, SkipRun, InBody, ~ AtEof, Read, Tok.type # "stuck", UNCHANGED child,
         depth' \in Nat, depth' >= 1,
         Tok.type = "start" => depth' = depth + 1,
         Closes => depth' = depth - 1,
         Tok.type # "start" /\ ~ Closes => depth' = depth
  PROVE  SkipRun'
<1>1. ReaderOK /\ child \in Nat /\ child < pos /\ depth \in Nat /\ pos' = pos + 1 /\ doc' = doc
  BY ReadTyped DEF Framing, WalkOK, LoopsInPlace, InBody, Read
<1>2. PICK run : /\ IsRun(doc, run, child, pos) /\ StaysOpen(run, child, pos + 1)
                 /\ run[pos].level >= depth /\ Suffix(run[pos].open, open)
  BY DEF SkipRun
<1>3. PICK longer : /\ IsRun(doc, longer, child, pos + 1)
                    /\ \A k \in child + 1 .. pos : longer[k] = run[k]
                    /\ longer[pos + 1] = After(run[pos], Tok)
  BY <1>1, <1>2, RunExtended
<1>4. pos \in Nat /\ pos \in child + 1 .. pos /\ run[pos] \in RunState
  BY <1>1, <1>2 DEF IsRun, ReaderOK
<1>5. run[pos].level \in Int
  BY <1>4 DEF RunState
<1>6. longer[pos + 1] \in RunState
  <2>1. pos + 1 \in child + 1 .. pos + 1
    BY <1>1, <1>4
  <2> QED
    BY <1>3, <2>1 DEF IsRun
<1>7. Suffix(longer[pos + 1].open, open') /\ longer[pos + 1].level >= depth'
  <2>1. longer[pos + 1].level \in Int
    BY <1>6 DEF RunState
  <2>2. /\ Suffix(longer[pos + 1].open, open')
        /\ Tok.type = "start" => longer[pos + 1].level = run[pos].level + 1
        /\ Closes => longer[pos + 1].level >= run[pos].level - 1
        /\ Tok.type # "start" /\ ~ Closes => longer[pos + 1].level = run[pos].level
    BY <1>1, <1>2, <1>3, <1>4, AfterFollows
  <2> QED
    BY <2>1, <2>2, <1>1, <1>2, <1>5
<1>8. ASSUME NEW k \in child + 1 .. (pos + 2) - 1 PROVE longer[k].level >= 1
  <2>1. CASE k = pos + 1
    <3>1. longer[pos + 1].level \in Int
      BY <1>6 DEF RunState
    <3> QED
      BY <2>1, <3>1, <1>1, <1>7
  <2>2. CASE k # pos + 1
    <3>1. k \in child + 1 .. pos /\ k \in child + 1 .. (pos + 1) - 1
      BY <1>1, <1>4, <2>2
    <3> QED
      BY <3>1, <1>2, <1>3 DEF StaysOpen
  <2> QED
    BY <2>1, <2>2
<1>9. StaysOpen(longer, child, pos + 2)
  BY <1>8, Zenon DEF StaysOpen
<1>10. pos + 2 = pos' + 1
  BY <1>1, <1>4
<1> QED
  BY <1>1, <1>3, <1>7, <1>9, <1>10 DEF SkipRun, StaysOpen

(* The run begins where BodySkips does and stays with the walk.            *)
LEMMA SkipRunStep ==
  ASSUME Framing, SkipRun, Next
  PROVE  SkipRun'
<1>a. LoopsInPlace /\ ReaderOK /\ depth \in Nat /\ pos \in Nat
  BY DEF Framing, WalkOK, ReaderOK
<1>b. ~ InBody' => SkipRun'
  BY DEF SkipRun
<1>c. loop # "skip" => ~ InBody
  BY <1>a DEF LoopsInPlace, InBody
<1>1. CASE Recover
  <2>1. ~ AtEof /\ Read /\ ~ Closes /\ Tok.type # "start" /\ UNCHANGED place
    BY <1>1 DEF Recover, Fails, Sees, Closes
  <2>2. CASE ~ InBody
    BY <2>1, <2>2, <1>b DEF place, InBody
  <2>3. CASE InBody /\ Tok.type # "stuck"
    BY <2>1, <2>3, <1>a, SkipRunRead DEF place, LoopsInPlace, InBody
  <2>4. CASE InBody /\ Tok.type = "stuck"
    <3>1. UNCHANGED <<doc, pos, open, child, depth>>
      BY <2>1, <2>4 DEF Read, place
    <3> QED
      BY <3>1 DEF SkipRun, InBody, IsRun, StaysOpen
  <2> QED
    BY <2>2, <2>3, <2>4
<1>2. CASE PassOver \/ RootOpens \/ RootEmpty \/ RootForeign \/ RootMissing \/
          RootGivesUp \/ MapperCloses \/ MapperEof \/ MapperGivesUp \/
          MapperCaptures \/ MapperSkips \/ MapperEmpty
  BY <1>2, <1>b, <1>c DEF PassOver, RootOpens, RootEmpty, RootForeign,
      RootMissing, RootGivesUp, MapperCloses, MapperDone, MapperEof,
      MapperGivesUp, MapperCaptures, MapperSkips, MapperEmpty, place, found,
      InBody
<1>3. CASE BodyCloses \/ BodyEof \/ BodyGivesUp \/ BodySegment \/ BodyIgnores
  BY <1>3, <1>b, <1>c DEF BodyCloses, BodyEnds, BodyEof, BodyGivesUp,
      BodySegment, BodyIgnores, place, found, InBody
<1>4. CASE BodySkips
  <2>1. /\ ~ AtEof /\ Read /\ Tok.type = "start" /\ child' = pos /\ depth' = 1
        /\ pos' = pos + 1 /\ doc' = doc /\ open' = Append(open, Tok.name)
    BY <1>4, <1>a DEF BodySkips, Sees, Read
  <2>2. Tok.name \in TagName /\ open \in Seq(TagName)
    BY <2>1, <1>a, TokTyped DEF TagType, ReaderOK
  <2> DEFINE first == [open |-> <<Tok.name>>, level |-> 1]
             run == [k \in pos + 1 .. pos + 1 |-> first]
  <2>3. first \in RunState
    BY <2>2 DEF RunState
  <2>4. Suffix(<<Tok.name>>, open')
    <3>1. /\ Len(<<Tok.name>>) = 1 /\ <<Tok.name>>[1] = Tok.name
          /\ Len(open') = Len(open) + 1 /\ open'[Len(open) + 1] = Tok.name /\ Len(open) \in Nat
      BY <2>1, <2>2
    <3>2. \A k \in 1 .. 1 : Len(open) + 1 - 1 + k = Len(open) + 1 /\ k = 1
      BY <3>1
    <3> QED
      BY <3>1, <3>2 DEF Suffix
  <2>5. run[pos + 1] = first /\ run \in [pos + 1 .. pos + 1 -> RunState]
    BY <2>3, <1>a
  <2>6. IsRun(doc, run, pos, pos + 1)
    <3>1. \A k \in pos + 1 .. (pos + 1) - 1 : FALSE
      BY <1>a
    <3> HIDE DEF run
    <3> QED
      BY <2>5, <3>1 DEF IsRun, Tok
  <2>7. StaysOpen(run, pos, pos + 1 + 1)
    <3>1. \A k \in pos + 1 .. (pos + 1 + 1) - 1 : k = pos + 1
      BY <1>a
    <3> HIDE DEF run
    <3> QED
      BY <2>5, <3>1 DEF StaysOpen
  <2>8. run[pos'].level >= depth' /\ Suffix(run[pos'].open, open')
    BY <2>1, <2>4, <2>5
  <2> HIDE DEF run
  <2> QED
    BY <2>1, <2>6, <2>7, <2>8 DEF SkipRun, IsRun, StaysOpen
<1>5. CASE SkipCounts
  <2>1. /\ ~ AtEof /\ Read /\ Tok.type # "stuck" /\ child' = child
        /\ Tok.type = "start" => depth' = depth + 1
        /\ Closes => depth' = depth - 1 /\ depth > 1
        /\ Tok.type # "start" /\ ~ Closes => depth' = depth
    BY <1>5 DEF SkipCounts, Closes, Sees
  <2>2. depth' \in Nat /\ depth' >= 1
    BY <1>5, <1>a, WalkStep, LoopsInPlaceStep DEF SkipCounts, WalkOK, LoopsInPlace
  <2>3. CASE InBody
    BY <2>1, <2>2, <2>3, SkipRunRead
  <2>4. CASE ~ InBody
    BY <2>1, <2>4, <1>b DEF InBody
  <2> QED
    BY <2>3, <2>4
<1>6. CASE SkipCloses \/ SkipAbandoned
  BY <1>6, <1>b, <1>c DEF SkipCloses, SkipAbandoned, BodyEnds, place, found,
      InBody
<1>7. CASE TrailingIgnores \/ TrailingRecovers \/ TrailingEnds \/ CaptureSubtree
  BY <1>7, <1>b, <1>c DEF TrailingIgnores, TrailingRecovers, TrailingEnds,
      CaptureSubtree, OpenOver, place, found, InBody
<1> QED
  BY <1>1, <1>2, <1>3, <1>4, <1>5, <1>6, <1>7 DEF Next

(* The segment SkipCloses leaves is a tag that is open up to its end.      *)
LEMMA SkippedTagCloses ==
  ASSUME Framing, SkipRun, InBody, SkipCloses
  PROVE  \E run : IsRun(doc, run, child, pos + 1) /\ StaysOpen(run, child, pos + 1)
<1>1. ReaderOK /\ child \in Nat /\ child < pos /\ pos \in Nat /\ ~ AtEof /\ Tok.type # "stuck"
  BY DEF Framing, WalkOK, LoopsInPlace, InBody, SkipCloses, Closes, Sees, ReaderOK
<1>2. PICK run : IsRun(doc, run, child, pos) /\ StaysOpen(run, child, pos + 1)
  BY DEF SkipRun
<1>3. PICK longer : /\ IsRun(doc, longer, child, pos + 1)
                    /\ \A k \in child + 1 .. pos : longer[k] = run[k]
  BY <1>1, <1>2, RunExtended
<1>4. \A k \in child + 1 .. (pos + 1) - 1 : k \in child + 1 .. pos
  BY <1>1
<1> QED
  BY <1>2, <1>3, <1>4 DEF StaysOpen

(* Whatever is captured as a tag can be read by itself.                    *)
LEMMA TagsClosedStep ==
  ASSUME Framing, SkipRun, TagsClosed, Next
  PROVE  TagsClosed'
<1>a. /\ segments \in Seq(Segment) /\ LoopsInPlace /\ doc' = doc
  BY ReaderSteps DEF Framing, FoundOK, Read, OpenOver
<1>b. ASSUME \A t \in tags' :
               t \in tags \/ \E i \in DOMAIN segments : segments[i].type = "tag" /\ t = segments[i],
             segments' \in {segments, << >>}
      PROVE  TagsClosed'
  <2>1. \A t \in tags' : ClosesItself(doc, t)
    BY <1>a, <1>b DEF TagsClosed
  <2>2. \A i \in DOMAIN segments' : i \in DOMAIN segments /\ segments'[i] = segments[i]
    BY <1>b
  <2>3. \A i \in DOMAIN segments' :
          segments'[i].type = "tag" => ClosesItself(doc, segments'[i])
    BY <2>2 DEF TagsClosed
  <2> QED
    BY <1>a, <2>1, <2>3 DEF TagsClosed
<1>c. ASSUME NEW s, s.type = "tag" => ClosesItself(doc, s), segments' = Append(segments, s),
             tags' = tags
      PROVE  TagsClosed'
  <2>1. \A i \in DOMAIN segments' :
          segments'[i] = s \/ (i \in DOMAIN segments /\ segments'[i] = segments[i])
    BY <1>a, <1>c
  <2>2. \A i \in DOMAIN segments' :
          segments'[i].type = "tag" => ClosesItself(doc, segments'[i])
    BY <1>a, <1>c, <2>1 DEF TagsClosed
  <2>3. \A t \in tags' : ClosesItself(doc, t)
    BY <1>a, <1>c DEF TagsClosed
  <2> QED
    BY <1>a, <2>2, <2>3 DEF TagsClosed
<1>d. ASSUME NEW end, NEW truncated, BodyEnds(segments, end, truncated)
      PROVE  TagsClosed'
  BY <1>b, <1>d DEF BodyEnds
<1>1. CASE Recover \/ PassOver \/ RootOpens \/ RootEmpty \/ RootForeign \/
          RootMissing \/ RootGivesUp \/ MapperCloses \/ MapperEof \/
          MapperGivesUp \/ MapperCaptures \/ MapperSkips \/ MapperEmpty
  BY <1>1, <1>b DEF Recover, PassOver, RootOpens, RootEmpty, RootForeign,
      RootMissing, RootGivesUp, MapperCloses, MapperDone, MapperEof,
      MapperGivesUp, MapperCaptures, MapperSkips, MapperEmpty, place, found
<1>2. CASE BodyCloses \/ BodyEof \/ BodyGivesUp
  BY <1>2, <1>d DEF BodyCloses, BodyEof, BodyGivesUp
<1>3. CASE BodySegment
  <2> DEFINE s == [type |-> IF Tok.type = "empty" THEN "tag" ELSE "text",
                   from |-> pos, to |-> pos + 1]
  <2>1. segments' = Append(segments, s) /\ tags' = tags
    BY <1>3 DEF BodySegment
  <2>2. s.type = "tag" => ClosesItself(doc, s)
    BY DEF ClosesItself, Tok
  <2> HIDE DEF s
  <2> QED
    BY <2>1, <2>2, <1>c
<1>4. CASE BodyIgnores \/ BodySkips \/ SkipCounts
  BY <1>4, <1>b DEF BodyIgnores, BodySkips, SkipCounts, place, found
<1>5. CASE SkipCloses
  <2>1. CASE InBody
    <3> DEFINE s == [type |-> "tag", from |-> child, to |-> pos + 1]
    <3>1. segments' = Append(segments, s) /\ tags' = tags
      BY <1>5, <2>1 DEF SkipCloses
    <3>2. ClosesItself(doc, s)
      BY <1>5, <2>1, SkippedTagCloses DEF ClosesItself
    <3> HIDE DEF s
    <3> QED
      BY <3>1, <3>2, <1>c
  <2>2. CASE ~ InBody
    BY <1>5, <2>2, <1>b DEF SkipCloses
  <2> QED
    BY <2>1, <2>2
<1>6. CASE SkipAbandoned
  <2>1. CASE InBody
    BY <1>6, <2>1, <1>d DEF SkipAbandoned
  <2>2. CASE ~ InBody
    BY <1>6, <2>2, <1>b DEF SkipAbandoned, found
  <2> QED
    BY <2>1, <2>2
<1>7. CASE TrailingIgnores \/ TrailingRecovers \/ TrailingEnds
  BY <1>7, <1>b DEF TrailingIgnores, TrailingRecovers, TrailingEnds, place,
      found
<1>8. CASE CaptureSubtree
  BY <1>8, <1>b DEF CaptureSubtree, place, found
<1> QED
  BY <1>1, <1>2, <1>3, <1>4, <1>5, <1>6, <1>7, <1>8 DEF Next

(* One read_event of the second reading takes it one token on along its    *)
(* run.                                                                    *)
LEMMA SubtreeReads ==
  ASSUME Framing, SubtreeRun, pass = "subtree", loop \in {"body", "skip"}, ~ AtEof, Read
  PROVE  /\ pos' = pos + 1 /\ pos + 1 <= limit /\ UNCHANGED <<doc, limit>>
         /\ \E run :
              /\ IsRun(doc, run, element, limit) /\ StaysOpen(run, element, limit)
              /\ run[pos + 1].open = open' /\ run[pos + 1] \in RunState
              /\ Tok.type = "start" => run[pos + 1].level = depth + 2
              /\ Closes => run[pos + 1].level = depth
              /\ Tok.type # "start" /\ ~ Closes => run[pos + 1].level = depth + 1
<1>1. /\ ReaderOK /\ element \in Nat /\ element < pos /\ pos \in Nat /\ limit \in Nat
      /\ depth \in Nat
      /\ pos <= limit /\ pos # limit
  BY DEF Framing, WalkOK, ReaderOK, LoopsInPlace, AtEof
<1>2. PICK run : /\ IsRun(doc, run, element, limit) /\ StaysOpen(run, element, limit)
                 /\ run[pos] = [open |-> open, level |-> depth + 1]
  BY DEF SubtreeRun
<1>3. /\ pos \in element + 1 .. limit - 1 /\ pos \in element + 1 .. limit
      /\ pos + 1 \in element + 1 .. limit
  BY <1>1
<1>4. Tok.type # "stuck" /\ run[pos + 1] = After(run[pos], Tok)
  BY <1>2, <1>3 DEF IsRun, Tok
<1>5. run[pos] \in RunState /\ run[pos + 1] \in RunState
  BY <1>2, <1>3 DEF IsRun
<1>6. run[pos].open = open /\ run[pos].level = depth + 1
  BY <1>2
<1>7. /\ run[pos + 1].open = open'
      /\ Tok.type = "start" => run[pos + 1].level = run[pos].level + 1
      /\ Closes => run[pos + 1].level = run[pos].level - 1
      /\ Tok.type # "start" /\ ~ Closes => run[pos + 1].level = run[pos].level
  BY <1>1, <1>4, <1>5, <1>6, AfterMatches
<1>8. /\ Tok.type = "start" => run[pos + 1].level = depth + 2
      /\ Closes => run[pos + 1].level = depth
      /\ Tok.type # "start" /\ ~ Closes => run[pos + 1].level = depth + 1
  BY <1>1, <1>6, <1>7
<1>9. pos' = pos + 1 /\ pos + 1 <= limit /\ UNCHANGED <<doc, limit>>
  BY <1>1, <1>4 DEF Read
<1> QED
  BY <1>2, <1>5, <1>7, <1>8, <1>9

(* The second reading never fails twice at one place.                      *)
LEMMA SubtreeNeverGivesUp ==
  ASSUME Framing, SubtreeRun, pass = "subtree", loop \in {"body", "skip"}
  PROVE  FirstError
BY DEF Framing, ReaderOK, WalkOK, NoPos, Loop, SubtreeRun, FirstError

(* Where it takes its tag to be closed, the tag ends.                      *)
LEMMA SubtreeEndsWithItsTag ==
  ASSUME Framing, SubtreeRun, pass = "subtree", loop = "body", Closes, Read
  PROVE  pos' = limit'
<1>1. /\ depth = 0 /\ ~ AtEof /\ element \in Nat /\ element < pos /\ pos \in Nat
      /\ limit \in Nat
  BY DEF Framing, ReaderOK, WalkOK, LoopsInPlace, Closes, Sees
<1>2. PICK run : StaysOpen(run, element, limit) /\ run[pos + 1].level = 0
  BY <1>1, SubtreeReads
<1>3. pos' = pos + 1 /\ pos + 1 <= limit /\ limit' = limit
  BY <1>1, SubtreeReads
<1>4. pos + 1 \notin element + 1 .. limit - 1
  BY <1>2 DEF StaysOpen
<1> QED
  BY <1>1, <1>3, <1>4

(* The second reading stays on its run, from CaptureSubtree to the end.    *)
LEMMA SubtreeRunStep ==
  ASSUME Framing, TagsClosed, SubtreeRun, Next
  PROVE  SubtreeRun'
<1> DEFINE Reading == pass = "subtree" /\ loop \in {"body", "skip"}
<1>a. /\ LoopsInPlace /\ depth \in Nat /\ pos \in Nat /\ loop \in Loop
      /\ lastErr \in [Loop -> Nat \cup {NoPos}] /\ "body" \in Loop /\ "skip" \in Loop
  BY DEF Framing, WalkOK, ReaderOK, Loop
<1>b. ASSUME pass' = "document" PROVE SubtreeRun'
  BY <1>b DEF SubtreeRun
<1>c. ASSUME Reading, ~ AtEof, Read, UNCHANGED element, loop' \in {"body", "skip"},
             lastErr'["body"] <= pos, loop' = "skip" => lastErr'["skip"] <= pos,
             lastErr'["body"] \in Int, lastErr'["skip"] \in Int,
             Tok.type = "start" => depth' = depth + 1,
             Closes => depth' = depth - 1,
             Tok.type # "start" /\ ~ Closes => depth' = depth
      PROVE  SubtreeRun'
  <2>1. PICK run :
          /\ IsRun(doc, run, element, limit) /\ StaysOpen(run, element, limit)
          /\ run[pos + 1].open = open' /\ run[pos + 1] \in RunState
          /\ Tok.type = "start" => run[pos + 1].level = depth + 2
          /\ Closes => run[pos + 1].level = depth
          /\ Tok.type # "start" /\ ~ Closes => run[pos + 1].level = depth + 1
    BY <1>c, SubtreeReads
  <2>2. pos' = pos + 1 /\ UNCHANGED <<doc, limit>>
    BY <1>c, SubtreeReads
  <2>3. run[pos + 1].level = depth' + 1
    BY <2>1, <1>a, <1>c
  <2>4. run[pos + 1] = [open |-> open', level |-> depth' + 1]
    BY <2>1, <2>3 DEF RunState
  <2>5. lastErr'["body"] < pos' /\ (loop' = "skip" => lastErr'["skip"] < pos')
    BY <2>2, <1>a, <1>c
  <2> QED
    BY <2>1, <2>2, <2>4, <2>5, <1>c DEF SubtreeRun
<1>d. Reading =>
        lastErr["body"] < pos /\ (loop = "skip" => lastErr["skip"] < pos) /\ FirstError
  BY SubtreeNeverGivesUp DEF SubtreeRun
<1>e. lastErr["body"] \in Int /\ lastErr["skip"] \in Int
  BY <1>a DEF NoPos
<1>1. CASE Recover
  <2>1. /\ ~ AtEof /\ Read /\ Tok.type # "start" /\ ~ Closes /\ UNCHANGED place
        /\ lastErr' = [lastErr EXCEPT ![loop] = pos]
    BY <1>1 DEF Recover, Fails, Sees, Closes
  <2>2. CASE Reading
    <3>1. /\ lastErr'["body"] <= pos /\ (loop' = "skip" => lastErr'["skip"] <= pos)
          /\ lastErr'["body"] \in Int /\ lastErr'["skip"] \in Int
      BY <2>1, <2>2, <1>a, <1>d, <1>e DEF place
    <3> QED
      BY <2>1, <2>2, <3>1, <1>c DEF place
  <2>3. CASE pass # "subtree"
    BY <2>1, <2>3 DEF place, SubtreeRun
  <2> QED
    BY <1>1, <2>2, <2>3, <1>a DEF Recover, LoopsInPlace
<1>2. CASE PassOver \/ RootOpens \/ RootEmpty \/ RootForeign \/ RootMissing \/
          RootGivesUp \/ MapperCloses \/ MapperEof \/ MapperGivesUp \/
          MapperCaptures \/ MapperSkips \/ MapperEmpty \/ TrailingIgnores \/
          TrailingRecovers \/ TrailingEnds
  BY <1>2, <1>a, <1>b DEF PassOver, RootOpens, RootEmpty, RootForeign,
      RootMissing, RootGivesUp, MapperCloses, MapperDone, MapperEof,
      MapperGivesUp, MapperCaptures, MapperSkips, MapperEmpty, TrailingIgnores,
      TrailingRecovers, TrailingEnds, place, LoopsInPlace
<1>3. CASE BodyCloses
  <2>1. CASE pass = "subtree"
    BY <1>3, <2>1, SubtreeEndsWithItsTag DEF BodyCloses, BodyEnds, SubtreeRun
  <2>2. CASE pass # "subtree"
    BY <1>3, <2>2 DEF BodyCloses, BodyEnds, SubtreeRun
  <2> QED
    BY <2>1, <2>2
<1>4. CASE BodyEof \/ BodyGivesUp
  <2>1. BodyGivesUp => pass # "subtree"
    BY SubtreeNeverGivesUp DEF BodyGivesUp
  <2>2. CASE BodyEof
    BY <2>2, Framing DEF BodyEof, BodyEnds, SubtreeRun, AtEof
  <2>3. CASE BodyGivesUp
    BY <2>1, <2>3 DEF BodyGivesUp, BodyEnds, SubtreeRun
  <2> QED
    BY <1>4, <2>2, <2>3
<1>5. CASE BodySegment \/ BodyIgnores
  <2>1. ~ AtEof /\ Read /\ Tok.type # "start" /\ ~ Closes /\ UNCHANGED <<place, lastErr>>
    BY <1>5 DEF BodySegment, BodyIgnores, Sees, Closes
  <2>2. loop = "body"
    BY <1>5 DEF BodySegment, BodyIgnores
  <2>3. CASE pass = "subtree"
    <3>1. lastErr["body"] <= pos
      BY <2>2, <2>3, <1>a, <1>d, <1>e
    <3> QED
      BY <2>1, <2>2, <2>3, <3>1, <1>c, <1>e DEF place
  <2>4. CASE pass # "subtree"
    BY <2>1, <2>4 DEF place, SubtreeRun
  <2> QED
    BY <2>3, <2>4
<1>6. CASE BodySkips
  <2>1. /\ ~ AtEof /\ Read /\ Tok.type = "start" /\ ~ Closes /\ pass' = pass
        /\ element' = element
        /\ loop = "body" /\ loop' = "skip" /\ depth' = 1 /\ depth = 0
        /\ lastErr' = [lastErr EXCEPT !["skip"] = NoPos]
    BY <1>6, <1>a DEF BodySkips, Sees, Closes, LoopsInPlace
  <2>2. CASE pass = "subtree"
    <3>1. /\ lastErr'["body"] = lastErr["body"] /\ lastErr'["skip"] = -1
          /\ lastErr["body"] <= pos
      BY <2>1, <2>2, <1>a, <1>d, <1>e DEF NoPos
    <3> QED
      BY <2>1, <2>2, <3>1, <1>a, <1>c, <1>e
  <2>3. CASE pass # "subtree"
    BY <2>1, <2>3 DEF SubtreeRun
  <2> QED
    BY <2>2, <2>3
<1>7. CASE SkipCounts
  <2>1. /\ ~ AtEof /\ Read /\ loop = "skip" /\ UNCHANGED <<pass, loop, element, lastErr>>
        /\ Tok.type = "start" => depth' = depth + 1
        /\ Closes => depth' = depth - 1
        /\ Tok.type # "start" /\ ~ Closes => depth' = depth
    BY <1>7 DEF SkipCounts, Closes, Sees
  <2>2. CASE pass = "subtree"
    <3>1. lastErr["body"] <= pos /\ lastErr["skip"] <= pos
      BY <2>1, <2>2, <1>a, <1>d, <1>e
    <3> QED
      BY <2>1, <2>2, <3>1, <1>c, <1>e
  <2>3. CASE pass # "subtree"
    BY <2>1, <2>3 DEF SubtreeRun
  <2> QED
    BY <2>2, <2>3
<1>8. CASE SkipCloses
  <2>1. /\ ~ AtEof /\ Read /\ Closes /\ Tok.type # "start" /\ loop = "skip"
        /\ UNCHANGED <<pass, element, lastErr>>
        /\ depth = 1 /\ depth' = 0
    BY <1>8 DEF SkipCloses, Closes, Sees
  <2>2. CASE pass = "subtree"
    <3>1. lastErr["body"] <= pos /\ loop' = "body"
      BY <1>8, <2>1, <2>2, <1>a, <1>d, <1>e DEF SkipCloses, LoopsInPlace
    <3> QED
      BY <2>1, <2>2, <3>1, <1>a, <1>c, <1>e
  <2>3. CASE pass # "subtree"
    BY <2>1, <2>3 DEF SubtreeRun
  <2> QED
    BY <2>2, <2>3
<1>9. CASE SkipAbandoned
  <2>1. CASE pass = "subtree"
    <3>1. AtEof /\ UNCHANGED <<pos, limit>> /\ InBody
      BY <1>9, <2>1, <1>a, SubtreeNeverGivesUp DEF SkipAbandoned, LoopsInPlace
    <3> QED
      BY <1>9, <2>1, <3>1 DEF SkipAbandoned, BodyEnds, SubtreeRun, AtEof
  <2>2. CASE pass # "subtree"
    BY <1>9, <2>2 DEF SkipAbandoned, BodyEnds, SubtreeRun
  <2> QED
    BY <2>1, <2>2
<1>10. CASE CaptureSubtree
  <2>1. PICK t \in tags : CaptureSubtree!2!(t)
    BY <1>10, Zenon DEF CaptureSubtree
  <2>2. /\ loop = "done" /\ depth = 0 /\ t.from \in Nat
        /\ doc[t.from + 1].type \in {"start", "empty"}
        /\ ClosesItself(doc, t)
    BY <1>10, <1>a DEF CaptureSubtree, LoopsInPlace, Framing, FoundOK, Segment, TagsStart,
       TagStart, TagsClosed
  <2>3. CASE doc[t.from + 1].type = "empty"
    <3>1. UNCHANGED <<doc, limit, pos, open, place, lastErr>>
      BY <2>1, <2>3
    <3> QED
      BY <2>2, <3>1 DEF place, SubtreeRun
  <2>4. CASE doc[t.from + 1].type = "start"
    <3>1. PICK run : IsRun(doc, run, t.from, t.to) /\ StaysOpen(run, t.from, t.to)
      BY <2>2, <2>4 DEF ClosesItself
    <3>2. /\ doc' = doc /\ limit' = t.to /\ pos' = t.from + 1
          /\ open' = <<doc[t.from + 1].name>>
          /\ loop' = "body" /\ element' = t.from /\ depth' = 0 /\ lastErr'["body"] = -1
      BY <2>1, <2>2, <2>4, <1>a DEF OpenOver, NoPos
    <3>3. run[pos'] = [open |-> open', level |-> depth' + 1]
      BY <3>1, <3>2 DEF IsRun
    <3>4. -1 < pos'
      BY <3>2, <2>2
    <3> QED
      BY <3>1, <3>2, <3>3, <3>4 DEF SubtreeRun
  <2> QED
    BY <2>2, <2>3, <2>4
<1> QED
  BY <1>1, <1>2, <1>3, <1>4, <1>5, <1>6, <1>7, <1>8, <1>9, <1>10 DEF Next

(* capture_subtree's second reading of a tag ends where skip_subtree's     *)
(* first one did, for every document: nothing of a captured tag is left    *)
(* unread, although the second reader starts without the names the first   *)
(* one held open.                                                          *)
THEOREM SubtreesReadToTheirEnd == Spec => []SubtreeReadToItsEnd
<1> DEFINE Runs == SkipRun /\ TagsClosed /\ SubtreeRun
<1>1. Init => Runs
  BY DEF Init, SkipRun, TagsClosed, SubtreeRun, InBody
<1>2. Framing /\ Runs /\ [Next]_vars => Runs'
  <2>1. ASSUME Framing, Runs, Next PROVE Runs'
    BY <2>1, SkipRunStep, TagsClosedStep, SubtreeRunStep
  <2>2. ASSUME Runs, UNCHANGED vars PROVE Runs'
    BY <2>2 DEF vars, place, found, SkipRun, TagsClosed, SubtreeRun, InBody
  <2> QED
    BY <2>1, <2>2
<1>3. Runs => SubtreeReadToItsEnd
  BY DEF SubtreeRun, SubtreeReadToItsEnd
<1> QED
  BY <1>1, <1>2, <1>3, AlwaysFraming, PTL DEF Spec

-----------------------------------------------------------------------------
(* Nesting, as the reader and the loops go along.                          *)

(* The tag that opens at a is closed at b, and all in it nests.            *)
Encloses(a, b) ==
  /\ a \in 0 .. Len(doc) - 1 /\ doc[a + 1].type = "start"
  /\ b \in a + 1 .. Len(doc) /\ WellNested(a, b)
  /\ \A c \in a + 1 .. b - 1 : ~ WellNested(a, c)

(* A loop within an element is under way.                                  *)
Busy == loop \in {"mapper", "body", "skip"}

(* A second reading begins at its tag.                                     *)
Visible(a) == pass = "subtree" => element <= a

(* Where the loops under way began.                                        *)
IsRoot(a) == pass = "document" /\ a = RootStart
IsElement(a) == loop \in {"body", "skip"} /\ a = element
IsChild(a) == InBody /\ a = child

(* What nests lies on top of the reader's stack, whatever lies below.      *)
AllOnTop ==
  \A a \in 0 .. pos - 1, b \in pos + 1 .. Len(doc) :
    Visible(a) /\ Encloses(a, b) => Suffix(Nesting(a)[pos], open)

(* As long as a loop is under way within an element.                       *)
OnTop == Busy => AllOnTop

(* A loop under way began there.                                           *)
Begun(a) == IsRoot(a) \/ IsElement(a) \/ IsChild(a)

(* How many names a tag has open as the loops count them: the one that is  *)
(* being skipped, the one around it, the root.                             *)
ElementLevel == IF loop = "body" THEN 1 ELSE IF InBody THEN depth + 1 ELSE depth
RootLevel == IF loop = "mapper" THEN 1 ELSE ElementLevel + 1

(* n names are open of the tag at a, as the loops see it.                  *)
OpenAt(a, n) ==
  \/ IsRoot(a) /\ n = RootLevel
  \/ IsElement(a) /\ n = ElementLevel
  \/ IsChild(a) /\ n = depth
  \/ loop = "skip" /\ a > SkipStart /\ n < depth

(* A tag that nests and has been opened is open as long as the loop that   *)
(* began at it, which counts right; or it is within a tag that is being    *)
(* skipped, which is open as long; or it is closed, and then no loop that  *)
(* began at it goes on.                                                    *)
Counted ==
  Busy =>
    \A a \in 0 .. pos - 1, b \in 1 .. Len(doc) :
      Visible(a) /\ Encloses(a, b) =>
        IF pos < b THEN OpenAt(a, Len(Nesting(a)[pos])) ELSE ~ Begun(a)

(* Whatever began began at an opening tag.                                 *)
Starts ==
  /\ loop = "root" => \A i \in 1 .. pos : doc[i].type \notin {"start", "empty"}
  /\ pass = "document" /\ Busy => doc[RootStart + 1].type = "start"
  /\ loop \in {"body", "skip"} \/ pass = "subtree" => doc[element + 1].type = "start"
  /\ pass = "document" /\ loop \in {"body", "skip"} => RootStart < element
  /\ tags # {} \/ pass = "subtree" => doc[RootStart + 1].type = "start"
  /\ mapper => HasRoot

(* A span that no tag which nests reaches out of.                          *)
Within(from, to) ==
  \A a \in from .. to - 1, b \in 1 .. Len(doc) :
    Encloses(a, b) => b <= to /\ (a = from => b = to)

(* No tag that nests reaches out of a span the walk has set down.          *)
TagsWithin ==
  /\ \A t \in tags : Within(t.from, t.to)
  /\ \A i \in DOMAIN segments : Within(segments[i].from, segments[i].to)
  /\ pass = "subtree" => Within(element, limit)

(* No such span starts after a root that nests.                            *)
TagsInRoot ==
  RootNests =>
    /\ \A t \in tags : t.from < End(RootStart)
    /\ \A i \in DOMAIN segments : segments[i].from < End(RootStart)
    /\ pass = "subtree" => element < End(RootStart)

(* Nothing that nests is blamed.                                           *)
Quiet ==
  \A a, b \in 0 .. Len(doc) :
    Encloses(a, b) => \A d \in Unclosed : d.from \notin a .. b - 1

(* Nothing is blamed from a root that nests on.                            *)
RootQuiet == RootNests => \A d \in Unclosed : d.from < RootStart

-----------------------------------------------------------------------------
(* Nesting, token by token.                                                *)

(* What Nesting gives.                                                     *)
Stack == Seq(TagName) \cup {Broken}

(* No stack of names is the broken one.                                    *)
LEMMA NamesNest ==
  ASSUME NEW s \in Seq(TagName)
  PROVE  s # Broken
<1> SUFFICES ASSUME s = <<"none">> PROVE FALSE
  BY DEF Broken
<1>1. 1 \in 1 .. Len(s) /\ s[1] = "none"
  OBVIOUS
<1>2. s[1] \in TagName
  BY <1>1
<1> QED
  BY <1>1, <1>2 DEF TagName, RootName, CapturedName, IgnorableName

(* One more token makes a stack of a stack.                                *)
LEMMA NestedTyped ==
  ASSUME NEW s \in Stack, NEW t \in Token
  PROVE  /\ Nested(s, t) \in Stack
         /\ s = Broken => Nested(s, t) = Broken
<1>1. CASE s = Broken
  BY <1>1 DEF Nested, Stack
<1>2. CASE s # Broken
  <2>1. s \in Seq(TagName) /\ Broken \in Stack
    BY <1>2 DEF Stack
  <2>2. t.type = "start" => t.name \in TagName
    BY DEF Token, TagType
  <2>3. CASE t.type = "end" /\ s # << >> /\ Last(s) = t.name
    <3>1. Front(s) \in Seq(TagName)
      BY <2>1, <2>3 DEF Front
    <3> QED
      BY <1>2, <2>1, <2>3, <3>1 DEF Nested, Stack
  <2>4. CASE t.type = "start"
    BY <1>2, <2>1, <2>2, <2>4 DEF Nested, Stack
  <2> QED
    BY <1>2, <2>1, <2>3, <2>4 DEF Nested, Stack
<1> QED
  BY <1>1, <1>2

(* What Nesting is, token by token.                                        *)
LEMMA NestingGrows ==
  ASSUME ReaderOK, NEW a \in 0 .. Len(doc)
  PROVE  /\ Nesting(a) \in [a .. Len(doc) -> Stack]
         /\ Nesting(a)[a] = << >>
         /\ \A i \in a .. Len(doc) - 1 : Nesting(a)[i + 1] = Nested(Nesting(a)[i], doc[i + 1])
<1> DEFINE n == Len(doc) - a
           step == [k \in 1 .. n |-> [x \in Stack |-> Nested(x, doc[a + k])]]
           UpTo(f) == f = [i \in a .. Len(doc) |->
                             IF i = a THEN << >> ELSE Nested(f[i - 1], doc[i])]
           f == CHOOSE g : UpTo(g)
<1>0. /\ n \in Nat /\ a \in Nat /\ Len(doc) \in Nat /\ a + n = Len(doc)
      /\ << >> \in Stack /\ \A i \in 1 .. Len(doc) : doc[i] \in Token
  BY DEF ReaderOK, Stack
<1> HIDE DEF n
<1>1. \A k \in 1 .. n, x \in Stack : step[k][x] = Nested(x, doc[a + k]) /\ step[k][x] \in Stack
  <2> TAKE k \in 1 .. n, x \in Stack
  <2>1. doc[a + k] \in Token
    BY <1>0
  <2> QED
    BY <2>1, NestedTyped
<1> HIDE DEF step
<1>2. PICK h \in [0 .. n -> Stack] : Becomes(h, << >>, step, n)
  BY <1>0, <1>1, StepsExist
<1>3. \A k \in 0 .. n : h[k] = IF k = 0 THEN << >> ELSE step[k][h[k - 1]]
  BY <1>2 DEF Becomes
<1> DEFINE g == [i \in a .. Len(doc) |-> h[i - a]]
<1>4. g \in [a .. Len(doc) -> Stack] /\ \A i \in a .. Len(doc) : g[i] = h[i - a]
  BY <1>0
<1> HIDE DEF g
<1>5. \A i \in a .. Len(doc) : g[i] = IF i = a THEN << >> ELSE Nested(g[i - 1], doc[i])
  <2> TAKE i \in a .. Len(doc)
  <2>1. CASE i = a
    BY <1>0, <1>3, <1>4, <2>1
  <2>2. CASE i # a
    <3>1. i - a \in 1 .. n /\ i - 1 \in a .. Len(doc) /\ (i - 1) - a = (i - a) - 1
          /\ (i - a) - 1 \in 0 .. n /\ a + (i - a) = i /\ i - a \in 0 .. n /\ i - a # 0
      BY <1>0, <2>2
    <3>2. h[(i - a) - 1] \in Stack
      BY <3>1, <1>2
    <3>3. g[i] = step[i - a][h[(i - a) - 1]]
      BY <3>1, <1>3, <1>4
    <3>4. g[i] = Nested(h[(i - a) - 1], doc[i])
      BY <3>1, <3>2, <3>3, <1>1
    <3> QED
      BY <2>2, <3>1, <3>4, <1>4
  <2> QED
    BY <2>1, <2>2
<1>6. UpTo(g)
  BY <1>4, <1>5
<1>7. UpTo(f)
  BY <1>6, Zenon
<1>8. Nesting(a) = f
  BY DEF Nesting
<1> HIDE DEF f
<1>9. \A i \in a .. Len(doc) : f[i] = IF i = a THEN << >> ELSE Nested(f[i - 1], doc[i])
  BY <1>7
<1>10. f[a] = << >> /\ \A i \in a .. Len(doc) - 1 : f[i + 1] = Nested(f[i], doc[i + 1])
  <2>1. a \in a .. Len(doc) /\ \A i \in a .. Len(doc) - 1 :
           i + 1 \in a .. Len(doc) /\ i + 1 # a /\ (i + 1) - 1 = i
    BY <1>0
  <2> QED
    BY <1>9, <2>1
<1> DEFINE P == {k \in 0 .. n : f[a + k] \in Stack}
<1>11. 0 \in P
  BY <1>0, <1>10
<1>12. ASSUME NEW k \in 1 .. n, k - 1 \in P PROVE k \in P
  <2>1. /\ a + (k - 1) \in a .. Len(doc) - 1 /\ (a + (k - 1)) + 1 = a + k
        /\ k \in 0 .. n /\ a + k \in 1 .. Len(doc)
    BY <1>0
  <2>2. f[a + (k - 1)] \in Stack
    BY <1>12
  <2>3. f[a + k] = Nested(f[a + (k - 1)], doc[a + k])
    BY <1>10, <2>1
  <2>4. f[a + k] \in Stack
    BY <1>0, <2>1, <2>2, <2>3, NestedTyped
  <2> QED
    BY <2>1, <2>4
<1> HIDE DEF P
<1>13. \A k \in 0 .. n : k \in P
  BY <1>0, <1>11, <1>12, StepByStep
<1>14. \A i \in a .. Len(doc) : f[i] \in Stack
  <2> TAKE i \in a .. Len(doc)
  <2>1. i - a \in 0 .. n /\ a + (i - a) = i
    BY <1>0
  <2> QED
    BY <1>13, <2>1 DEF P
<1>15. f \in [a .. Len(doc) -> Stack]
  BY <1>7, <1>14
<1> QED
  BY <1>8, <1>10, <1>15

(* What is once broken stays broken.                                       *)
LEMMA BrokenStays ==
  ASSUME ReaderOK, NEW a \in 0 .. Len(doc), NEW i \in a .. Len(doc), Nesting(a)[i] = Broken
  PROVE  \A j \in i .. Len(doc) : Nesting(a)[j] = Broken
<1> DEFINE f == Nesting(a)
           n == Len(doc) - i
           P == {k \in 0 .. n : f[i + k] = Broken}
<1>0. /\ n \in Nat /\ i \in Nat /\ a \in Nat /\ Len(doc) \in Nat
      /\ \A k \in 1 .. Len(doc) : doc[k] \in Token
  BY DEF ReaderOK
<1>1. /\ f \in [a .. Len(doc) -> Stack]
      /\ \A k \in a .. Len(doc) - 1 : f[k + 1] = Nested(f[k], doc[k + 1])
  BY NestingGrows
<1>1a. f[i] = Broken
  OBVIOUS
<1> HIDE DEF f
<1>2. 0 \in P
  BY <1>0, <1>1a
<1>3. ASSUME NEW k \in 1 .. n, k - 1 \in P PROVE k \in P
  <2>1. /\ i + (k - 1) \in a .. Len(doc) - 1 /\ (i + (k - 1)) + 1 = i + k
        /\ k \in 0 .. n /\ i + k \in 1 .. Len(doc) /\ i + (k - 1) \in a .. Len(doc)
    BY <1>0
  <2>2. f[i + (k - 1)] = Broken
    BY <1>3
  <2>3. f[i + k] = Nested(f[i + (k - 1)], doc[i + k]) /\ f[i + (k - 1)] \in Stack
    BY <1>1, <2>1
  <2>4. f[i + k] = Broken
    BY <1>0, <2>1, <2>2, <2>3, NestedTyped
  <2> QED
    BY <2>1, <2>4
<1> HIDE DEF P
<1>4. \A k \in 0 .. n : k \in P
  BY <1>0, <1>2, <1>3, StepByStep
<1> SUFFICES ASSUME NEW j \in i .. Len(doc) PROVE f[j] = Broken
  BY DEF f
<1>5. j - i \in 0 .. n /\ i + (j - i) = j
  BY <1>0
<1> QED
  BY <1>4, <1>5 DEF P

(* Within a tag that nests there are always names open, and then none.     *)
LEMMA EnclosedHeld ==
  ASSUME ReaderOK, NEW a, NEW b, Encloses(a, b)
  PROVE  /\ a \in Nat /\ b \in Nat /\ a + 1 < b /\ b <= Len(doc)
         /\ doc[a + 1].type = "start" /\ doc[a + 1].name \in TagName
         /\ Nesting(a)[a + 1] = <<doc[a + 1].name>>
         /\ \A i \in a + 1 .. b - 1 : Nesting(a)[i] \in Seq(TagName) /\ Nesting(a)[i] # << >>
         /\ Nesting(a)[b] = << >>
<1>0. /\ a \in Nat /\ b \in Nat /\ a \in 0 .. Len(doc) /\ a < b /\ b <= Len(doc) /\ Len(doc) \in Nat
      /\ doc[a + 1].type = "start" /\ doc[a + 1] \in Token /\ a + 1 \in 1 .. Len(doc)
      /\ Nesting(a)[b] = << >> /\ \A c \in a + 1 .. b - 1 : Nesting(a)[c] # << >>
  BY DEF Encloses, WellNested, ReaderOK
<1>1. doc[a + 1].name \in TagName
  BY <1>0 DEF Token, TagType
<1>2. /\ Nesting(a) \in [a .. Len(doc) -> Stack]
      /\ Nesting(a)[a] = << >>
      /\ \A i \in a .. Len(doc) - 1 : Nesting(a)[i + 1] = Nested(Nesting(a)[i], doc[i + 1])
  BY <1>0, NestingGrows
<1>3. << >> # Broken
  <2>1. << >> \in Seq(TagName)
    OBVIOUS
  <2> QED
    BY <2>1, NamesNest
<1>4. Nesting(a)[a + 1] = <<doc[a + 1].name>>
  <2>1. Nesting(a)[a + 1] = Nested(<< >>, doc[a + 1])
    BY <1>0, <1>2
  <2> QED
    BY <2>1, <1>0, <1>3 DEF Nested
<1>5. a + 1 # b
  <2>1. Len(<<doc[a + 1].name>>) = 1 /\ Len(<< >>) = 0
    OBVIOUS
  <2>2. Nesting(a)[a + 1] # << >>
    BY <1>4, <2>1
  <2> QED
    BY <1>0, <2>2
<1>6. ASSUME NEW i \in a + 1 .. b - 1 PROVE Nesting(a)[i] \in Seq(TagName)
  <2>1. i \in a .. Len(doc) /\ b \in i .. Len(doc)
    BY <1>0
  <2>2. Nesting(a)[i] # Broken
    BY <1>0, <1>3, <2>1, BrokenStays
  <2> QED
    BY <1>2, <2>1, <2>2 DEF Stack
<1> QED
  BY <1>0, <1>1, <1>4, <1>5, <1>6

(* What the next token does to a stack that is not broken by it.           *)
Follows(s, t, r) ==
  /\ t.type \notin {"bad", "stuck"}
  /\ t.type = "start" => t.name \in TagName /\ r = Append(s, t.name) /\ Len(r) = Len(s) + 1
  /\ t.type = "end" =>
       /\ s # << >> /\ t.name = s[Len(s)] /\ r = SubSeq(s, 1, Len(s) - 1)
       /\ Len(r) = Len(s) - 1
  /\ t.type \notin {"start", "end"} => r = s

(* A token that does not break a stack does to it what the reader does.    *)
LEMMA NestedFollows ==
  ASSUME NEW s \in Seq(TagName), NEW t \in Token, Nested(s, t) # Broken
  PROVE  Follows(s, t, Nested(s, t)) /\ Nested(s, t) \in Seq(TagName)
<1>1. s # Broken /\ t.type \notin {"bad", "stuck"}
  BY NamesNest DEF Nested
<1>2. CASE t.type = "start"
  <2>1. t.name \in TagName /\ Nested(s, t) = Append(s, t.name)
    BY <1>1, <1>2 DEF Token, TagType, Nested
  <2> QED
    BY <1>1, <1>2, <2>1 DEF Follows
<1>3. CASE t.type = "end"
  <2>1. s # << >> /\ s[Len(s)] = t.name /\ Nested(s, t) = SubSeq(s, 1, Len(s) - 1)
    BY <1>1, <1>3 DEF Nested, Last, Front
  <2>2. Len(SubSeq(s, 1, Len(s) - 1)) = Len(s) - 1
    BY <2>1, AllButLast
  <2>3. SubSeq(s, 1, Len(s) - 1) \in Seq(TagName)
    BY <2>1
  <2> QED
    BY <1>1, <1>3, <2>1, <2>2, <2>3 DEF Follows
<1>4. CASE t.type \notin {"start", "end"}
  <2>1. Nested(s, t) = s
    BY <1>1, <1>4 DEF Nested
  <2> QED
    BY <1>1, <1>4, <2>1 DEF Follows
<1> QED
  BY <1>2, <1>3, <1>4

(* Within a tag that nests.                                                *)
LEMMA EnclosedStep ==
  ASSUME ReaderOK, NEW a, NEW b, Encloses(a, b), NEW i \in a + 1 .. b - 1
  PROVE  /\ Nesting(a)[i] \in Seq(TagName) /\ Nesting(a)[i] # << >>
         /\ Nesting(a)[i + 1] \in Seq(TagName)
         /\ Follows(Nesting(a)[i], doc[i + 1], Nesting(a)[i + 1])
         /\ Nesting(a)[i + 1] = << >> <=> i + 1 = b
<1>0. /\ a \in Nat /\ b \in Nat /\ a + 1 < b /\ b <= Len(doc) /\ Len(doc) \in Nat
      /\ \A k \in a + 1 .. b - 1 : Nesting(a)[k] \in Seq(TagName) /\ Nesting(a)[k] # << >>
      /\ Nesting(a)[b] = << >>
  BY EnclosedHeld DEF ReaderOK
<1>1. i \in a .. Len(doc) - 1 /\ a \in 0 .. Len(doc) /\ doc[i + 1] \in Token
  BY <1>0 DEF ReaderOK
<1>2. Nesting(a)[i + 1] = Nested(Nesting(a)[i], doc[i + 1])
  BY <1>1, NestingGrows
<1>3. Nesting(a)[i + 1] \in Seq(TagName) /\ (Nesting(a)[i + 1] = << >> <=> i + 1 = b)
  <2>1. CASE i + 1 = b
    <3>1. << >> \in Seq(TagName)
      OBVIOUS
    <3> QED
      BY <1>0, <2>1, <3>1
  <2>2. CASE i + 1 # b
    <3>1. i + 1 \in a + 1 .. b - 1
      BY <1>0, <2>2
    <3> QED
      BY <1>0, <2>2, <3>1
  <2> QED
    BY <2>1, <2>2
<1>4. Nested(Nesting(a)[i], doc[i + 1]) # Broken
  BY <1>2, <1>3, NamesNest
<1> QED
  BY <1>0, <1>1, <1>2, <1>3, <1>4, NestedFollows

(* A token that does not break a stack does not break the end of it.       *)
LEMMA SuffixFollows ==
  ASSUME NEW s \in Seq(TagName), NEW t \in Seq(TagName), s # << >>, Suffix(s, t),
         NEW token \in Token, NEW r \in Seq(TagName), Follows(t, token, r)
  PROVE  /\ Nested(s, token) \in Seq(TagName) /\ Suffix(Nested(s, token), r)
         /\ Len(r) - Len(t) = Len(Nested(s, token)) - Len(s)
<1>0. s # Broken /\ token.type \notin {"bad", "stuck"} /\ Len(s) \in Nat /\ Len(t) \in Nat
  BY NamesNest DEF Follows
<1>1. CASE token.type = "start"
  <2>1. token.name \in TagName /\ r = Append(t, token.name) /\ Len(r) = Len(t) + 1
    BY <1>1 DEF Follows
  <2>2. Nested(s, token) = Append(s, token.name)
    BY <1>0, <1>1 DEF Nested
  <2>3. Append(s, token.name) \in Seq(TagName) /\ Len(Append(s, token.name)) = Len(s) + 1
    BY <2>1
  <2>4. Suffix(Append(s, token.name), Append(t, token.name))
    BY <2>1, SuffixAppended
  <2> QED
    BY <1>0, <2>1, <2>2, <2>3, <2>4
<1>2. CASE token.type = "end"
  <2>1. /\ t # << >> /\ token.name = t[Len(t)] /\ r = SubSeq(t, 1, Len(t) - 1)
        /\ Len(r) = Len(t) - 1
    BY <1>2 DEF Follows
  <2>2. s[Len(s)] = t[Len(t)] /\ Suffix(SubSeq(s, 1, Len(s) - 1), SubSeq(t, 1, Len(t) - 1))
    BY SuffixCut
  <2>3. Nested(s, token) = SubSeq(s, 1, Len(s) - 1)
    BY <1>0, <1>2, <2>1, <2>2 DEF Nested, Last, Front
  <2>4. Len(SubSeq(s, 1, Len(s) - 1)) = Len(s) - 1 /\ SubSeq(s, 1, Len(s) - 1) \in Seq(TagName)
    <3>1. Len(SubSeq(s, 1, Len(s) - 1)) = Len(s) - 1
      BY AllButLast
    <3> QED
      BY <3>1
  <2> QED
    BY <1>0, <2>1, <2>2, <2>3, <2>4
<1>3. CASE token.type \notin {"start", "end"}
  BY <1>0, <1>3 DEF Nested, Follows
<1> QED
  BY <1>1, <1>2, <1>3

(* A tag within a tag that nests is closed within it, and until then what  *)
(* has been opened since it is what the outer one has open beyond it.      *)
LEMMA EnclosesWithin ==
  ASSUME ReaderOK, NEW a, NEW b, Encloses(a, b), NEW x \in a + 1 .. b - 1,
         doc[x + 1].type = "start"
  PROVE  \E y \in x + 1 .. b - 1 :
           /\ Encloses(x, y)
           /\ \A c \in x + 1 .. y :
                /\ Nesting(x)[c] \in Seq(TagName)
                /\ Len(Nesting(a)[c]) = Len(Nesting(a)[x]) + Len(Nesting(x)[c])
<1> DEFINE f == Nesting(a)
           g == Nesting(x)
           L == Len(f[x])
           Z == {c \in x + 1 .. b : Len(f[c]) <= L}
<1>0. /\ a \in Nat /\ b \in Nat /\ a + 1 < b /\ b <= Len(doc) /\ Len(doc) \in Nat
      /\ \A i \in a + 1 .. b - 1 :
           /\ f[i] \in Seq(TagName) /\ f[i] # << >> /\ f[i + 1] \in Seq(TagName)
           /\ Follows(f[i], doc[i + 1], f[i + 1])
           /\ doc[i + 1] \in Token
      /\ f[b] = << >>
  BY EnclosedHeld, EnclosedStep DEF ReaderOK
<1>1. x \in Nat /\ x \in 0 .. Len(doc) /\ doc[x + 1].type = "start" /\ doc[x + 1] \in Token
  BY <1>0
<1>2. /\ g \in [x .. Len(doc) -> Stack] /\ g[x] = << >>
      /\ \A i \in x .. Len(doc) - 1 : g[i + 1] = Nested(g[i], doc[i + 1])
  BY <1>1, NestingGrows
<1> HIDE DEF f, g
<1>3. /\ f[x] \in Seq(TagName) /\ f[x] # << >> /\ doc[x + 1].name \in TagName
      /\ f[x + 1] = Append(f[x], doc[x + 1].name) /\ Len(f[x + 1]) = L + 1 /\ L \in Nat /\ L >= 1
  BY <1>0, <1>1 DEF Follows
<1>4. b \in Z
  <2>1. Len(<< >>) = 0 /\ b \in x + 1 .. b
    BY <1>0
  <2> QED
    BY <1>0, <1>3, <2>1
<1>5. Z \subseteq Nat
  BY <1>1
<1>6. PICK y \in Z : \A c \in Z : y <= c
  <2> HIDE DEF Z
  <2> QED
    BY <1>4, <1>5, NatLeast
<1>7. /\ y \in x + 1 .. b /\ Len(f[y]) <= L /\ y \in Nat
      /\ \A c \in x + 1 .. y - 1 : ~ (Len(f[c]) <= L)
  BY <1>0, <1>1, <1>6
<1> HIDE DEF L, Z
<1>8. y # x + 1
  BY <1>3, <1>7
<1> DEFINE n == y - (x + 1)
           Same(c) == /\ g[c] \in Seq(TagName) /\ Suffix(g[c], f[c])
                      /\ Len(f[c]) = L + Len(g[c])
           P == {k \in 0 .. n : Same(x + 1 + k)}
<1>9. n \in Nat /\ (x + 1) + n = y
  BY <1>1, <1>7
<1>10. Same(x + 1)
  <2>1. g[x + 1] = Nested(<< >>, doc[x + 1])
    BY <1>0, <1>1, <1>2
  <2>2. << >> \in Seq(TagName)
    OBVIOUS
  <2>3. << >> # Broken
    BY <2>2, NamesNest
  <2>4. g[x + 1] = Append(<< >>, doc[x + 1].name)
    BY <1>1, <2>1, <2>3 DEF Nested
  <2>5. Suffix(<< >>, f[x])
    BY <1>3 DEF Suffix
  <2>6. Suffix(g[x + 1], f[x + 1])
    BY <1>3, <2>2, <2>4, <2>5, SuffixAppended
  <2>7. g[x + 1] \in Seq(TagName) /\ Len(g[x + 1]) = 1
    BY <1>3, <2>4
  <2> QED
    BY <1>3, <2>6, <2>7
<1>11. 0 \in P
  BY <1>1, <1>9, <1>10
<1>12. ASSUME NEW k \in 1 .. n, k - 1 \in P PROVE k \in P
  <2> DEFINE c == x + 1 + (k - 1)
  <2>1. /\ c \in x + 1 .. y - 1 /\ c \in a + 1 .. b - 1 /\ c \in x .. Len(doc) - 1
        /\ c + 1 = x + 1 + k /\ k \in 0 .. n
    BY <1>0, <1>1, <1>7, <1>9
  <2>2. g[c] \in Seq(TagName) /\ Suffix(g[c], f[c]) /\ Len(f[c]) = L + Len(g[c])
    BY <1>12
  <2> HIDE DEF c
  <2>3. /\ f[c] \in Seq(TagName) /\ f[c + 1] \in Seq(TagName) /\ doc[c + 1] \in Token
        /\ Follows(f[c], doc[c + 1], f[c + 1])
    BY <1>0, <2>1
  <2>4. g[c] # << >>
    <3>1. Len(<< >>) = 0
      OBVIOUS
    <3> QED
      BY <1>3, <1>7, <2>1, <2>2, <3>1
  <2> DEFINE s == g[c]
             t == f[c]
             token == doc[c + 1]
             r == f[c + 1]
             q == Nested(s, token)
  <2>6. g[c + 1] = q
    BY <1>2, <2>1
  <2>5. q \in Seq(TagName) /\ Suffix(q, r) /\ Len(r) - Len(t) = Len(q) - Len(s)
    <3>1. s \in Seq(TagName) /\ t \in Seq(TagName) /\ s # << >> /\ Suffix(s, t)
      BY <2>2, <2>3, <2>4
    <3>2. token \in Token /\ r \in Seq(TagName) /\ Follows(t, token, r)
      BY <2>3
    <3> HIDE DEF s, t, token, r
    <3> QED
      BY <3>1, <3>2, SuffixFollows
  <2>7. Len(r) = L + Len(q)
    <3>1. Len(t) \in Nat /\ Len(s) \in Nat /\ Len(r) \in Nat /\ Len(q) \in Nat
      BY <2>2, <2>3, <2>5
    <3>2. Len(t) = L + Len(s)
      BY <2>2
    <3> HIDE DEF s, t, r, q
    <3> QED
      BY <1>3, <2>5, <3>1, <3>2, SMTT(30)
  <2>8. Same(c + 1)
    BY <2>5, <2>6, <2>7
  <2> QED
    BY <2>1, <2>8
<1> HIDE DEF P
<1>13. \A k \in 0 .. n : k \in P
  BY <1>9, <1>11, <1>12, StepByStep
<1>14. ASSUME NEW c \in x + 1 .. y PROVE Same(c)
  <2>1. c - (x + 1) \in 0 .. n /\ x + 1 + (c - (x + 1)) = c
    BY <1>1, <1>7, <1>9
  <2> QED
    BY <1>13, <2>1 DEF P
<1>15. g[y] = << >>
  <2>1. Same(y)
    BY <1>1, <1>7, <1>14
  <2>2. g[y] \in Seq(TagName) /\ Len(g[y]) = 0
    BY <1>3, <1>7, <2>1
  <2> QED
    BY <2>2
<1>16. ASSUME NEW c \in x + 1 .. y - 1 PROVE g[c] # << >>
  <2>1. c \in x + 1 .. y /\ Len(<< >>) = 0
    BY <1>1, <1>7
  <2> QED
    BY <1>3, <1>7, <1>14, <2>1, SMTT(30)
<1>17. Encloses(x, y)
  <2>1. x \in 0 .. Len(doc) - 1 /\ y \in x + 1 .. Len(doc)
    BY <1>0, <1>1, <1>7
  <2> QED
    BY <1>1, <1>15, <1>16, <2>1 DEF Encloses, WellNested, g
<1>18. y # b
  <2>1. g[y - 1] # << >> /\ y - 1 \in x + 1 .. y /\ y - 1 \in x + 1 .. y - 1
    BY <1>1, <1>7, <1>8, <1>16
  <2>2. Same(y - 1) /\ Same(y)
    BY <1>1, <1>7, <1>14, <2>1
  <2>3. Len(f[y]) = L
    BY <1>3, <1>15, <2>2
  <2>4. Len(<< >>) = 0
    OBVIOUS
  <2> QED
    BY <1>0, <1>3, <2>3, <2>4
<1>19. y \in x + 1 .. b - 1
  BY <1>0, <1>1, <1>7, <1>18
<1> QED
  BY <1>14, <1>17, <1>19 DEF f, g, L

-----------------------------------------------------------------------------
(* The reader's stack and what nests.                                      *)

(* The document stays, and with it what nests in it.                       *)
LEMMA NestingStays ==
  ASSUME doc' = doc
  PROVE  /\ \A a : Nesting(a)' = Nesting(a)
         /\ \A a, b : Encloses(a, b)' <=> Encloses(a, b)
         /\ RootStart' = RootStart
<1>1. \A a : Nesting(a)' = Nesting(a)
  BY DEF Nesting
<1>2. \A a, b : Encloses(a, b)' <=> Encloses(a, b)
  BY <1>1 DEF Encloses, WellNested
<1> QED
  BY <1>1, <1>2 DEF RootStart

(* One name on top of a stack of names.                                    *)
LEMMA SuffixOne ==
  ASSUME NEW t \in Seq(TagName), NEW x \in TagName
  PROVE  Suffix(<<x>>, Append(t, x))
<1>1. << >> \in Seq(TagName) /\ Suffix(<< >>, t)
  BY DEF Suffix
<1>2. Suffix(Append(<< >>, x), Append(t, x))
  BY <1>1, SuffixAppended
<1>3. Append(<< >>, x) = <<x>>
  OBVIOUS
<1> QED
  BY <1>2, <1>3

(* The reader does to its names what the token does to those on top.       *)
LEMMA ReadFollows ==
  ASSUME ReaderOK, ~ AtEof, Read, NEW s \in Seq(TagName), s # << >>, Suffix(s, open),
         NEW r \in Seq(TagName), Follows(s, Tok, r)
  PROVE  Suffix(r, open') /\ (Tok.type = "end" => Closes) /\ ~ Fails
<1>0. open \in Seq(TagName) /\ Tok.type \notin {"bad", "stuck"}
  BY DEF ReaderOK, Follows
<1>1. CASE Tok.type = "start"
  <2>1. Tok.name \in TagName /\ r = Append(s, Tok.name) /\ open' = Append(open, Tok.name)
    BY <1>1 DEF Follows, Read
  <2>2. Suffix(Append(s, Tok.name), Append(open, Tok.name))
    BY <1>0, <2>1, SuffixAppended
  <2> QED
    BY <1>0, <1>1, <2>1, <2>2 DEF Fails, Sees
<1>2. CASE Tok.type = "end"
  <2>1. Tok.name = s[Len(s)] /\ r = SubSeq(s, 1, Len(s) - 1)
    BY <1>2 DEF Follows
  <2>2. /\ open # << >> /\ s[Len(s)] = open[Len(open)]
        /\ Suffix(SubSeq(s, 1, Len(s) - 1), SubSeq(open, 1, Len(open) - 1))
    BY <1>0, SuffixCut
  <2>3. open' = SubSeq(open, 1, Len(open) - 1)
    BY <1>2, <2>2 DEF Read
  <2> QED
    BY <1>0, <1>2, <2>1, <2>2, <2>3 DEF Fails, Sees, Closes
<1>3. CASE Tok.type \notin {"start", "end"}
  BY <1>0, <1>3 DEF Follows, Read, Fails, Sees
<1> QED
  BY <1>1, <1>2, <1>3

(* One token more.                                                         *)
LEMMA OnTopRead ==
  ASSUME ReaderOK, AllOnTop, ~ AtEof, Read, pass' = pass, pass = "subtree" => element' = element
  PROVE  AllOnTop'
<1>0. /\ pos \in Nat /\ limit \in Nat /\ Len(doc) \in Nat /\ pos + 1 <= limit /\ limit <= Len(doc)
      /\ doc' = doc /\ pos' \in {pos, pos + 1} /\ (Tok.type # "stuck" => pos' = pos + 1)
      /\ open \in Seq(TagName)
  BY ReadTyped DEF ReaderOK, AtEof, Read
<1>1. /\ \A a : Nesting(a)' = Nesting(a)
      /\ \A a, b : Encloses(a, b)' <=> Encloses(a, b)
  BY <1>0, NestingStays
<1>2. SUFFICES ASSUME NEW a \in 0 .. pos' - 1, NEW b \in pos' + 1 .. Len(doc),
                      Visible(a)', Encloses(a, b)
               PROVE  Suffix(Nesting(a)[pos'], open')
  BY <1>0, <1>1 DEF AllOnTop
<1>3. Visible(a)
  BY <1>2 DEF Visible
<1>4. CASE pos' = pos
  <2>1. Tok.type = "stuck" /\ open' = open
    BY <1>0, <1>4 DEF Read
  <2> QED
    BY <1>2, <1>3, <1>4, <2>1 DEF AllOnTop
<1>5. CASE pos' = pos + 1 /\ a < pos
  <2>1. a \in 0 .. pos - 1 /\ b \in pos + 1 .. Len(doc) /\ pos \in a + 1 .. b - 1
    BY <1>0, <1>2, <1>5
  <2>2. Suffix(Nesting(a)[pos], open)
    BY <1>2, <1>3, <2>1 DEF AllOnTop
  <2>3. /\ Nesting(a)[pos] \in Seq(TagName) /\ Nesting(a)[pos] # << >>
        /\ Nesting(a)[pos + 1] \in Seq(TagName)
        /\ Follows(Nesting(a)[pos], Tok, Nesting(a)[pos + 1])
    BY <1>2, <2>1, EnclosedStep DEF Tok
  <2> QED
    BY <1>5, <2>2, <2>3, ReadFollows
<1>6. CASE pos' = pos + 1 /\ a = pos
  <2>1. /\ Tok.type = "start" /\ Tok.name \in TagName /\ Nesting(a)[pos + 1] = <<Tok.name>>
    BY <1>2, <1>6, EnclosedHeld DEF Tok
  <2>2. open' = Append(open, Tok.name)
    BY <2>1 DEF Read
  <2> QED
    BY <1>0, <1>6, <2>1, <2>2, SuffixOne
<1>7. pos' = pos \/ pos' = pos + 1
  BY <1>0
<1>8. pos' = pos + 1 => a < pos \/ a = pos
  BY <1>0
<1> QED
  BY <1>4, <1>5, <1>6, <1>7, <1>8

(* What nests stays on top of the reader's stack.                          *)
LEMMA OnTopStep ==
  ASSUME Framing, Starts, OnTop, Next
  PROVE  OnTop'
<1>a. LoopsInPlace /\ ReaderOK /\ pos \in Nat /\ Len(doc) \in Nat
  BY DEF Framing, ReaderOK
<1>b. ~ Busy' => OnTop'
  BY DEF OnTop
<1>c. ASSUME Busy, ~ AtEof, Read, pass' = pass, pass = "subtree" => element' = element
      PROVE  OnTop'
  BY <1>a, <1>c, OnTopRead DEF OnTop
<1>1. CASE Recover
  <2>1. ~ AtEof /\ Read /\ UNCHANGED place
    BY <1>1 DEF Recover, Fails, Sees
  <2> QED
    BY <2>1, <1>b, <1>c DEF place, Busy
<1>2. CASE PassOver \/ MapperEmpty
  <2>1. ~ AtEof /\ Read /\ UNCHANGED place
    BY <1>2 DEF PassOver, MapperEmpty, Sees
  <2> QED
    BY <2>1, <1>b, <1>c DEF place, Busy
<1>3. CASE RootOpens
  <2>1. ~ AtEof /\ Read /\ loop = "root" /\ pass' = pass /\ pass = "document"
    BY <1>3, <1>a DEF RootOpens, Sees, LoopsInPlace
  <2>2. AllOnTop
    <3> SUFFICES ASSUME NEW a \in 0 .. pos - 1, NEW b \in pos + 1 .. Len(doc), Encloses(a, b)
                 PROVE  FALSE
      BY DEF AllOnTop
    <3>1. a + 1 \in 1 .. pos /\ doc[a + 1].type = "start"
      BY <1>a DEF Encloses
    <3> QED
      BY <2>1, <3>1 DEF Starts
  <2> QED
    BY <1>a, <2>1, <2>2, OnTopRead DEF OnTop
<1>4. CASE RootEmpty \/ RootForeign \/ RootMissing \/ RootGivesUp \/
          MapperCloses \/ MapperEof \/ MapperGivesUp \/ TrailingIgnores \/
          TrailingRecovers \/ TrailingEnds \/ BodyEof \/ BodyGivesUp \/
          SkipAbandoned
  BY <1>4, <1>b DEF RootEmpty, RootForeign, RootMissing, RootGivesUp,
      MapperCloses, MapperDone, MapperEof, MapperGivesUp, TrailingIgnores,
      TrailingRecovers, TrailingEnds, BodyEof, BodyEnds, BodyGivesUp,
      SkipAbandoned, Busy, place, found
<1>5. CASE MapperCaptures \/ MapperSkips
  <2>1. ~ AtEof /\ Read /\ pass = "document" /\ pass' = pass /\ Busy
    BY <1>5, <1>a DEF MapperCaptures, MapperSkips, Sees, LoopsInPlace, Busy
  <2> QED
    BY <2>1, <1>c
<1>6. CASE BodyCloses
  <2>1. ~ AtEof /\ Read /\ pass' = pass /\ element' = element /\ Busy
    BY <1>6 DEF BodyCloses, BodyEnds, Closes, Sees, Busy
  <2> QED
    BY <2>1, <1>c
<1>7. CASE BodySegment \/ BodyIgnores \/ BodySkips \/ SkipCounts \/ SkipCloses
  <2>1. ~ AtEof /\ Read /\ pass' = pass /\ element' = element /\ Busy
    BY <1>7 DEF BodySegment, BodyIgnores, BodySkips, SkipCounts, SkipCloses, Closes, Sees, Busy,
       place
  <2> QED
    BY <2>1, <1>c
<1>8. CASE CaptureSubtree
  <2>1. PICK t \in tags : CaptureSubtree!2!(t)
    BY <1>8, Zenon DEF CaptureSubtree
  <2>2. loop = "done" /\ t.from \in Nat /\ doc[t.from + 1].type \in {"start", "empty"}
    BY <1>8, <1>a DEF CaptureSubtree, Framing, FoundOK, Segment, TagsStart, TagStart
  <2>3. CASE doc[t.from + 1].type = "empty"
    BY <2>1, <2>2, <2>3, <1>b DEF place, Busy
  <2>4. CASE doc[t.from + 1].type = "start"
    <3>1. /\ doc' = doc /\ pos' = t.from + 1 /\ open' = <<doc[t.from + 1].name>>
          /\ pass' = "subtree" /\ element' = t.from
      BY <2>1, <2>2, <2>4 DEF OpenOver
    <3>2. SUFFICES ASSUME NEW a \in 0 .. pos' - 1, NEW b \in pos' + 1 .. Len(doc),
                          Visible(a)', Encloses(a, b)
                   PROVE  Suffix(Nesting(a)[pos'], open')
      BY <3>1, NestingStays DEF AllOnTop, OnTop
    <3>3. a = t.from
      BY <2>2, <3>1, <3>2 DEF Visible
    <3>4. Nesting(a)[pos'] = open'
      BY <1>a, <3>1, <3>2, <3>3, EnclosedHeld
    <3>5. open' \in Seq(TagName)
      BY ReaderStep DEF ReaderOK
    <3> QED
      BY <3>4, <3>5 DEF Suffix
  <2> QED
    BY <2>2, <2>3, <2>4
<1> QED
  BY <1>1, <1>2, <1>3, <1>4, <1>5, <1>6, <1>7, <1>8 DEF Next

-----------------------------------------------------------------------------
(* The loops' count and what nests.                                        *)

(* How the next token changes how much a tag that nests has open.          *)
Shift(n, m) ==
  /\ Tok.type = "start" => m = n + 1
  /\ Tok.type = "end" => Closes /\ m = n - 1
  /\ Tok.type \notin {"start", "end"} => m = n

(* Within a tag that nests, the reader fails nowhere.                      *)
LEMMA NestedRead ==
  ASSUME ReaderOK, Busy, OnTop, ~ AtEof, NEW a, NEW b, Encloses(a, b), Visible(a),
         a < pos, pos < b
  PROVE  /\ Len(Nesting(a)[pos]) \in Nat /\ Len(Nesting(a)[pos]) >= 1
         /\ Len(Nesting(a)[pos + 1]) \in Nat
         /\ (Len(Nesting(a)[pos + 1]) = 0 <=> pos + 1 = b)
         /\ Shift(Len(Nesting(a)[pos]), Len(Nesting(a)[pos + 1]))
         /\ ~ Fails /\ Tok.type \notin {"bad", "stuck"}
<1> DEFINE s == Nesting(a)[pos]
           r == Nesting(a)[pos + 1]
<1>0. a \in Nat /\ b \in Nat /\ pos \in Nat /\ b <= Len(doc) /\ open \in Seq(TagName)
  BY EnclosedHeld DEF ReaderOK
<1>1. pos \in a + 1 .. b - 1 /\ a \in 0 .. pos - 1 /\ b \in pos + 1 .. Len(doc)
  BY <1>0
<1>2. /\ s \in Seq(TagName) /\ s # << >> /\ r \in Seq(TagName) /\ Follows(s, Tok, r)
      /\ (r = << >> <=> pos + 1 = b)
  BY <1>1, EnclosedStep DEF Tok
<1>3. Suffix(s, open)
  BY <1>1 DEF OnTop, AllOnTop
<1> HIDE DEF s, r
<1>4. Tok.type = "end" => Closes
  <2> SUFFICES ASSUME Tok.type = "end" PROVE Closes
    OBVIOUS
  <2>1. Tok.name = s[Len(s)]
    BY <1>2 DEF Follows
  <2>2. open # << >> /\ s[Len(s)] = open[Len(open)]
    BY <1>0, <1>2, <1>3, SuffixCut
  <2> QED
    BY <2>1, <2>2 DEF Closes, Sees
<1>5. Tok.type \notin {"bad", "stuck"} /\ ~ Fails
  BY <1>2, <1>4 DEF Follows, Fails, Sees
<1>6. Len(s) \in Nat /\ Len(s) >= 1 /\ Len(r) \in Nat /\ (Len(r) = 0 <=> r = << >>)
  BY <1>2
<1>7. Shift(Len(s), Len(r))
  BY <1>2, <1>4 DEF Follows, Shift
<1> QED
  BY <1>2, <1>5, <1>6, <1>7 DEF s, r

(* One token more, if the loops count as it says.                          *)
LEMMA CountedRead ==
  ASSUME ReaderOK, Busy, OnTop, Counted, ~ AtEof, Read, pass' = pass,
         pass = "subtree" => element' = element,
         \A a \in 0 .. pos - 1 : ~ Begun(a) => ~ Begun(a)',
         ~ Fails => \A a \in 0 .. pos - 1, n, m \in Nat :
                      n >= 1 /\ Shift(n, m) /\ OpenAt(a, n) =>
                        IF m = 0 THEN ~ Begun(a)' ELSE OpenAt(a, m)',
         Tok.type = "start" => \A a : a = pos => OpenAt(a, 1)'
  PROVE  Counted'
<1>0. /\ pos \in Nat /\ limit \in Nat /\ Len(doc) \in Nat /\ pos + 1 <= limit /\ limit <= Len(doc)
      /\ doc' = doc /\ pos' \in {pos, pos + 1} /\ (Tok.type # "stuck" => pos' = pos + 1)
  BY ReadTyped DEF ReaderOK, AtEof, Read
<1>1. SUFFICES ASSUME NEW a \in 0 .. pos' - 1, NEW b \in 1 .. Len(doc), Visible(a)', Encloses(a, b),
                      NEW n, n = Len(Nesting(a)[pos'])
               PROVE  IF pos' < b THEN OpenAt(a, n)' ELSE ~ Begun(a)'
  <2>1. /\ \A c : Nesting(c)' = Nesting(c)
        /\ \A c, d : Encloses(c, d)' <=> Encloses(c, d)
    BY <1>0, NestingStays
  <2> QED
    BY <1>0, <2>1 DEF Counted, OpenAt
<1>2. Visible(a) /\ a \in Nat /\ b \in Nat
  BY <1>0, <1>1 DEF Visible
<1>3. a + 1 < b /\ doc[a + 1].type = "start" /\ Nesting(a)[a + 1] = <<doc[a + 1].name>>
  BY <1>1, EnclosedHeld
<1>4. CASE a < pos /\ b <= pos
  <2>1. a \in 0 .. pos - 1 /\ ~ (pos < b) /\ ~ (pos' < b)
    BY <1>0, <1>2, <1>4
  <2>2. ~ Begun(a)
    BY <1>1, <1>2, <2>1 DEF Counted
  <2> QED
    BY <2>1, <2>2
<1>5. CASE a < pos /\ pos < b
  <2>0. PICK l, m : l = Len(Nesting(a)[pos]) /\ m = Len(Nesting(a)[pos + 1])
    OBVIOUS
  <2>1. a \in 0 .. pos - 1
    BY <1>0, <1>2, <1>5
  <2>2. OpenAt(a, l)
    BY <1>1, <1>2, <1>5, <2>0, <2>1 DEF Counted, OpenAt
  <2>3. /\ l \in Nat /\ l >= 1 /\ m \in Nat /\ (m = 0 <=> pos + 1 = b) /\ Shift(l, m) /\ ~ Fails
        /\ Tok.type # "stuck"
    BY <1>1, <1>2, <1>5, <2>0, NestedRead
  <2>4. pos' = pos + 1
    BY <1>0, <2>3
  <2>5. n = m
    BY <1>1, <2>0, <2>4
  <2>6. \A k, j \in Nat : k >= 1 /\ Shift(k, j) /\ OpenAt(a, k) =>
          IF j = 0 THEN ~ Begun(a)' ELSE OpenAt(a, j)'
    BY <2>1, <2>3, Zenon
  <2>7. IF m = 0 THEN ~ Begun(a)' ELSE OpenAt(a, m)'
    BY <2>2, <2>3, <2>6, Zenon
  <2>8. pos' < b <=> pos + 1 # b
    BY <1>0, <1>2, <1>5, <2>4
  <2>9. CASE m = 0
    BY <2>3, <2>7, <2>8, <2>9, Zenon
  <2>10. CASE m # 0
    <3>1. pos' < b /\ OpenAt(a, m)'
      BY <2>3, <2>7, <2>8, <2>10, Zenon
    <3> QED
      BY <2>5, <3>1, Zenon
  <2> QED
    BY <2>9, <2>10
<1>6. CASE a = pos
  <2>1. Tok.type = "start" /\ pos' = pos + 1
    BY <1>0, <1>3, <1>6 DEF Tok
  <2>2. n = 1 /\ pos' < b
    <3>1. pos' = a + 1
      BY <1>6, <2>1
    <3>2. n = Len(<<doc[a + 1].name>>)
      BY <1>1, <1>3, <3>1
    <3> QED
      BY <1>3, <3>1, <3>2
  <2>3. OpenAt(a, 1)'
    BY <1>6, <2>1
  <2>4. OpenAt(a, n)'
    BY <2>2, <2>3
  <2> QED
    BY <2>2, <2>4
<1>7. a < pos \/ a = pos
  <2>1. pos' = pos \/ pos' = pos + 1
    BY <1>0
  <2>2. pos' = pos + 1 => a < pos \/ a = pos
    BY <1>0
  <2>3. pos' = pos => a < pos
    BY <1>0
  <2> QED
    BY <2>1, <2>2, <2>3
<1>8. b <= pos \/ pos < b
  BY <1>0, <1>2
<1> QED
  BY <1>4, <1>5, <1>6, <1>7, <1>8

(* The first tag of the document is the root.                              *)
LEMMA RootIs ==
  ASSUME ReaderOK, NEW i \in 1 .. Len(doc), doc[i].type \in {"start", "empty"},
         \A j \in 1 .. i - 1 : doc[j].type \notin {"start", "empty"}
  PROVE  RootStart = i - 1
<1> DEFINE roots == {k \in 1 .. Len(doc) : doc[k].type \in {"start", "empty"}}
           least == CHOOSE k \in roots : \A j \in roots : k <= j
<1>1. roots \subseteq Nat /\ i \in roots /\ Len(doc) \in Nat
  BY DEF ReaderOK
<1>2. \E k \in roots : \A j \in roots : k <= j
  <2> HIDE DEF roots
  <2> QED
    BY <1>1, NatLeast
<1>3. least \in roots /\ \A j \in roots : least <= j
  BY <1>2
<1>4. RootStart = least - 1
  BY Zenon DEF RootStart
<1>5. least \in 1 .. Len(doc) /\ least <= i /\ doc[least].type \in {"start", "empty"}
  BY <1>3, <1>1
<1> HIDE DEF least
<1>6. least = i
  BY <1>5
<1> QED
  BY <1>4, <1>6

(* The root, where parse_str comes upon the first tag.                     *)
LEMMA RootHere ==
  ASSUME ReaderOK, Starts, loop = "root", ~ AtEof, Tok.type \in {"start", "empty"}
  PROVE  RootStart = pos /\ (Tok.name \in RootName => HasRoot)
<1>0. pos \in Nat /\ pos + 1 \in 1 .. Len(doc) /\ (pos + 1) - 1 = pos
  BY DEF ReaderOK, AtEof
<1>1. \A j \in 1 .. (pos + 1) - 1 : doc[j].type \notin {"start", "empty"}
  BY <1>0 DEF Starts
<1>2. RootStart = pos
  BY <1>0, <1>1, RootIs DEF Tok
<1> QED
  BY <1>0, <1>2 DEF HasRoot, Tok

(* Whatever begins, begins at an opening tag.                              *)
LEMMA StartsStep ==
  ASSUME Framing, Starts, Next
  PROVE  Starts'
<1>0. /\ LoopsInPlace /\ ReaderOK /\ doc' = doc /\ pos \in Nat /\ pass \in {"document", "subtree"}
      /\ RootBehind
  BY ReaderSteps DEF Framing, WalkOK, ReaderOK, Read, OpenOver
<1>1. RootStart' = RootStart /\ HasRoot' = HasRoot
  BY <1>0, NestingStays DEF HasRoot
<1>2. pass' = "document" /\ Busy' => doc[RootStart + 1].type = "start"
  <2>1. CASE RootOpens
    BY <1>0, <2>1, RootHere DEF RootOpens, Sees, Tok
  <2>2. CASE ~ RootOpens
    <3>1. pass' = "document" /\ Busy' => pass = "document" /\ Busy
      BY <1>0, <2>2 DEF Next, Busy, LoopsInPlace, Recover, PassOver, RootEmpty, RootForeign,
         RootMissing, RootGivesUp, MapperCloses, MapperDone, MapperEof, MapperGivesUp,
         MapperCaptures, MapperSkips, MapperEmpty, BodyCloses, BodyEnds, BodyEof,
         BodyGivesUp, BodySegment, BodyIgnores, BodySkips, SkipCounts, SkipCloses,
         SkipAbandoned, TrailingIgnores, TrailingRecovers, TrailingEnds, CaptureSubtree,
         place, found
    <3> QED
      BY <3>1 DEF Starts
  <2> QED
    BY <2>1, <2>2
<1>3. loop' \in {"body", "skip"} \/ pass' = "subtree" =>
        /\ doc[element' + 1].type = "start"
        /\ pass' = "document" => RootStart < element'
  <2>1. CASE MapperCaptures \/ MapperSkips
    <3>1. element' = pos /\ Tok.type = "start" /\ pass' = "document" /\ RootStart < pos
      BY <1>0, <2>1 DEF MapperCaptures, MapperSkips, Sees, LoopsInPlace, RootBehind
    <3> QED
      BY <3>1 DEF Tok
  <2>2. CASE CaptureSubtree
    <3>1. PICK t \in tags : CaptureSubtree!2!(t)
      BY <2>2, Zenon DEF CaptureSubtree
    <3>2. loop = "done" /\ doc[t.from + 1].type \in {"start", "empty"}
      BY <2>2 DEF CaptureSubtree, Framing, TagsStart, TagStart
    <3>3. CASE doc[t.from + 1].type = "empty"
      BY <1>0, <3>1, <3>2, <3>3 DEF place, Starts
    <3>4. CASE doc[t.from + 1].type = "start"
      BY <3>1, <3>4
    <3> QED
      BY <3>2, <3>3, <3>4
  <2>3. CASE ~ (MapperCaptures \/ MapperSkips \/ CaptureSubtree)
    <3>1. /\ loop' \in {"body", "skip"} \/ pass' = "subtree" =>
               (loop \in {"body", "skip"} \/ pass = "subtree") /\ element' = element
          /\ loop' \in {"body", "skip"} => loop \in {"body", "skip"}
          /\ pass' = pass
      BY <1>0, <2>3 DEF Next, LoopsInPlace, Recover, PassOver, RootOpens, RootEmpty,
         RootForeign,
         RootMissing, RootGivesUp, MapperCloses, MapperDone, MapperEof, MapperGivesUp,
         MapperEmpty, BodyCloses, BodyEnds, BodyEof,
         BodyGivesUp, BodySegment, BodyIgnores, BodySkips, SkipCounts, SkipCloses,
         SkipAbandoned, TrailingIgnores, TrailingRecovers, TrailingEnds, place, found
    <3> QED
      BY <1>0, <3>1 DEF Starts
  <2> QED
    BY <2>1, <2>2, <2>3
<1>4. loop' = "root" => \A i \in 1 .. pos' : doc[i].type \notin {"start", "empty"}
  <2>1. SUFFICES ASSUME loop' = "root", NEW i \in 1 .. pos'
                 PROVE  doc[i].type \notin {"start", "empty"}
    OBVIOUS
  <2>2. /\ loop = "root" /\ ~ AtEof /\ Read /\ Tok.type \notin {"start", "empty"}
    BY <1>0, <2>1 DEF Next, Recover, PassOver, RootOpens, RootEmpty, RootForeign,
       RootMissing, RootGivesUp, MapperCloses, MapperDone, MapperEof, MapperGivesUp,
       MapperCaptures, MapperSkips, MapperEmpty, BodyCloses, BodyEnds, BodyEof,
       BodyGivesUp, BodySegment, BodyIgnores, BodySkips, SkipCounts, SkipCloses,
       SkipAbandoned, TrailingIgnores, TrailingRecovers, TrailingEnds, CaptureSubtree,
       Sees, Fails, place, found
  <2>3. pos' \in {pos, pos + 1}
    BY <1>0, <2>2, ReadTyped
  <2>4. i \in 1 .. pos \/ i = pos + 1
    BY <1>0, <2>1, <2>3
  <2> QED
    BY <2>2, <2>4 DEF Starts, Tok
<1>5. tags' # {} \/ pass' = "subtree" => doc[RootStart + 1].type = "start"
  <2>1. tags' # {} \/ pass' = "subtree" => tags # {} \/ pass = "subtree" \/ Busy
    BY DEF Next, Recover, PassOver, RootOpens, RootEmpty, RootForeign,
       RootMissing, RootGivesUp, MapperCloses, MapperDone, MapperEof, MapperGivesUp,
       MapperCaptures, MapperSkips, MapperEmpty, BodyCloses, BodyEnds, BodyEof,
       BodyGivesUp, BodySegment, BodyIgnores, BodySkips, SkipCounts, SkipCloses,
       SkipAbandoned, TrailingIgnores, TrailingRecovers, TrailingEnds, CaptureSubtree,
       place, found, Busy
  <2> QED
    BY <1>0, <2>1 DEF Starts
<1>6. mapper' => HasRoot
  <2>1. CASE RootOpens \/ RootEmpty
    BY <1>0, <2>1, RootHere DEF RootOpens, RootEmpty, Sees
  <2>2. CASE ~ (RootOpens \/ RootEmpty)
    <3>1. mapper' = mapper
      BY <2>2 DEF Next, Recover, PassOver, RootForeign,
         RootMissing, RootGivesUp, MapperCloses, MapperDone, MapperEof, MapperGivesUp,
         MapperCaptures, MapperSkips, MapperEmpty, BodyCloses, BodyEnds, BodyEof,
         BodyGivesUp, BodySegment, BodyIgnores, BodySkips, SkipCounts, SkipCloses,
         SkipAbandoned, TrailingIgnores, TrailingRecovers, TrailingEnds, CaptureSubtree,
         place, found
    <3> QED
      BY <3>1 DEF Starts
  <2> QED
    BY <2>1, <2>2
<1> QED
  BY <1>0, <1>1, <1>2, <1>3, <1>4, <1>5, <1>6 DEF Starts

(* The loops go on counting right.                                         *)
LEMMA CountedStep ==
  ASSUME Framing, Starts, OnTop, Counted, Next
  PROVE  Counted'
<1>a. /\ LoopsInPlace /\ ReaderOK /\ pos \in Nat /\ Len(doc) \in Nat /\ depth \in Nat
      /\ doc' = doc /\ RootStart' = RootStart /\ pass \in {"document", "subtree"}
      /\ element \in Nat \cup {NoPos} /\ child \in Nat \cup {NoPos}
  BY ReaderSteps, NestingStays DEF Framing, WalkOK, ReaderOK, Read, OpenOver
<1>b. ~ Busy' => Counted'
  BY DEF Counted
<1>d. Busy /\ pass = "document" => RootStart \in Nat /\ RootStart < pos
  BY DEF Busy, Framing, RootBehind
<1>e. /\ pass = "document" /\ loop \in {"body", "skip"} => RootStart < element
      /\ loop \in {"body", "skip"} => element \in Nat /\ element < pos
      /\ InBody => child \in Nat /\ element < child /\ child < pos /\ loop = "skip"
      /\ loop = "mapper" => pass = "document"
  BY <1>a DEF Starts, LoopsInPlace, InBody
<1>c. ASSUME Busy, ~ AtEof, Read, UNCHANGED <<pass, loop, element, child>>,
             \/ Tok.type \in {"bad", "stuck"} \/ Fails
             \/ loop \in {"mapper", "body"} /\ depth' = depth /\ Tok.type \notin {"start", "end"}
             \/ /\ loop = "skip" /\ Shift(depth, depth') /\ depth' \in Nat /\ depth' >= 1
      PROVE  Counted'
  <2>1. \A a : /\ IsRoot(a)' <=> IsRoot(a)
               /\ IsElement(a)' <=> IsElement(a)
               /\ IsChild(a)' <=> IsChild(a)
    BY <1>a, <1>c DEF IsRoot, IsElement, IsChild, InBody
  <2>2. \A a : Begun(a)' <=> Begun(a)
    BY <2>1 DEF Begun
  <2>3. ASSUME ~ Fails, NEW a \in 0 .. pos - 1, NEW n \in Nat, NEW m \in Nat,
               n >= 1, Shift(n, m), OpenAt(a, n)
        PROVE  IF m = 0 THEN ~ Begun(a)' ELSE OpenAt(a, m)'
    <3>0. Tok.type \notin {"bad", "stuck"}
      BY <1>c, <2>3 DEF Fails, Sees
    <3>1. CASE loop \in {"mapper", "body"}
      <4>1. m = n /\ Tok.type \notin {"start", "end"} /\ depth' = depth
        BY <1>c, <2>3, <3>0, <3>1 DEF Shift
      <4>2. /\ OpenAt(a, n)' <=> OpenAt(a, n)
        BY <1>c, <2>1, <4>1 DEF OpenAt, RootLevel, ElementLevel, SkipStart, InBody
      <4> QED
        BY <2>3, <4>1, <4>2
    <3>2. CASE loop = "skip"
      <4>1. Shift(depth, depth') /\ depth' \in Nat /\ depth' >= 1
        BY <1>c, <2>3, <3>0, <3>2
      <4>0. n \in Nat /\ m \in Nat /\ n >= 1 /\ Shift(n, m) /\ OpenAt(a, n) /\ a \in Nat /\ a < pos
        BY <1>a, <2>3
      <4>2. depth' + n = depth + m
        <5>1. CASE Tok.type = "start"
          BY <1>a, <4>0, <4>1, <5>1 DEF Shift
        <5>2. CASE Tok.type = "end"
          BY <1>a, <4>0, <4>1, <5>2 DEF Shift
        <5>3. CASE Tok.type \notin {"start", "end"}
          <6>1. depth' = depth /\ m = n
            BY <4>0, <4>1, <5>3 DEF Shift
          <6> QED
            BY <1>a, <4>0, <6>1
        <5> QED
          BY <5>1, <5>2, <5>3
      <4>3. CASE m = 0
        <5>1. a > SkipStart /\ n < depth
          <6>1. depth' = depth - n
            <7>1. PICK d \in Nat : d = depth'
              BY <4>1
            <7>2. depth \in Nat /\ d + n = depth + m /\ n \in Nat
              BY <1>a, <4>0, <4>2, <7>1
            <7>3. d = depth - n
              BY <4>3, <7>2
            <7> QED
              BY <7>1, <7>3
          <6>2. depth' >= 1 /\ depth \in Nat
            BY <1>a, <4>1
          <6>3. n < depth
            BY <4>0, <6>1, <6>2
          <6> QED
            BY <3>2, <4>0, <6>2, <6>3 DEF OpenAt, RootLevel, ElementLevel
        <5> QED
          BY <1>e, <2>2, <3>2, <4>3, <5>1, <1>d, <2>3 DEF Begun, IsRoot, IsElement, IsChild,
             SkipStart,
             Busy
      <4>4. CASE m # 0
        <5>1. OpenAt(a, m)'
          <6>1. loop' = "skip" /\ SkipStart' = SkipStart /\ InBody' = InBody
            BY <1>c, <3>2 DEF SkipStart, InBody
          <6>2. depth' = depth + m - n
            <7>1. PICK d \in Nat : d = depth'
              BY <4>1
            <7>2. depth \in Nat /\ d + n = depth + m
              BY <1>a, <4>2, <7>1
            <7>3. d = depth + m - n
              BY <4>0, <7>2
            <7> QED
              BY <7>1, <7>3
          <6> QED
            BY <1>a, <2>1, <3>2, <4>0, <4>1, <6>1, <6>2 DEF OpenAt, RootLevel, ElementLevel
        <5> QED
          BY <4>4, <5>1
      <4> QED
        BY <4>3, <4>4
    <3> QED
      BY <1>c, <3>1, <3>2 DEF Busy
  <2>4. ASSUME Tok.type = "start", NEW a, a = pos PROVE OpenAt(a, 1)'
    <3>1. loop = "skip" /\ depth' = depth + 1 /\ depth >= 1
      BY <1>a, <1>c, <2>4 DEF Shift, Fails, Sees, LoopsInPlace
    <3>2. loop' = "skip" /\ a > SkipStart' /\ 1 < depth'
      BY <1>a, <1>c, <1>e, <2>4, <3>1 DEF SkipStart, InBody
    <3> QED
      BY <3>2 DEF OpenAt
  <2> QED
    BY <1>a, <1>c, <2>2, <2>3, <2>4, CountedRead
<1>1. CASE Recover
  <2>1. ~ AtEof /\ Fails /\ Read /\ UNCHANGED place
    BY <1>1 DEF Recover, Fails, Sees
  <2> QED
    BY <2>1, <1>b, <1>c DEF place, Busy
<1>2. CASE PassOver \/ MapperEmpty \/ BodySegment \/ BodyIgnores
  <2>1. /\ ~ AtEof /\ Read /\ UNCHANGED place /\ Tok.type \notin {"start", "end"}
        /\ loop \notin {"skip"}
    BY <1>2 DEF PassOver, MapperEmpty, BodySegment, BodyIgnores, Sees
  <2> QED
    BY <2>1, <1>b, <1>c DEF place, Busy
<1>3. CASE SkipCounts
  <2>1. /\ ~ AtEof /\ Read /\ UNCHANGED <<pass, loop, element, child>> /\ loop = "skip"
        /\ Shift(depth, depth')
    BY <1>3 DEF SkipCounts, Sees, Closes, Shift
  <2>2. depth' \in Nat /\ depth' >= 1
    BY <1>3, <1>a, WalkStep, LoopsInPlaceStep DEF SkipCounts, WalkOK, LoopsInPlace
  <2> QED
    BY <2>1, <2>2, <1>c DEF Busy
<1>4. CASE RootOpens
  <2>1. /\ loop = "root" /\ ~ AtEof /\ Read /\ Tok.type = "start" /\ pos' = pos + 1
        /\ pass' = "document" /\ pass = "document" /\ loop' = "mapper"
    BY <1>4, <1>a DEF RootOpens, Sees, Read, LoopsInPlace
  <2>2. RootStart = pos
    BY <1>a, <2>1, RootHere
  <2>3. SUFFICES ASSUME NEW a \in 0 .. pos' - 1, NEW b \in 1 .. Len(doc), Encloses(a, b),
                        NEW n, n = Len(Nesting(a)[pos'])
                 PROVE  IF pos' < b THEN OpenAt(a, n)' ELSE ~ Begun(a)'
    <3>1. /\ \A c : Nesting(c)' = Nesting(c)
          /\ \A c, e : Encloses(c, e)' <=> Encloses(c, e)
      BY <1>a, NestingStays
    <3> QED
      BY <1>a, <3>1 DEF Counted, OpenAt
  <2>4. /\ a + 1 < b /\ Nesting(a)[a + 1] = <<doc[a + 1].name>> /\ a \in Nat /\ b \in Nat
        /\ doc[a + 1].type = "start"
    BY <1>a, <2>3, EnclosedHeld
  <2>5. ~ (a < pos)
    <3>1. a < pos => a + 1 \in 1 .. pos
      BY <1>a, <2>4
    <3> QED
      BY <2>1, <2>4, <3>1 DEF Starts
  <2>6. a = pos
    BY <1>a, <2>1, <2>3, <2>5
  <2>8. n = 1 /\ pos' < b
    <3>1. pos' = a + 1
      BY <2>1, <2>6
    <3>2. n = Len(<<doc[a + 1].name>>)
      BY <2>3, <2>4, <3>1
    <3> QED
      BY <2>4, <3>1, <3>2
  <2>9. OpenAt(a, n)'
    BY <1>a, <2>1, <2>2, <2>6, <2>8 DEF OpenAt, IsRoot, RootLevel
  <2> QED
    BY <2>8, <2>9
<1>5. CASE MapperCloses \/ MapperEof \/ MapperGivesUp \/ RootEmpty \/ RootForeign \/ RootMissing \/
          RootGivesUp \/ TrailingIgnores \/ TrailingRecovers \/ TrailingEnds \/ BodyEof \/
          BodyGivesUp \/ SkipAbandoned
  BY <1>5, <1>b DEF RootEmpty, RootForeign, RootMissing, RootGivesUp,
      MapperCloses, MapperDone, MapperEof, MapperGivesUp, TrailingIgnores,
      TrailingRecovers, TrailingEnds, BodyEof, BodyEnds, BodyGivesUp,
      SkipAbandoned, Busy, place, found
<1>6. CASE MapperCaptures \/ MapperSkips
  <2>1. /\ loop = "mapper" /\ ~ AtEof /\ Read /\ Tok.type = "start" /\ ~ Fails
        /\ pass' = pass /\ pass = "document" /\ loop' \in {"body", "skip"} /\ element' = pos
        /\ child' = child /\ child = NoPos /\ (loop' = "skip" => depth' = 1)
    BY <1>6, <1>a DEF MapperCaptures, MapperSkips, Sees, LoopsInPlace, Fails
  <2>2. ASSUME NEW a \in 0 .. pos - 1 PROVE ~ Begun(a) => ~ Begun(a)'
    BY <1>a, <2>1 DEF Begun, IsRoot, IsElement, IsChild, InBody
  <2>3. ASSUME NEW a \in 0 .. pos - 1, NEW n \in Nat, NEW m \in Nat,
               n >= 1, Shift(n, m), OpenAt(a, n)
        PROVE  IF m = 0 THEN ~ Begun(a)' ELSE OpenAt(a, m)'
    <3>1. IsRoot(a) /\ n = 1
      BY <2>1, <2>3 DEF OpenAt, IsElement, IsChild, InBody, RootLevel
    <3>2. m = 2
      BY <2>1, <2>3, <3>1 DEF Shift
    <3>3. IsRoot(a)' /\ RootLevel' = 2
      BY <1>a, <2>1, <3>1 DEF IsRoot, RootLevel, ElementLevel, InBody
    <3> QED
      BY <3>2, <3>3 DEF OpenAt
  <2>4. ASSUME NEW a, a = pos PROVE OpenAt(a, 1)'
    BY <2>1, <2>4 DEF OpenAt, IsElement, ElementLevel, InBody
  <2>5. Busy /\ (pass = "subtree" => element' = element)
    BY <2>1 DEF Busy
  <2> QED
    BY <1>a, <2>1, <2>2, <2>3, <2>4, <2>5, CountedRead
<1>7. CASE BodyCloses
  <2>1. /\ loop = "body" /\ Closes /\ ~ AtEof /\ Read /\ Tok.type = "end"
        /\ pass' = pass /\ element' = element /\ child' = NoPos /\ child = NoPos
        /\ (pass = "document" => loop' = "mapper") /\ (pass = "subtree" => loop' = "done")
    BY <1>7, <1>a DEF BodyCloses, BodyEnds, Closes, Sees, LoopsInPlace
  <2>2. CASE pass = "subtree"
    BY <2>1, <2>2, <1>b DEF Busy
  <2>3. CASE pass = "document"
    <3>2. ASSUME NEW a \in 0 .. pos - 1 PROVE ~ Begun(a) => ~ Begun(a)'
      BY <1>a, <2>1, <2>3 DEF Begun, IsRoot, IsElement, IsChild, InBody
    <3>3. ASSUME NEW a \in 0 .. pos - 1, NEW n \in Nat, NEW m \in Nat,
                 n >= 1, Shift(n, m), OpenAt(a, n)
          PROVE  IF m = 0 THEN ~ Begun(a)' ELSE OpenAt(a, m)'
      <4>1. m = n - 1
        BY <2>1, <3>3 DEF Shift
      <4>2. (IsRoot(a) /\ n = 2) \/ (IsElement(a) /\ n = 1)
        BY <2>1, <3>3 DEF OpenAt, IsChild, InBody, RootLevel, ElementLevel
      <4>3. CASE IsRoot(a) /\ n = 2
        <5>1. m = 1 /\ IsRoot(a)' /\ RootLevel' = 1
          BY <1>a, <2>1, <2>3, <4>1, <4>3 DEF IsRoot, RootLevel
        <5> QED
          BY <5>1 DEF OpenAt
      <4>4. CASE IsElement(a) /\ n = 1
        <5>1. m = 0 /\ a # RootStart
          BY <1>a, <1>d, <1>e, <2>1, <2>3, <4>1, <4>4 DEF IsElement, Busy
        <5>2. ~ Begun(a)'
          BY <1>a, <2>1, <2>3, <5>1 DEF Begun, IsRoot, IsElement, IsChild, InBody
        <5> QED
          BY <5>1, <5>2
      <4> QED
        BY <4>2, <4>3, <4>4
    <3>5. Busy /\ (pass = "subtree" => element' = element) /\ Tok.type # "start"
      BY <2>1 DEF Busy
    <3> QED
      BY <1>a, <2>1, <3>2, <3>3, <3>5, CountedRead
  <2> QED
    BY <1>a, <2>2, <2>3
<1>8. CASE BodySkips
  <2>1. /\ loop = "body" /\ ~ AtEof /\ Read /\ Tok.type = "start"
        /\ pass' = pass /\ element' = element /\ child' = pos /\ child = NoPos
        /\ loop' = "skip" /\ depth' = 1 /\ InBody' /\ ~ InBody
    BY <1>8, <1>a DEF BodySkips, Sees, LoopsInPlace, InBody, NoPos
  <2>2. ASSUME NEW a \in 0 .. pos - 1 PROVE ~ Begun(a) => ~ Begun(a)'
    BY <1>a, <2>1 DEF Begun, IsRoot, IsElement, IsChild
  <2>3. ASSUME NEW a \in 0 .. pos - 1, NEW n \in Nat, NEW m \in Nat,
               n >= 1, Shift(n, m), OpenAt(a, n)
        PROVE  IF m = 0 THEN ~ Begun(a)' ELSE OpenAt(a, m)'
    <3>1. m = n + 1
      BY <2>1, <2>3 DEF Shift
    <3>2. (IsRoot(a) /\ n = 2) \/ (IsElement(a) /\ n = 1)
      BY <2>1, <2>3 DEF OpenAt, IsChild, RootLevel, ElementLevel
    <3>3. /\ IsRoot(a) => IsRoot(a)'
          /\ IsElement(a) => IsElement(a)'
          /\ ElementLevel' = 2 /\ RootLevel' = 3
      BY <1>a, <2>1 DEF IsRoot, IsElement, RootLevel, ElementLevel
    <3>4. (m = 3 /\ IsRoot(a)') \/ (m = 2 /\ IsElement(a)')
      BY <3>1, <3>2, <3>3
    <3>5. OpenAt(a, m)'
      BY <3>3, <3>4 DEF OpenAt
    <3> QED
      BY <3>4, <3>5
  <2>4. ASSUME NEW a, a = pos PROVE OpenAt(a, 1)'
    BY <2>1, <2>4 DEF OpenAt, IsChild
  <2>5. Busy
    BY <2>1 DEF Busy
  <2> QED
    BY <1>a, <2>1, <2>2, <2>3, <2>4, <2>5, CountedRead
<1>9. CASE SkipCloses
  <2>1. /\ loop = "skip" /\ Closes /\ ~ AtEof /\ Read /\ Tok.type = "end" /\ depth = 1
        /\ pass' = pass /\ element' = element /\ child' = NoPos /\ ~ InBody'
        /\ (InBody => loop' = "body")
        /\ (~ InBody => loop' = "mapper" /\ pass = "document")
    BY <1>9, <1>a DEF SkipCloses, Closes, Sees, LoopsInPlace, InBody
  <2>2. ASSUME NEW a \in 0 .. pos - 1 PROVE ~ Begun(a) => ~ Begun(a)'
    BY <1>a, <2>1 DEF Begun, IsRoot, IsElement, IsChild
  <2>3. ASSUME NEW a \in 0 .. pos - 1, NEW n \in Nat, NEW m \in Nat,
               n >= 1, Shift(n, m), OpenAt(a, n)
        PROVE  IF m = 0 THEN ~ Begun(a)' ELSE OpenAt(a, m)'
    <3>1. m = n - 1
      BY <2>1, <2>3 DEF Shift
    <3>2. /\ (IsRoot(a) /\ n = RootLevel) \/ (IsElement(a) /\ n = ElementLevel)
             \/ (IsChild(a) /\ n = 1)
      BY <2>1, <2>3 DEF OpenAt
    <3>3. CASE InBody
      <4>1. RootLevel = 3 /\ ElementLevel = 2 /\ RootLevel' = 2 /\ ElementLevel' = 1
        BY <2>1, <3>3 DEF RootLevel, ElementLevel
      <4>2. /\ IsRoot(a) => IsRoot(a)'
            /\ IsElement(a) => IsElement(a)'
        BY <1>a, <2>1, <3>3 DEF IsRoot, IsElement
      <4>3. IsChild(a) => ~ Begun(a)'
        BY <1>a, <1>d, <1>e, <2>1, <3>3 DEF IsRoot, IsElement, IsChild, Begun
      <4>4. (m = 2 /\ IsRoot(a)') \/ (m = 1 /\ IsElement(a)') \/ (m = 0 /\ ~ Begun(a)')
        BY <3>1, <3>2, <4>1, <4>2, <4>3
      <4> QED
        BY <4>1, <4>4 DEF OpenAt
    <3>4. CASE ~ InBody
      <4>1. RootLevel = 2 /\ ElementLevel = 1 /\ RootLevel' = 1
        BY <2>1, <3>4 DEF RootLevel, ElementLevel
      <4>2. IsRoot(a) => IsRoot(a)'
        BY <1>a, <2>1, <3>4 DEF IsRoot
      <4>3. IsElement(a) => ~ Begun(a)'
        BY <1>a, <1>d, <1>e, <2>1, <3>4 DEF IsRoot, IsElement, IsChild, Begun
      <4>4. (m = 1 /\ IsRoot(a)') \/ (m = 0 /\ ~ Begun(a)')
        BY <3>1, <3>2, <3>4, <4>1, <4>2, <4>3 DEF IsChild
      <4> QED
        BY <4>1, <4>4 DEF OpenAt
    <3> QED
      BY <3>3, <3>4
  <2>5. Busy /\ (pass = "subtree" => element' = element) /\ Tok.type # "start"
    BY <2>1 DEF Busy
  <2> QED
    BY <1>a, <2>1, <2>2, <2>3, <2>5, CountedRead
<1>10. CASE CaptureSubtree
  <2>1. PICK t \in tags : CaptureSubtree!2!(t)
    BY <1>10, Zenon DEF CaptureSubtree
  <2>2. loop = "done" /\ t.from \in Nat /\ doc[t.from + 1].type \in {"start", "empty"}
    BY <1>10, <1>a DEF CaptureSubtree, Framing, FoundOK, Segment, TagsStart, TagStart
  <2>3. CASE doc[t.from + 1].type = "empty"
    BY <2>1, <2>2, <2>3, <1>b DEF place, Busy
  <2>4. CASE doc[t.from + 1].type = "start"
    <3>1. /\ pos' = t.from + 1 /\ pass' = "subtree" /\ element' = t.from /\ loop' = "body"
      BY <2>1, <2>2, <2>4 DEF OpenOver
    <3>2. SUFFICES ASSUME NEW a \in 0 .. pos' - 1, NEW b \in 1 .. Len(doc), Encloses(a, b),
                          Visible(a)', NEW n, n = Len(Nesting(a)[pos'])
                   PROVE  IF pos' < b THEN OpenAt(a, n)' ELSE ~ Begun(a)'
      <4>1. /\ \A c : Nesting(c)' = Nesting(c)
            /\ \A c, e : Encloses(c, e)' <=> Encloses(c, e)
        BY <1>a, NestingStays
      <4> QED
        BY <1>a, <4>1 DEF Counted, OpenAt
    <3>3. a = t.from
      BY <2>2, <3>1, <3>2 DEF Visible
    <3>4. pos' = a + 1 /\ a + 1 < b /\ Nesting(a)[a + 1] = <<doc[a + 1].name>>
      BY <1>a, <3>1, <3>2, <3>3, EnclosedHeld
    <3>5. n = 1
      <4>1. n = Len(<<doc[a + 1].name>>)
        BY <3>2, <3>4
      <4> QED
        BY <4>1
    <3>6. OpenAt(a, n)'
      BY <3>1, <3>3, <3>5 DEF OpenAt, IsElement, ElementLevel
    <3> QED
      BY <3>4, <3>6
  <2> QED
    BY <2>2, <2>3, <2>4
<1> QED
  BY <1>1, <1>2, <1>3, <1>4, <1>5, <1>6, <1>7, <1>8, <1>9, <1>10 DEF Next

-----------------------------------------------------------------------------
(* The spans set down, and what is blamed.                                 *)

(* The first reading is of the whole document, a second one of a tag.      *)
ReadsAll ==
  /\ pass = "document" => limit = Len(doc)
  /\ pass = "subtree" => element \in Nat

(* So it is after one step more.                                           *)
LEMMA ReadsAllStep ==
  ASSUME Framing, ReadsAll, Next
  PROVE  ReadsAll'
<1>0. LoopsInPlace
  BY DEF Framing
<1>1. CASE CaptureSubtree
  <2>1. PICK t \in tags : CaptureSubtree!2!(t)
    BY <1>1, Zenon DEF CaptureSubtree
  <2>2. t.from \in Nat
    BY DEF Framing, FoundOK, Segment
  <2>3. CASE doc[t.from + 1].type = "empty"
    BY <2>1, <2>3 DEF place, ReadsAll
  <2>4. CASE doc[t.from + 1].type # "empty"
    BY <2>1, <2>2, <2>4 DEF ReadsAll
  <2> QED
    BY <2>3, <2>4
<1>2. CASE ~ CaptureSubtree
  <2>1. UNCHANGED <<doc, limit>>
    BY <1>2, ReaderSteps DEF Read
  <2>2. pass' = pass /\ (pass = "subtree" => element' = element)
    BY <1>0, <1>2 DEF Next, LoopsInPlace, Recover, PassOver, RootOpens, RootEmpty, RootForeign,
       RootMissing, RootGivesUp, MapperCloses, MapperDone, MapperEof, MapperGivesUp,
       MapperCaptures, MapperSkips, MapperEmpty, BodyCloses, BodyEnds, BodyEof,
       BodyGivesUp, BodySegment, BodyIgnores, BodySkips, SkipCounts, SkipCloses,
       SkipAbandoned, TrailingIgnores, TrailingRecovers, TrailingEnds, place, found
  <2> QED
    BY <2>1, <2>2 DEF ReadsAll
<1> QED
  BY <1>1, <1>2

(* The tag that closes where skip_subtree stops has nothing in it that     *)
(* reaches further.                                                        *)
LEMMA SkippedWithin ==
  ASSUME Framing, Starts, OnTop, Counted, InBody, SkipCloses
  PROVE  Within(child, pos + 1)
<1>1. SUFFICES ASSUME NEW a \in child .. (pos + 1) - 1, NEW b \in 1 .. Len(doc), Encloses(a, b)
               PROVE  b <= pos + 1 /\ (a = child => b = pos + 1)
  BY DEF Within
<1>0. /\ ReaderOK /\ pos \in Nat /\ child \in Nat /\ child < pos /\ element \in Nat /\ element < child
      /\ loop = "skip" /\ Busy /\ depth = 1 /\ ~ AtEof /\ Tok.type = "end"
      /\ pass \in {"document", "subtree"} /\ (pass = "document" => RootStart < element)
      /\ (pass = "document" => RootStart \in Nat)
  BY DEF Framing, WalkOK, LoopsInPlace, InBody, SkipCloses, Closes, Sees, ReaderOK, Busy,
     Starts,
     RootBehind
<1>2. /\ a \in Nat /\ b \in Nat /\ doc[a + 1].type = "start"
  BY <1>0, <1>1, EnclosedHeld
<1>3. a # pos
  BY <1>0, <1>2 DEF Tok
<1>4. a < pos /\ Visible(a) /\ a \in 0 .. pos - 1
  BY <1>0, <1>1, <1>2, <1>3 DEF Visible
<1>5. CASE pos < b
  <2>0. PICK n, m : n = Len(Nesting(a)[pos]) /\ m = Len(Nesting(a)[pos + 1])
    OBVIOUS
  <2>1. n \in Nat /\ n >= 1 /\ m \in Nat /\ Shift(n, m) /\ (m = 0 <=> pos + 1 = b)
    BY <1>0, <1>1, <1>4, <1>5, <2>0, NestedRead
  <2>2. OpenAt(a, n)
    BY <1>0, <1>1, <1>4, <1>5, <2>0 DEF Counted, OpenAt
  <2>3. a = child /\ n = 1
    BY <1>0, <1>1, <1>2, <2>1, <2>2 DEF OpenAt, IsRoot, IsElement, IsChild
  <2>4. m = 0
    BY <1>0, <2>1, <2>3 DEF Shift
  <2> QED
    BY <1>2, <2>1, <2>4
<1>6. CASE ~ (pos < b)
  <2>1. ~ Begun(a)
    BY <1>0, <1>1, <1>4, <1>6 DEF Counted
  <2>2. a # child
    BY <2>1 DEF Begun, IsChild
  <2> QED
    BY <1>0, <1>2, <1>6, <2>2
<1> QED
  BY <1>5, <1>6

(* What is handed over for a second reading is, to its end.                *)
LEMMA TagsWithinStep ==
  ASSUME Framing, Starts, OnTop, Counted, TagsWithin, Next
  PROVE  TagsWithin'
<1>a. /\ segments \in Seq(Segment) /\ LoopsInPlace /\ doc' = doc
      /\ pos \in Nat
  BY ReaderSteps DEF Framing, FoundOK, Read, OpenOver, ReaderOK
<1>w. \A from, to : Within(from, to)' <=> Within(from, to)
  BY <1>a, NestingStays DEF Within
<1>p. pass' = "subtree" => Within(element', limit')
  <2>1. CASE CaptureSubtree
    <3>1. PICK t \in tags : CaptureSubtree!2!(t)
      BY <2>1, Zenon DEF CaptureSubtree
    <3>2. CASE doc[t.from + 1].type = "empty"
      BY <3>1, <3>2 DEF place, TagsWithin
    <3>3. CASE doc[t.from + 1].type # "empty"
      BY <3>1, <3>3 DEF OpenOver, TagsWithin
    <3> QED
      BY <3>2, <3>3
  <2>2. CASE ~ CaptureSubtree
    <3>1. limit' = limit
      BY <2>2, ReaderSteps DEF Read
    <3>2. pass' = pass /\ (pass = "subtree" => element' = element)
      BY <1>a, <2>2 DEF Next, LoopsInPlace, Recover, PassOver, RootOpens, RootEmpty,
         RootForeign,
         RootMissing, RootGivesUp, MapperCloses, MapperDone, MapperEof, MapperGivesUp,
         MapperCaptures, MapperSkips, MapperEmpty, BodyCloses, BodyEnds, BodyEof,
         BodyGivesUp, BodySegment, BodyIgnores, BodySkips, SkipCounts, SkipCloses,
         SkipAbandoned, TrailingIgnores, TrailingRecovers, TrailingEnds, place, found
    <3> QED
      BY <3>1, <3>2 DEF TagsWithin
  <2> QED
    BY <2>1, <2>2
<1>b. ASSUME \A t \in tags' : t \in tags \/ \E i \in DOMAIN segments : t = segments[i],
             segments' \in {segments, << >>}
      PROVE  TagsWithin'
  <2>1. \A t \in tags' : Within(t.from, t.to)
    BY <1>b DEF TagsWithin
  <2>2. \A i \in DOMAIN segments' : i \in DOMAIN segments /\ segments'[i] = segments[i]
    BY <1>b
  <2>3. \A i \in DOMAIN segments' : Within(segments'[i].from, segments'[i].to)
    BY <2>2 DEF TagsWithin
  <2> QED
    BY <1>w, <1>p, <2>1, <2>3 DEF TagsWithin
<1>c. ASSUME NEW s, Within(s.from, s.to), segments' = Append(segments, s), tags' = tags
      PROVE  TagsWithin'
  <2>1. \A i \in DOMAIN segments' :
          segments'[i] = s \/ (i \in DOMAIN segments /\ segments'[i] = segments[i])
    BY <1>a, <1>c
  <2>2. \A i \in DOMAIN segments' : Within(segments'[i].from, segments'[i].to)
    BY <1>a, <1>c, <2>1 DEF TagsWithin
  <2>3. \A t \in tags' : Within(t.from, t.to)
    BY <1>a, <1>c DEF TagsWithin
  <2> QED
    BY <1>w, <1>p, <2>2, <2>3 DEF TagsWithin
<1>d. ASSUME NEW end, NEW truncated, BodyEnds(segments, end, truncated)
      PROVE  TagsWithin'
  BY <1>b, <1>d DEF BodyEnds
<1>1. CASE Recover \/ PassOver \/ RootOpens \/ RootEmpty \/ RootForeign \/
          RootMissing \/ RootGivesUp \/ MapperCloses \/ MapperEof \/
          MapperGivesUp \/ MapperCaptures \/ MapperSkips \/ MapperEmpty
  BY <1>1, <1>b DEF Recover, PassOver, RootOpens, RootEmpty, RootForeign,
      RootMissing, RootGivesUp, MapperCloses, MapperDone, MapperEof,
      MapperGivesUp, MapperCaptures, MapperSkips, MapperEmpty, place, found
<1>2. CASE BodyCloses \/ BodyEof \/ BodyGivesUp
  BY <1>2, <1>d DEF BodyCloses, BodyEof, BodyGivesUp
<1>3. CASE BodySegment
  <2> DEFINE s == [type |-> IF Tok.type = "empty" THEN "tag" ELSE "text",
                   from |-> pos, to |-> pos + 1]
  <2>1. segments' = Append(segments, s) /\ tags' = tags /\ Tok.type # "start"
    BY <1>3 DEF BodySegment, Sees
  <2>2. Within(s.from, s.to)
    <3>1. \A a \in pos .. (pos + 1) - 1 : a = pos
      BY <1>a
    <3> QED
      BY <2>1, <3>1 DEF Within, Encloses, Tok
  <2> HIDE DEF s
  <2> QED
    BY <2>1, <2>2, <1>c
<1>4. CASE BodyIgnores \/ BodySkips \/ SkipCounts
  BY <1>4, <1>b DEF BodyIgnores, BodySkips, SkipCounts, place, found
<1>5. CASE SkipCloses
  <2>1. CASE InBody
    <3> DEFINE s == [type |-> "tag", from |-> child, to |-> pos + 1]
    <3>1. segments' = Append(segments, s) /\ tags' = tags
      BY <1>5, <2>1 DEF SkipCloses
    <3>2. Within(s.from, s.to)
      BY <1>5, <2>1, SkippedWithin
    <3> HIDE DEF s
    <3> QED
      BY <3>1, <3>2, <1>c
  <2>2. CASE ~ InBody
    BY <1>5, <2>2, <1>b DEF SkipCloses
  <2> QED
    BY <2>1, <2>2
<1>6. CASE SkipAbandoned
  <2>1. CASE InBody
    BY <1>6, <2>1, <1>d DEF SkipAbandoned
  <2>2. CASE ~ InBody
    BY <1>6, <2>2, <1>b DEF SkipAbandoned, found
  <2> QED
    BY <2>1, <2>2
<1>7. CASE TrailingIgnores \/ TrailingRecovers \/ TrailingEnds
  BY <1>7, <1>b DEF TrailingIgnores, TrailingRecovers, TrailingEnds, place,
      found
<1>8. CASE CaptureSubtree
  BY <1>8, <1>b DEF CaptureSubtree, place, found
<1> QED
  BY <1>1, <1>2, <1>3, <1>4, <1>5, <1>6, <1>7, <1>8 DEF Next

(* Where a tag ends, if all in it nests.                                   *)
LEMMA EndIs ==
  ASSUME ReaderOK, NEW a \in 0 .. Len(doc) - 1
  PROVE  /\ Ends(a) # {} =>
              /\ End(a) \in a + 1 .. Len(doc) /\ End(a) \in Ends(a)
              /\ doc[a + 1].type = "start" => Encloses(a, End(a))
         /\ \A e \in Ends(a) : End(a) <= e
         /\ \A b : Encloses(a, b) => b = End(a) /\ Ends(a) # {}
<1> DEFINE S == Ends(a)
<1>0. a \in Nat /\ Len(doc) \in Nat /\ S \subseteq Nat /\ S \subseteq a + 1 .. Len(doc)
      /\ \A e \in a + 1 .. Len(doc) : e \in S <=> WellNested(a, e)
  BY DEF ReaderOK, Ends
<1>e. End(a) = CHOOSE x \in S : \A y \in S : x =< y
  BY Zenon DEF End, Min
<1> HIDE DEF S
<1>1. ASSUME S # {}
      PROVE  End(a) \in S /\ \A y \in S : End(a) <= y
  <2>1. PICK x \in S : \A y \in S : x <= y
    BY <1>0, <1>1, NatLeast
  <2> QED
    BY <1>e, <2>1
<1>2. ASSUME S # {}, doc[a + 1].type = "start" PROVE Encloses(a, End(a))
  <2>1. End(a) \in S /\ End(a) \in a + 1 .. Len(doc) /\ End(a) \in Nat
    BY <1>0, <1>1, <1>2
  <2>2. ASSUME NEW c \in a + 1 .. End(a) - 1 PROVE ~ WellNested(a, c)
    <3>1. c \in a + 1 .. Len(doc) /\ ~ (End(a) <= c)
      BY <1>0, <2>1
    <3> QED
      BY <1>0, <1>1, <1>2, <3>1
  <2> QED
    BY <1>0, <1>2, <2>1, <2>2 DEF Encloses
<1>3. ASSUME NEW b, Encloses(a, b) PROVE b = End(a) /\ S # {}
  <2>1. b \in a + 1 .. Len(doc) /\ WellNested(a, b) /\ b \in Nat /\ \A c \in a + 1 .. b - 1 : ~ WellNested(a, c)
    BY <1>0, <1>3 DEF Encloses
  <2>2. b \in S
    BY <1>0, <2>1
  <2>3. End(a) \in S /\ End(a) <= b
    BY <1>1, <2>2
  <2>4. ~ (End(a) \in a + 1 .. b - 1)
    BY <1>0, <2>1, <2>3
  <2>5. PICK e \in a + 1 .. Len(doc) : e = End(a)
    BY <1>0, <2>3
  <2>6. e <= b /\ ~ (e \in a + 1 .. b - 1)
    BY <2>3, <2>4, <2>5
  <2>7. e = b
    BY <1>0, <2>1, <2>5, <2>6
  <2> QED
    BY <2>2, <2>5, <2>7
<1> QED
  BY <1>0, <1>1, <1>2, <1>3 DEF S

(* The root, where it nests.                                               *)
LEMMA RootEncloses ==
  ASSUME ReaderOK, RootNests
  PROVE  /\ RootStart \in 0 .. Len(doc) - 1 /\ RootStart \in Nat
         /\ doc[RootStart + 1].type \in {"start", "empty"}
         /\ doc[RootStart + 1].name \in RootName
         /\ End(RootStart) \in RootStart + 1 .. Len(doc)
         /\ WellNested(RootStart, End(RootStart))
         /\ doc[RootStart + 1].type = "start" => Encloses(RootStart, End(RootStart))
<1>1. PICK i \in 1 .. Len(doc) :
        doc[i].type \in {"start", "empty"} /\ doc[i].name \in RootName /\ RootStart = i - 1
  BY DEF RootNests, HasRoot
<1>2. RootStart \in 0 .. Len(doc) - 1 /\ RootStart \in Nat /\ RootStart + 1 = i
  BY <1>1
<1>3. End(RootStart) \in Ends(RootStart) /\ End(RootStart) \in RootStart + 1 .. Len(doc)
  BY <1>2, EndIs DEF RootNests
<1> QED
  BY <1>1, <1>2, <1>3, EndIs DEF RootNests, Ends

(* Where a loop is under way, what it began at is open, if it nests.       *)
LEMMA BegunNests ==
  ASSUME Framing, Starts, Counted, Busy, NEW s, Begun(s),
         NEW a, NEW b, Encloses(a, b), a <= s, s < b
  PROVE  \E y : Encloses(s, y) /\ pos < y /\ y <= b /\ Visible(s) /\ s < pos /\ s \in Nat
<1>0. /\ ReaderOK /\ pos \in Nat /\ s \in Nat /\ s < pos /\ doc[s + 1].type = "start" /\ Visible(s)
      /\ a \in Nat /\ b \in Nat /\ b <= Len(doc) /\ Len(doc) \in Nat
  <2>1. ReaderOK /\ pos \in Nat /\ a \in Nat /\ b \in Nat /\ b <= Len(doc) /\ Len(doc) \in Nat
    BY EnclosedHeld DEF Framing, ReaderOK
  <2>2. CASE IsRoot(s)
    BY <2>1, <2>2 DEF Framing, RootBehind, IsRoot, Starts, Visible, Busy
  <2>3. CASE IsElement(s)
    BY <2>1, <2>3 DEF Framing, WalkOK, LoopsInPlace, IsElement, Starts, Visible
  <2>4. CASE IsChild(s)
    BY <2>1, <2>4 DEF Framing, WalkOK, LoopsInPlace, TagsStart, IsChild, InBody, Visible
  <2> QED
    BY <2>1, <2>2, <2>3, <2>4 DEF Begun
<1>1. \E y : Encloses(s, y) /\ y <= b /\ y \in 1 .. Len(doc)
  <2>1. CASE s = a
    BY <1>0, <2>1 DEF Encloses
  <2>2. CASE s # a
    <3>1. s \in a + 1 .. b - 1
      BY <1>0, <2>2
    <3>2. PICK y \in s + 1 .. b - 1 : Encloses(s, y)
      BY <1>0, <3>1, EnclosesWithin
    <3> QED
      BY <1>0, <3>2
  <2> QED
    BY <2>1, <2>2
<1>2. PICK y : Encloses(s, y) /\ y <= b /\ y \in 1 .. Len(doc)
  BY <1>1
<1>3. pos < y
  <2>1. s \in 0 .. pos - 1
    BY <1>0
  <2> QED
    BY <1>0, <1>2, <2>1 DEF Counted
<1> QED
  BY <1>0, <1>2, <1>3

(* Nothing fails within a tag that nests.                                  *)
LEMMA FailsOutside ==
  ASSUME Framing, Starts, OnTop, Counted, Busy \/ loop = "root", Fails,
         NEW a, NEW b, Encloses(a, b)
  PROVE  ~ (a <= pos /\ pos < b)
<1> SUFFICES ASSUME a <= pos, pos < b PROVE FALSE
  OBVIOUS
<1>0. /\ ReaderOK /\ pos \in Nat /\ a \in Nat /\ b \in Nat /\ doc[a + 1].type = "start"
      /\ ~ AtEof /\ Tok.type # "start" /\ LoopsInPlace
      /\ element \in Nat \cup {NoPos}
  BY EnclosedHeld DEF Framing, WalkOK, ReaderOK, Fails, Sees
<1>1. a < pos
  BY <1>0 DEF Tok
<1>2. CASE loop = "root"
  <2>1. a + 1 \in 1 .. pos
    BY <1>0, <1>1
  <2> QED
    BY <1>0, <1>2, <2>1 DEF Starts
<1>3. CASE Busy /\ Visible(a)
  BY <1>0, <1>1, <1>3, NestedRead
<1>4. CASE Busy /\ ~ Visible(a)
  <2>1. pass = "subtree" /\ ~ (element <= a) /\ IsElement(element) /\ element < pos /\ element \in Nat
    BY <1>0, <1>4 DEF Visible, Busy, LoopsInPlace, IsElement, NoPos
  <2>2. a <= element /\ element < b /\ Begun(element)
    BY <1>0, <2>1 DEF Begun
  <2>3. PICK y : Encloses(element, y) /\ pos < y /\ Visible(element)
    BY <1>4, <2>2, BegunNests
  <2> QED
    BY <1>0, <1>4, <2>1, <2>3, NestedRead
<1> QED
  BY <1>2, <1>3, <1>4

(* No loop is cut short within a tag that nests.                           *)
LEMMA CutShortOutside ==
  ASSUME Framing, Starts, OnTop, Counted, ReadsAll, TagsWithin, Busy, AtEof \/ Fails,
         NEW s, Begun(s), NEW a, NEW b, Encloses(a, b)
  PROVE  ~ (a <= s /\ s < b)
<1> SUFFICES ASSUME a <= s, s < b PROVE FALSE
  OBVIOUS
<1>1. PICK y : Encloses(s, y) /\ pos < y /\ y <= b /\ Visible(s) /\ s < pos /\ s \in Nat
  BY BegunNests
<1>2. /\ ReaderOK /\ pos \in Nat /\ y \in Nat /\ y \in 1 .. Len(doc) /\ limit \in Nat
      /\ pass \in {"document", "subtree"}
  BY <1>1, EnclosedHeld DEF Framing, ReaderOK, Encloses, WalkOK
<1>3. CASE AtEof
  <2>1. CASE pass = "document"
    BY <1>1, <1>2, <1>3, <2>1 DEF ReadsAll, AtEof
  <2>2. CASE pass = "subtree"
    <3>1. s \in element .. limit - 1
      <4>1. element \in Nat
        BY <2>2 DEF Busy, Framing, LoopsInPlace, WalkOK
      <4> QED
        BY <1>1, <1>2, <1>3, <2>2, <4>1 DEF Visible, AtEof
    <3>2. y <= limit
      BY <1>1, <1>2, <2>2, <3>1 DEF TagsWithin, Within
    <3> QED
      BY <1>1, <1>2, <1>3, <3>2 DEF AtEof
  <2> QED
    BY <1>2, <2>1, <2>2
<1>4. CASE Fails
  BY <1>1, <1>2, <1>4, NestedRead DEF Fails, Sees
<1> QED
  BY <1>3, <1>4

(* What an UnclosedTag that is new points at.                              *)
Alarm(s) ==
  \/ (Busy \/ loop = "root") /\ Fails /\ s = pos
  \/ Busy /\ (AtEof \/ Fails) /\ Begun(s)

(* And whatever it points at, it is one of these.                          *)
LEMMA AlarmFrom ==
  ASSUME Framing, Next, NEW d \in Unclosed'
  PROVE  d \in Unclosed \/ Alarm(d.from)
<1>0. LoopsInPlace /\ \A x, y : Diag("UnclosedTag", x, y).from = x
  BY DEF Framing, Diag
<1>1. d \in diags' /\ d.code = "UnclosedTag"
  BY DEF Unclosed
<1>2. d \in diags => d \in Unclosed
  BY <1>1 DEF Unclosed
<1>3. CASE Recover \/ RootGivesUp \/ MapperGivesUp \/ BodyGivesUp
  <2>1. (Busy \/ loop = "root") /\ Fails
    BY <1>3 DEF Recover, RootGivesUp, MapperGivesUp, BodyGivesUp, Busy
  <2>2. d \in diags \/ d = Diag("UnclosedTag", pos, pos) \/ d = NeverClosed(pos)
    BY <1>1, <1>3 DEF Recover, RootGivesUp, MapperGivesUp, BodyGivesUp, Report
  <2> QED
    BY <1>0, <1>2, <2>1, <2>2 DEF Alarm, NeverClosed
<1>4. CASE MapperEof
  <2>1. Busy /\ AtEof /\ IsRoot(RootStart)
    BY <1>0, <1>4 DEF MapperEof, Busy, IsRoot, LoopsInPlace
  <2>2. d \in diags \/ d = NeverClosed(RootStart)
    BY <1>1, <1>4 DEF MapperEof, Report
  <2> QED
    BY <1>0, <1>2, <2>1, <2>2 DEF Alarm, NeverClosed, Begun
<1>5. CASE BodyEof
  <2>1. Busy /\ AtEof /\ IsElement(element)
    BY <1>5 DEF BodyEof, Busy, IsElement
  <2>2. d \in diags \/ d = NeverClosed(element)
    BY <1>1, <1>5 DEF BodyEof, Report
  <2> QED
    BY <1>0, <1>2, <2>1, <2>2 DEF Alarm, NeverClosed, Begun
<1>6. CASE SkipAbandoned
  <2>1. Busy /\ (AtEof \/ Fails) /\ (IsElement(SkipStart) \/ IsChild(SkipStart))
    BY <1>6 DEF SkipAbandoned, Busy, IsElement, IsChild, SkipStart
  <2>2. d \in diags \/ d = NeverClosed(SkipStart)
    BY <1>1, <1>6 DEF SkipAbandoned, Report
  <2> QED
    BY <1>0, <1>2, <2>1, <2>2 DEF Alarm, NeverClosed, Begun
<1>7. CASE PassOver \/ RootForeign \/ RootMissing \/ MapperEmpty \/ BodySegment \/ SkipCloses
  <2>1. d \in diags \/ d.code # "UnclosedTag"
    BY <1>1, <1>7 DEF PassOver, RootForeign, RootMissing, MapperEmpty, BodySegment, SkipCloses,
       Report, EntityReport, UnknownReport, Diag
  <2> QED
    BY <1>1, <1>2, <2>1
<1>8. CASE RootOpens \/ RootEmpty \/ MapperCloses \/ MapperCaptures \/ MapperSkips \/ BodyCloses \/
           BodyIgnores \/ BodySkips \/ SkipCounts \/ TrailingIgnores \/ TrailingRecovers \/
           TrailingEnds \/ CaptureSubtree
  <2>1. diags' = diags
    BY <1>8 DEF RootOpens, RootEmpty, MapperCloses, MapperCaptures, MapperSkips, BodyCloses,
           BodyIgnores, BodySkips, SkipCounts, TrailingIgnores, TrailingRecovers,
           TrailingEnds, CaptureSubtree
  <2> QED
    BY <1>1, <1>2, <2>1
<1> QED
  BY <1>3, <1>4, <1>5, <1>6, <1>7, <1>8 DEF Next

(* Nothing that nests is blamed, nor ever will be.                         *)
LEMMA AlarmOutside ==
  ASSUME Framing, Starts, OnTop, Counted, ReadsAll, TagsWithin, NEW s, Alarm(s),
         NEW a, NEW b, Encloses(a, b)
  PROVE  ~ (a <= s /\ s < b)
BY FailsOutside, CutShortOutside DEF Alarm

(* Nothing that nests is blamed by a step.                                 *)
LEMMA QuietStep ==
  ASSUME Framing, Starts, OnTop, Counted, ReadsAll, TagsWithin, Quiet, Next
  PROVE  Quiet'
<1>1. doc' = doc
  BY ReaderSteps DEF Read, OpenOver
<1>2. \A a, b : Encloses(a, b)' <=> Encloses(a, b)
  BY <1>1, NestingStays
<1>3. SUFFICES ASSUME NEW a \in 0 .. Len(doc), NEW b \in 0 .. Len(doc), Encloses(a, b),
                      NEW d \in Unclosed'
               PROVE  d.from \notin a .. b - 1
  BY <1>1, <1>2 DEF Quiet
<1>4. CASE d \in Unclosed
  BY <1>3, <1>4 DEF Quiet
<1>5. CASE Alarm(d.from)
  <2>1. ~ (a <= d.from /\ d.from < b)
    BY <1>3, <1>5, AlarmOutside
  <2>2. b \in Nat
    OBVIOUS
  <2> QED
    BY <2>1, <2>2
<1> QED
  BY <1>4, <1>5, AlarmFrom

(* Every loop under way is within the root, if that nests.                 *)
LEMMA BusyInRoot ==
  ASSUME Framing, Starts, Counted, TagsInRoot, Busy, RootNests
  PROVE  /\ Encloses(RootStart, End(RootStart)) /\ RootStart < pos /\ pos < End(RootStart)
         /\ \A s : Begun(s) => RootStart <= s /\ s < End(RootStart) /\ s \in Nat
<1>0. /\ ReaderOK /\ pos \in Nat /\ LoopsInPlace /\ pass \in {"document", "subtree"}
      /\ RootStart \in Nat /\ End(RootStart) \in Nat
  BY RootEncloses DEF Framing, ReaderOK, WalkOK
<1>1. Encloses(RootStart, End(RootStart))
  BY <1>0, RootEncloses DEF Starts
<1>2. pass = "subtree" => RootStart <= element /\ IsElement(element) /\ element \in Nat
  <2> SUFFICES ASSUME pass = "subtree"
               PROVE  RootStart <= element /\ IsElement(element) /\ element \in Nat
    OBVIOUS
  <2>1. loop \in {"body", "skip"} /\ element \in Nat /\ element < pos /\ doc[element + 1].type = "start"
    BY <1>0 DEF Framing, WalkOK, LoopsInPlace, Busy, Starts
  <2>2. element + 1 \in 1 .. Len(doc)
    BY <1>0, <2>1 DEF ReaderOK
  <2>3. RootStart < element + 1
    BY <1>0, <2>1, <2>2, RootFirst
  <2> QED
    BY <1>0, <2>1, <2>3 DEF IsElement
<1>3. RootStart < pos /\ pos < End(RootStart)
  <2>1. CASE pass = "document"
    <3>1. Begun(RootStart) /\ RootStart <= RootStart /\ RootStart < End(RootStart)
      BY <1>0, <2>1, RootEncloses DEF Begun, IsRoot
    <3>2. PICK y : Encloses(RootStart, y) /\ pos < y /\ y <= End(RootStart) /\ RootStart < pos
      BY <1>1, <3>1, BegunNests
    <3>3. y \in Nat
      BY <1>0, <3>2, EnclosedHeld
    <3> QED
      BY <1>0, <3>2, <3>3
  <2>2. CASE pass = "subtree"
    <3>1. Begun(element) /\ RootStart <= element /\ element < End(RootStart)
      BY <1>2, <2>2 DEF TagsInRoot, Begun
    <3>2. PICK y : Encloses(element, y) /\ pos < y /\ y <= End(RootStart) /\ element < pos
      BY <1>1, <3>1, BegunNests
    <3>3. y \in Nat
      BY <1>0, <3>2, EnclosedHeld
    <3> QED
      BY <1>0, <1>2, <2>2, <3>1, <3>2, <3>3
  <2> QED
    BY <1>0, <2>1, <2>2
<1>4. ASSUME NEW s, Begun(s) PROVE RootStart <= s /\ s < pos /\ s \in Nat
  <2>1. CASE IsRoot(s)
    BY <1>0, <1>3, <2>1 DEF IsRoot
  <2>2. CASE IsElement(s)
    BY <1>0, <1>2, <2>2 DEF IsElement, Starts, LoopsInPlace, Framing, WalkOK
  <2>3. CASE IsChild(s)
    <3>1. loop = "skip" /\ child \in Nat /\ element < child /\ child < pos /\ s = child /\ element \in Nat
      BY <1>0, <2>3 DEF IsChild, InBody, LoopsInPlace, Framing, WalkOK
    <3>2. RootStart <= element
      BY <1>0, <1>2, <3>1 DEF Starts
    <3> QED
      BY <1>0, <3>1, <3>2
  <2> QED
    BY <1>4, <2>1, <2>2, <2>3 DEF Begun
<1> QED
  BY <1>0, <1>1, <1>3, <1>4

(* Whatever is handed over lies within the root, if that nests.            *)
LEMMA TagsInRootStep ==
  ASSUME Framing, Starts, Counted, TagsInRoot, Next
  PROVE  TagsInRoot'
<1>a. /\ segments \in Seq(Segment) /\ LoopsInPlace /\ doc' = doc /\ pos \in Nat
  BY ReaderSteps DEF Framing, FoundOK, Read, OpenOver, ReaderOK
<1>w. (RootNests' <=> RootNests) /\ End(RootStart)' = End(RootStart)
  <2>1. Ends(RootStart)' = Ends(RootStart) /\ RootStart' = RootStart
    BY <1>a, NestingStays DEF Ends, WellNested
  <2> QED
    BY <1>a, <2>1 DEF RootNests, HasRoot, End
<1>q. SUFFICES ASSUME RootNests PROVE TagsInRoot'
  BY <1>w DEF TagsInRoot
<1>r. \A t \in tags : t.from < End(RootStart)
  BY <1>q DEF TagsInRoot
<1>p. pass' = "subtree" => element' < End(RootStart)
  <2>1. CASE CaptureSubtree
    <3>1. PICK t \in tags : CaptureSubtree!2!(t)
      BY <2>1, Zenon DEF CaptureSubtree
    <3>2. CASE doc[t.from + 1].type = "empty"
      BY <1>q, <3>1, <3>2 DEF place, TagsInRoot
    <3>3. CASE doc[t.from + 1].type # "empty"
      BY <1>r, <3>1, <3>3
    <3> QED
      BY <3>2, <3>3
  <2>2. CASE ~ CaptureSubtree
    <3>2. pass' = pass /\ (pass = "subtree" => element' = element)
      BY <1>a, <2>2 DEF Next, LoopsInPlace, Recover, PassOver, RootOpens, RootEmpty,
         RootForeign,
         RootMissing, RootGivesUp, MapperCloses, MapperDone, MapperEof, MapperGivesUp,
         MapperCaptures, MapperSkips, MapperEmpty, BodyCloses, BodyEnds, BodyEof,
         BodyGivesUp, BodySegment, BodyIgnores, BodySkips, SkipCounts, SkipCloses,
         SkipAbandoned, TrailingIgnores, TrailingRecovers, TrailingEnds, place, found
    <3> QED
      BY <1>q, <3>2 DEF TagsInRoot
  <2> QED
    BY <2>1, <2>2
<1>b. ASSUME \A t \in tags' : t \in tags \/ \E i \in DOMAIN segments : t = segments[i],
             segments' \in {segments, << >>}
      PROVE  TagsInRoot'
  <2>1. \A t \in tags' : t.from < End(RootStart)
    BY <1>b, <1>q DEF TagsInRoot
  <2>2. \A i \in DOMAIN segments' : i \in DOMAIN segments /\ segments'[i] = segments[i]
    BY <1>b
  <2>3. \A i \in DOMAIN segments' : segments'[i].from < End(RootStart)
    BY <1>q, <2>2 DEF TagsInRoot
  <2> QED
    BY <1>w, <1>p, <2>1, <2>3 DEF TagsInRoot
<1>c. ASSUME NEW s, s.from < End(RootStart), segments' = Append(segments, s), tags' = tags
      PROVE  TagsInRoot'
  <2>1. \A i \in DOMAIN segments' :
          segments'[i] = s \/ (i \in DOMAIN segments /\ segments'[i] = segments[i])
    BY <1>a, <1>c
  <2>2. \A i \in DOMAIN segments' : segments'[i].from < End(RootStart)
    BY <1>q, <1>c, <2>1 DEF TagsInRoot
  <2> QED
    BY <1>w, <1>p, <1>r, <1>c, <2>2 DEF TagsInRoot
<1>d. ASSUME NEW end, NEW truncated, BodyEnds(segments, end, truncated)
      PROVE  TagsInRoot'
  BY <1>b, <1>d DEF BodyEnds
<1>1. CASE Recover \/ PassOver \/ RootOpens \/ RootEmpty \/ RootForeign \/
          RootMissing \/ RootGivesUp \/ MapperCloses \/ MapperEof \/
          MapperGivesUp \/ MapperCaptures \/ MapperSkips \/ MapperEmpty
  BY <1>1, <1>b DEF Recover, PassOver, RootOpens, RootEmpty, RootForeign,
      RootMissing, RootGivesUp, MapperCloses, MapperDone, MapperEof,
      MapperGivesUp, MapperCaptures, MapperSkips, MapperEmpty, place, found
<1>2. CASE BodyCloses \/ BodyEof \/ BodyGivesUp
  BY <1>2, <1>d DEF BodyCloses, BodyEof, BodyGivesUp
<1>3. CASE BodySegment
  <2> DEFINE s == [type |-> IF Tok.type = "empty" THEN "tag" ELSE "text",
                   from |-> pos, to |-> pos + 1]
  <2>1. segments' = Append(segments, s) /\ tags' = tags /\ Busy
    BY <1>3 DEF BodySegment, Busy
  <2>2. s.from < End(RootStart)
    BY <1>q, <2>1, BusyInRoot
  <2> HIDE DEF s
  <2> QED
    BY <2>1, <2>2, <1>c
<1>4. CASE BodyIgnores \/ BodySkips \/ SkipCounts
  BY <1>4, <1>b DEF BodyIgnores, BodySkips, SkipCounts, place, found
<1>5. CASE SkipCloses
  <2>1. CASE InBody
    <3> DEFINE s == [type |-> "tag", from |-> child, to |-> pos + 1]
    <3>1. segments' = Append(segments, s) /\ tags' = tags /\ Busy
      BY <1>5, <2>1 DEF SkipCloses, Busy
    <3>2. Begun(child)
      BY <2>1 DEF Begun, IsChild
    <3>3. s.from < End(RootStart)
      BY <1>q, <3>1, <3>2, BusyInRoot
    <3> HIDE DEF s
    <3> QED
      BY <3>1, <3>3, <1>c
  <2>2. CASE ~ InBody
    BY <1>5, <2>2, <1>b DEF SkipCloses
  <2> QED
    BY <2>1, <2>2
<1>6. CASE SkipAbandoned
  <2>1. CASE InBody
    BY <1>6, <2>1, <1>d DEF SkipAbandoned
  <2>2. CASE ~ InBody
    BY <1>6, <2>2, <1>b DEF SkipAbandoned, found
  <2> QED
    BY <2>1, <2>2
<1>7. CASE TrailingIgnores \/ TrailingRecovers \/ TrailingEnds
  BY <1>7, <1>b DEF TrailingIgnores, TrailingRecovers, TrailingEnds, place,
      found
<1>8. CASE CaptureSubtree
  BY <1>8, <1>b DEF CaptureSubtree, place, found
<1> QED
  BY <1>1, <1>2, <1>3, <1>4, <1>5, <1>6, <1>7, <1>8 DEF Next

(* Where the root nests, only what precedes it is blamed.                  *)
LEMMA RootQuietStep ==
  ASSUME Framing, Starts, OnTop, Counted, ReadsAll, TagsWithin, TagsInRoot, RootQuiet, Next
  PROVE  RootQuiet'
<1>1. doc' = doc /\ ReaderOK /\ pos \in Nat
  BY ReaderSteps DEF Read, OpenOver, Framing, ReaderOK
<1>2. RootStart' = RootStart /\ (RootNests' <=> RootNests)
  <2>1. Ends(RootStart)' = Ends(RootStart) /\ RootStart' = RootStart
    BY <1>1, NestingStays DEF Ends, WellNested
  <2> QED
    BY <1>1, <2>1 DEF RootNests, HasRoot
<1>3. SUFFICES ASSUME RootNests, NEW d \in Unclosed'
               PROVE  d.from < RootStart
  BY <1>1, <1>2 DEF RootQuiet
<1>4. CASE d \in Unclosed
  BY <1>3, <1>4 DEF RootQuiet
<1>5. CASE Alarm(d.from)
  <2>1. CASE Busy
    <3>1. /\ Encloses(RootStart, End(RootStart)) /\ RootStart < pos /\ pos < End(RootStart)
          /\ \A s : Begun(s) => RootStart <= s /\ s < End(RootStart)
      BY <1>3, <2>1, BusyInRoot
    <3>2. RootStart <= d.from /\ d.from < End(RootStart)
      BY <1>1, <1>3, <1>5, <3>1, RootEncloses DEF Alarm
    <3> QED
      BY <1>5, <3>1, <3>2, AlarmOutside
  <2>2. CASE ~ Busy
    <3>1. loop = "root" /\ Fails /\ d.from = pos
      BY <1>5, <2>2 DEF Alarm
    <3>2. RootStart \in Nat /\ doc[RootStart + 1].type \in {"start", "empty"}
      BY <1>1, <1>3, RootEncloses
    <3>3. RootStart # pos
      BY <3>1, <3>2 DEF Fails, Sees, Tok
    <3>4. ~ (RootStart < pos)
      <4>1. RootStart < pos => RootStart + 1 \in 1 .. pos
        BY <1>1, <3>2
      <4> QED
        BY <3>1, <3>2, <4>1 DEF Starts
    <3> QED
      BY <1>1, <3>1, <3>2, <3>3, <3>4
  <2> QED
    BY <2>1, <2>2
<1> QED
  BY <1>4, <1>5, AlarmFrom

(* Nesting, as the loops go along: what the theorems below stand on.       *)
Keeps == Starts /\ OnTop /\ Counted /\ ReadsAll /\ TagsWithin /\ TagsInRoot /\ Quiet /\ RootQuiet

(* It is so before the walk.                                               *)
LEMMA InitKeeps == Init => Keeps
<1> SUFFICES ASSUME Init PROVE Keeps
  OBVIOUS
<1>1. Starts /\ OnTop /\ Counted /\ ReadsAll /\ TagsWithin /\ TagsInRoot
  BY DEF Init, Starts, OnTop, Counted, Busy, ReadsAll, TagsWithin, TagsInRoot
<1>2. Unclosed = {}
  BY DEF Init, Unclosed
<1>3. Quiet /\ RootQuiet
  BY <1>2 DEF Quiet, RootQuiet
<1> QED
  BY <1>1, <1>3 DEF Keeps

(* It stays so.                                                            *)
LEMMA KeepsStep ==
  ASSUME Framing, Keeps, [Next]_vars
  PROVE  Keeps'
<1>1. CASE Next
  BY <1>1, StartsStep, OnTopStep, CountedStep, ReadsAllStep, TagsWithinStep, TagsInRootStep,
     QuietStep, RootQuietStep DEF Keeps
<1>2. CASE UNCHANGED vars
  <2>1. /\ UNCHANGED <<doc, limit, pos, open, pass, loop, element, child, depth>>
        /\ UNCHANGED <<lastErr, segments, elements, tags, mapper, diags>>
    BY <1>2 DEF vars, place, found
  <2>2. /\ \A a : Nesting(a)' = Nesting(a)
        /\ \A a, b : Encloses(a, b)' <=> Encloses(a, b)
        /\ RootStart' = RootStart /\ HasRoot' = HasRoot /\ Unclosed' = Unclosed
    BY <2>1, NestingStays DEF HasRoot, Unclosed
  <2>3. End(RootStart)' = End(RootStart) /\ (RootNests' <=> RootNests)
    <3>1. Ends(RootStart)' = Ends(RootStart)
      BY <2>1, <2>2 DEF Ends, WellNested
    <3> QED
      BY <2>1, <2>2, <3>1 DEF RootNests, End
  <2>4. Starts' /\ ReadsAll'
    BY <2>1, <2>2 DEF Keeps, Starts, ReadsAll, Busy
  <2>5. OnTop' /\ Counted'
    BY <2>1, <2>2 DEF Keeps, OnTop, AllOnTop, Counted, Busy, Visible, OpenAt, Begun, IsRoot,
       IsElement, IsChild,
       InBody, SkipStart, RootLevel, ElementLevel
  <2>6. TagsWithin' /\ TagsInRoot' /\ Quiet' /\ RootQuiet'
    BY <2>1, <2>2, <2>3 DEF Keeps, TagsWithin, TagsInRoot, Quiet, RootQuiet, Within
  <2> QED
    BY <2>4, <2>5, <2>6 DEF Keeps
<1> QED
  BY <1>1, <1>2

(* So it always is.                                                        *)
THEOREM AlwaysKeeps == Spec => []Keeps
BY InitKeeps, KeepsStep, AlwaysFraming, PTL DEF Spec

(* No UnclosedTag points into a tag whose tags nest: not on the first      *)
(* reading, from where the root starts, nor on the second reading of any   *)
(* captured tag.                                                           *)
THEOREM NothingBlamedThatNests == Spec => []NoFalseAlarm
<1>1. Framing /\ Keeps => NoFalseAlarm
  <2> SUFFICES ASSUME Framing, Keeps, NEW d \in Unclosed
               PROVE  /\ RootNests => d.from < RootStart
                      /\ pass = "subtree" /\ WellNested(element, limit) =>
                           d.from \notin element .. limit - 1
    BY DEF NoFalseAlarm
  <2>1. RootNests => d.from < RootStart
    BY DEF Keeps, RootQuiet
  <2>2. ASSUME pass = "subtree", WellNested(element, limit), d.from \in element .. limit - 1
        PROVE  FALSE
    <3>1. ReaderOK /\ limit \in Nat /\ limit <= Len(doc) /\ Len(doc) \in Nat /\ element \in Nat
      BY <2>2 DEF Framing, ReaderOK, Keeps, ReadsAll
    <3>2. doc[element + 1].type = "start" /\ Within(element, limit) /\ element < limit
      BY <2>2, <3>1 DEF Keeps, Starts, TagsWithin
    <3>3. element \in 0 .. Len(doc) - 1 /\ limit \in Ends(element)
      BY <2>2, <3>1, <3>2 DEF Ends
    <3>4. PICK e \in 1 .. Len(doc) : Encloses(element, e)
      <4>1. Encloses(element, End(element)) /\ End(element) \in element + 1 .. Len(doc)
        BY <3>1, <3>2, <3>3, EndIs
      <4> QED
        BY <3>1, <4>1
    <3>5. e = limit
      BY <3>1, <3>2, <3>4 DEF Within
    <3> QED
      BY <2>2, <3>1, <3>4, <3>5 DEF Keeps, Quiet
  <2> QED
    BY <2>1, <2>2
<1> QED
  BY <1>1, AlwaysFraming, AlwaysKeeps, PTL

-----------------------------------------------------------------------------
(* What the walk tells of a document.                                      *)

(* Before there is anything to report, the reader holds open just what     *)
(* nests; and no mapper whose tags do not nest gets by unreported.         *)
Plain ==
  pass = "document" /\ Unclosed = {} =>
    /\ Busy => open = Nesting(RootStart)[pos]
    /\ mapper /\ loop \in {"trailing", "done"} => RootNests

(* A root that nests is behind once the loops have left it.                *)
RootPast ==
  /\ loop = "root" => ~ mapper
  /\ pass = "document" /\ RootNests /\ (loop = "trailing" \/ (loop = "done" /\ mapper)) =>
       End(RootStart) <= pos

(* What is walked within the root is a child of it, captured by name, and  *)
(* what is skipped in that a child of it.                                  *)
Placed ==
  pass = "document" /\ RootNests =>
    \A e : IsElement(e) =>
      /\ e \in RootChildren
      /\ doc[e + 1].name \in CapturedName <=> loop = "body" \/ InBody
      /\ \A c : IsChild(c) => c \in Children(e, {"start"})

(* Those of some places that the walk is done with.                        *)
Done(P) == {i \in P : i < pos /\ ~ IsElement(i)}

(* The tokens at which segments start, and those the walk is done with.    *)
SegmentType == {"start", "empty", "text", "amp"}
DoneIn(P) == {i \in P : i < pos /\ ~ IsChild(i)}

(* In a root that nests, the elements collected are those the walk is done *)
(* with.                                                                   *)
ElementsTold ==
  pass = "document" /\ RootNests =>
    {elements[k] : k \in DOMAIN elements} = {ElementAt(i) : i \in Done(Captured)}

(* The same of the segments of the element under way.                      *)
SegmentsTold ==
  pass = "document" /\ RootNests /\ (loop = "body" \/ InBody) =>
    \A e : IsElement(e) =>
      {segments[k] : k \in DOMAIN segments} =
        {SegmentAt(i) : i \in DoneIn(Children(e, SegmentType))}

(* The same of the strays.                                                 *)
StraysTold ==
  pass = "document" /\ RootNests =>
    {d \in diags : d.code = "UnknownElement"} =
      {Diag("UnknownElement", i, End(i)) : i \in Done(Stray)}

-----------------------------------------------------------------------------
(* Where the walk is within a root that nests.                             *)

(* What is no tag with a body ends with itself.                            *)
LEMMA Alone ==
  ASSUME ReaderOK, NEW i \in 0 .. Len(doc) - 1,
         doc[i + 1].type \in {"empty", "text", "amp", "comment"}
  PROVE  End(i) = i + 1 /\ Ends(i) # {}
<1>0. /\ i \in Nat /\ i \in 0 .. Len(doc) /\ i \in i .. Len(doc) - 1 /\ i + 1 \in i + 1 .. Len(doc)
      /\ Len(doc) \in Nat
  BY DEF ReaderOK
<1>1. Nesting(i)[i] = << >> /\ Nesting(i)[i + 1] = Nested(Nesting(i)[i], doc[i + 1])
  BY <1>0, NestingGrows
<1>2. << >> # Broken
  <2>1. << >> \in Seq(TagName)
    OBVIOUS
  <2> QED
    BY <2>1, NamesNest
<1>3. Nested(<< >>, doc[i + 1]) = << >>
  BY <1>2 DEF Nested
<1>4. i + 1 \in Ends(i)
  BY <1>0, <1>1, <1>3 DEF Ends, WellNested
<1>5. End(i) \in i + 1 .. Len(doc) /\ End(i) <= i + 1
  BY <1>4, EndIs
<1> QED
  BY <1>0, <1>4, <1>5

(* Where a loop is within the root, it began at a tag that nests.          *)
LEMMA Deep ==
  ASSUME Framing, Keeps, Busy, pass = "document", RootNests, NEW s, Begun(s)
  PROVE  /\ Encloses(s, End(s)) /\ s < pos /\ pos < End(s) /\ End(s) <= End(RootStart)
         /\ s \in Nat /\ End(s) \in Nat
         /\ OpenAt(s, Len(Nesting(s)[pos]))
<1>0. /\ ReaderOK /\ Starts /\ Counted /\ TagsInRoot /\ pos \in Nat
  BY DEF Framing, ReaderOK, Keeps
<1>1. /\ Encloses(RootStart, End(RootStart))
      /\ RootStart <= s /\ s < End(RootStart)
  BY <1>0, BusyInRoot
<1>2. PICK y : Encloses(s, y) /\ pos < y /\ y <= End(RootStart) /\ Visible(s) /\ s < pos /\ s \in Nat
  BY <1>0, <1>1, BegunNests
<1>3. y \in Nat /\ s \in 0 .. Len(doc) - 1 /\ y \in 1 .. Len(doc) /\ s \in 0 .. pos - 1
  BY <1>0, <1>2, EnclosedHeld DEF Encloses
<1>4. y = End(s)
  BY <1>0, <1>2, <1>3, EndIs
<1>5. PICK n : n = Len(Nesting(s)[pos])
  OBVIOUS
<1>6. OpenAt(s, n)
  BY <1>0, <1>2, <1>3, <1>5 DEF Counted, OpenAt
<1> QED
  BY <1>2, <1>3, <1>4, <1>5, <1>6

(* How far the loops have got, within a root that nests.                   *)
Placing ==
  /\ ~ Fails /\ ~ AtEof
  /\ RootStart \in Nat /\ RootStart < pos /\ End(RootStart) \in Nat /\ pos < End(RootStart)
  /\ Len(Nesting(RootStart)[pos]) = RootLevel
  /\ Closes /\ loop = "mapper" => End(RootStart) = pos + 1
  /\ loop \in {"body", "skip"} =>
       /\ element \in Nat /\ RootStart < element /\ element < pos
       /\ End(element) \in Nat /\ pos < End(element)
       /\ Len(Nesting(element)[pos]) = ElementLevel
       /\ Closes /\ (loop = "body" \/ (~ InBody /\ depth = 1)) => End(element) = pos + 1
  /\ InBody =>
       /\ child \in Nat /\ element < child /\ child < pos
       /\ Closes /\ depth = 1 => End(child) = pos + 1

(* That is how far they have got.                                          *)
LEMMA PlacedInRoot ==
  ASSUME Framing, Keeps, Busy, pass = "document", RootNests
  PROVE  Placing
<1>0. /\ ReaderOK /\ Starts /\ Counted /\ TagsInRoot /\ OnTop /\ ReadsAll /\ TagsWithin
      /\ LoopsInPlace /\ pos \in Nat /\ depth \in Nat /\ RootStart \in Nat
  BY RootEncloses DEF Framing, ReaderOK, Keeps, WalkOK
<1>1. Begun(RootStart) /\ IsRoot(RootStart)
  BY DEF Begun, IsRoot
<1>2. /\ Encloses(RootStart, End(RootStart)) /\ RootStart < pos /\ pos < End(RootStart)
      /\ End(RootStart) \in Nat /\ OpenAt(RootStart, Len(Nesting(RootStart)[pos]))
  BY <1>1, Deep
<1>3. ~ Fails
  BY <1>0, <1>2, FailsOutside
<1>4. ~ AtEof
  BY <1>0, <1>1, <1>2, CutShortOutside
<1>5. /\ loop \in {"body", "skip"} => element \in Nat /\ RootStart < element /\ element < pos
      /\ InBody => loop = "skip" /\ child \in Nat /\ element < child /\ child < pos
  BY <1>0 DEF Starts, LoopsInPlace, InBody, Framing, WalkOK
<1>6. Len(Nesting(RootStart)[pos]) = RootLevel
  <2>1. PICK n : n = Len(Nesting(RootStart)[pos])
    OBVIOUS
  <2>2. OpenAt(RootStart, n)
    BY <1>2, <2>1
  <2>3. n = RootLevel
    BY <1>0, <1>5, <2>2 DEF OpenAt, IsElement, IsChild, SkipStart
  <2> QED
    BY <2>1, <2>3
<1>7. ASSUME NEW s, Encloses(s, End(s)), s < pos, pos < End(s), Closes,
             Len(Nesting(s)[pos]) = 1
      PROVE  End(s) = pos + 1
  <2>0. Visible(s)
    BY DEF Visible
  <2>1. PICK n, m : n = Len(Nesting(s)[pos]) /\ m = Len(Nesting(s)[pos + 1])
    OBVIOUS
  <2>2. m \in Nat /\ (m = 0 <=> pos + 1 = End(s)) /\ Shift(n, m)
    BY <1>0, <1>4, <1>7, <2>0, <2>1, NestedRead
  <2>3. m = 0
    BY <1>7, <2>1, <2>2 DEF Shift, Closes, Sees
  <2> QED
    BY <2>2, <2>3
<1>9. Closes /\ loop = "mapper" => End(RootStart) = pos + 1
  <2> SUFFICES ASSUME Closes, loop = "mapper" PROVE End(RootStart) = pos + 1
    OBVIOUS
  <2>1. Len(Nesting(RootStart)[pos]) = 1
    BY <1>6 DEF RootLevel
  <2> QED
    BY <1>2, <1>7, <2>1
<1>10. loop \in {"body", "skip"} =>
         /\ End(element) \in Nat /\ pos < End(element)
         /\ Len(Nesting(element)[pos]) = ElementLevel
         /\ Closes /\ (loop = "body" \/ (~ InBody /\ depth = 1)) => End(element) = pos + 1
  <2> SUFFICES ASSUME loop \in {"body", "skip"}
               PROVE  /\ End(element) \in Nat /\ pos < End(element)
                      /\ Len(Nesting(element)[pos]) = ElementLevel
                      /\ Closes /\ (loop = "body" \/ (~ InBody /\ depth = 1)) => End(element) = pos + 1
    OBVIOUS
  <2>1. Begun(element)
    BY DEF Begun, IsElement
  <2>2. /\ Encloses(element, End(element)) /\ pos < End(element) /\ End(element) \in Nat
        /\ OpenAt(element, Len(Nesting(element)[pos])) /\ element \in Nat /\ element < pos
    BY <2>1, Deep
  <2>3. PICK n : n = Len(Nesting(element)[pos])
    OBVIOUS
  <2>4. OpenAt(element, n)
    BY <2>2, <2>3
  <2>5. n = ElementLevel
    BY <1>0, <1>5, <2>4 DEF OpenAt, IsRoot, IsChild, SkipStart
  <2>6. ASSUME Closes, loop = "body" \/ (~ InBody /\ depth = 1) PROVE End(element) = pos + 1
    <3>1. n = 1
      BY <1>0, <2>5, <2>6 DEF ElementLevel
    <3> QED
      BY <1>7, <2>2, <2>3, <2>6, <3>1
  <2> QED
    BY <2>2, <2>3, <2>5, <2>6
<1>11. InBody /\ Closes /\ depth = 1 => End(child) = pos + 1
  <2> SUFFICES ASSUME InBody, Closes, depth = 1 PROVE End(child) = pos + 1
    OBVIOUS
  <2>1. Begun(child)
    BY DEF Begun, IsChild
  <2>2. /\ Encloses(child, End(child)) /\ pos < End(child)
        /\ OpenAt(child, Len(Nesting(child)[pos])) /\ child \in Nat /\ child < pos
    BY <2>1, Deep
  <2>3. PICK n : n = Len(Nesting(child)[pos])
    OBVIOUS
  <2>4. OpenAt(child, n)
    BY <2>2, <2>3
  <2>5. n = 1
    BY <1>0, <1>5, <2>4 DEF OpenAt, IsRoot, IsElement, SkipStart
  <2> QED
    BY <1>7, <2>2, <2>3, <2>5
<1> QED
  BY <1>2, <1>3, <1>4, <1>5, <1>6, <1>9, <1>10, <1>11, <1>0 DEF Placing

(* Which tokens are children of the root and of the element under way.     *)
LEMMA ChildHere ==
  ASSUME Framing, Keeps, Busy, pass = "document", RootNests, NEW types
  PROVE  /\ pos \in Children(RootStart, types) <=> Tok.type \in types /\ loop = "mapper"
         /\ loop = "body" \/ InBody =>
              (pos \in Children(element, types) <=> Tok.type \in types /\ loop = "body")
<1>0. Placing /\ pos \in Nat /\ depth \in Nat /\ LoopsInPlace
  BY PlacedInRoot DEF Framing, ReaderOK, WalkOK
<1>1. pos \in Children(RootStart, types) <=> Tok.type \in types /\ RootLevel = 1
  <2>1. pos \in RootStart + 1 .. End(RootStart) - 1 /\ Len(Nesting(RootStart)[pos]) = RootLevel
    BY <1>0 DEF Placing
  <2> QED
    BY <2>1 DEF Children, Tok
<1>2. RootLevel = 1 <=> loop = "mapper"
  BY <1>0 DEF RootLevel, ElementLevel, LoopsInPlace, Busy
<1>3. ASSUME loop = "body" \/ InBody
      PROVE  pos \in Children(element, types) <=> Tok.type \in types /\ loop = "body"
  <2>1. loop \in {"body", "skip"} /\ (InBody => loop = "skip")
    BY <1>0, <1>3 DEF LoopsInPlace, InBody, Busy
  <2>2. pos \in Children(element, types) <=> Tok.type \in types /\ ElementLevel = 1
    <3>1. pos \in element + 1 .. End(element) - 1 /\ Len(Nesting(element)[pos]) = ElementLevel
      BY <1>0, <2>1 DEF Placing
    <3> QED
      BY <3>1 DEF Children, Tok
  <2>3. ElementLevel = 1 <=> loop = "body"
    BY <1>0, <1>3, <2>1 DEF ElementLevel, LoopsInPlace
  <2> QED
    BY <2>2, <2>3
<1> QED
  BY <1>1, <1>2, <1>3

(* Whatever the document says stays.                                       *)
LEMMA RootStays ==
  ASSUME doc' = doc
  PROVE  /\ \A a : Nesting(a)' = Nesting(a) /\ Ends(a)' = Ends(a) /\ End(a)' = End(a)
         /\ \A a, types : Children(a, types)' = Children(a, types)
         /\ RootStart' = RootStart /\ (HasRoot' <=> HasRoot) /\ (RootNests' <=> RootNests)
<1>1. \A a : Nesting(a)' = Nesting(a)
  BY DEF Nesting
<1>2. \A a : Ends(a)' = Ends(a)
  BY <1>1 DEF Ends, WellNested
<1>3. \A a : End(a)' = End(a)
  BY <1>2 DEF End
<1>4. RootStart' = RootStart
  BY DEF RootStart
<1>5. HasRoot' <=> HasRoot
  BY <1>4 DEF HasRoot
<1>6. RootNests' <=> RootNests
  BY <1>2, <1>4, <1>5 DEF RootNests
<1>7. \A a, types : Children(a, types)' = Children(a, types)
  BY <1>1, <1>3 DEF Children
<1> QED
  BY <1>1, <1>2, <1>3, <1>4, <1>5, <1>6, <1>7

(* The next token, where the reader finds no fault with it.                *)
LEMMA NestsOn ==
  ASSUME ReaderOK, ~ AtEof, Read, ~ Fails, NEW a \in 0 .. pos, open = Nesting(a)[pos]
  PROVE  open' = Nesting(a)[pos + 1] /\ pos' = pos + 1
<1>0. /\ open \in Seq(TagName) /\ pos \in Nat /\ limit \in Nat /\ limit <= Len(doc) /\ Len(doc) \in Nat
      /\ pos # limit /\ pos <= limit /\ Tok.type \notin {"bad", "stuck"} /\ pos' = pos + 1
  BY DEF ReaderOK, AtEof, Fails, Sees, Read
<1>1. a \in 0 .. Len(doc) /\ pos \in a .. Len(doc) - 1
  BY <1>0
<1>2. Nesting(a)[pos + 1] = Nested(open, Tok)
  BY <1>1, NestingGrows DEF Tok
<1>3. open # Broken
  BY <1>0, NamesNest
<1>4. Nested(open, Tok) = open'
  <2>1. CASE Tok.type = "start"
    BY <1>0, <1>3, <2>1 DEF Nested, Read
  <2>2. CASE Tok.type = "end"
    <3>1. open # << >> /\ Tok.name = open[Len(open)]
      BY <1>0, <2>2 DEF Fails, Closes, Sees
    <3> QED
      BY <1>0, <1>3, <2>2, <3>1 DEF Nested, Read, Last, Front
  <2>3. CASE Tok.type \notin {"start", "end"}
    BY <1>0, <1>3, <2>3 DEF Nested, Read
  <2> QED
    BY <2>1, <2>2, <2>3
<1> QED
  BY <1>0, <1>2, <1>4

(* A self-closed root nests.                                               *)
LEMMA RootOpensHere ==
  ASSUME Framing, Starts, RootOpens \/ RootEmpty
  PROVE  /\ RootStart = pos /\ pos' = pos + 1 /\ HasRoot
         /\ RootOpens => open' = Nesting(RootStart)[pos + 1]
         /\ RootEmpty => RootNests /\ End(RootStart) = pos + 1
<1>1. /\ ReaderOK /\ LoopsInPlace /\ pos \in Nat /\ loop = "root" /\ ~ AtEof /\ Read
      /\ Tok.type \in {"start", "empty"} /\ (RootOpens => Tok.type = "start")
      /\ (RootEmpty => Tok.type = "empty") /\ Tok.name \in RootName /\ open = << >> /\ pos' = pos + 1
  BY DEF Framing, ReaderOK, LoopsInPlace, RootOpens, RootEmpty, Sees, Read
<1>2. RootStart = pos /\ HasRoot
  BY <1>1, RootHere
<1>3. ~ Fails /\ pos \in 0 .. pos /\ pos \in 0 .. Len(doc) - 1 /\ pos \in 0 .. Len(doc)
  BY <1>1 DEF Fails, Sees, ReaderOK, AtEof
<1>4. open = Nesting(pos)[pos]
  BY <1>1, <1>3, NestingGrows
<1>5. open' = Nesting(pos)[pos + 1]
  BY <1>1, <1>3, <1>4, NestsOn
<1>6. RootEmpty => Ends(pos) # {} /\ End(pos) = pos + 1
  BY <1>1, <1>3, Alone DEF Tok
<1> QED
  BY <1>1, <1>2, <1>5, <1>6 DEF RootNests

(* As long as there is nothing to report, the reader holds open what is.   *)
LEMMA PlainStep ==
  ASSUME Framing, Keeps, ReaderAgrees, Plain, Next
  PROVE  Plain'
<1>0. /\ ReaderOK /\ LoopsInPlace /\ Starts /\ RootBehind /\ doc' = doc /\ pos \in Nat
      /\ RootStart' = RootStart /\ (RootNests' <=> RootNests) /\ (HasRoot' <=> HasRoot)
      /\ pass \in {"document", "subtree"}
  <2>1. doc' = doc
    BY ReaderSteps DEF Read, OpenOver
  <2> QED
    BY <2>1, RootStays DEF Framing, WalkOK, Keeps, ReaderOK
<1>1. SUFFICES ASSUME pass' = "document", Unclosed' = {} PROVE Plain'
  BY DEF Plain
<1>2. \A a : Nesting(a)' = Nesting(a)
  BY <1>0, RootStays
<1>3. \A d \in diags' : d.code # "UnclosedTag"
  BY <1>1 DEF Unclosed
<1>4. ASSUME diags \subseteq diags' PROVE Unclosed = {}
  BY <1>3, <1>4 DEF Unclosed
<1>5. \A x, y : Diag("UnclosedTag", x, y).code = "UnclosedTag"
  BY DEF Diag
<1>a. ASSUME Busy, pass = "document", ~ AtEof, Read, ~ Fails, diags \subseteq diags', Busy'
      PROVE  Plain'
  <2>1. RootStart \in 0 .. pos /\ open = Nesting(RootStart)[pos]
    BY <1>0, <1>a, <1>4 DEF Plain, RootBehind, Busy
  <2>2. open' = Nesting(RootStart)[pos + 1] /\ pos' = pos + 1
    BY <1>0, <1>a, <2>1, NestsOn
  <2>3. loop' \notin {"trailing", "done"}
    BY <1>a DEF Busy
  <2> QED
    BY <1>0, <1>2, <2>2, <2>3 DEF Plain
<1>b. ASSUME ~ Busy', RootNests PROVE Plain'
  BY <1>0, <1>b DEF Plain
<1>c. ASSUME ~ Busy', ~ HasRoot PROVE Plain'
  <2>1. ~ mapper'
    BY <1>0, <1>c, StartsStep DEF Starts
  <2> QED
    BY <1>c, <2>1 DEF Plain
<1>6. CASE Recover \/ RootGivesUp \/ MapperEof \/ MapperGivesUp \/ BodyEof \/ BodyGivesUp \/
           SkipAbandoned
  <2>1. \E x, y : Diag("UnclosedTag", x, y) \in diags'
    BY <1>6 DEF Recover, RootGivesUp, MapperEof, MapperGivesUp, BodyEof, BodyGivesUp,
       SkipAbandoned, Report, NeverClosed
  <2> QED
    BY <1>3, <1>5, <2>1
<1>7. CASE RootOpens
  <2>1. open' = Nesting(RootStart)[pos + 1] /\ pos' = pos + 1 /\ loop' = "mapper"
    BY <1>0, <1>7, RootOpensHere DEF RootOpens
  <2> QED
    BY <1>0, <1>2, <2>1 DEF Plain
<1>8. CASE RootEmpty
  <2>1. RootNests /\ ~ Busy'
    BY <1>0, <1>8, RootOpensHere DEF RootEmpty, Busy
  <2> QED
    BY <1>b, <2>1
<1>9. CASE RootForeign
  <2>1. loop = "root" /\ ~ AtEof /\ Tok.type \in {"start", "empty"} /\ Tok.name \notin RootName /\ ~ Busy'
    BY <1>9 DEF RootForeign, Sees, Busy
  <2>2. RootStart = pos
    BY <1>0, <2>1, RootHere
  <2>3. ~ HasRoot
    <3>1. ASSUME NEW i \in 1 .. Len(doc), doc[i].name \in RootName, RootStart = i - 1 PROVE FALSE
      <4>1. i = pos + 1
        BY <1>0, <2>2, <3>1
      <4> QED
        BY <2>1, <3>1, <4>1 DEF Tok
    <3> QED
      BY <3>1 DEF HasRoot
  <2> QED
    BY <1>c, <2>1, <2>3
<1>10. CASE RootMissing
  <2>1. loop = "root" /\ AtEof /\ ~ Busy' /\ pass = "document"
    BY <1>0, <1>10 DEF RootMissing, Busy, LoopsInPlace
  <2>2. pos = Len(doc)
    BY <2>1 DEF Keeps, ReadsAll, AtEof
  <2>3. ~ HasRoot
    BY <1>0, <2>1, <2>2 DEF HasRoot, Starts
  <2> QED
    BY <1>c, <2>1, <2>3
<1>11. CASE PassOver \/ MapperCaptures \/ MapperSkips \/ MapperEmpty \/ BodySegment \/ BodyIgnores \/
            BodySkips \/ SkipCounts \/ SkipCloses
  <2>1. /\ ~ AtEof /\ Read /\ ~ Fails /\ diags \subseteq diags' /\ pass = "document"
    BY <1>1, <1>11 DEF PassOver, MapperCaptures, MapperSkips, MapperEmpty, BodySegment,
       BodyIgnores,
       BodySkips, SkipCounts, SkipCloses, Sees, Closes, Fails, Report, found, place
  <2>2. (Busy' <=> Busy) /\ (~ Busy => loop' = loop /\ mapper' = mapper)
    BY <1>11 DEF PassOver, MapperCaptures, MapperSkips, MapperEmpty, BodySegment, BodyIgnores,
       BodySkips, SkipCounts, SkipCloses, found, place, Busy
  <2>3. CASE Busy
    BY <1>a, <2>1, <2>2, <2>3
  <2>4. CASE ~ Busy
    BY <1>0, <1>4, <2>1, <2>2, <2>4 DEF Plain, Busy
  <2> QED
    BY <2>3, <2>4
<1>12. CASE MapperCloses
  <2>1. /\ loop = "mapper" /\ pass = "document" /\ Closes /\ ~ AtEof /\ Read /\ ~ Fails /\ ~ Busy'
        /\ diags' = diags /\ mapper' = mapper
    BY <1>1, <1>12 DEF MapperCloses, MapperDone, Closes, Sees, Fails, Busy, found
  <2>2. RootStart \in 0 .. pos - 1 /\ open = Nesting(RootStart)[pos] /\ Unclosed = {}
    BY <1>0, <1>4, <2>1 DEF Plain, RootBehind, Busy
  <2>3. open' = Nesting(RootStart)[pos + 1] /\ pos' = pos + 1
    BY <1>0, <2>1, <2>2, NestsOn
  <2>4. Len(open) = 1
    <3>1. Level = 1
      BY <2>1, LevelIs DEF Levels
    <3>2. ~ (Len(open) < 1)
      BY <2>1, <2>2, <3>1 DEF ReaderAgrees, Unclosed
    <3>3. Len(open) <= 1
      BY <1>0, <2>1, <3>1 DEF ReaderAgrees
    <3>4. PICK n \in Nat : n = Len(open)
      BY <1>0 DEF ReaderOK
    <3>5. n = 1
      BY <3>2, <3>3, <3>4
    <3> QED
      BY <3>4, <3>5
  <2>5. open' = << >>
    <3>1. Len(open') = 0 /\ open' \in Seq(TagName)
      BY <1>0, <2>1, <2>4, OpenAfterRead, ReaderStep DEF ReaderOK
    <3> QED
      BY <3>1
  <2>6. CASE HasRoot
    <3>1. pos + 1 \in RootStart + 1 .. Len(doc)
      BY <1>0, <2>1, <2>2 DEF ReaderOK, AtEof
    <3>2. pos + 1 \in Ends(RootStart)
      BY <2>3, <2>5, <3>1 DEF Ends, WellNested
    <3> QED
      BY <1>b, <2>1, <2>6, <3>2 DEF RootNests
  <2>7. CASE ~ HasRoot
    BY <1>c, <2>1, <2>7
  <2> QED
    BY <2>6, <2>7
<1>13. CASE BodyCloses
  <2>1. /\ ~ AtEof /\ Read /\ ~ Fails /\ diags' = diags /\ pass = "document" /\ Busy /\ Busy'
    BY <1>1, <1>13 DEF BodyCloses, BodyEnds, Closes, Sees, Fails, Busy
  <2> QED
    BY <1>a, <2>1
<1>14. CASE TrailingIgnores \/ TrailingRecovers \/ TrailingEnds
  <2>1. loop = "trailing" /\ loop' \in {"trailing", "done"} /\ mapper' = mapper /\ diags' = diags
        /\ pass = "document"
    BY <1>0, <1>14 DEF TrailingIgnores, TrailingRecovers, TrailingEnds, place, found,
       LoopsInPlace
  <2> QED
    BY <1>0, <1>4, <2>1 DEF Plain, Busy
<1>15. CASE CaptureSubtree
  <2>1. PICK t \in tags : CaptureSubtree!2!(t)
    BY <1>15, Zenon DEF CaptureSubtree
  <2>2. loop = "done" /\ diags' = diags /\ mapper' = mapper
    BY <1>15 DEF CaptureSubtree
  <2>3. loop' = loop /\ pass' = pass
    BY <1>1, <2>1 DEF place
  <2> QED
    BY <1>0, <1>1, <1>4, <2>2, <2>3 DEF Plain, Busy
<1> QED
  BY <1>6, <1>7, <1>8, <1>9, <1>10, <1>11, <1>12, <1>13, <1>14, <1>15 DEF Next

(* In a root that nests every loop goes on to the end of what it walks.    *)
LEMMA NeverCutShort ==
  ASSUME Framing, Keeps, pass = "document", RootNests, Next
  PROVE  /\ ~ MapperEof /\ ~ MapperGivesUp /\ ~ BodyEof /\ ~ BodyGivesUp /\ ~ SkipAbandoned
         /\ Recover => loop = "root"
         /\ ~ RootForeign /\ ~ RootMissing
<1>0. ReaderOK /\ Starts /\ ReadsAll /\ pos \in Nat
  BY DEF Framing, Keeps, ReaderOK
<1>1. Busy => ~ Fails /\ ~ AtEof
  BY PlacedInRoot DEF Placing
<1>2. /\ ~ MapperEof /\ ~ MapperGivesUp /\ ~ BodyEof /\ ~ BodyGivesUp /\ ~ SkipAbandoned
      /\ Recover => loop = "root"
  BY <1>1 DEF MapperEof, MapperGivesUp, BodyEof, BodyGivesUp, SkipAbandoned, Recover, Busy
<1>3. ~ RootForeign
  <2> SUFFICES ASSUME RootForeign PROVE FALSE
    OBVIOUS
  <2>1. loop = "root" /\ ~ AtEof /\ Tok.type \in {"start", "empty"} /\ Tok.name \notin RootName
    BY DEF RootForeign, Sees
  <2>2. RootStart = pos
    BY <1>0, <2>1, RootHere
  <2> QED
    BY <1>0, <2>1, <2>2, RootEncloses DEF Tok
<1>4. ~ RootMissing
  <2> SUFFICES ASSUME RootMissing PROVE FALSE
    OBVIOUS
  <2>1. loop = "root" /\ pos = Len(doc)
    BY <1>0 DEF RootMissing, ReadsAll, AtEof
  <2>2. RootStart + 1 \in 1 .. Len(doc) /\ doc[RootStart + 1].type \in {"start", "empty"}
    BY <1>0, RootEncloses
  <2> QED
    BY <2>1, <2>2, <1>0 DEF Starts
<1> QED
  BY <1>2, <1>3, <1>4

(* The root ends where build_mapper takes it to.                           *)
LEMMA RootPastStep ==
  ASSUME Framing, Keeps, RootPast, Next
  PROVE  RootPast'
<1>0. /\ ReaderOK /\ LoopsInPlace /\ Starts /\ doc' = doc /\ pos \in Nat /\ End(RootStart)' = End(RootStart)
      /\ RootStart' = RootStart /\ (RootNests' <=> RootNests) /\ (HasRoot' <=> HasRoot)
  <2>1. doc' = doc
    BY ReaderSteps DEF Read, OpenOver
  <2>2. RootStart' = RootStart /\ \A a : End(a)' = End(a)
    BY <2>1, RootStays
  <2>3. End(RootStart)' = End(RootStart)
    BY <2>1, RootStays DEF End, Ends, WellNested
  <2> QED
    BY <2>1, <2>3, RootStays DEF Framing, Keeps, ReaderOK
<1>a. loop' = "root" => ~ mapper'
  <2>1. loop' = "root" => loop = "root" /\ mapper' = mapper
    BY <1>0 DEF LoopsInPlace, Next, Recover, PassOver, RootOpens, RootEmpty, RootForeign,
       RootMissing, RootGivesUp, MapperCloses, MapperDone, MapperEof, MapperGivesUp,
       MapperCaptures, MapperSkips, MapperEmpty, BodyCloses, BodyEnds, BodyEof,
       BodyGivesUp, BodySegment, BodyIgnores, BodySkips, SkipCounts, SkipCloses,
       SkipAbandoned, TrailingIgnores, TrailingRecovers, TrailingEnds, CaptureSubtree, place,
       found
  <2> QED
    BY <2>1 DEF RootPast
<1>1. SUFFICES ASSUME pass' = "document", RootNests, loop' = "trailing" \/ (loop' = "done" /\ mapper')
               PROVE  End(RootStart) <= pos'
  BY <1>0, <1>a DEF RootPast
<1>2. RootStart \in Nat /\ End(RootStart) \in Nat
  BY <1>0, <1>1, RootEncloses
<1>3. CASE CaptureSubtree
  <2>1. PICK t \in tags : CaptureSubtree!2!(t)
    BY <1>3, Zenon DEF CaptureSubtree
  <2>2. loop = "done" /\ mapper' = mapper /\ pos' = pos /\ pass = "document" /\ loop' = "done"
    BY <1>1, <1>3, <2>1 DEF CaptureSubtree, place
  <2> QED
    BY <1>1, <2>2 DEF RootPast
<1>4. CASE ~ CaptureSubtree
  <2>1. pass = "document"
    BY <1>1, <1>4, <1>0 DEF LoopsInPlace, Next, Recover, PassOver, RootOpens, RootEmpty,
       RootForeign,
       RootMissing, RootGivesUp, MapperCloses, MapperDone, MapperEof, MapperGivesUp,
       MapperCaptures, MapperSkips, MapperEmpty, BodyCloses, BodyEnds, BodyEof,
       BodyGivesUp, BodySegment, BodyIgnores, BodySkips, SkipCounts, SkipCloses,
       SkipAbandoned, TrailingIgnores, TrailingRecovers, TrailingEnds, place, found
  <2>2. /\ ~ MapperEof /\ ~ MapperGivesUp /\ ~ BodyEof /\ ~ BodyGivesUp /\ ~ SkipAbandoned
        /\ ~ RootForeign /\ ~ RootMissing
    BY <1>1, <2>1, NeverCutShort
  <2>3. CASE MapperCloses
    <3>1. Busy /\ Closes /\ loop = "mapper" /\ pos' = pos + 1
      BY <1>0, <2>3 DEF MapperCloses, Busy, Closes, Sees, Read
    <3>2. End(RootStart) = pos + 1
      BY <1>1, <2>1, <3>1, PlacedInRoot DEF Placing
    <3> QED
      BY <1>0, <3>1, <3>2
  <2>4. CASE RootEmpty
    BY <1>0, <2>4, RootOpensHere
  <2>5. CASE RootGivesUp
    BY <1>1, <2>5 DEF RootGivesUp, found, RootPast
  <2>6. CASE ~ (MapperCloses \/ RootEmpty \/ RootGivesUp)
    <3>1. /\ loop = "trailing" \/ (loop = "done" /\ mapper)
          /\ pos' = pos \/ pos' = pos + 1
      BY <1>0, <1>1, <1>4, <2>2, <2>6 DEF LoopsInPlace, Next, Recover, PassOver, RootOpens,
         MapperCaptures, MapperSkips, MapperEmpty, BodyCloses, BodyEnds,
         BodySegment, BodyIgnores, BodySkips, SkipCounts, SkipCloses,
         TrailingIgnores, TrailingRecovers, TrailingEnds, place, found, Read
    <3> QED
      BY <1>0, <1>1, <1>2, <2>1, <3>1 DEF RootPast
  <2> QED
    BY <2>3, <2>4, <2>5, <2>6
<1> QED
  BY <1>3, <1>4

(* The steps the walk can take through a root that nests.                  *)
LEMMA StepsInRoot ==
  ASSUME Framing, Keeps, RootPast, pass = "document", pass' = "document", RootNests, Next
  PROVE  /\ ~ CaptureSubtree =>
              \/ loop = "root" /\ (Recover \/ PassOver \/ RootOpens \/ RootEmpty \/ RootGivesUp)
              \/ loop = "mapper" /\ (PassOver \/ MapperCloses \/ MapperCaptures \/ MapperSkips \/ MapperEmpty)
              \/ loop = "body" /\ (BodyCloses \/ BodySegment \/ BodyIgnores \/ BodySkips)
              \/ loop = "skip" /\ (SkipCounts \/ SkipCloses)
              \/ loop = "trailing" /\ (PassOver \/ TrailingIgnores \/ TrailingRecovers \/ TrailingEnds)
         /\ CaptureSubtree =>
              /\ loop = "done" /\ loop' = "done"
              /\ UNCHANGED <<doc, limit, pos, open, element, child, segments, elements, diags>>
<1>1. ASSUME CaptureSubtree
      PROVE  /\ loop = "done" /\ loop' = "done"
             /\ UNCHANGED <<doc, limit, pos, open, element, child, segments, elements, diags>>
  <2>1. PICK t \in tags : CaptureSubtree!2!(t)
    BY <1>1, Zenon DEF CaptureSubtree
  <2> QED
    BY <1>1, <2>1 DEF CaptureSubtree, place
<1>2. /\ ~ MapperEof /\ ~ MapperGivesUp /\ ~ BodyEof /\ ~ BodyGivesUp /\ ~ SkipAbandoned
      /\ Recover => loop = "root"
      /\ ~ RootForeign /\ ~ RootMissing
  BY NeverCutShort
<1>3. ASSUME ~ CaptureSubtree
      PROVE  \/ loop = "root" /\ (Recover \/ PassOver \/ RootOpens \/ RootEmpty \/ RootGivesUp)
             \/ loop = "mapper" /\ (PassOver \/ MapperCloses \/ MapperCaptures \/ MapperSkips \/ MapperEmpty)
             \/ loop = "body" /\ (BodyCloses \/ BodySegment \/ BodyIgnores \/ BodySkips)
             \/ loop = "skip" /\ (SkipCounts \/ SkipCloses)
             \/ loop = "trailing" /\ (PassOver \/ TrailingIgnores \/ TrailingRecovers \/ TrailingEnds)
  <2>1. PassOver => loop \in {"root", "mapper", "trailing"}
    BY DEF PassOver
  <2>2. RootOpens \/ RootEmpty \/ RootGivesUp => loop = "root"
    BY DEF RootOpens, RootEmpty, RootGivesUp
  <2>3. MapperCloses \/ MapperCaptures \/ MapperSkips \/ MapperEmpty => loop = "mapper"
    BY DEF MapperCloses, MapperCaptures, MapperSkips, MapperEmpty
  <2>4. BodyCloses \/ BodySegment \/ BodyIgnores \/ BodySkips => loop = "body"
    BY DEF BodyCloses, BodySegment, BodyIgnores, BodySkips
  <2>5. SkipCounts \/ SkipCloses => loop = "skip"
    BY DEF SkipCounts, SkipCloses
  <2>6. TrailingIgnores \/ TrailingRecovers \/ TrailingEnds => loop = "trailing"
    BY DEF TrailingIgnores, TrailingRecovers, TrailingEnds
  <2> QED
    BY <1>2, <1>3, <2>1, <2>2, <2>3, <2>4, <2>5, <2>6 DEF Next
<1> QED
  BY <1>1, <1>3

(* What is being walked is a child of the root, and what is being skipped  *)
(* in it a child of that.                                                  *)
LEMMA PlacedStep ==
  ASSUME Framing, Keeps, RootPast, Placed, Next
  PROVE  Placed'
<1>0. LoopsInPlace /\ doc' = doc /\ (RootNests' <=> RootNests) /\ RootStart' = RootStart
      /\ \A a, types : Children(a, types)' = Children(a, types)
  <2>1. doc' = doc
    BY ReaderSteps DEF Read, OpenOver
  <2> QED
    BY <2>1, RootStays DEF Framing
<1>1. RootChildren' = RootChildren
  BY <1>0 DEF RootChildren, Children, Nesting, End, Ends, WellNested
<1>2. SUFFICES ASSUME pass' = "document", RootNests, NEW e, IsElement(e)'
               PROVE  /\ e \in RootChildren
                      /\ doc[e + 1].name \in CapturedName <=> loop' = "body" \/ InBody'
                      /\ \A c : IsChild(c)' => c \in Children(e, {"start"})
  BY <1>0, <1>1 DEF Placed
<1>3. CASE CaptureSubtree
  BY <1>2, <1>3, <1>0 DEF IsElement, CaptureSubtree, place, OpenOver
<1>4. CASE ~ CaptureSubtree /\ pass # "document"
  BY <1>0, <1>2, <1>4 DEF LoopsInPlace, Next, Recover, PassOver, RootOpens, RootEmpty,
     RootForeign,
     RootMissing, RootGivesUp, MapperCloses, MapperDone, MapperEof, MapperGivesUp,
     MapperCaptures, MapperSkips, MapperEmpty, BodyCloses, BodyEnds, BodyEof,
     BodyGivesUp, BodySegment, BodyIgnores, BodySkips, SkipCounts, SkipCloses,
     SkipAbandoned, TrailingIgnores, TrailingRecovers, TrailingEnds, place, found
<1>a. ASSUME pass = "document", loop' = loop, element' = element, child' = child
      PROVE  /\ e \in RootChildren
             /\ doc[e + 1].name \in CapturedName <=> loop' = "body" \/ InBody'
             /\ \A c : IsChild(c)' => c \in Children(e, {"start"})
  <2>1. IsElement(e)
    BY <1>2, <1>a DEF IsElement
  <2>2. \A c : IsChild(c)' <=> IsChild(c)
    BY <1>a DEF IsChild, InBody
  <2>3. InBody' <=> InBody
    BY <1>a DEF InBody
  <2> QED
    BY <1>2, <1>a, <2>1, <2>2, <2>3 DEF Placed
<1>5. CASE ~ CaptureSubtree /\ pass = "document"
  <2>0. Busy => (pos \in RootChildren <=> (Tok.type \in {"start", "empty"} /\ loop = "mapper"))
    BY <1>2, <1>5, ChildHere DEF RootChildren
  <2>1. CASE loop = "root" \/ loop = "trailing"
    BY <1>2, <2>1, <1>5, StepsInRoot DEF Recover, PassOver, RootOpens, RootEmpty, RootGivesUp,
       TrailingIgnores, TrailingRecovers, TrailingEnds, place, IsElement
  <2>2. CASE MapperCaptures \/ MapperSkips
    <3>1. /\ loop = "mapper" /\ Tok.type = "start" /\ e = pos /\ loop' \in {"body", "skip"} /\ child' = NoPos
          /\ Tok.name \in CapturedName <=> loop' = "body"
      BY <1>0, <1>2, <2>2 DEF MapperCaptures, MapperSkips, Sees, IsElement, LoopsInPlace
    <3>2. e \in RootChildren
      BY <2>0, <3>1 DEF Busy
    <3> QED
      BY <3>1, <3>2 DEF Tok, InBody, IsChild
  <2>3. CASE loop = "mapper" /\ ~ (MapperCaptures \/ MapperSkips)
    <3>1. PassOver \/ MapperCloses \/ MapperEmpty
      BY <1>2, <1>5, <2>3, StepsInRoot
    <3> QED
      BY <1>2, <2>3, <3>1 DEF PassOver, MapperCloses, MapperDone, MapperEmpty, place, IsElement
  <2>4. CASE BodyCloses
    BY <1>2, <1>5, <2>4 DEF BodyCloses, BodyEnds, IsElement
  <2>5. CASE BodySegment \/ BodyIgnores
    <3>1. loop' = loop /\ element' = element /\ child' = child
      BY <2>5 DEF BodySegment, BodyIgnores, place
    <3> QED
      BY <1>5, <3>1, <1>a
  <2>6. CASE BodySkips
    <3>1. /\ loop = "body" /\ Tok.type = "start" /\ element' = element /\ child' = pos /\ loop' = "skip"
          /\ e = element /\ IsElement(e)
      BY <1>2, <2>6 DEF BodySkips, Sees, IsElement
    <3>2. InBody'
      BY <3>1, <1>0 DEF InBody, NoPos, Framing, ReaderOK
    <3>3. pos \in Children(element, {"start"})
      BY <1>2, <1>5, <3>1, ChildHere DEF Busy
    <3>4. e \in RootChildren /\ doc[e + 1].name \in CapturedName
      BY <1>2, <1>5, <3>1 DEF Placed
    <3> QED
      BY <3>1, <3>2, <3>3, <3>4 DEF IsChild
  <2>7. CASE SkipCounts
    <3>1. loop' = loop /\ element' = element /\ child' = child
      BY <2>7 DEF SkipCounts
    <3> QED
      BY <1>5, <3>1, <1>a
  <2>8. CASE SkipCloses
    <3>1. InBody /\ loop' = "body" /\ child' = NoPos /\ e = element /\ IsElement(e)
      BY <1>2, <2>8 DEF SkipCloses, IsElement
    <3>2. e \in RootChildren /\ doc[e + 1].name \in CapturedName
      BY <1>2, <1>5, <3>1 DEF Placed
    <3> QED
      BY <3>1, <3>2 DEF IsChild, InBody
  <2>9. loop = "root" \/ loop = "trailing" \/ loop = "mapper" \/ BodyCloses \/ BodySegment \/ BodyIgnores
        \/ BodySkips \/ SkipCounts \/ SkipCloses
    BY <1>2, <1>5, StepsInRoot
  <2> QED
    BY <2>1, <2>2, <2>3, <2>4, <2>5, <2>6, <2>7, <2>8, <2>9
<1> QED
  BY <1>3, <1>4, <1>5

(* What the walk is done with after one step more.                         *)
Finished ==
  IF MapperEmpty THEN {pos}
  ELSE IF BodyCloses \/ (SkipCloses /\ ~ InBody) THEN {element}
  ELSE {}

(* It is done with that, and with what it was.                             *)
LEMMA DoneStep ==
  ASSUME Framing, Keeps, RootPast, Placed, pass = "document", pass' = "document", RootNests, Next,
         NEW P, P \subseteq RootChildren
  PROVE  Done(P)' = Done(P) \cup (P \cap Finished)
<1>0. /\ ReaderOK /\ LoopsInPlace /\ Starts /\ Starts' /\ pos \in Nat /\ doc' = doc /\ RootStart' = RootStart
      /\ RootStart \in Nat /\ End(RootStart) \in Nat
      /\ doc[RootStart + 1].type \in {"start", "empty"}
      /\ P \subseteq Nat /\ \A i \in P : RootStart < i /\ i < End(RootStart)
      /\ pos \in P => doc[pos + 1].type \in {"start", "empty"}
  <2>1. ReaderOK /\ LoopsInPlace /\ Starts /\ Starts' /\ pos \in Nat /\ doc' = doc
    BY ReaderSteps, StartsStep DEF Framing, Keeps, ReaderOK, Read, OpenOver
  <2> QED
    BY <2>1, RootStays, RootEncloses DEF RootChildren, Children
<1>d. Done(P) = {i \in P : i < pos /\ ~ IsElement(i)} /\ Done(P)' = {i \in P : i < pos' /\ ~ IsElement(i)'}
  BY DEF Done
<1>e. Busy => (pos \in P => loop = "mapper")
  BY ChildHere DEF RootChildren
<1>f. loop \notin {"body", "skip"} => \A i : ~ IsElement(i)
  BY DEF IsElement
<1>g. loop' \notin {"body", "skip"} => \A i : ~ IsElement(i)'
  BY DEF IsElement
<1>a. ASSUME Finished = {}, pos' = pos \/ pos' = pos + 1, pos \notin P, \A i \in P : IsElement(i)' <=> IsElement(i)
      PROVE  Done(P)' = Done(P) \cup (P \cap Finished)
  <2>1. \A i \in P : i < pos' <=> i < pos
    BY <1>0, <1>a
  <2> QED
    BY <1>a, <1>d, <2>1
<1>m. ~ MapperEmpty /\ ~ BodyCloses /\ ~ SkipCloses => Finished = {}
  BY DEF Finished
<1>1. CASE CaptureSubtree
  <2>1. loop = "done" /\ loop' = "done" /\ pos' = pos /\ Finished = {}
    BY <1>1, StepsInRoot DEF Finished, MapperEmpty, BodyCloses, SkipCloses
  <2> QED
    BY <1>d, <1>f, <1>g, <2>1
<1>2. CASE loop = "root"
  <2>1. /\ Recover \/ PassOver \/ RootOpens \/ RootEmpty \/ RootGivesUp
    BY <1>2, StepsInRoot
  <2>2. /\ Finished = {} /\ loop' \notin {"body", "skip"} /\ ~ AtEof /\ Read
    BY <1>2, <2>1 DEF Finished, MapperEmpty, BodyCloses, SkipCloses, Recover, PassOver,
       RootOpens, RootEmpty,
       RootGivesUp, Fails, Sees, place
  <2>3. ~ (RootStart < pos)
    <3>1. RootStart < pos => RootStart + 1 \in 1 .. pos
      BY <1>0
    <3> QED
      BY <1>0, <1>2, <3>1 DEF Starts
  <2>4. pos \notin P /\ (pos' = pos \/ pos' = pos + 1)
    BY <1>0, <2>2, <2>3 DEF Read
  <2> QED
    BY <1>2, <1>a, <1>f, <1>g, <2>2, <2>4
<1>3. CASE loop = "trailing"
  <2>1. /\ PassOver \/ TrailingIgnores \/ TrailingRecovers \/ TrailingEnds
    BY <1>3, StepsInRoot
  <2>2. /\ Finished = {} /\ loop' \notin {"body", "skip"} /\ (pos' = pos \/ Read)
    BY <1>3, <2>1 DEF Finished, MapperEmpty, BodyCloses, SkipCloses, PassOver, TrailingIgnores,
       TrailingRecovers,
       TrailingEnds, place
  <2>3. End(RootStart) <= pos
    BY <1>3 DEF RootPast
  <2>4. pos \notin P /\ (pos' = pos \/ pos' = pos + 1)
    BY <1>0, <2>2, <2>3 DEF Read
  <2> QED
    BY <1>3, <1>a, <1>f, <1>g, <2>2, <2>4
<1>4. CASE loop = "mapper" /\ (PassOver \/ MapperCloses)
  <2>1. /\ Finished = {} /\ loop' \notin {"body", "skip"} /\ Read /\ Tok.type \notin {"start", "empty"}
    BY <1>4 DEF Finished, MapperEmpty, BodyCloses, SkipCloses, PassOver, MapperCloses,
       MapperDone, Closes, Sees, place
  <2>2. pos \notin P /\ (pos' = pos \/ pos' = pos + 1)
    BY <1>0, <2>1 DEF Read, Tok
  <2> QED
    BY <1>4, <1>a, <1>f, <1>g, <2>1, <2>2
<1>5. CASE MapperCaptures \/ MapperSkips
  <2>1. /\ loop = "mapper" /\ Finished = {} /\ pos' = pos + 1 /\ \A i : IsElement(i)' <=> i = pos
    BY <1>0, <1>5 DEF Finished, MapperEmpty, BodyCloses, SkipCloses, MapperCaptures,
       MapperSkips, Sees, Read, IsElement
  <2>2. \A i \in P : (i < pos' /\ i # pos) <=> i < pos
    <3> TAKE i \in P
    <3>1. i \in Nat /\ pos \in Nat
      BY <1>0
    <3>2. i < pos + 1 <=> i < pos \/ i = pos
      BY <3>1
    <3>3. ~ (pos < pos)
      BY <3>1
    <3> QED
      BY <2>1, <3>2, <3>3
  <2> QED
    BY <1>d, <1>f, <2>1, <2>2
<1>6. CASE MapperEmpty
  <2>1. /\ loop = "mapper" /\ loop' = "mapper" /\ Finished = {pos} /\ pos' = pos + 1
    BY <1>0, <1>6 DEF Finished, MapperEmpty, Sees, Read, place
  <2>2. \A i \in P : i < pos' <=> (i < pos \/ i = pos)
    <3> TAKE i \in P
    <3>1. i \in Nat /\ pos \in Nat
      BY <1>0
    <3>2. i < pos + 1 <=> (i < pos \/ i = pos)
      BY <3>1
    <3> QED
      BY <2>1, <3>2
  <2> QED
    BY <1>d, <1>f, <1>g, <2>1, <2>2
<1>7. CASE BodySegment \/ BodyIgnores \/ BodySkips \/ SkipCounts \/ (SkipCloses /\ InBody)
  <2>1. /\ loop \in {"body", "skip"} /\ loop' \in {"body", "skip"} /\ element' = element /\ Read
    BY <1>7 DEF BodySegment, BodyIgnores, BodySkips, SkipCounts, SkipCloses, place
  <2>2. Finished = {}
    BY <1>7 DEF Finished, BodySegment, BodyIgnores, BodySkips, SkipCounts, SkipCloses,
       MapperEmpty, BodyCloses, Sees,
       Closes
  <2>3. pos \notin P /\ (pos' = pos \/ pos' = pos + 1)
    BY <1>0, <1>e, <2>1 DEF Read, Busy
  <2>4. \A i : IsElement(i)' <=> IsElement(i)
    BY <2>1 DEF IsElement
  <2> QED
    BY <1>a, <2>2, <2>3, <2>4
<1>8. CASE BodyCloses \/ (SkipCloses /\ ~ InBody)
  <2>1. /\ loop \in {"body", "skip"} /\ loop' = "mapper" /\ Finished = {element} /\ pos' = pos + 1
    BY <1>0, <1>8 DEF BodyCloses, BodyEnds, SkipCloses, Finished, MapperEmpty, Closes, Sees,
       Read
  <2>2. pos \notin P /\ element < pos /\ element \in Int
    BY <1>e, <2>1 DEF Busy, Framing, WalkOK, LoopsInPlace, NoPos
  <2>3. \A i : IsElement(i) <=> i = element
    BY <2>1 DEF IsElement
  <2>4. \A i \in P : i < pos' <=> i < pos
    <3> TAKE i \in P
    <3>1. i \in Nat /\ pos \in Nat /\ i # pos
      BY <1>0, <2>2
    <3>2. i < pos + 1 <=> i < pos
      BY <3>1
    <3> QED
      BY <2>1, <3>2
  <2> QED
    BY <1>d, <1>g, <2>1, <2>2, <2>3, <2>4
<1> QED
  BY <1>1, <1>2, <1>3, <1>4, <1>5, <1>6, <1>7, <1>8, StepsInRoot

-----------------------------------------------------------------------------
(* Lists told in order.                                                    *)

(* f has n members, all different.                                         *)
Different(f, n) == \A l, m \in 1 .. n : f[l] = f[m] => l = m

(* The first k - 1 of them.                                                *)
Firsts(f, k) == {f[m] : m \in 1 .. k - 1}

(* How many come before the k-th.                                          *)
LEMMA FirstsCounted ==
  ASSUME NEW n \in Nat, NEW k \in 1 .. n + 1, NEW f, Different(f, n)
  PROVE  Cardinality(Firsts(f, k)) = k - 1
<1> DEFINE T == {f[m] : m \in 1 .. k - 1}
           g == [m \in 1 .. k - 1 |-> f[m]]
<1>0. 1 .. k - 1 \subseteq 1 .. n
  OBVIOUS
<1>1. g \in Bijection(1 .. k - 1, T)
  BY <1>0 DEF Different, Bijection, Injection, Surjection, IsInjective
<1>2. IsFiniteSet(1 .. k - 1) /\ Cardinality(1 .. k - 1) = k - 1
  <2>1. 1 \in Int /\ k - 1 \in Int
    OBVIOUS
  <2>2. IsFiniteSet(1 .. k - 1)
        /\ Cardinality(1 .. k - 1) = IF 1 > k - 1 THEN 0 ELSE k - 1 - 1 + 1
    BY <2>1, FS_Interval
  <2> QED
    BY <2>2
<1>3. Cardinality(1 .. k - 1) = Cardinality(T)
  <2>1. ExistsBijection(1 .. k - 1, T)
    BY <1>1 DEF ExistsBijection
  <2> HIDE DEF T
  <2> QED
    BY <1>2, <2>1, FS_Bijection
<1> QED
  BY <1>2, <1>3 DEF Firsts

(* A list, in order, of what stands at the places of P.                    *)
Tells(s, P, at) ==
  /\ P \subseteq Nat
  /\ {s[k] : k \in DOMAIN s} = {at[i] : i \in P}
  /\ \A i \in P : at[i].from = i
  /\ \A j, k \in DOMAIN s : j < k => s[j].from < s[k].from

(* Such a list is told by P alone.                                         *)
LEMMA ToldInOrder ==
  ASSUME NEW S, NEW s \in Seq(S), NEW P, NEW at, Tells(s, P, at)
  PROVE  /\ s = [k \in DOMAIN InOrder(P) |-> at[InOrder(P)[k]]]
         /\ \A k \in DOMAIN InOrder(P) : InOrder(P)[k] \in P
<1> USE DEF Tells
<1> DEFINE n == Len(s)
           f == [m \in 1 .. n |-> s[m].from]
           rank(p) == Cardinality({j \in P : j < p})
<1>0. DOMAIN s = 1 .. n /\ n \in Nat
  OBVIOUS
<1> HIDE DEF n
<1>t. P \subseteq Nat
  OBVIOUS
<1>d. \A m \in 1 .. n : f[m] = s[m].from
  OBVIOUS
<1> HIDE DEF f
<1>1. /\ \A m \in 1 .. n : f[m] \in P /\ s[m] = at[f[m]]
      /\ \A p \in P : \E m \in 1 .. n : f[m] = p
  <2>1. ASSUME NEW m \in 1 .. n PROVE f[m] \in P /\ s[m] = at[f[m]]
    <3>1. PICK i \in P : s[m] = at[i]
      BY <1>0
    <3> QED
      BY <1>d, <3>1
  <2>2. ASSUME NEW p \in P PROVE \E m \in 1 .. n : f[m] = p
    <3>1. at[p] \in {s[k] : k \in DOMAIN s}
      OBVIOUS
    <3>2. PICK m \in DOMAIN s : s[m] = at[p]
      BY <3>1
    <3>3. m \in 1 .. n
      BY <1>0, <3>2
    <3> QED
      BY <1>d, <3>2, <3>3
  <2> QED
    BY <2>1, <2>2
<1> HIDE DEF Tells
<1>2. \A l, m \in 1 .. n : (f[l] = f[m] => l = m) /\ (f[l] < f[m] <=> l < m)
  <2> TAKE l, m \in 1 .. n
  <2>0. f[l] \in P /\ f[m] \in P /\ l \in Nat /\ m \in Nat
    BY <1>0, <1>1
  <2>1. f[l] \in Nat /\ f[m] \in Nat /\ l \in Nat /\ m \in Nat
    BY <1>t, <2>0
  <2>2. (l < m => f[l] < f[m]) /\ (m < l => f[m] < f[l])
    BY <1>0, <1>d DEF Tells
  <2> QED
    BY <2>1, <2>2
<1>n. n \in Nat
  BY <1>0
<1>m. Different(f, n)
  BY <1>2 DEF Different
<1>3. Cardinality(P) = n
  <2> DEFINE k == n + 1
  <2>1. Cardinality(Firsts(f, k)) = k - 1
    <3>1. k \in 1 .. n + 1
      BY <1>0
    <3> HIDE DEF k
    <3> QED
      BY <1>n, <1>m, <3>1, FirstsCounted, Zenon
  <2>2. k - 1 = n
    BY <1>0
  <2>3. Firsts(f, k) = {f[m] : m \in 1 .. n}
    BY <2>2 DEF Firsts
  <2>4. {f[m] : m \in 1 .. n} = P
    <3>1. \A m \in 1 .. n : f[m] \in P
      BY <1>1
    <3>2. \A p \in P : \E m \in 1 .. n : f[m] = p
      BY <1>1
    <3> QED
      BY <3>1, <3>2
  <2> HIDE DEF k
  <2> QED
    BY <2>1, <2>2, <2>3, <2>4
<1>4. ASSUME NEW k \in 1 .. n PROVE rank(f[k]) = k - 1
  <2>1. {q \in P : q < f[k]} = Firsts(f, k)
    <3>1. ASSUME NEW q \in P, q < f[k] PROVE q \in {f[m] : m \in 1 .. k - 1}
      <4>1. PICK m \in 1 .. n : f[m] = q
        BY <1>1
      <4>2. m < k
        BY <1>2, <3>1, <4>1
      <4>3. m \in 1 .. k - 1
        BY <1>0, <4>2
      <4> QED
        BY <4>1, <4>3
    <3>2. ASSUME NEW m \in 1 .. k - 1 PROVE f[m] \in P /\ f[m] < f[k]
      <4>1. m \in 1 .. n /\ m < k
        BY <1>0
      <4> QED
        BY <1>1, <1>2, <4>1
    <3> QED
      BY <3>1, <3>2 DEF Firsts
  <2>2. k \in 1 .. n + 1
    BY <1>0
  <2> QED
    BY <1>n, <1>m, <2>1, <2>2, FirstsCounted, Zenon
<1>5. ASSUME NEW k \in 1 .. n PROVE (CHOOSE p \in P : rank(p) = k - 1) = f[k]
  <2> DEFINE c == CHOOSE p \in P : rank(p) = k - 1
  <2>1. f[k] \in P /\ rank(f[k]) = k - 1
    BY <1>1, <1>4
  <2> HIDE DEF rank
  <2>2. c \in P /\ rank(c) = k - 1
    BY <2>1
  <2>3. PICK m \in 1 .. n : f[m] = c
    BY <1>1, <2>2
  <2>4. rank(f[m]) = m - 1
    BY <1>4
  <2>5. m = k
    BY <1>0, <2>2, <2>3, <2>4
  <2> QED
    BY <2>3, <2>5
<1>6. InOrder(P) = [k \in 1 .. Cardinality(P) |-> CHOOSE p \in P : rank(p) = k - 1]
  BY DEF InOrder
<1> HIDE DEF rank
<1>7. InOrder(P) = [k \in 1 .. n |-> f[k]]
  BY <1>3, <1>5, <1>6
<1> DEFINE q == InOrder(P)
<1>8. DOMAIN q = 1 .. n /\ \A k \in 1 .. n : q[k] = f[k]
  BY <1>7
<1> HIDE DEF q
<1>11. \A k \in DOMAIN q : q[k] \in P
  BY <1>1, <1>8
<1>9. s = [k \in 1 .. n |-> s[k]]
  BY <1>0
<1>10. s = [k \in DOMAIN q |-> at[q[k]]]
  BY <1>1, <1>8, <1>9
<1> QED
  BY <1>10, <1>11 DEF q

(* What stands at a child ends after it starts.                            *)
LEMMA ChildNests ==
  ASSUME ReaderOK, NEW a \in Nat, Encloses(a, End(a)), NEW i \in Children(a, SegmentType)
  PROVE  i \in Nat /\ End(i) \in Nat /\ i < End(i)
<1>1. /\ End(a) \in a + 1 .. Len(doc) /\ Len(doc) \in Nat /\ i \in a + 1 .. End(a) - 1
      /\ doc[i + 1].type \in SegmentType
  BY DEF Children, Encloses, ReaderOK
<1>2. i \in 0 .. Len(doc) - 1 /\ i \in Nat
  BY <1>1
<1>3. CASE doc[i + 1].type = "start"
  <2>1. PICK y \in i + 1 .. End(a) - 1 : Encloses(i, y)
    BY <1>1, <1>2, <1>3, EnclosesWithin
  <2>2. y = End(i)
    BY <1>2, <2>1, EndIs
  <2> QED
    BY <1>1, <1>2, <2>1, <2>2
<1>4. CASE doc[i + 1].type # "start"
  <2>1. End(i) = i + 1
    BY <1>1, <1>2, <1>4, Alone DEF SegmentType
  <2> QED
    BY <1>2, <2>1
<1> QED
  BY <1>3, <1>4

-----------------------------------------------------------------------------
(* What is told, step by step.                                             *)

(* What a list holds once an item is appended.                             *)
LEMMA HeldAppended ==
  ASSUME NEW S, NEW s \in Seq(S), NEW x
  PROVE  {Append(s, x)[k] : k \in DOMAIN Append(s, x)} = {s[k] : k \in DOMAIN s} \cup {x}
<1>1. /\ DOMAIN s = 1 .. Len(s) /\ Len(s) \in Nat
      /\ DOMAIN Append(s, x) = 1 .. Len(s) + 1
      /\ \A k \in 1 .. Len(s) : Append(s, x)[k] = s[k]
      /\ Append(s, x)[Len(s) + 1] = x
  <2>1. s \in Seq(S \cup {x}) /\ x \in S \cup {x}
    OBVIOUS
  <2> QED
    BY <2>1
<1> DEFINE t == Append(s, x)
<1> HIDE DEF t
<1>2. DOMAIN t = 1 .. Len(s) + 1 /\ (\A k \in 1 .. Len(s) : t[k] = s[k]) /\ t[Len(s) + 1] = x
  BY <1>1 DEF t
<1>3. ASSUME NEW y \in {t[k] : k \in DOMAIN t} PROVE y \in {s[k] : k \in DOMAIN s} \cup {x}
  <2>1. PICK k \in 1 .. Len(s) + 1 : y = t[k]
    BY <1>2
  <2>2. k \in 1 .. Len(s) \/ k = Len(s) + 1
    BY <1>1
  <2> QED
    BY <1>1, <1>2, <2>1, <2>2
<1>4. \A k \in 1 .. Len(s) : k \in 1 .. Len(s) + 1
  BY <1>1
<1>5. Len(s) + 1 \in 1 .. Len(s) + 1
  BY <1>1
<1>6. {s[k] : k \in DOMAIN s} \cup {x} \subseteq {t[k] : k \in DOMAIN t}
  BY <1>1, <1>2, <1>4, <1>5
<1>7. {t[k] : k \in DOMAIN t} = {s[k] : k \in DOMAIN s} \cup {x}
  BY <1>3, <1>6
<1> QED
  BY <1>7 DEF t

(* The segments gathered are the children the walk is done with.           *)
LEMMA SegmentsToldStep ==
  ASSUME Framing, Keeps, RootPast, Placed, SegmentsTold, Next
  PROVE  SegmentsTold'
<1>0. /\ ReaderOK /\ LoopsInPlace /\ pos \in Nat /\ doc' = doc /\ (RootNests' <=> RootNests)
      /\ segments \in Seq(Segment)
      /\ \A a, types : Children(a, types)' = Children(a, types)
      /\ \A i : End(i)' = End(i)
  <2>1. doc' = doc
    BY ReaderSteps DEF Read, OpenOver
  <2> QED
    BY <2>1, RootStays DEF Framing, ReaderOK, FoundOK
<1>1. \A i : SegmentAt(i)' = SegmentAt(i)
  BY <1>0 DEF SegmentAt
<1>2. SUFFICES ASSUME pass' = "document", RootNests, loop' = "body" \/ InBody', NEW e, IsElement(e)',
                      NEW C, C = Children(e, SegmentType)
               PROVE  {segments'[k] : k \in DOMAIN segments'} =
                        {SegmentAt(i) : i \in {i \in C : i < pos' /\ ~ IsChild(i)'}}
  BY <1>0, <1>1, SMTT(30) DEF SegmentsTold, DoneIn
<1>3. CASE CaptureSubtree
  BY <1>2, <1>3, <1>0 DEF IsElement, CaptureSubtree, place, OpenOver
<1>4. CASE ~ CaptureSubtree /\ pass # "document"
  BY <1>0, <1>2, <1>4 DEF LoopsInPlace, Next, Recover, PassOver, RootOpens, RootEmpty,
     RootForeign,
     RootMissing, RootGivesUp, MapperCloses, MapperDone, MapperEof, MapperGivesUp,
     MapperCaptures, MapperSkips, MapperEmpty, BodyCloses, BodyEnds, BodyEof,
     BodyGivesUp, BodySegment, BodyIgnores, BodySkips, SkipCounts, SkipCloses,
     SkipAbandoned, TrailingIgnores, TrailingRecovers, TrailingEnds, place, found
<1>5. CASE ~ CaptureSubtree /\ pass = "document"
  <2>1. CASE ~ (loop = "body" \/ InBody)
    <3>1. MapperCaptures
      BY <1>0, <1>2, <1>5, <2>1, StepsInRoot DEF Recover, PassOver, RootOpens, RootEmpty,
         RootGivesUp,
         MapperCloses, MapperDone, MapperSkips, MapperEmpty, SkipCounts, SkipCloses,
         TrailingIgnores, TrailingRecovers, TrailingEnds, place, IsElement, LoopsInPlace, InBody
    <3>2. e = pos /\ segments' = << >> /\ pos' = pos + 1
      BY <1>0, <1>2, <3>1 DEF MapperCaptures, IsElement, Sees, Read
    <3>3. \A i \in C : ~ (i < pos')
      BY <1>0, <1>2, <3>2 DEF Children
    <3>4. {segments'[k] : k \in DOMAIN segments'} = {}
      BY <3>2
    <3> QED
      BY <3>3, <3>4
  <2>2. CASE loop = "body" \/ InBody
    <3>0. /\ loop \in {"body", "skip"} /\ (loop = "body" => child = NoPos) /\ (InBody => loop = "skip")
      BY <1>0, <2>2 DEF LoopsInPlace, InBody
    <3>1. /\ Busy /\ Placing
          /\ BodySegment \/ BodyIgnores \/ BodySkips \/ SkipCounts \/ SkipCloses
      BY <1>2, <1>5, <3>0, PlacedInRoot, StepsInRoot DEF Busy, BodyCloses, BodyEnds, IsElement
    <3>2. e = element /\ element' = element
      BY <1>2, <3>1 DEF IsElement, BodySegment, BodyIgnores, BodySkips, SkipCounts, SkipCloses,
         place
    <3>3. {segments[k] : k \in DOMAIN segments} = {SegmentAt(i) : i \in {i \in C : i < pos /\ ~ IsChild(i)}}
      BY <1>2, <1>5, <2>2, <3>0, <3>2 DEF SegmentsTold, DoneIn, IsElement
    <3>4. pos \in C <=> Tok.type \in SegmentType /\ loop = "body"
      BY <1>2, <1>5, <2>2, <3>1, <3>2, ChildHere
    <3>5. C \subseteq Nat
      BY <1>2, <3>1, <3>0, <3>2 DEF Children, Placing
    <3>a. ASSUME pos' = pos + 1
          PROVE  \A i \in C : i < pos' <=> (i < pos \/ i = pos)
      <4> TAKE i \in C
      <4>1. i \in Nat /\ pos \in Nat
        BY <1>0, <3>5
      <4>2. i < pos + 1 <=> (i < pos \/ i = pos)
        BY <4>1
      <4> QED
        BY <3>a, <4>2
    <3>b. ~ (pos < pos)
      BY <1>0
    <3>c. ~ AtEof /\ Read /\ pos' = pos + 1
      BY <3>1 DEF BodySegment, BodyIgnores, BodySkips, SkipCounts, SkipCloses, Closes, Sees,
         Read
    <3>d. \A i \in C : i < pos' <=> (i < pos \/ i = pos)
      BY <3>a, <3>c
    <3>6. CASE BodySegment
      <4>1. /\ loop = "body" /\ Tok.type \in {"text", "amp", "empty"} /\ loop' = "body" /\ child' = NoPos
            /\ segments' = Append(segments, [type |-> IF Tok.type = "empty" THEN "tag" ELSE "text",
                                             from |-> pos, to |-> pos + 1])
        BY <3>0, <3>6 DEF BodySegment, Sees, place
      <4>2. End(pos) = pos + 1
        <5>1. pos \in 0 .. Len(doc) - 1
          BY <1>0, <3>c DEF ReaderOK, AtEof
        <5> QED
          BY <1>0, <4>1, <5>1, Alone DEF Tok
      <4>3. SegmentAt(pos) = [type |-> IF Tok.type = "empty" THEN "tag" ELSE "text", from |-> pos, to |-> pos + 1]
        BY <4>1, <4>2 DEF SegmentAt, TagType, Tok
      <4>4. pos \in C
        BY <3>4, <4>1 DEF SegmentType
      <4>5. \A i : ~ IsChild(i) /\ ~ IsChild(i)'
        BY <3>0, <4>1 DEF IsChild, InBody
      <4>6. {i \in C : i < pos' /\ ~ IsChild(i)'} = {i \in C : i < pos /\ ~ IsChild(i)} \cup {pos}
        BY <3>d, <4>4, <4>5
      <4>7. {segments'[k] : k \in DOMAIN segments'} =
              {segments[k] : k \in DOMAIN segments} \cup {SegmentAt(pos)}
        BY <1>0, <4>1, <4>3, HeldAppended
      <4> QED
        BY <3>3, <4>6, <4>7
    <3>7. CASE BodyIgnores \/ BodySkips \/ SkipCounts
      <4>1. segments' = segments
        BY <3>7 DEF BodyIgnores, BodySkips, SkipCounts, found
      <4>2. \A i \in C : (i < pos' /\ ~ IsChild(i)') <=> (i < pos /\ ~ IsChild(i))
        <5>1. CASE BodySkips
          <6>1. loop = "body" /\ child' = pos /\ InBody' /\ child = NoPos
            BY <1>0, <3>0, <5>1 DEF BodySkips, InBody, NoPos
          <6>2. \A i : ~ IsChild(i) /\ (IsChild(i)' <=> i = pos)
            BY <6>1, <3>0 DEF IsChild, InBody
          <6> QED
            BY <3>b, <3>d, <6>2
        <5>2. CASE BodyIgnores \/ SkipCounts
          <6>1. pos \notin C
            BY <3>4, <5>2 DEF BodyIgnores, SkipCounts, Sees, SegmentType
          <6>2. child' = child
            BY <5>2 DEF BodyIgnores, SkipCounts, place
          <6>3. \A i : IsChild(i)' <=> IsChild(i)
            BY <6>2 DEF IsChild, InBody
          <6> QED
            BY <3>d, <6>1, <6>3
        <5> QED
          BY <3>7, <5>1, <5>2
      <4> QED
        BY <3>3, <4>1, <4>2
    <3>8. CASE SkipCloses
      <4>1. /\ loop = "skip" /\ InBody /\ Closes /\ depth = 1 /\ child' = NoPos
            /\ segments' = Append(segments, [type |-> "tag", from |-> child, to |-> pos + 1])
        BY <2>2, <3>0, <3>8 DEF SkipCloses
      <4>2. child \in Nat /\ child < pos /\ End(child) = pos + 1
        BY <3>1, <4>1 DEF Placing
      <4>3. child \in Children(element, {"start"})
        BY <1>2, <1>5, <3>0, <4>1 DEF Placed, IsElement, IsChild
      <4>4. child \in C /\ doc[child + 1].type = "start"
        BY <1>2, <3>2, <4>3 DEF Children, SegmentType
      <4>5. SegmentAt(child) = [type |-> "tag", from |-> child, to |-> pos + 1]
        BY <4>2, <4>4 DEF SegmentAt, TagType
      <4>6. \A i : (IsChild(i) <=> i = child) /\ ~ IsChild(i)'
        BY <4>1 DEF IsChild, InBody
      <4>7. pos \notin C
        BY <3>4, <4>1
      <4>8. {i \in C : i < pos' /\ ~ IsChild(i)'} = {i \in C : i < pos /\ ~ IsChild(i)} \cup {child}
        BY <3>d, <4>2, <4>4, <4>6, <4>7
      <4>9. {segments'[k] : k \in DOMAIN segments'} =
              {segments[k] : k \in DOMAIN segments} \cup {SegmentAt(child)}
        BY <1>0, <4>1, <4>5, HeldAppended
      <4> QED
        BY <3>3, <4>8, <4>9
    <3> QED
      BY <3>1, <3>6, <3>7, <3>8
  <2> QED
    BY <2>1, <2>2
<1> QED
  BY <1>3, <1>4, <1>5

(* A self-closed element has no segments.                                  *)
LEMMA EmptyHasNone ==
  ASSUME ReaderOK, NEW i \in 0 .. Len(doc) - 1, doc[i + 1].type = "empty"
  PROVE  ReferenceSegments(i) = << >> /\ End(i) = i + 1
<1>1. End(i) = i + 1
  BY Alone
<1> DEFINE C == Children(i, SegmentType)
           q == InOrder(C)
           none == [k \in DOMAIN q |-> SegmentAt(q[k])]
<1>2. C = {}
  BY <1>1 DEF Children
<1>3. DOMAIN q = {}
  <2>1. Cardinality(C) = 0
    BY <1>2, FS_EmptySet
  <2>2. DOMAIN q = 1 .. Cardinality(C)
    BY DEF InOrder
  <2> QED
    BY <2>1, <2>2
<1>4. ReferenceSegments(i) = none
  BY Zenon DEF ReferenceSegments, SegmentType
<1>5. DOMAIN none = {}
  BY <1>3
<1>6. none = << >>
  BY <1>3
<1> QED
  BY <1>1, <1>4, <1>6

(* Where capture_body closes, its segments are those of the element.       *)
LEMMA BodyTold ==
  ASSUME Framing, Keeps, SegmentsNest, SegmentsTold, pass = "document", RootNests, BodyCloses
  PROVE  segments = ReferenceSegments(element) /\ End(element) = pos + 1
<1>0. /\ loop = "body" /\ Closes /\ pos \in Nat /\ segments \in Seq(Segment)
  BY DEF BodyCloses, Framing, ReaderOK, FoundOK
<1>1. Placing /\ element \in Nat /\ End(element) = pos + 1
  BY <1>0, PlacedInRoot DEF Placing, Busy
<1> DEFINE C == Children(element, SegmentType)
<1>2. C \subseteq Nat /\ \A i \in C : i < pos
  <2> SUFFICES ASSUME NEW i \in C PROVE i \in Nat /\ i < pos
    OBVIOUS
  <2>1. i \in element + 1 .. pos /\ doc[i + 1].type \in SegmentType
    BY <1>0, <1>1 DEF Children
  <2>2. i # pos
    BY <1>0, <2>1 DEF Closes, Sees, Tok, SegmentType
  <2> QED
    BY <1>0, <1>1, <2>1, <2>2
<1> DEFINE at == [i \in C |-> SegmentAt(i)]
<1>3. \A i \in C : at[i] = SegmentAt(i) /\ at[i].from = i
  BY DEF SegmentAt
<1>4. {segments[k] : k \in DOMAIN segments} = {at[i] : i \in C}
  <2>1. DoneIn(C) = C
    BY <1>0, <1>2 DEF DoneIn, IsChild, Framing, LoopsInPlace, InBody
  <2>2. IsElement(element)
    BY <1>0 DEF IsElement
  <2>3. {segments[k] : k \in DOMAIN segments} = {SegmentAt(i) : i \in DoneIn(C)}
    BY <1>0, <2>2 DEF SegmentsTold
  <2> QED
    BY <1>3, <2>1, <2>3
<1>5. \A j, k \in DOMAIN segments : j < k => segments[j].from < segments[k].from
  <2> TAKE j, k \in DOMAIN segments
  <2> HAVE j < k
  <2>1. segments[j] \in Segment /\ segments[k] \in Segment
    BY <1>0
  <2>2. /\ segments[j].from \in Nat /\ segments[j].to \in Nat /\ segments[k].from \in Nat
    BY <2>1 DEF Segment
  <2>3. segments[j].from < segments[j].to /\ segments[j].to <= segments[k].from
    BY DEF SegmentsNest, Apart, Inside
  <2> QED
    BY <2>2, <2>3
<1>6. Tells(segments, C, at)
  <2> HIDE DEF C, at
  <2> QED
    BY <1>2, <1>3, <1>4, <1>5 DEF Tells
<1> DEFINE q == InOrder(C)
<1>7. /\ segments = [k \in DOMAIN q |-> at[q[k]]]
      /\ \A k \in DOMAIN q : q[k] \in C
  <2> HIDE DEF C, at
  <2> QED
    BY <1>0, <1>6, ToldInOrder
<1>8. segments = [k \in DOMAIN q |-> SegmentAt(q[k])]
  BY <1>3, <1>7
<1>9. ReferenceSegments(element) = [k \in DOMAIN q |-> SegmentAt(q[k])]
  BY Zenon DEF ReferenceSegments, SegmentType
<1> QED
  BY <1>1, <1>8, <1>9

(* What is told of the document stays as it is.                            *)
LEMMA TellingStays ==
  ASSUME doc' = doc
  PROVE  /\ \A i : ReferenceSegments(i)' = ReferenceSegments(i)
         /\ \A i : ElementAt(i)' = ElementAt(i)
         /\ RootChildren' = RootChildren /\ Captured' = Captured /\ Stray' = Stray
<1>1. /\ \A i, types : Children(i, types)' = Children(i, types)
      /\ \A i : End(i)' = End(i)
      /\ RootStart' = RootStart
  BY RootStays
<1>2. \A i : SegmentAt(i)' = SegmentAt(i)
  BY <1>1 DEF SegmentAt
<1>3. \A i : ReferenceSegments(i)' = ReferenceSegments(i)
  BY <1>1, <1>2 DEF ReferenceSegments
<1>4. \A i : ElementAt(i)' = ElementAt(i)
  BY <1>1, <1>3 DEF ElementAt
<1>5. RootChildren' = RootChildren
  <2>1. PICK r : r = RootStart
    OBVIOUS
  <2> QED
    BY <1>1, <2>1 DEF RootChildren, Children, Nesting, End, Ends, WellNested
<1> QED
  BY <1>3, <1>4, <1>5 DEF Captured, Stray

(* The places the walk has just been done with.                            *)
LEMMA FinishedHere ==
  ASSUME Framing, Keeps, RootPast, Placed, pass = "document", pass' = "document", RootNests, Next
  PROVE  /\ MapperEmpty => pos \in RootChildren /\ End(pos) = pos + 1 /\ ReferenceSegments(pos) = << >>
         /\ BodyCloses => element \in Captured /\ element \notin Stray
         /\ SkipCloses /\ ~ InBody =>
              element \in RootChildren /\ element \notin Captured /\ End(element) = pos + 1
<1>0. ReaderOK /\ pos \in Nat /\ LoopsInPlace
  BY DEF Framing, ReaderOK
<1>1. ASSUME MapperEmpty
      PROVE  pos \in RootChildren /\ End(pos) = pos + 1 /\ ReferenceSegments(pos) = << >>
  <2>1. loop = "mapper" /\ ~ AtEof /\ Tok.type = "empty"
    BY <1>1 DEF MapperEmpty, Sees
  <2>2. pos \in RootChildren
    BY <2>1, ChildHere DEF Busy, RootChildren
  <2>3. pos \in 0 .. Len(doc) - 1
    BY <1>0, <2>1 DEF ReaderOK, AtEof
  <2> QED
    BY <1>0, <2>1, <2>2, <2>3, EmptyHasNone DEF Tok
<1>2. ASSUME BodyCloses PROVE element \in Captured /\ element \notin Stray
  <2>1. IsElement(element) /\ loop = "body"
    BY <1>2 DEF BodyCloses, IsElement
  <2> QED
    BY <2>1 DEF Placed, Captured, Stray
<1>3. ASSUME SkipCloses, ~ InBody
      PROVE  element \in RootChildren /\ element \notin Captured /\ End(element) = pos + 1
  <2>1. IsElement(element) /\ loop = "skip" /\ Closes /\ depth = 1
    BY <1>3 DEF SkipCloses, IsElement
  <2>2. Placing
    BY <2>1, PlacedInRoot DEF Busy
  <2> QED
    BY <1>3, <2>1, <2>2 DEF Placed, Captured, Placing
<1> QED
  BY <1>1, <1>2, <1>3

(* The elements collected are those the walk is done with.                 *)
LEMMA ElementsToldStep ==
  ASSUME Framing, Keeps, RootPast, Placed, SegmentsNest, SegmentsTold, ElementsTold, Next
  PROVE  ElementsTold'
<1>0. /\ doc' = doc /\ (RootNests' <=> RootNests) /\ elements \in Seq(Element) /\ LoopsInPlace
      /\ Captured' = Captured /\ \A i : ElementAt(i)' = ElementAt(i)
  <2>1. doc' = doc
    BY ReaderSteps DEF Read, OpenOver
  <2> QED
    BY <2>1, RootStays, TellingStays DEF Framing, FoundOK
<1>1. PICK P : P = Captured
  OBVIOUS
<1>2. Done(Captured)' = Done(P)'
  BY <1>0, <1>1 DEF Done
<1>3. SUFFICES ASSUME pass' = "document", RootNests
               PROVE  {elements'[k] : k \in DOMAIN elements'} = {ElementAt(i) : i \in Done(P)'}
  BY <1>0, <1>2 DEF ElementsTold
<1>4. pass = "document"
  BY <1>0, <1>3 DEF LoopsInPlace, Next, Recover, PassOver, RootOpens, RootEmpty, RootForeign,
     RootMissing, RootGivesUp, MapperCloses, MapperDone, MapperEof, MapperGivesUp,
     MapperCaptures, MapperSkips, MapperEmpty, BodyCloses, BodyEnds, BodyEof,
     BodyGivesUp, BodySegment, BodyIgnores, BodySkips, SkipCounts, SkipCloses,
     SkipAbandoned, TrailingIgnores, TrailingRecovers, TrailingEnds, CaptureSubtree, place,
     found
<1>5. Done(P)' = Done(P) \cup (P \cap Finished)
  <2>1. P \subseteq RootChildren
    BY <1>1 DEF Captured
  <2> QED
    BY <1>3, <1>4, <2>1, DoneStep
<1>6. {elements[k] : k \in DOMAIN elements} = {ElementAt(i) : i \in Done(P)}
  BY <1>1, <1>3, <1>4 DEF ElementsTold
<1>a. ASSUME elements' = elements, P \cap Finished = {}
      PROVE  {elements'[k] : k \in DOMAIN elements'} = {ElementAt(i) : i \in Done(P)'}
  BY <1>5, <1>6, <1>a
<1>b. ASSUME NEW i \in P, Finished = {i}, elements' = Append(elements, ElementAt(i))
      PROVE  {elements'[k] : k \in DOMAIN elements'} = {ElementAt(j) : j \in Done(P)'}
  <2>1. {elements'[k] : k \in DOMAIN elements'} = {elements[k] : k \in DOMAIN elements} \cup {ElementAt(i)}
    BY <1>0, <1>b, HeldAppended
  <2>2. Done(P)' = Done(P) \cup {i}
    BY <1>5, <1>b
  <2> QED
    BY <1>6, <2>1, <2>2
<1>7. CASE MapperEmpty
  <2>1. Finished = {pos} /\ pos \in RootChildren /\ End(pos) = pos + 1 /\ ReferenceSegments(pos) = << >>
    BY <1>3, <1>4, <1>7, FinishedHere DEF Finished
  <2>2. CASE Tok.name \in CapturedName
    <3>1. elements' = Append(elements, ElementAt(pos))
      BY <1>7, <2>1, <2>2 DEF MapperEmpty, ElementAt, Tok
    <3>2. pos \in P
      BY <1>1, <2>1, <2>2 DEF Captured, Tok
    <3> QED
      BY <1>b, <2>1, <3>1, <3>2
  <2>3. CASE Tok.name \notin CapturedName
    <3>1. elements' = elements /\ P \cap Finished = {}
      BY <1>1, <1>7, <2>1, <2>3 DEF MapperEmpty, Captured, Tok
    <3> QED
      BY <1>a, <3>1
  <2> QED
    BY <2>2, <2>3
<1>8. CASE BodyCloses
  <2>1. ~ MapperEmpty
    BY <1>8 DEF MapperEmpty, BodyCloses
  <2>2. Finished = {element} /\ element \in P
    BY <1>1, <1>3, <1>4, <1>8, <2>1, FinishedHere DEF Finished
  <2>3. segments = ReferenceSegments(element) /\ End(element) = pos + 1
    BY <1>3, <1>4, <1>8, BodyTold
  <2>4. elements' = Append(elements, ElementAt(element))
    BY <1>4, <1>8, <2>3 DEF BodyCloses, BodyEnds, ElementAt
  <2> QED
    BY <1>b, <2>2, <2>4
<1>9. CASE SkipCloses /\ ~ InBody
  <2>1. Finished = {element} /\ element \notin P
    BY <1>1, <1>3, <1>4, <1>9, FinishedHere DEF Finished, MapperEmpty, SkipCloses, BodyCloses
  <2>2. elements' = elements
    BY <1>9 DEF SkipCloses
  <2> QED
    BY <1>a, <2>1, <2>2
<1>10. CASE ~ (MapperEmpty \/ BodyCloses \/ (SkipCloses /\ ~ InBody))
  <2>1. Finished = {}
    BY <1>10 DEF Finished
  <2>2. elements' = elements
    BY <1>3, <1>4, <1>10, StepsInRoot DEF Recover, PassOver, RootOpens, RootEmpty, RootGivesUp,
       MapperCloses, MapperDone, MapperCaptures, MapperSkips, BodySegment, BodyIgnores,
       BodySkips,
       SkipCounts, SkipCloses, TrailingIgnores, TrailingRecovers, TrailingEnds, found
  <2> QED
    BY <1>a, <2>1, <2>2
<1> QED
  BY <1>7, <1>8, <1>9, <1>10

(* The strays reported are those the walk is done with.                    *)
LEMMA StraysToldStep ==
  ASSUME Framing, Keeps, RootPast, Placed, StraysTold, Next
  PROVE  StraysTold'
<1> DEFINE Told(i) == Diag("UnknownElement", i, End(i))
<1>0. /\ doc' = doc /\ (RootNests' <=> RootNests) /\ LoopsInPlace
      /\ Stray' = Stray /\ \A i : End(i)' = End(i)
  <2>1. doc' = doc
    BY ReaderSteps DEF Read, OpenOver
  <2> QED
    BY <2>1, RootStays, TellingStays DEF Framing
<1>1. PICK P : P = Stray
  OBVIOUS
<1>2. Done(Stray)' = Done(P)' /\ \A i : Diag("UnknownElement", i, End(i))' = Told(i)
  BY <1>0, <1>1 DEF Done, Diag
<1>3. SUFFICES ASSUME pass' = "document", RootNests
               PROVE  {d \in diags' : d.code = "UnknownElement"} = {Told(i) : i \in Done(P)'}
  BY <1>0, <1>2 DEF StraysTold
<1>4. pass = "document"
  BY <1>0, <1>3 DEF LoopsInPlace, Next, Recover, PassOver, RootOpens, RootEmpty, RootForeign,
     RootMissing, RootGivesUp, MapperCloses, MapperDone, MapperEof, MapperGivesUp,
     MapperCaptures, MapperSkips, MapperEmpty, BodyCloses, BodyEnds, BodyEof,
     BodyGivesUp, BodySegment, BodyIgnores, BodySkips, SkipCounts, SkipCloses,
     SkipAbandoned, TrailingIgnores, TrailingRecovers, TrailingEnds, CaptureSubtree, place,
     found
<1>5. Done(P)' = Done(P) \cup (P \cap Finished)
  <2>1. P \subseteq RootChildren
    BY <1>1 DEF Stray
  <2> QED
    BY <1>3, <1>4, <2>1, DoneStep
<1>6. {d \in diags : d.code = "UnknownElement"} = {Told(i) : i \in Done(P)}
  BY <1>1, <1>3, <1>4 DEF StraysTold
<1>7. \A c, x, y : Diag(c, x, y).code = c
  BY DEF Diag
<1>8. \A i : Told(i).code = "UnknownElement"
  BY <1>7
<1> HIDE DEF Told
<1>a. ASSUME \A d : d.code = "UnknownElement" => (d \in diags' <=> d \in diags), P \cap Finished = {}
      PROVE  {d \in diags' : d.code = "UnknownElement"} = {Told(i) : i \in Done(P)'}
  BY <1>5, <1>6, <1>a
<1>b. ASSUME NEW i, Finished = {i}, i \in P <=> doc[i + 1].name \notin CapturedName \cup IgnorableName,
             doc[i + 1].name \notin CapturedName,
             Report(UnknownReport(doc[i + 1].name, i, End(i)))
      PROVE  {d \in diags' : d.code = "UnknownElement"} = {Told(j) : j \in Done(P)'}
  <2>1. CASE doc[i + 1].name \in IgnorableName
    <3>1. diags' = diags /\ P \cap Finished = {}
      BY <1>b, <2>1 DEF Report, UnknownReport
    <3> QED
      BY <1>a, <3>1
  <2>2. CASE doc[i + 1].name \notin IgnorableName
    <3>1. diags' = diags \cup {Told(i)} /\ Done(P)' = Done(P) \cup {i}
      BY <1>5, <1>b, <2>2 DEF Report, UnknownReport, Told
    <3> QED
      BY <1>6, <1>8, <3>1
  <2> QED
    BY <2>1, <2>2
<1>9. CASE MapperEmpty
  <2>1. Finished = {pos} /\ pos \in RootChildren /\ End(pos) = pos + 1
    BY <1>3, <1>4, <1>9, FinishedHere DEF Finished
  <2>2. CASE Tok.name \in CapturedName
    <3>1. diags' = diags /\ P \cap Finished = {}
      BY <1>1, <1>9, <2>1, <2>2 DEF MapperEmpty, Stray, Tok
    <3> QED
      BY <1>a, <3>1
  <2>3. CASE Tok.name \notin CapturedName
    <3>1. /\ Report(UnknownReport(doc[pos + 1].name, pos, End(pos)))
          /\ pos \in P <=> doc[pos + 1].name \notin CapturedName \cup IgnorableName
      BY <1>1, <1>9, <2>1, <2>3 DEF MapperEmpty, Stray, Tok
    <3> QED
      BY <1>b, <2>1, <2>3, <3>1 DEF Tok
  <2> QED
    BY <2>2, <2>3
<1>10. CASE BodyCloses
  <2>1. Finished = {element} /\ element \notin P
    BY <1>1, <1>3, <1>4, <1>10, FinishedHere DEF Finished, MapperEmpty, BodyCloses
  <2>2. diags' = diags
    BY <1>10 DEF BodyCloses
  <2> QED
    BY <1>a, <2>1, <2>2
<1>11. CASE SkipCloses /\ ~ InBody
  <2>1. Finished = {element} /\ element \in RootChildren /\ element \notin Captured /\ End(element) = pos + 1
    BY <1>3, <1>4, <1>11, FinishedHere DEF Finished, MapperEmpty, SkipCloses, BodyCloses
  <2>2. /\ Report(UnknownReport(doc[element + 1].name, element, End(element)))
        /\ doc[element + 1].name \notin CapturedName
        /\ element \in P <=> doc[element + 1].name \notin CapturedName \cup IgnorableName
    BY <1>1, <1>11, <2>1 DEF SkipCloses, Stray, Captured
  <2> QED
    BY <1>b, <2>1, <2>2
<1>12. CASE ~ (MapperEmpty \/ BodyCloses \/ (SkipCloses /\ ~ InBody))
  <2>1. Finished = {}
    BY <1>12 DEF Finished
  <2>2. \A d : d.code = "UnknownElement" => (d \in diags' <=> d \in diags)
    <3>1. CASE PassOver \/ BodySegment
      <4>1. diags' = diags \cup EntityReport /\ \A d \in EntityReport : d.code = "InvalidEntity"
        BY <1>7, <3>1 DEF PassOver, BodySegment, Report, EntityReport
      <4> QED
        BY <4>1
    <3>2. CASE Recover \/ RootGivesUp
      <4>1. diags' = diags \cup {Diag("UnclosedTag", pos, pos)}
        BY <3>2 DEF Recover, RootGivesUp, Report
      <4>2. Diag("UnclosedTag", pos, pos).code = "UnclosedTag"
        BY <1>7
      <4> QED
        BY <4>1, <4>2
    <3>3. CASE ~ (PassOver \/ BodySegment \/ Recover \/ RootGivesUp)
      <4>1. diags' = diags
        BY <1>3, <1>4, <1>12, <3>3, StepsInRoot DEF RootOpens, RootEmpty,
           MapperCloses, MapperDone, MapperCaptures, MapperSkips, BodyIgnores, BodySkips,
           SkipCounts, SkipCloses, TrailingIgnores, TrailingRecovers, TrailingEnds, found
      <4> QED
        BY <4>1
    <3> QED
      BY <3>1, <3>2, <3>3
  <2> QED
    BY <1>a, <2>1, <2>2
<1> QED
  BY <1>9, <1>10, <1>11, <1>12

(* What the walk has told of the document, at every step of it.            *)
Tale == Plain /\ RootPast /\ Placed /\ SegmentsTold /\ ElementsTold /\ StraysTold

(* Nothing is told before the walk.                                        *)
LEMMA InitTale ==
  ASSUME Init, Framing
  PROVE  Tale
<1>1. /\ loop = "root" /\ pos = 0 /\ elements = << >> /\ diags = {} /\ ~ mapper /\ ~ Busy
      /\ ~ InBody /\ ReaderOK
  BY DEF Init, Busy, InBody, Framing
<1>2. Plain /\ RootPast /\ Placed /\ SegmentsTold
  BY <1>1 DEF Plain, RootPast, Placed, SegmentsTold, IsElement
<1>3. ASSUME RootNests, NEW P, P \subseteq RootChildren PROVE Done(P) = {}
  <2>1. RootStart \in Nat /\ End(RootStart) \in Nat
    BY <1>1, <1>3, RootEncloses
  <2>2. \A i \in P : ~ (i < 0)
    BY <1>3, <2>1 DEF RootChildren, Children
  <2> QED
    BY <1>1, <2>2 DEF Done
<1>4. RootNests => Done(Captured) = {} /\ Done(Stray) = {}
  BY <1>3 DEF Captured, Stray
<1>5. {elements[k] : k \in DOMAIN elements} = {}
  BY <1>1
<1>6. ElementsTold /\ StraysTold
  BY <1>1, <1>4, <1>5 DEF ElementsTold, StraysTold
<1> QED
  BY <1>2, <1>6 DEF Tale

(* What is told goes on being right.                                       *)
LEMMA TaleStep ==
  ASSUME Framing, Keeps, SegmentsNest, ReaderAgrees, Tale, [Next]_vars
  PROVE  Tale'
<1>1. CASE Next
  BY <1>1, PlainStep, RootPastStep, PlacedStep, SegmentsToldStep, ElementsToldStep, StraysToldStep
     DEF Tale
<1>2. CASE UNCHANGED vars
  <2>1. /\ UNCHANGED <<doc, limit, pos, open, pass, loop, element, child, depth>>
        /\ UNCHANGED <<lastErr, segments, elements, tags, mapper, diags>>
    BY <1>2 DEF vars, place, found
  <2>2. /\ \A a : Nesting(a)' = Nesting(a) /\ End(a)' = End(a)
        /\ \A a, types : Children(a, types)' = Children(a, types)
        /\ RootStart' = RootStart /\ (RootNests' <=> RootNests) /\ Unclosed' = Unclosed
    BY <2>1, RootStays DEF Unclosed
  <2>3. /\ \A i : ElementAt(i)' = ElementAt(i)
        /\ RootChildren' = RootChildren /\ Captured' = Captured /\ Stray' = Stray
    BY <2>1, TellingStays
  <2>4. /\ \A i : SegmentAt(i)' = SegmentAt(i)
        /\ \A i : (IsElement(i)' <=> IsElement(i)) /\ (IsChild(i)' <=> IsChild(i))
        /\ (Busy' <=> Busy) /\ (InBody' <=> InBody)
    BY <2>1, <2>2 DEF SegmentAt, IsElement, IsChild, Busy, InBody
  <2>5. Done(Captured)' = Done(Captured) /\ Done(Stray)' = Done(Stray)
    BY <2>1, <2>3, <2>4 DEF Done
  <2>6. \A e : DoneIn(Children(e, SegmentType))' = DoneIn(Children(e, SegmentType))
    BY <2>1, <2>2, <2>4 DEF DoneIn
  <2>7. Nesting(RootStart)' = Nesting(RootStart) /\ End(RootStart)' = End(RootStart)
    BY <2>1, <2>2 DEF Nesting, End, Ends, WellNested
  <2>8. Plain' /\ RootPast'
    BY <2>1, <2>2, <2>4, <2>7 DEF Tale, Plain, RootPast
  <2>9. Placed'
    BY <2>1, <2>2, <2>3, <2>4 DEF Tale, Placed
  <2>10. SegmentsTold'
    BY <2>1, <2>2, <2>4, <2>6 DEF Tale, SegmentsTold
  <2>11. ElementsTold' /\ StraysTold'
    BY <2>1, <2>2, <2>3, <2>5 DEF Tale, ElementsTold, StraysTold, Diag
  <2> QED
    BY <2>8, <2>9, <2>10, <2>11 DEF Tale
<1> QED
  BY <1>1, <1>2

(* Every reachable state tells the document right.                         *)
THEOREM AlwaysTale == Spec => []Tale
<1>1. Init => Tale
  BY InitTale, InitFraming
<1>2. Framing /\ Keeps /\ SegmentsNest /\ ElementsNest /\ ReaderAgrees /\ Tale /\ [Next]_vars => Tale'
  BY TaleStep
<1> QED
  BY <1>1, <1>2, AlwaysFraming, AlwaysKeeps, AlwaysNest, ReaderAlwaysAgrees, PTL DEF Spec

(* Where the root has been walked, all of it is done with.                 *)
LEMMA AllDone ==
  ASSUME Framing, Tale, pass = "document", RootNests,
         loop = "trailing" \/ (loop = "done" /\ mapper),
         NEW P, P \subseteq RootChildren
  PROVE  Done(P) = P
<1>1. RootStart \in Nat /\ End(RootStart) \in Nat /\ pos \in Nat
  BY RootEncloses DEF Framing, ReaderOK
<1>2. End(RootStart) <= pos
  BY DEF Tale, RootPast
<1>3. \A i \in P : i < pos
  <2> TAKE i \in P
  <2>1. i \in RootStart + 1 .. End(RootStart) - 1
    BY DEF RootChildren, Children
  <2> QED
    BY <1>1, <1>2, <2>1
<1> QED
  BY <1>3 DEF Done, IsElement

(* Where the root nests, the elements collected are its children, in order *)
(* and each with its own.                                                  *)
LEMMA AllTold ==
  ASSUME Framing, Tale, ElementsNest, pass = "document", RootNests,
         loop = "trailing" \/ (loop = "done" /\ mapper)
  PROVE  elements = ReferenceElements
<1>0. /\ ReaderOK /\ elements \in Seq(Element) /\ RootStart \in Nat /\ End(RootStart) \in Nat
      /\ RootStart \in 0 .. Len(doc) - 1
  BY RootEncloses DEF Framing, FoundOK
<1> DEFINE C == Captured
           at == [i \in C |-> ElementAt(i)]
<1>1. C \subseteq Nat
  BY <1>0 DEF Captured, RootChildren, Children
<1>2. \A i \in C : at[i] = ElementAt(i) /\ at[i].from = i /\ at[i].to = End(i)
  BY DEF ElementAt
<1>3. {elements[k] : k \in DOMAIN elements} = {at[i] : i \in C}
  <2>1. Done(C) = C
    BY AllDone DEF Captured
  <2>2. {elements[k] : k \in DOMAIN elements} = {ElementAt(i) : i \in Done(C)}
    BY DEF Tale, ElementsTold
  <2> QED
    BY <1>2, <2>1, <2>2
<1>4. \A i \in C : i < End(i)
  <2> TAKE i \in C
  <2>1. CASE doc[RootStart + 1].type = "start"
    <3>1. Encloses(RootStart, End(RootStart)) /\ i \in Children(RootStart, SegmentType)
      BY <2>1, <1>0, RootEncloses DEF Captured, RootChildren, Children, SegmentType
    <3> QED
      BY <1>0, <3>1, ChildNests
  <2>2. CASE doc[RootStart + 1].type = "empty"
    <3>1. End(RootStart) = RootStart + 1
      BY <1>0, <2>2, Alone
    <3>2. i \in RootStart + 1 .. End(RootStart) - 1
      BY DEF Captured, RootChildren, Children
    <3> QED
      BY <1>0, <3>1, <3>2
  <2> QED
    BY <1>0, <2>1, <2>2, RootEncloses
<1>5. \A j, k \in DOMAIN elements : j < k => elements[j].from < elements[k].from
  <2> TAKE j, k \in DOMAIN elements
  <2> HAVE j < k
  <2>1. elements[j] \in Element /\ elements[k] \in Element
    BY <1>0
  <2>2. elements[j].from \in Nat /\ elements[j].to \in Nat /\ elements[k].from \in Nat
    BY <2>1 DEF Element
  <2>3. elements[j].to <= elements[k].from
    BY DEF ElementsNest, Apart
  <2>4. elements[j] \in {at[i] : i \in C}
    <3> HIDE DEF C, at
    <3>1. elements[j] \in {elements[m] : m \in DOMAIN elements}
      OBVIOUS
    <3> QED
      BY <1>3, <3>1
  <2>5. PICK i \in C : elements[j] = at[i]
    BY <2>4
  <2>6. elements[j].from < elements[j].to
    BY <1>2, <1>4, <2>5
  <2> QED
    BY <2>2, <2>3, <2>6
<1>6. Tells(elements, C, at)
  <2> HIDE DEF C, at
  <2> QED
    BY <1>1, <1>2, <1>3, <1>5 DEF Tells
<1> DEFINE q == InOrder(C)
<1>7. /\ elements = [k \in DOMAIN q |-> at[q[k]]]
      /\ \A k \in DOMAIN q : q[k] \in C
  <2> HIDE DEF C, at
  <2> QED
    BY <1>0, <1>6, ToldInOrder
<1>8. elements = [k \in DOMAIN q |-> ElementAt(q[k])]
  BY <1>2, <1>7
<1>9. ReferenceElements = [k \in DOMAIN q |-> ElementAt(q[k])]
  BY Zenon DEF ReferenceElements
<1> QED
  BY <1>8, <1>9

(* A mapper whose tags nest yields exactly its children, each with exactly *)
(* its segments; one whose tags do not never passes without an UnclosedTag *)
(* to show for it.                                                         *)
THEOREM StructureIsReportedOrRight == Spec => []StructureOrReport
<1>1. Framing /\ SegmentsNest /\ ElementsNest /\ Tale => StructureOrReport
  BY AllTold DEF StructureOrReport, Tale, Plain
<1> QED
  BY <1>1, AlwaysFraming, AlwaysNest, AlwaysTale, PTL

(* In a root that nests, every child that is neither captured nor to be    *)
(* ignored is reported, over just its span, and nothing else is.           *)
THEOREM StraysAlwaysReported == Spec => []StrayElementsReported
<1>1. Framing /\ Tale => StrayElementsReported
  <2> SUFFICES ASSUME Framing, Tale, pass = "document", mapper, loop = "done", RootNests
               PROVE  {d \in diags : d.code = "UnknownElement"} =
                        {Diag("UnknownElement", i, End(i)) : i \in Stray}
    BY DEF StrayElementsReported
  <2>1. Done(Stray) = Stray
    BY AllDone DEF Stray
  <2> QED
    BY <2>1 DEF Tale, StraysTold
<1> QED
  BY <1>1, AlwaysFraming, AlwaysTale, PTL
================================================================================
