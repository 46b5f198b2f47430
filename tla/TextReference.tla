----------------------------- MODULE TextReference -----------------------------
(***************************************************************************)
(* What must hold of the SQL text and its span map.  The characters carry  *)
(* where they are really from, so what the map says of a position can be   *)
(* compared with the truth.                                                *)
(***************************************************************************)
EXTENDS TextPipeline

SpanMap == Seq(Entry)
Sql == [text : Seq(Char), map : SpanMap]

SqlPieces(pieces) == {pieces[k].sql : k \in {j \in DOMAIN pieces : pieces[j].type = "Normalized"}}

(* Every text there is: in pieces, finished, and about to be a piece.      *)
Sqls ==
  {sql} \cup (UNION {SqlPieces(frames[f].pieces) : f \in DOMAIN frames})
    \cup (IF scanning /\ i = Len(Merged) THEN {Normalized} ELSE {})

(* Types of the state.                                                     *)
TypeOK ==
  /\ dialect \in Dialect /\ scanning \in BOOLEAN
  /\ runs \in Seq(TextRun) /\ (scanning <=> runs # << >>)
  /\ \A k \in DOMAIN runs : runs[k].end <= Len(Source)
  /\ copyStart \in 0 .. i /\ i \in 0 .. Len(Merged)
  /\ text \in Seq(Char) /\ map \in SpanMap
  /\ paths \in Seq([value : Seq(Char), span : Span])
  /\ diags \in Seq(Span)
  /\ next \in 0 .. Len(body)
  /\ \A s \in Sqls : s \in Sql

(* Scanning run by run, copying late and in stretches, is placeholder      *)
(* normalisation of the text as a whole, however it is cut into runs.      *)
Promise ==
  INSTANCE PlaceholderSpec
    WITH input <- Spelling(Merged), at <- i, out <- Spelling(FlushedText(i)),
         found <- [k \in DOMAIN paths |-> Spelling(paths[k].value)]

PromiseKept == Promise!Spec

(* src/src/model.rs:487 "the synthetic-text offset ... is strictly         *)
(* increasing"; besides, every character of a text is covered by an entry  *)
(* and no entry stands past the end, through any nesting of wrappers that  *)
(* strip and add.                                                          *)
SpanMapsSound ==
  \A s \in Sqls :
    /\ \A j, k \in DOMAIN s.map : j < k => s.map[j][1] < s.map[k][1]
    /\ s.text # << >> => s.map # << >> /\ s.map[1][1] = 0
    /\ \A k \in DOMAIN s.map : s.map[k][1] < Len(s.text)

-------------------------------------------------------------------------------
(* What a consumer reads off the map for the character at offset o: the    *)
(* last entry at or before it, counted on from there.                      *)
Governing(s, o) == EntryAt(s.map, o, 0)
Traced(s, o) == Governing(s, o)[2] + (o - Governing(s, o)[1])

(* A marker that stands right behind the text before what it replaces.     *)
FollowsOn(s, o) ==
  o > 0 /\ s.text[o].kind = "exact" /\ s.text[o].at + 1 = s.text[o + 1].at

TracesTrue(s, o) ==
  LET c == s.text[o + 1]
  IN  CASE c.kind = "exact" -> Traced(s, o) = c.at
        [] c.kind \in {"coarse", "tag"} -> Governing(s, o)[2] = c.at
        [] c.kind = "mark" -> FollowsOn(s, o) => Traced(s, o) = c.at
        [] c.kind = "inner" -> TRUE

(* An empty CDATA section takes the place of the text right after it in    *)
(* the layout; see BoundariesMarked.                                       *)
EmptyRun == \E k \in DOMAIN body : body[k].type = "cdata" /\ body[k].chars = << >>

(* Through scanning, assembling, stripping and adding at both ends, every  *)
(* character of a verbatim segment traces back to its own byte, one that   *)
(* stands for an entity to the entity's start, one a wrapper made up to    *)
(* the wrapper's tag, and a marker to the placeholder it replaces.         *)
TracesBack ==
  ~ EmptyRun => \A s \in Sqls : \A o \in 0 .. Len(s.text) - 1 : TracesTrue(s, o)

(* The span of a property path slices the source to exactly the path when  *)
(* the path lies in one verbatim segment, and is a point where it starts   *)
(* when it does not (src/src/placeholder.rs:32-43).                        *)
InSegment(k, chars) ==
  /\ body[k].type \in TextType /\ Verbatim(Segment(k))
  /\ \A n \in DOMAIN chars :
       /\ chars[n].kind = "exact"
       /\ Segment(k).start <= chars[n].at /\ chars[n].at < Segment(k).end

PathSpansExact ==
  \A n \in DOMAIN paths :
    LET v == paths[n].value
        s == paths[n].span
    IN  /\ s[1] = v[1].at
        /\ IF \E k \in DOMAIN body : InSegment(k, v)
           THEN SubSeq(Source, s[1] + 1, s[2]) = Spelling(v)
           ELSE s[2] = s[1]

-------------------------------------------------------------------------------
(* Text a wrapper takes away: blanks around at most one word.              *)
OnlyBlanksAround(t, words) ==
  \/ AllBlank(t)
  \/ \E w \in words, b \in 0 .. Len(t) :
       /\ ReadsAt(t, b, w)
       /\ AllBlank(SubSeq(t, 1, b)) /\ AllBlank(SubSeq(t, b + Len(w) + 1, Len(t)))

Leading(w) ==
  CASE w.kind = "where" -> AndOr
    [] w.kind = "set" -> {<<",">>}
    [] w.kind = "trim" -> Range(w.leading)
    [] OTHER -> {}

Trailing(w) ==
  CASE w.kind = "set" -> {<<",">>}
    [] w.kind = "trim" -> Range(w.trailing)
    [] OTHER -> {}

Between(w, inner, outer) ==
  \E a \in 1 .. Len(inner) + 1, b \in 0 .. Len(inner) :
    /\ a <= b + 1
    /\ Spelling(outer) = w.prefix \o Spelling(SubSeq(inner, a, b)) \o w.suffix
    /\ OnlyBlanksAround(SubSeq(inner, 1, a - 1), Leading(w))
    /\ OnlyBlanksAround(SubSeq(inner, b + 1, Len(inner)), Trailing(w))

ClosesWrapper == next' = next + 1 /\ AtEvent("close") /\ Top.wrapper.kind # "is"

(* Whatever a wrapper strips at its two ends, its own prefix and suffix    *)
(* stay whole, and of the text between them nothing is lost but one word   *)
(* at each end, with the blanks around it.                                 *)
WrapsWhole ==
  [][ClosesWrapper =>
       LET w == Top.wrapper
           inner == Assembled(IF w.kind = "dynamic" THEN WithoutFirstPrepend(Top.pieces)
                              ELSE Top.pieces).text
           outer == Last(frames'[Len(frames')].pieces)
       IN  \/ w.kind # "foreach" /\ AllBlank(inner)
           \/ Between(w, inner, outer.sql.text)]_vars

-------------------------------------------------------------------------------
(* src/src/placeholder.rs:131 of the merged runs: "a run of segments with  *)
(* no placeholder crossing any of their junctions still gets exactly the   *)
(* same span_map density as processing them one at a time would have --    *)
(* one entry per original segment boundary".                               *)
Crossed(k) ==
  \E o \in DOMAIN Merged : o <= MergedStart(k) /\ Merged[o].ch \in {"#", "$", "{"}

BoundariesMarked ==
  scanning /\ i = Len(Merged) =>
    \A k \in DOMAIN runs :
      runs[k].decoded # << >> /\ ~ Crossed(k) =>
        \E e \in Range(Normalized.map) : e[2] = runs[k].start
===============================================================================
