-------------------------------- MODULE SqlText --------------------------------
(***************************************************************************)
(* The SqlString operations of src/src/flatten.rs: pieces are assembled    *)
(* into one text with one span map, and a wrapper strips from and adds to  *)
(* a text while it moves the entries of the map.                           *)
(*                                                                         *)
(* A sql is [text, map]: characters as in Placeholder, and entries <<offset*)
(* in the text, offset in the source>>.                                    *)
(***************************************************************************)
EXTENDS Integers, Sequences, FiniteSetsExt, SequencesExt, Selection

Spelling(chars) == [k \in DOMAIN chars |-> chars[k].ch]

(* Text no source byte stands for is that of the tag at `start`.           *)
Synthetic(chars, start) ==
  [k \in DOMAIN chars |-> [ch |-> chars[k], at |-> start, kind |-> "tag"]]

IsBlankChar(c) == c = " "
AllBlank(t) == \A k \in DOMAIN t : IsBlankChar(t[k].ch)

-------------------------------------------------------------------------------
(* push_span_entry: the newer of two entries at one offset wins.           *)
PushEntry(m, e) ==
  IF m # << >> /\ Last(m)[1] = e[1] THEN Append(Front(m), e) ELSE Append(m, e)

PushEntries(m, es) ==
  LET upTo[k \in 0 .. Len(es)] == IF k = 0 THEN m ELSE PushEntry(upTo[k - 1], es[k])
  IN  upTo[Len(es)]

Shifted(m, by) == [k \in DOMAIN m |-> <<m[k][1] + by, m[k][2]>>]

NormalizedPiece(sql) == [type |-> "Normalized", sql |-> sql]
IncludePiece(start) == [type |-> "Include", start |-> start]
PrependPiece(value, start) == [type |-> "Prepend", value |-> value, start |-> start]

(* The comment an include leaves behind; what it says is left out.         *)
IncludeToken == <<"/*", "*/">>

(* assemble, piece by piece.                                               *)
Appended(sql, piece) ==
  IF piece.type = "Normalized"
  THEN [text |-> sql.text \o piece.sql.text,
        map |-> PushEntries(sql.map, Shifted(piece.sql.map, Len(sql.text)))]
  ELSE LET token == IF piece.type = "Include" THEN IncludeToken
                    ELSE Append(piece.value, " ")
       IN  [text |-> sql.text \o Synthetic(token, piece.start),
            map |-> PushEntry(sql.map, <<Len(sql.text), piece.start>>)]

Assembled(pieces) ==
  LET upTo[k \in 0 .. Len(pieces)] ==
        IF k = 0 THEN [text |-> << >>, map |-> << >>]
        ELSE Appended(upTo[k - 1], pieces[k])
  IN  upTo[Len(pieces)]

-------------------------------------------------------------------------------
(* with_prefix.                                                            *)

(* The entry in force at an offset: the last one at or before it.          *)
EntryAt(m, offset, default) ==
  LET before == Only(m, {k \in DOMAIN m : m[k][1] <= offset})
  IN  IF before # << >> THEN Last(before)
      ELSE <<0, IF m = << >> THEN default ELSE m[1][2]>>

\* Mutated: the offset is extrapolated whatever the source says there (B21).
SplitPointUnverified(source, sql, start, strip) ==
  LET base == EntryAt(sql.map, strip, start)
  IN  base[2] + (strip - base[1])

(* Where the text after the stripped part is from.  Extrapolated from the  *)
(* entry in force only if the text up to there reads as the source does.   *)
SplitPoint(source, sql, start, strip) ==
  LET base == EntryAt(sql.map, strip, start)
      candidate == base[2] + (strip - base[1])
      verified == /\ candidate <= Len(source)
                  /\ Spelling(SubSeq(sql.text, base[1] + 1, strip))
                       = SubSeq(source, base[2] + 1, candidate)
  IN  IF verified THEN candidate ELSE base[2]

LaterEntries(m, strip, by) ==
  Shifted(Only(m, {k \in DOMAIN m : m[k][1] > strip}), by - strip)

WithPrefix(source, sql, start, strip, prefix) ==
  IF prefix = << >> /\ strip = 0 THEN sql
  ELSE LET kept == SubSeq(sql.text, strip + 1, Len(sql.text))
           split == <<Len(prefix), SplitPoint(source, sql, start, strip)>>
           entries == PushEntries(PushEntry(<<<<0, start>>>>, split),
                                  LaterEntries(sql.map, strip, Len(prefix)))
           t == Synthetic(prefix, start) \o kept
       IN  [text |-> t, map |-> Only(entries, {k \in DOMAIN entries : entries[k][1] < Len(t)})]

(* with_suffix.                                                            *)
WithSuffix(sql, start, suffix) ==
  [text |-> sql.text \o Synthetic(suffix, start),
   map |-> IF suffix = << >> THEN sql.map
           ELSE PushEntry(sql.map, <<Len(sql.text), start>>)]

\* Mutated: an entry where the text now ends is kept (B9).
WithoutSuffixPhantom(sql, strip) ==
  LET keep == Len(sql.text) - strip
  IN  [text |-> SubSeq(sql.text, 1, keep),
       map |-> Only(sql.map, {k \in DOMAIN sql.map : sql.map[k][1] <= keep})]

(* with_suffix_strip.                                                      *)
WithoutSuffix(sql, strip) ==
  LET keep == Len(sql.text) - Min({strip, Len(sql.text)})
  IN  IF keep = Len(sql.text) THEN sql
      ELSE [text |-> SubSeq(sql.text, 1, keep),
            map |-> Only(sql.map, {k \in DOMAIN sql.map : sql.map[k][1] < keep})]

-------------------------------------------------------------------------------
(* How much a wrapper strips, from the text alone.                         *)

BlanksAt(t, from) ==
  LET solid == {k \in from + 1 .. Len(t) : ~ IsBlankChar(t[k].ch)}
  IN  IF solid = {} THEN Len(t) - from ELSE Min(solid) - 1 - from

TrailingBlanks(t) == BlanksAt(Reverse(t), 0)

ReadsAt(t, from, chars) ==
  /\ from + Len(chars) <= Len(t)
  /\ Spelling(SubSeq(t, from + 1, from + Len(chars))) = chars

CONSTANT AndOr    \* the words AND and OR, as sequences of characters

(* leading_and_or_strip_len: the word must be followed by a blank.         *)
LeadingAndOr(t) ==
  LET b == BlanksAt(t, 0)
      found == {w \in AndOr : ReadsAt(t, b, w) /\ BlanksAt(t, b + Len(w)) > 0}
  IN  IF found = {} THEN 0
      ELSE LET n == b + Len(CHOOSE w \in found : TRUE) IN n + BlanksAt(t, n)

(* leading_comma_strip_len, trailing_comma_strip_len.                      *)
LeadingComma(t) ==
  LET n == BlanksAt(t, 0) + 1
  IN  IF ReadsAt(t, n - 1, <<",">>) THEN n + BlanksAt(t, n) ELSE 0

TrailingComma(t) ==
  LET b == TrailingBlanks(t)
  IN  IF b < Len(t) /\ t[Len(t) - b].ch = "," THEN b + 1 ELSE 0

(* leading_override_strip_len, trailing_override_strip_len: the first that *)
(* matches, in the order they are written in.                              *)
FirstMatching(overrides, fits(_)) ==
  LET ks == {k \in DOMAIN overrides : fits(overrides[k])}
  IN  IF ks = {} THEN {} ELSE {overrides[Min(ks)]}

LeadingOverride(t, overrides) ==
  LET b == BlanksAt(t, 0)
      m == FirstMatching(overrides, LAMBDA o : ReadsAt(t, b, o))
  IN  IF m = {} THEN 0 ELSE b + Len(CHOOSE o \in m : TRUE)

TrailingOverride(t, overrides) ==
  LET b == TrailingBlanks(t)
      m == FirstMatching(overrides, LAMBDA o :
             Len(o) <= Len(t) - b /\ ReadsAt(t, Len(t) - b - Len(o), o))
  IN  IF m = {} THEN 0 ELSE b + Len(CHOOSE o \in m : TRUE)

-------------------------------------------------------------------------------
(* finish_pending's wrappers.                                              *)

\* Mutated: the stretches stripped at the two ends may overlap.
AtBothEndsOverlapping(source, sql, start, lead, trail, prefix, suffix) ==
  WithSuffix(WithoutSuffix(WithPrefix(source, sql, start, lead, prefix), trail), start, suffix)

(* Set and Trim strip at both ends, Trim adds at both.                     *)
AtBothEnds(source, sql, start, lead, trail, prefix, suffix) ==
  LET rest == Min({trail, Len(sql.text) - lead})
  IN  WithSuffix(WithoutSuffix(WithPrefix(source, sql, start, lead, prefix), rest),
                 start, suffix)

WithoutFirstPrepend(pieces) ==
  LET at == {k \in DOMAIN pieces : pieces[k].type = "Prepend"}
  IN  IF at = {} THEN pieces ELSE RemoveAt(pieces, Min(at))

(* A wrapper is what its tag's attributes say; the separators of prefix    *)
(* and suffix are part of them here.                                       *)
WrapText(source, w, sql, start) ==
  CASE w.kind = "where" ->
         WithPrefix(source, sql, start, LeadingAndOr(sql.text), w.prefix)
    [] w.kind = "set" ->
         AtBothEnds(source, sql, start, LeadingComma(sql.text), TrailingComma(sql.text),
                    w.prefix, << >>)
    [] w.kind = "trim" ->
         AtBothEnds(source, sql, start, LeadingOverride(sql.text, w.leading),
                    TrailingOverride(sql.text, w.trailing), w.prefix, w.suffix)
    [] w.kind = "dynamic" -> WithPrefix(source, sql, start, 0, w.prefix)
    [] w.kind = "foreach" ->
         WithSuffix(WithPrefix(source, sql, start, 0, w.prefix), start, w.suffix)

(* The pieces a closed tag leaves to its parent.  foreach and iterate wrap *)
(* even nothing; a conditional passes its pieces on unassembled.           *)
ClosedPieces(source, w, pieces, start) ==
  LET inner == IF w.kind = "dynamic" THEN WithoutFirstPrepend(pieces) ELSE pieces
      sql == Assembled(inner)
  IN  CASE w.kind = "is" ->
             (IF w.prepends THEN <<PrependPiece(w.prefix, start)>> ELSE << >>) \o pieces
        [] w.kind # "is" /\ w.kind # "foreach" /\ AllBlank(sql.text) -> << >>
        [] OTHER -> <<NormalizedPiece(WrapText(source, w, sql, start))>>
===============================================================================
