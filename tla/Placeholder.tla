------------------------------ MODULE Placeholder ------------------------------
(***************************************************************************)
(* `normalize_merged` of src/src/placeholder.rs: adjacent text runs of a   *)
(* body are scanned as one text, #{..} and ${..} (and the #..# and $..$ of *)
(* iBatis) give way to markers, and span_map remembers where the pieces of *)
(* the new text come from.  One action is one turn of the scan loop.       *)
(*                                                                         *)
(* A character carries, for the properties only, where it is from: `at` is *)
(* its own offset in the source if its run is verbatim, else the start of  *)
(* the run; of a marker, the offset of what it replaces.  No definition    *)
(* below decides anything by it.  Offsets are those of the code, from 0.   *)
(***************************************************************************)
EXTENDS Integers, Sequences, FiniteSetsExt, Selection

CONSTANTS
  Alphabet,     \* the characters of files and of what is put in their place
  DynMarker     \* the characters of DYN_MARKER

Chars == Seq(Alphabet)

ASSUME DynMarkerAssumption == DynMarker \in Chars /\ DynMarker # << >> /\ "?" \in Alphabet

VARIABLES
  dialect,
  scanning,     \* whether a normalize_merged is under way
  runs,         \* the TextRuns it was given
  i, copyStart, \* the scan position, and where the uncopied rest begins
  text,         \* normalized
  map,          \* span_map
  paths,        \* property_paths, of all scans
  diags         \* spans of the UnterminatedPlaceholder diagnostics

scanVars == <<scanning, runs, i, copyStart, text, map>>

Dialect == {"Mybatis", "Ibatis"}

Char == [ch : Alphabet, at : Nat, kind : {"exact", "coarse", "mark", "inner", "tag"}]
Entry == Nat \X Nat
Span == Nat \X Nat
TextRun == [decoded : Chars, start : Nat, end : Nat]

-------------------------------------------------------------------------------
(* The merged text and its layout.                                         *)

Verbatim(r) == Len(r.decoded) = r.end - r.start

RunChars(r) ==
  [k \in DOMAIN r.decoded |->
     IF Verbatim(r) THEN [ch |-> r.decoded[k], at |-> r.start + k - 1, kind |-> "exact"]
     ELSE [ch |-> r.decoded[k], at |-> r.start, kind |-> "coarse"]]

MergedUpTo == Joins([k \in DOMAIN runs |-> RunChars(runs[k])])
Merged == MergedUpTo[Len(runs)]
MergedStart(k) == Len(MergedUpTo[k - 1])

(* The last run that starts at or before offset o.                         *)
LayoutFor(o) == Max({1} \cup {k \in DOMAIN runs : MergedStart(k) <= o})

RawOffset(k, o) ==
  IF Verbatim(runs[k]) THEN runs[k].start + (o - MergedStart(k)) ELSE runs[k].start

RawAt(o) == RawOffset(LayoutFor(o), o)

-------------------------------------------------------------------------------
(* What stands at an offset of the merged text.                            *)

CharAt(o) == IF o < Len(Merged) THEN Merged[o + 1].ch ELSE "none"
Slice(from, to) == SubSeq(Merged, from + 1, to)

Blank(c) == c = " "
Delimiter(c) == c \in {"#", "$"}
OpensBraced(o) == Delimiter(CharAt(o)) /\ CharAt(o + 1) = "{"

\* Mutated: the first closing brace ends the expression.
FirstBrace(o) == {j \in o + 2 .. Len(Merged) - 1 : CharAt(j) = "}"}

(* consume_braced: the closing braces at which the depth first drops to 0. *)
ClosingBraces(o) ==
  LET depth[j \in o + 1 .. Len(Merged) - 1] ==
        IF j = o + 1 THEN 1
        ELSE depth[j - 1] + (CASE CharAt(j) = "{" -> 1
                               [] CharAt(j) = "}" -> -1
                               [] OTHER -> 0)
  IN  {j \in o + 2 .. Len(Merged) - 1 : CharAt(j) = "}" /\ depth[j] = 0}

Escaped(o) == dialect = "Ibatis" /\ Delimiter(CharAt(o)) /\ CharAt(o + 1) = CharAt(o)

(* find_byte and its filter: the next delimiter of the same kind, if no    *)
(* blank comes before it.                                                  *)
LegacyClose(o) ==
  {j \in o + 1 .. Len(Merged) - 1 :
     /\ CharAt(j) = CharAt(o)
     /\ \A k \in o + 1 .. j - 1 : CharAt(k) # CharAt(o) /\ ~ Blank(CharAt(k))}

Legacy(o) ==
  /\ dialect = "Ibatis" /\ Delimiter(CharAt(o))
  /\ ~ OpensBraced(o) /\ ~ Escaped(o)
  /\ LegacyClose(o) # {}

(* extract_path_mybatis and _ibatis: what precedes the first separator,    *)
(* trimmed, as an empty or one-element set of offset pairs.                *)
PathIn(from, to, separator) ==
  LET cut == Min({to} \cup {k \in from .. to - 1 : CharAt(k) = separator})
      solid == {k \in from .. cut - 1 : ~ Blank(CharAt(k))}
  IN  IF solid = {} THEN {} ELSE {<<Min(solid), Max(solid) + 1>>}

-------------------------------------------------------------------------------
(* flush_literal.                                                          *)

(* The run boundaries strictly inside, each once; of runs that start at    *)
(* the same place the first counts.                                        *)
JunctionEntries(from, to, base) ==
  LET inside == {k \in DOMAIN runs :
                   /\ from < MergedStart(k) /\ MergedStart(k) < to
                   /\ \A j \in 1 .. k - 1 : MergedStart(j) # MergedStart(k)}
      ks == Only([k \in DOMAIN runs |-> k], inside)
  IN  [n \in DOMAIN ks |-> <<base + MergedStart(ks[n]) - from, runs[ks[n]].start>>]

FlushedText(to) == text \o Slice(copyStart, to)
FlushedMap(to) == map \o JunctionEntries(copyStart, to, Len(text))

\* Mutated: the end is resolved in the run of the start whatever lies between.
PathSpanOfStart(from, to) ==
  LET k == LayoutFor(from)
  IN  IF Verbatim(runs[k]) THEN <<RawOffset(k, from), RawOffset(k, to)>>
      ELSE <<RawOffset(k, from), RawOffset(k, from)>>

(* push_path.                                                              *)
PathSpan(from, to) ==
  LET k == LayoutFor(from)
  IN  IF MergedStart(k) = MergedStart(LayoutFor(to - 1)) /\ Verbatim(runs[k])
      THEN <<RawOffset(k, from), RawOffset(k, to)>>
      ELSE <<RawOffset(k, from), RawOffset(k, from)>>

Marker(chars) ==
  [k \in DOMAIN chars |->
     [ch |-> chars[k], at |-> Merged[i + 1].at, kind |-> IF k = 1 THEN "mark" ELSE "inner"]]

MarkerOf(delimiter) == Marker(IF delimiter = "#" THEN <<"?">> ELSE DynMarker)

\* Mutated: the loop goes on to the arm for plain characters.
ReplaceFallingThrough(new, end) ==
  LET t == FlushedText(i) \o new
  IN  /\ text' = t
      /\ map' = Append(FlushedMap(i), <<Len(t), RawAt(end)>>)
      /\ i' = end + 1 /\ copyStart' = end
      /\ UNCHANGED <<dialect, scanning, runs, diags>>

(* The text from i to end gives way to new characters, and an entry says   *)
(* where the text after them is from.                                      *)
Replace(new, end) ==
  LET t == FlushedText(i) \o new
  IN  /\ text' = t
      /\ map' = Append(FlushedMap(i), <<Len(t), RawAt(end)>>)
      /\ i' = end /\ copyStart' = end
      /\ UNCHANGED <<dialect, scanning, runs, diags>>

PushPaths(ranges) ==
  paths' = IF ranges = {} THEN paths
           ELSE LET r == CHOOSE p \in ranges : TRUE
                IN  Append(paths, [value |-> Slice(r[1], r[2]), span |-> PathSpan(r[1], r[2])])

-------------------------------------------------------------------------------
(* The loop.                                                               *)

AtText == scanning /\ i < Len(Merged)

BracedPlaceholder ==
  /\ AtText /\ OpensBraced(i) /\ ClosingBraces(i) # {}
  /\ LET close == Min(ClosingBraces(i))
     IN  Replace(MarkerOf(CharAt(i)), close + 1) /\ PushPaths(PathIn(i + 2, close, ","))

(* The rest is kept as it is.                                              *)
Unterminated ==
  /\ AtText /\ OpensBraced(i) /\ ClosingBraces(i) = {}
  /\ diags' = Append(diags, <<runs[1].start, runs[Len(runs)].end>>)
  /\ text' = FlushedText(Len(Merged)) /\ map' = FlushedMap(Len(Merged))
  /\ i' = Len(Merged) /\ copyStart' = Len(Merged)
  /\ UNCHANGED <<dialect, scanning, runs, paths>>

(* A doubled delimiter stands for itself.                                  *)
EscapedDelimiter ==
  /\ AtText /\ Escaped(i)
  /\ Replace(Marker(<<CharAt(i)>>), i + 2)
  /\ UNCHANGED paths

LegacyPlaceholder ==
  /\ AtText /\ Legacy(i)
  /\ LET close == CHOOSE j \in LegacyClose(i) : TRUE
     IN  Replace(MarkerOf(CharAt(i)), close + 1) /\ PushPaths(PathIn(i + 1, close, ":"))

PlainCharacter ==
  /\ AtText /\ ~ OpensBraced(i) /\ ~ Escaped(i) /\ ~ Legacy(i)
  /\ i' = i + 1
  /\ UNCHANGED <<dialect, scanning, runs, copyStart, text, map, paths, diags>>

(* The final retain.                                                       *)
Within(m, length) == Only(m, {k \in DOMAIN m : m[k][1] < length})

Normalized ==
  LET t == FlushedText(Len(Merged))
  IN  [text |-> t, map |-> Within(FlushedMap(Len(Merged)), Len(t))]

ScanStep ==
  \/ BracedPlaceholder \/ Unterminated \/ EscapedDelimiter
  \/ LegacyPlaceholder \/ PlainCharacter

BeginScan(rs) ==
  /\ scanning' = TRUE /\ runs' = rs
  /\ i' = 0 /\ copyStart' = 0
  /\ text' = << >> /\ map' = <<<<0, rs[1].start>>>>

(* normalize_run takes Normalized and the loop's state is gone.            *)
EndScan ==
  /\ scanning' = FALSE /\ runs' = << >>
  /\ i' = 0 /\ copyStart' = 0
  /\ text' = << >> /\ map' = << >>
===============================================================================
