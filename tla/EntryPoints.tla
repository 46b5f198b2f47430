------------------------------ MODULE EntryPoints ------------------------------
(***************************************************************************)
(* `parse_bytes` and then `detect_dialect` of src/src/lib.rs on the same   *)
(* file: the size gates before and after decoding, parse_str's walk over   *)
(* the decoded text (MarkupWalk), the result put together, and the loop of *)
(* detect_dialect_str, which reads the text anew with a reader of its own. *)
(***************************************************************************)
EXTENDS Encoding, FiniteSetsExt

CONSTANTS
  Files,           \* the files under consideration
  MaxInputBytes    \* MAX_INPUT_BYTES, and OVERSIZE_LIMIT

ASSUME MaxInputBytesAssumption == MaxInputBytes \in Nat

VARIABLES
  file, phase,
  encoding, dialect, mapper, codes,   \* the ParseResult: diagnostics by code
  detected,                           \* what detect_dialect answers
  source,                             \* the text parse_str or detect_dialect_str is given
  doc, limit, pos, open, pass, loop, element, child, depth, lastErr,
  segments, elements, tags, walkDiags, walkMapper

result == <<encoding, dialect, mapper, codes>>
reader == <<doc, limit, pos, open>>
walk == <<pass, loop, element, child, depth, segments, elements, tags, walkDiags, walkMapper>>
vars == <<file, phase, result, detected, source, reader, walk, lastErr>>

Walk == INSTANCE MarkupWalk WITH Docs <- {}, diags <- walkDiags, mapper <- walkMapper
Reader == INSTANCE XmlReader

(* Markup is ASCII or in a UTF-16; Hangul is in an encoding that has it.   *)
Unit ==
  {Bom(e) : e \in {"UTF-8"} \cup Utf16}
    \cup [type : {"markup"}, in : {"ASCII"} \cup Utf16, token : Reader!Token,
          label : Label \cup {"none"}]
    \cup [type : {"hangul"}, in : {"UTF-8", "EUC-KR"} \cup Utf16, n : Nat]
    \cup {LoneByte}

ASSUME FilesAssumption == Files \subseteq Seq(Unit)

Unknown == "Unknown"
DialectOf(name) ==
  CASE name = "mapper" -> "Mybatis" [] name = "sqlMap" -> "Ibatis" [] OTHER -> Unknown

(* What the reader makes of decoded text; U+FEFF is text to it.            *)
Tokens(text) ==
  [k \in DOMAIN text |->
     IF text[k].type = "markup" THEN text[k].token ELSE [type |-> "text", name |-> "none"]]

(* parse_str takes off every leading U+FEFF.                               *)
WithoutFeff(text) ==
  LET kept == {k \in DOMAIN text : text[k] # Feff}
  IN  SubSeq(text, IF kept = {} THEN Len(text) + 1 ELSE Min(kept), Len(text))

StartReading(text) ==
  /\ doc' = Tokens(text) /\ limit' = Len(text) /\ pos' = 0 /\ open' = << >>
  /\ lastErr' = [lastErr EXCEPT !["root"] = -1]

-------------------------------------------------------------------------------
(* parse_bytes.                                                            *)

(* oversize_result: nothing is decoded.                                    *)
ParseRefused ==
  /\ phase = "received" /\ RawSize(file) > MaxInputBytes
  /\ phase' = "parsed"
  /\ codes' = {"OversizeInput"}
  /\ UNCHANGED <<file, encoding, dialect, mapper, detected, source, reader, walk, lastErr>>

ParseDecodes ==
  /\ phase = "received" /\ RawSize(file) <= MaxInputBytes
  /\ \E decoded \in {Decode(file)} :
       /\ source' = decoded.text /\ encoding' = decoded.encoding /\ codes' = decoded.diags
  /\ phase' = "decoded"
  /\ UNCHANGED <<file, dialect, mapper, detected, reader, walk, lastErr>>

(* parse_str's gate, behind which the text may have grown.                 *)
ParseStrRefuses ==
  /\ phase = "decoded" /\ Size(WithoutFeff(source)) > MaxInputBytes
  /\ phase' = "parsed"
  /\ codes' = codes \cup {"OversizeInput"}
  /\ UNCHANGED <<file, encoding, dialect, mapper, detected, source, reader, walk, lastErr>>

ParseStrStarts ==
  /\ phase = "decoded" /\ Size(WithoutFeff(source)) <= MaxInputBytes
  /\ phase' = "parsing"
  /\ StartReading(WithoutFeff(source))
  /\ UNCHANGED <<file, result, detected, source, walk>>

ParseStrWalks ==
  /\ phase = "parsing"
  /\ Walk!Next
  /\ UNCHANGED <<file, phase, result, detected, source>>

WalkEnded == phase = "parsing" /\ loop = "done" /\ tags = {}

\* Mutated: what parse_str reports is dropped.
ParseReturnsOwn ==
  /\ WalkEnded
  /\ phase' = "parsed"
  /\ mapper' = walkMapper
  /\ dialect' = IF walkMapper THEN DialectOf(doc[Walk!RootStart + 1].name) ELSE Unknown
  /\ codes' = codes
  /\ UNCHANGED <<file, encoding, detected, source, reader, walk, lastErr>>

(* The diagnostics of decoding and those of the walk together.             *)
ParseReturns ==
  /\ WalkEnded
  /\ phase' = "parsed"
  /\ mapper' = walkMapper
  /\ dialect' = IF walkMapper THEN DialectOf(doc[Walk!RootStart + 1].name) ELSE Unknown
  /\ codes' = codes \cup {d.code : d \in walkDiags}
  /\ UNCHANGED <<file, encoding, detected, source, reader, walk, lastErr>>

-------------------------------------------------------------------------------
(* detect_dialect.                                                         *)

Answer(d) == phase' = "answered" /\ detected' = d /\ UNCHANGED <<file, result, walk>>

DetectRefused ==
  /\ phase = "parsed" /\ RawSize(file) > MaxInputBytes
  /\ Answer(Unknown)
  /\ UNCHANGED <<source, reader, lastErr>>

DetectDecodes ==
  /\ phase = "parsed" /\ RawSize(file) <= MaxInputBytes
  /\ phase' = "redecoded"
  /\ \E decoded \in {Decode(file)} : source' = decoded.text
  /\ UNCHANGED <<file, result, detected, reader, walk, lastErr>>

(* detect_dialect_str's gate.  Leading U+FEFF is kept.                     *)
DetectStrRefuses ==
  /\ phase = "redecoded" /\ Size(source) > MaxInputBytes
  /\ Answer(Unknown)
  /\ UNCHANGED <<source, reader, lastErr>>

DetectStrStarts ==
  /\ phase = "redecoded" /\ Size(source) <= MaxInputBytes
  /\ phase' = "detecting"
  /\ StartReading(source)
  /\ UNCHANGED <<file, result, detected, source, walk>>

\* Mutated: no error is got past.
NeverFirst == FALSE

\* Mutated: an error that is met once more is got past once more.
FirstErrorEver == TRUE

FirstError == lastErr["root"] # pos

DetectReadsOn ==
  /\ phase = "detecting"
  /\ Reader!Sees({"text", "amp", "comment"})
  /\ Reader!Read
  /\ UNCHANGED <<file, phase, result, detected, source, walk, lastErr>>

DetectRecovers ==
  /\ phase = "detecting" /\ Reader!Fails /\ FirstError
  /\ Reader!Read
  /\ lastErr' = [lastErr EXCEPT !["root"] = pos]
  /\ UNCHANGED <<file, phase, result, detected, source, walk>>

DetectAnswers ==
  /\ phase = "detecting"
  /\ \/ Reader!Sees({"start", "empty"}) /\ Answer(DialectOf(Reader!Tok.name)) /\ Reader!Read
     \/ Reader!Fails /\ ~ FirstError /\ Answer(Unknown) /\ Reader!Read
     \/ Reader!AtEof /\ Answer(Unknown) /\ UNCHANGED reader
  /\ UNCHANGED <<source, lastErr>>

Init ==
  /\ file \in Files
  /\ phase = "received"
  /\ encoding = "none" /\ dialect = Unknown /\ mapper = FALSE /\ codes = {}
  /\ detected = "none" /\ source = << >>
  /\ doc = << >> /\ limit = 0 /\ pos = 0 /\ open = << >>
  /\ pass = "document" /\ loop = "root" /\ element = -1 /\ child = -1 /\ depth = 0
  /\ lastErr = [l \in Walk!Loop |-> -1]
  /\ segments = << >> /\ elements = << >> /\ tags = {}
  /\ walkDiags = {} /\ walkMapper = FALSE

Next ==
  \/ ParseRefused \/ ParseDecodes
  \/ ParseStrRefuses \/ ParseStrStarts \/ ParseStrWalks \/ ParseReturns
  \/ DetectRefused \/ DetectDecodes \/ DetectStrRefuses \/ DetectStrStarts
  \/ DetectReadsOn \/ DetectRecovers \/ DetectAnswers

(* One thread makes the calls, so an enabled step is taken.                *)
Spec == Init /\ [][Next]_vars /\ WF_vars(Next)
===============================================================================
