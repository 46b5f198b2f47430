----------------------------- MODULE EntryReference -----------------------------
(***************************************************************************)
(* What must hold of the answers of the two entry points.                  *)
(***************************************************************************)
EXTENDS EntryPoints

Answered == phase = "answered"
JustDecoded == phase = "decoded"

(* src/src/lib.rs:57 of detect_dialect: "Guaranteed to agree with          *)
(* parse_bytes(bytes).dialect".                                            *)
DialectGuaranteed == Answered => detected = dialect

(* The two loops over the root do agree, whatever stands before the root   *)
(* and wherever the reader fails, as long as they let the same texts in:   *)
(* parse_str measures the text without leading U+FEFF, detect_dialect_str  *)
(* with it, and only there can they part.                                  *)
LetInByOneGate ==
  LET text == Decode(file).text
  IN  Size(text) > MaxInputBytes /\ Size(WithoutFeff(text)) <= MaxInputBytes

DialectsAgree == Answered /\ detected # dialect => LetInByOneGate

-------------------------------------------------------------------------------
(* A WHATWG TextDecoder of a given encoding: its own byte order mark is    *)
(* dropped, what is malformed is replaced.                                 *)
TextDecoder(e, units) ==
  Lossily(e, IF StartsWithBom(units) /\ Head(units).in = e THEN Tail(units) ELSE units)

(* At most one byte order mark, and one of the encoding reported.          *)
MarkedAsReported ==
  /\ StartsWithBom(file) => Head(file).in = encoding
  /\ \A k \in 2 .. Len(file) : file[k].type # "bom"

(* src/src/encoding.rs:50 "so a consumer working with the original input   *)
(* bytes knows which decoder to reproduce this crate's byte offsets with": *)
(* whichever step of the chain settled it, lossy decoding included, the    *)
(* text walked is the one the reported decoder makes of the file.          *)
DecoderReproduces ==
  JustDecoded /\ MarkedAsReported =>
    WithoutFeff(source) = WithoutFeff(TextDecoder(encoding, file))

(* A file that is what it says it is, by its byte order mark or its        *)
(* declaration, or is UTF-8 and says nothing, is read as written and       *)
(* nothing is reported of its encoding.                                    *)
WrittenIn(e, units) ==
  \A k \in DOMAIN units : units[k].in = e \/ (units[k].in = "ASCII" /\ e \notin Utf16)

Says(e) ==
  IF StartsWithBom(file) THEN Head(file).in = e /\ (Declared(Tail(file)) = {} \/ e \in Utf16)
  ELSE e \in IF Declared(file) = {} THEN {"UTF-8"}
             ELSE UNION {ResolveLabel(l) : l \in Declared(file)}

Meant(e) == CHOOSE t \in Strictly(e, IF StartsWithBom(file) THEN Tail(file) ELSE file) : TRUE

Truthful(e) ==
  /\ Says(e) /\ WrittenIn(e, file)
  /\ \A k \in 2 .. Len(file) : file[k].type # "bom"

(* ASCII alone is in every encoding, and UTF-8 is tried first.             *)
TruthBelieved ==
  JustDecoded => \A e \in EncodingName :
    Truthful(e) /\ (\E k \in DOMAIN file : file[k].in # "ASCII") =>
      /\ encoding = e
      /\ WithoutFeff(source) = WithoutFeff(Meant(e))
      /\ codes \cap {"EncodingMismatch", "EncodingUndetectable"} = {}

-------------------------------------------------------------------------------
(* src/src/lib.rs:24 "every anomaly is reported": no result is without a   *)
(* mapper, or of a text not read faithfully, and says nothing of it; and   *)
(* what was found while decoding is still there when the walk is over.     *)
NothingKeptQuiet ==
  phase = "parsed" =>
    /\ ~ mapper => codes \cap {"OversizeInput", "UnknownElement", "UnclosedTag"} # {}
    /\ encoding # "none" => Decode(file).diags \subseteq codes
    /\ encoding # "none" /\ Strictly(encoding, Content(file)) = {} /\ ~ StartsWithBom(Content(file))
         => "EncodingUndetectable" \in codes

(* Both calls return, even where the reader stays put.                     *)
Termination == <>Answered
===============================================================================
