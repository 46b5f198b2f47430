-------------------------------- MODULE Encoding --------------------------------
(***************************************************************************)
(* `decode` of src/src/encoding.rs: which decoder a file's bytes are read  *)
(* with, and what is reported when the file says otherwise.                *)
(*                                                                         *)
(* A file is a sequence of units, each some bytes that belong together,    *)
(* written in one encoding: a byte order mark, a token of markup (`label`  *)
(* is what an XML declaration says, else "none"), n Hangul syllables, or a *)
(* byte that is part of nothing.  Markup written "ASCII" is the same in    *)
(* every encoding but the UTF-16s.                                         *)
(***************************************************************************)
EXTENDS Integers, Sequences, FiniteSets, SequencesExt

Utf16 == {"UTF-16LE", "UTF-16BE"}
EncodingName == {"UTF-8", "EUC-KR", "windows-1252"} \cup Utf16
Label == {"utf-8", "utf-16", "windows-1252", "CP949", "x-unheard-of"}

Bom(e) == [type |-> "bom", in |-> e]
Markup(token, e, label) == [type |-> "markup", in |-> e, token |-> token, label |-> label]
Hangul(n, e) == [type |-> "hangul", in |-> e, n |-> n]
LoneByte == [type |-> "byte", in |-> "windows-1252"]

(* In bytes.  Markup is two characters.                                    *)
RawWidth(u) ==
  CASE u.type = "bom" -> IF u.in = "UTF-8" THEN 3 ELSE 2
    [] u.type = "markup" -> IF u.in \in Utf16 THEN 4 ELSE 2
    [] u.type = "hangul" -> IF u.in = "UTF-8" THEN 3 * u.n ELSE 2 * u.n
    [] u.type = "byte" -> 1

Total(widths) ==
  LET upTo[k \in 0 .. Len(widths)] == IF k = 0 THEN 0 ELSE upTo[k - 1] + widths[k]
  IN  upTo[Len(widths)]
RawSize(file) == Total([k \in DOMAIN file |-> RawWidth(file[k])])

-------------------------------------------------------------------------------
(* Decoded text: U+FEFF, tokens, and text; each with its width in UTF-8.   *)

Feff == [type |-> "feff", width |-> 3]
TokenChar(token, width) == [type |-> "markup", token |-> token, width |-> width]
TextChar(width) == [type |-> "text", width |-> width]

Size(text) == Total([k \in DOMAIN text |-> text[k].width])

(* A tag that is read as text of another encoding has another name.        *)
Foreign(token) ==
  IF token.type \in {"start", "empty", "end"} THEN [token EXCEPT !.name = "other"]
  ELSE [type |-> "text", name |-> "none"]

(* What is in a decoder's own encoding.                                    *)
Own(e, u) == u.in = e \/ (u.in = "ASCII" /\ e \notin Utf16)

AsWritten(u) ==
  CASE u.type = "bom" -> Feff
    [] u.type = "markup" -> TokenChar(u.token, 2)
    [] u.type = "hangul" -> TextChar(3 * u.n)
    [] u.type = "byte" -> TextChar(2)

(* The decoders of encoding_rs, unit by unit: what is written in their own *)
(* encoding, what they take for something else, and nothing where they     *)
(* find the bytes malformed.                                               *)
Reads(e, u) ==
  IF Own(e, u) THEN {AsWritten(u)}
  ELSE IF e \in Utf16 THEN {TextChar(3 * n) : n \in {k \in 0 .. RawWidth(u) : 2 * k = RawWidth(u)}}
  ELSE IF u.type = "markup" THEN {TokenChar(Foreign(u.token), 4)}
  ELSE IF e = "windows-1252" THEN {TextChar(2 * RawWidth(u))}
  ELSE {}

(* The text of units read with one decoder, or nothing if it finds errors. *)
Strictly(e, units) ==
  IF \A k \in DOMAIN units : Reads(e, units[k]) # {}
  THEN {[k \in DOMAIN units |-> CHOOSE c \in Reads(e, units[k]) : TRUE]}
  ELSE {}

(* With U+FFFD, three bytes, for what is malformed.                        *)
Lossily(e, units) ==
  [k \in DOMAIN units |->
     IF Reads(e, units[k]) = {} THEN TextChar(3 * RawWidth(units[k]))
     ELSE CHOOSE c \in Reads(e, units[k]) : TRUE]

StartsWithBom(units) == units # << >> /\ Head(units).type = "bom"

(* Encoding::decode gives way to the encoding of a byte order mark.        *)
Sniffing(e, units) ==
  IF StartsWithBom(units) THEN Strictly(Head(units).in, Tail(units)) ELSE Strictly(e, units)

-------------------------------------------------------------------------------
(* Labels.                                                                 *)

(* Encoding::for_label, as an empty or one-element set.                    *)
ForLabel(label) ==
  CASE label = "utf-8" -> {"UTF-8"}
    [] label = "utf-16" -> {"UTF-16LE"}
    [] label = "windows-1252" -> {"windows-1252"}
    [] OTHER -> {}

ResolveLabel(label) ==
  IF ForLabel(label) = {} /\ label = "CP949" THEN {"EUC-KR"} ELSE ForLabel(label)

(* detect_declared_encoding: the label of an XML declaration, if the file  *)
(* starts with one that can be read as ASCII.                              *)
Declared(content) ==
  IF content # << >> /\ content[1].type = "markup" /\ content[1].in = "ASCII"
     /\ content[1].label # "none"
  THEN {content[1].label} ELSE {}

\* Mutated: a label of the supplementary table is compared as it stands.
MismatchByName(declared, actual) ==
  IF \E label \in declared : actual \notin ForLabel(label) THEN {"EncodingMismatch"} ELSE {}

(* declared_mismatch_diagnostic.                                           *)
Mismatch(declared, actual) ==
  IF \E label \in declared : actual \notin ResolveLabel(label) THEN {"EncodingMismatch"} ELSE {}

-------------------------------------------------------------------------------
(* The chain.                                                              *)

Content(file) ==
  IF StartsWithBom(file) /\ Head(file).in = "UTF-8" THEN Tail(file) ELSE file

(* A step of the chain: what it returns of the texts it makes, or nothing. *)
Returns(e, texts, diags) == {[text |-> t, encoding |-> e, diags |-> diags] : t \in texts}

(* The UTF-16 byte order marks.                                            *)
ByMark(file) ==
  IF StartsWithBom(file) /\ Head(file).in \in Utf16
  THEN Returns(Head(file).in, Sniffing(Head(file).in, Tail(file)), {})
  ELSE {}

ByUtf8(content) ==
  Returns("UTF-8", Strictly("UTF-8", content), Mismatch(Declared(content), "UTF-8"))

ByDecoder(e, content) == Returns(e, Sniffing(e, content), Mismatch(Declared(content), e))

ByDeclaration(content) ==
  UNION {ByDecoder(e, content) : e \in UNION {ResolveLabel(l) : l \in Declared(content)}}

\* Mutated: lossy text goes by the name of the last decoder tried.
ByForceAsTried(content) == Returns("EUC-KR", {Lossily("UTF-8", content)}, {"EncodingUndetectable"})

ByForce(content) == Returns("UTF-8", {Lossily("UTF-8", content)}, {"EncodingUndetectable"})

Chain(file) ==
  <<ByMark(file), ByUtf8(Content(file)), ByDeclaration(Content(file)),
    ByDecoder("EUC-KR", Content(file)), ByForce(Content(file))>>

(* What the first step returns that returns anything.                      *)
Decode(file) ==
  LET chain == Chain(file)
      step == CHOOSE k \in DOMAIN chain : chain[k] # {} /\ \A j \in 1 .. k - 1 : chain[j] = {}
  IN  CHOOSE decoded \in chain[step] : TRUE
===============================================================================
