------------------------------ MODULE EntryProofs ------------------------------
(***************************************************************************)
(* What holds of the two entry points for every file and every size limit: *)
(* that they agree on the dialect, which decoder's text is read, and that  *)
(* nothing goes unreported.                                                *)
(***************************************************************************)
EXTENDS EntryReference, CommonLemmas

-----------------------------------------------------------------------------
(* What the decoders make of a file.                                       *)

(* What decoded text consists of.                                          *)
Char ==
  {Feff} \cup [type : {"markup"}, token : Reader!Token, width : Nat]
         \cup [type : {"text"}, width : Nat]

(* A unit is of one of four types, and has a width.                        *)
LEMMA UnitTypes ==
  ASSUME NEW u \in Unit
  PROVE  /\ u.type \in {"bom", "markup", "hangul", "byte"}
         /\ u.type = "bom" => u.in \in {"UTF-8"} \cup Utf16
         /\ u.type = "markup" => u.token \in Reader!Token /\ u.in \in {"ASCII"} \cup Utf16
         /\ u.type = "hangul" => u.n \in Nat
         /\ u.type = "byte" => u.in = "windows-1252"
BY DEF Unit, Bom, LoneByte

(* Bytes are counted in naturals.                                          *)
LEMMA WidthOfUnit ==
  ASSUME NEW u \in Unit
  PROVE  RawWidth(u) \in Nat
<1>1. CASE u.type = "bom"
  <2>1. RawWidth(u) = IF u.in = "UTF-8" THEN 3 ELSE 2
    BY <1>1, Zenon DEF RawWidth
  <2> QED
    BY <2>1
<1>2. CASE u.type = "markup"
  <2>1. RawWidth(u) = IF u.in \in Utf16 THEN 4 ELSE 2
    BY <1>2, Zenon DEF RawWidth
  <2> QED
    BY <2>1
<1>3. CASE u.type = "hangul"
  <2>1. RawWidth(u) = IF u.in = "UTF-8" THEN 3 * u.n ELSE 2 * u.n
    BY <1>3, Zenon DEF RawWidth
  <2> QED
    BY <1>3, <2>1, UnitTypes
<1>4. CASE u.type = "byte"
  <2>1. RawWidth(u) = 1
    BY <1>4, Zenon DEF RawWidth
  <2> QED
    BY <2>1
<1> QED
  BY <1>1, <1>2, <1>3, <1>4, UnitTypes

(* What is read of a unit is a character.                                  *)
LEMMA WrittenChar ==
  ASSUME NEW u \in Unit
  PROVE  AsWritten(u) \in Char
<1>1. CASE u.type = "bom"
  <2>1. AsWritten(u) = Feff
    BY <1>1, Zenon DEF AsWritten
  <2> QED
    BY <2>1 DEF Char
<1>2. CASE u.type = "markup"
  <2>1. AsWritten(u) = TokenChar(u.token, 2)
    BY <1>2, Zenon DEF AsWritten
  <2> QED
    BY <1>2, <2>1, UnitTypes DEF Char, TokenChar
<1>3. CASE u.type = "hangul"
  <2>1. AsWritten(u) = TextChar(3 * u.n)
    BY <1>3, Zenon DEF AsWritten
  <2> QED
    BY <1>3, <2>1, UnitTypes DEF Char, TextChar
<1>4. CASE u.type = "byte"
  <2>1. AsWritten(u) = TextChar(2)
    BY <1>4, Zenon DEF AsWritten
  <2> QED
    BY <2>1 DEF Char, TextChar
<1> QED
  BY <1>1, <1>2, <1>3, <1>4, UnitTypes

(* A tag read as text of another encoding is a token all the same.         *)
LEMMA ForeignToken ==
  ASSUME NEW t \in Reader!Token
  PROVE  Foreign(t) \in Reader!Token
BY DEF Foreign, Reader!Token, Reader!TagType, Reader!TagName

(* So is everything a decoder makes of a unit it does not know.            *)
LEMMA ReadsChars ==
  ASSUME NEW e, NEW u \in Unit
  PROVE  \A c \in Reads(e, u) : c \in Char
<1> USE DEF Reads
<1>1. CASE Own(e, u)
  BY <1>1, WrittenChar
<1>2. CASE ~ Own(e, u) /\ e \in Utf16
  <2>1. \A k \in 0 .. RawWidth(u) : TextChar(3 * k) \in Char
    BY WidthOfUnit DEF TextChar, Char
  <2> QED
    BY <1>2, <2>1
<1>3. CASE ~ Own(e, u) /\ e \notin Utf16 /\ u.type = "markup"
  <2>1. TokenChar(Foreign(u.token), 4) \in Char
    BY <1>3, UnitTypes, ForeignToken DEF TokenChar, Char
  <2> QED
    BY <1>3, <2>1
<1>4. CASE ~ Own(e, u) /\ e \notin Utf16 /\ u.type # "markup"
  <2>1. TextChar(2 * RawWidth(u)) \in Char
    BY WidthOfUnit DEF TextChar, Char
  <2> QED
    BY <1>4, <2>1
<1> QED
  BY <1>1, <1>2, <1>3, <1>4

(* The texts of the decoders.                                              *)
LEMMA StrictTexts ==
  ASSUME NEW e, NEW units \in Seq(Unit), NEW t \in Strictly(e, units)
  PROVE  t \in Seq(Char) /\ t = Lossily(e, units) /\ Strictly(e, units) = {t}
<1>1. \A k \in DOMAIN units : Reads(e, units[k]) # {}
  BY DEF Strictly
<1>2. t = [k \in DOMAIN units |-> CHOOSE c \in Reads(e, units[k]) : TRUE]
  BY <1>1 DEF Strictly
<1>3. \A k \in DOMAIN units : (CHOOSE c \in Reads(e, units[k]) : TRUE) \in Char
  BY <1>1, ReadsChars
<1>4. t \in Seq(Char)
  BY <1>2, <1>3
<1>5. t = Lossily(e, units)
  BY <1>1, <1>2 DEF Lossily
<1>6. Strictly(e, units) = {t}
  BY <1>1, <1>2 DEF Strictly
<1> QED
  BY <1>4, <1>5, <1>6

(* Lossy text is text.                                                     *)
LEMMA LossyText ==
  ASSUME NEW e, NEW units \in Seq(Unit)
  PROVE  Lossily(e, units) \in Seq(Char)
<1>1. \A k \in DOMAIN units :
        /\ TextChar(3 * RawWidth(units[k])) \in Char
        /\ Reads(e, units[k]) # {} => (CHOOSE c \in Reads(e, units[k]) : TRUE) \in Char
  <2> TAKE k \in DOMAIN units
  <2>1. units[k] \in Unit
    OBVIOUS
  <2>2. RawWidth(units[k]) \in Nat
    BY <2>1, WidthOfUnit
  <2>3. TextChar(3 * RawWidth(units[k])) \in Char
    BY <2>2 DEF TextChar, Char
  <2> QED
    BY <2>1, <2>3, ReadsChars
<1> QED
  BY <1>1 DEF Lossily

-----------------------------------------------------------------------------
(* The chain.                                                              *)

(* decode returns at the first step that returns anything.                 *)
LEMMA FirstStep ==
  ASSUME NEW f
  PROVE  \/ Decode(f) \in ByMark(f)
         \/ /\ ByMark(f) = {}
            /\ \/ Decode(f) \in ByUtf8(Content(f))
               \/ /\ ByUtf8(Content(f)) = {}
                  /\ \/ Decode(f) \in ByDeclaration(Content(f))
                     \/ /\ ByDeclaration(Content(f)) = {}
                        /\ \/ Decode(f) \in ByDecoder("EUC-KR", Content(f))
                           \/ /\ ByDecoder("EUC-KR", Content(f)) = {}
                              /\ Decode(f) \in ByForce(Content(f))
<1> DEFINE chain == Chain(f)
           First(k) == chain[k] # {} /\ \A j \in 1 .. k - 1 : chain[j] = {}
           step == CHOOSE k \in DOMAIN chain : First(k)
<1>1. /\ DOMAIN chain = 1 .. 5
      /\ chain[1] = ByMark(f) /\ chain[2] = ByUtf8(Content(f))
      /\ chain[3] = ByDeclaration(Content(f)) /\ chain[4] = ByDecoder("EUC-KR", Content(f))
      /\ chain[5] = ByForce(Content(f))
  BY DEF Chain
<1>2. Decode(f) = CHOOSE decoded \in chain[step] : TRUE
  BY DEF Decode
<1>3. chain[5] # {}
  BY <1>1 DEF ByForce, Returns
<1> HIDE DEF chain
<1>4. \E k \in DOMAIN chain : First(k)
  <2>1. \E k \in 1 .. 5 : chain[k] # {}
    BY <1>3
  <2>2. PICK k \in {i \in 1 .. 5 : chain[i] # {}} :
               \A j \in {i \in 1 .. 5 : chain[i] # {}} : k <= j
    BY <2>1, NatLeast
  <2>3. k \in 1 .. 5 /\ chain[k] # {} /\ \A j \in 1 .. k - 1 : chain[j] = {}
    BY <2>2
  <2> QED
    BY <1>1, <2>3
<1>5. step \in DOMAIN chain /\ First(step)
  BY <1>4, Zenon
<1> HIDE DEF step
<1>6. step \in 1 .. 5 /\ chain[step] # {} /\ \A j \in 1 .. step - 1 : chain[j] = {}
  BY <1>1, <1>5
<1>7. Decode(f) \in chain[step]
  BY <1>2, <1>6
<1>8. CASE step = 1
  BY <1>1, <1>7, <1>8
<1>9. CASE step = 2
  BY <1>1, <1>6, <1>7, <1>9
<1>10. CASE step = 3
  BY <1>1, <1>6, <1>7, <1>10
<1>11. CASE step = 4
  BY <1>1, <1>6, <1>7, <1>11
<1>12. CASE step = 5
  BY <1>1, <1>6, <1>7, <1>12
<1> QED
  BY <1>6, <1>8, <1>9, <1>10, <1>11, <1>12

(* What a step returns.                                                    *)
LEMMA ReturnedOf ==
  ASSUME NEW e, NEW texts, NEW diagnostics, NEW r \in Returns(e, texts, diagnostics)
  PROVE  r.text \in texts /\ r.encoding = e /\ r.diags = diagnostics
BY DEF Returns

(* A step returns nothing when it makes no text.                           *)
LEMMA ReturnsNothing ==
  ASSUME NEW e, NEW texts, NEW diagnostics
  PROVE  Returns(e, texts, diagnostics) = {} <=> texts = {}
BY DEF Returns

(* What is behind a byte order mark is a file too.                         *)
LEMMA UnmarkedFile ==
  ASSUME NEW f \in Seq(Unit)
  PROVE  /\ Content(f) \in Seq(Unit)
         /\ StartsWithBom(f) => f # << >> /\ Tail(f) \in Seq(Unit) /\ Head(f) \in Unit
         /\ StartsWithBom(f) => Head(f) = f[1] /\ f[1].type = "bom"
BY HeadTailProperties DEF StartsWithBom, Content

(* The text of Encoding::decode is one decoder's, if not of all then of    *)
(* what is behind the byte order mark.                                     *)
LEMMA SniffedText ==
  ASSUME NEW e, NEW units \in Seq(Unit), NEW t \in Sniffing(e, units)
  PROVE  t \in Seq(Char)
BY UnmarkedFile, StrictTexts DEF Sniffing

(* Whichever step of the chain returns, what it returns is text.           *)
LEMMA DecodedText ==
  ASSUME NEW f \in Seq(Unit)
  PROVE  Decode(f).text \in Seq(Char)
<1>1. Content(f) \in Seq(Unit)
  BY UnmarkedFile
<1>2. CASE Decode(f) \in ByMark(f)
  <2>1. /\ StartsWithBom(f) /\ Tail(f) \in Seq(Unit)
        /\ Decode(f) \in Returns(Head(f).in, Sniffing(Head(f).in, Tail(f)), {})
    BY <1>2, UnmarkedFile DEF ByMark
  <2>2. Decode(f).text \in Sniffing(Head(f).in, Tail(f))
    BY <2>1, ReturnedOf
  <2> QED
    BY <2>1, <2>2, SniffedText
<1>3. CASE Decode(f) \in ByUtf8(Content(f))
  <2>1. Decode(f).text \in Strictly("UTF-8", Content(f))
    BY <1>3, ReturnedOf DEF ByUtf8
  <2> QED
    BY <1>1, <2>1, StrictTexts
<1>4. ASSUME NEW e, Decode(f) \in ByDecoder(e, Content(f))
      PROVE  Decode(f).text \in Seq(Char)
  <2>1. Decode(f).text \in Sniffing(e, Content(f))
    BY <1>4, ReturnedOf DEF ByDecoder
  <2> QED
    BY <1>1, <2>1, SniffedText
<1>5. CASE Decode(f) \in ByDeclaration(Content(f))
  BY <1>4, <1>5 DEF ByDeclaration
<1>6. CASE Decode(f) \in ByForce(Content(f))
  <2>1. Decode(f).text = Lossily("UTF-8", Content(f))
    BY <1>6, ReturnedOf DEF ByForce
  <2> QED
    BY <1>1, <2>1, LossyText
<1> QED
  BY <1>2, <1>3, <1>4, <1>5, <1>6, FirstStep

-----------------------------------------------------------------------------
(* Which text it is.                                                       *)

(* A file without the byte order mark it starts with, if it does.          *)
Unmarked(f) == IF StartsWithBom(f) THEN Tail(f) ELSE f

(* With no other byte order mark, nothing is left to sniff.                *)
LEMMA NothingToSniff ==
  ASSUME NEW f \in Seq(Unit), \A k \in 2 .. Len(f) : f[k].type # "bom"
  PROVE  /\ Unmarked(f) \in Seq(Unit) /\ ~ StartsWithBom(Unmarked(f))
         /\ \A e : Sniffing(e, Unmarked(f)) = Strictly(e, Unmarked(f))
<1>1. Unmarked(f) \in Seq(Unit)
  BY UnmarkedFile DEF Unmarked
<1>2. ~ StartsWithBom(Unmarked(f))
  <2>1. CASE StartsWithBom(f)
    <3>1. f # << >> /\ Unmarked(f) = Tail(f)
      BY <2>1 DEF Unmarked, StartsWithBom
    <3> SUFFICES ASSUME Tail(f) # << >> PROVE Head(Tail(f)).type # "bom"
      BY <3>1 DEF StartsWithBom
    <3>2. Len(Tail(f)) = Len(f) - 1 /\ \A i \in 1 .. Len(Tail(f)) : Tail(f)[i] = f[i + 1]
      BY <3>1, HeadTailProperties
    <3>3. Head(Tail(f)) = Tail(f)[1] /\ 1 \in 1 .. Len(Tail(f)) /\ Len(f) \in Nat
      BY <1>1, <3>1
    <3>4. 2 \in 2 .. Len(f) /\ Head(Tail(f)) = f[2]
      BY <3>2, <3>3
    <3> QED
      BY <3>4
  <2>2. CASE ~ StartsWithBom(f)
    BY <2>2 DEF Unmarked
  <2> QED
    BY <2>1, <2>2
<1>3. \A e : Sniffing(e, Unmarked(f)) = Strictly(e, Unmarked(f))
  BY <1>2 DEF Sniffing
<1> QED
  BY <1>1, <1>2, <1>3

(* What a file that starts with a byte order mark can be.                  *)
LEMMA MarkedFile ==
  ASSUME NEW f \in Seq(Unit), StartsWithBom(f)
  PROVE  /\ Head(f).in \in {"UTF-8"} \cup Utf16
         /\ Head(f).in = "UTF-8" => Content(f) = Unmarked(f) /\ ByMark(f) = {}
         /\ Head(f).in # "UTF-8" => /\ Content(f) = f /\ Declared(f) = {}
                                    /\ ByDeclaration(f) = {}
<1>1. Head(f) = f[1] /\ f[1].type = "bom" /\ Head(f) \in Unit
  BY UnmarkedFile
<1>2. Head(f).in \in {"UTF-8"} \cup Utf16
  BY <1>1, UnitTypes
<1>3. Declared(f) = {}
  BY <1>1 DEF Declared
<1>4. ByDeclaration(f) = {}
  BY <1>3 DEF ByDeclaration
<1>5. "UTF-8" \notin Utf16
  BY DEF Utf16
<1> QED
  BY <1>2, <1>3, <1>4, <1>5 DEF Content, Unmarked, ByMark

(* A file without a byte order mark is all content.                        *)
LEMMA UnmarkedContent ==
  ASSUME NEW f, ~ StartsWithBom(f)
  PROVE  Content(f) = f /\ Unmarked(f) = f /\ ByMark(f) = {}
BY DEF Content, Unmarked, ByMark

(* The text is the one a decoder by the name reported makes of the file.   *)
LEMMA DecodedAsReported ==
  ASSUME NEW f \in Seq(Unit),
         StartsWithBom(f) => Head(f).in = Decode(f).encoding,
         \A k \in 2 .. Len(f) : f[k].type # "bom"
  PROVE  Decode(f).text = TextDecoder(Decode(f).encoding, f)
<1> DEFINE u == Unmarked(f)
<1>1. /\ u \in Seq(Unit) /\ \A e : Sniffing(e, u) = Strictly(e, u)
  BY NothingToSniff
<1>2. TextDecoder(Decode(f).encoding, f) = Lossily(Decode(f).encoding, u)
  BY DEF TextDecoder, Unmarked
<1>3. "UTF-8" \notin Utf16 /\ "EUC-KR" \notin {"UTF-8"} \cup Utf16
  BY DEF Utf16
<1>4. \/ Content(f) = u
      \/ StartsWithBom(f) /\ Head(f).in \in Utf16 /\ ByDeclaration(Content(f)) = {}
  BY MarkedFile, UnmarkedContent
<1>5. CASE Decode(f) \in ByMark(f)
  <2>1. Decode(f) \in Returns(Head(f).in, Sniffing(Head(f).in, u), {})
    BY <1>5 DEF ByMark, Unmarked
  <2>2. Decode(f).text \in Strictly(Head(f).in, u) /\ Decode(f).encoding = Head(f).in
    BY <1>1, <2>1, ReturnedOf
  <2> QED
    BY <1>1, <1>2, <2>2, StrictTexts
<1>6. CASE Decode(f) \in ByUtf8(Content(f))
  <2>1. Decode(f).text \in Strictly("UTF-8", Content(f)) /\ Decode(f).encoding = "UTF-8"
    BY <1>6, ReturnedOf DEF ByUtf8
  <2>2. Content(f) = u
    BY <1>3, <1>4, <2>1
  <2> QED
    BY <1>1, <1>2, <2>1, <2>2, StrictTexts
<1>7. ASSUME NEW e, Decode(f) \in ByDecoder(e, Content(f)), Content(f) = u
      PROVE  Decode(f).text = Lossily(Decode(f).encoding, u)
  <2>1. Decode(f).text \in Strictly(e, u) /\ Decode(f).encoding = e
    BY <1>1, <1>7, ReturnedOf DEF ByDecoder
  <2> QED
    BY <1>1, <2>1, StrictTexts
<1>8. CASE Decode(f) \in ByDeclaration(Content(f))
  BY <1>2, <1>4, <1>7, <1>8 DEF ByDeclaration
<1>9. CASE Decode(f) \in ByDecoder("EUC-KR", Content(f))
  <2>1. Decode(f).encoding = "EUC-KR"
    BY <1>9, ReturnedOf DEF ByDecoder
  <2>2. Content(f) = u
    BY <1>3, <1>4, <2>1
  <2> QED
    BY <1>2, <1>7, <1>9, <2>2
<1>10. CASE Decode(f) \in ByForce(Content(f))
  <2>1. Decode(f).text = Lossily("UTF-8", Content(f)) /\ Decode(f).encoding = "UTF-8"
    BY <1>10, ReturnedOf DEF ByForce
  <2>2. Content(f) = u
    BY <1>3, <1>4, <2>1
  <2> QED
    BY <1>2, <2>1, <2>2
<1> QED
  BY <1>5, <1>6, <1>8, <1>9, <1>10, FirstStep

(* A label names one encoding, and a file declares one label.              *)
LEMMA OneEncoding ==
  ASSUME NEW l, NEW a \in ResolveLabel(l), NEW b \in ResolveLabel(l)
  PROVE  a = b
<1>1. \A c, d \in ForLabel(l) : c = d
  BY Zenon DEF ForLabel
<1> QED
  BY <1>1 DEF ResolveLabel

(* A file declares one label, if any.                                      *)
LEMMA OneLabel ==
  ASSUME NEW content, NEW a \in Declared(content), NEW b \in Declared(content)
  PROVE  a = b
BY DEF Declared

(* A label that names the decoder is no mismatch.                          *)
LEMMA NoMismatch ==
  ASSUME NEW content, NEW e, NEW l \in Declared(content), e \in ResolveLabel(l)
  PROVE  Mismatch(Declared(content), e) = {}
BY OneLabel DEF Mismatch

(* What a decoder finds written in its own encoding it reads.              *)
LEMMA ReadAsWritten ==
  ASSUME NEW e, NEW units \in Seq(Unit), WrittenIn(e, units)
  PROVE  \E t : Strictly(e, units) = {t} /\ t = CHOOSE s \in Strictly(e, units) : TRUE
<1>1. \A k \in DOMAIN units : Reads(e, units[k]) # {}
  BY DEF WrittenIn, Own, Reads
<1>2. Strictly(e, units) # {}
  BY <1>1 DEF Strictly
<1>3. PICK t : t \in Strictly(e, units)
  BY <1>2
<1>4. Strictly(e, units) = {t}
  BY <1>3, StrictTexts
<1> QED
  BY <1>4

(* A UTF-8 decoder finds Korean text or a lone byte malformed.             *)
LEMMA NotUtf8 ==
  ASSUME NEW e \in {"EUC-KR", "windows-1252"}, NEW units \in Seq(Unit), WrittenIn(e, units),
         \E k \in DOMAIN units : units[k].in # "ASCII"
  PROVE  Strictly("UTF-8", units) = {}
<1>1. PICK k \in DOMAIN units : units[k].in = e
  BY DEF WrittenIn
<1>2. units[k] \in Unit
  OBVIOUS
<1>3. units[k].type \in {"hangul", "byte"}
  BY <1>1, <1>2, UnitTypes DEF Utf16
<1>4. Reads("UTF-8", units[k]) = {}
  BY <1>1, <1>3 DEF Reads, Own, Utf16
<1> QED
  BY <1>4 DEF Strictly

(* Whatever a file says truthfully of itself is believed.                  *)
LEMMA TruthDecoded ==
  ASSUME file \in Seq(Unit), NEW e \in EncodingName, Truthful(e),
         \E k \in DOMAIN file : file[k].in # "ASCII"
  PROVE  /\ Decode(file).encoding = e
         /\ Decode(file).text = Meant(e)
         /\ Decode(file).diags = {}
<1> DEFINE u == Unmarked(file)
<1>1. /\ u \in Seq(Unit) /\ \A d : Sniffing(d, u) = Strictly(d, u)
  BY NothingToSniff DEF Truthful
<1>2. WrittenIn(e, u)
  <2>1. CASE StartsWithBom(file)
    <3>1. u = Tail(file) /\ file # << >>
      BY <2>1 DEF Unmarked, StartsWithBom
    <3>2. \A k \in 1 .. Len(u) : u[k] = file[k + 1] /\ k + 1 \in DOMAIN file
      BY <3>1, HeadTailProperties
    <3>3. DOMAIN u = 1 .. Len(u)
      BY <1>1
    <3>4. \A k \in DOMAIN u : u[k].in = e \/ (u[k].in = "ASCII" /\ e \notin Utf16)
      BY <3>2, <3>3 DEF Truthful, WrittenIn
    <3> QED
      BY <3>4 DEF WrittenIn
  <2>2. CASE ~ StartsWithBom(file)
    BY <2>2 DEF Unmarked, Truthful
  <2> QED
    BY <2>1, <2>2
<1>3. /\ Strictly(e, u) = {Meant(e)} /\ Strictly(e, u) # {}
  <2>1. Meant(e) = CHOOSE t \in Strictly(e, u) : TRUE
    BY DEF Meant, Unmarked
  <2> HIDE DEF u
  <2>2. PICK t : Strictly(e, u) = {t} /\ t = CHOOSE s \in Strictly(e, u) : TRUE
    BY <1>1, <1>2, ReadAsWritten
  <2> QED
    BY <2>1, <2>2
<1>4. CASE e = "UTF-8"
  <2>1. ByMark(file) = {} /\ Content(file) = u
    BY <1>4, MarkedFile, UnmarkedContent DEF Truthful, Says
  <2>2. Mismatch(Declared(u), "UTF-8") = {}
    <3>1. Declared(u) = {} \/ \E l \in Declared(u) : "UTF-8" \in ResolveLabel(l)
      BY <1>4 DEF Truthful, Says, Unmarked, Utf16
    <3>2. Declared(u) = {} => Mismatch(Declared(u), "UTF-8") = {}
      BY DEF Mismatch
    <3> QED
      BY <3>1, <3>2, NoMismatch
  <2>3. ByUtf8(Content(file)) = Returns("UTF-8", {Meant(e)}, {})
    BY <1>3, <1>4, <2>1, <2>2 DEF ByUtf8
  <2>4. Decode(file) \in Returns("UTF-8", {Meant(e)}, {})
    BY <2>1, <2>3, ReturnsNothing, FirstStep
  <2> QED
    BY <1>4, <2>4, ReturnedOf
<1>5. CASE e \in Utf16
  <2>1. CASE StartsWithBom(file)
    <3>1. Head(file).in = e
      BY <2>1 DEF Truthful, Says
    <3>2. ByMark(file) = Returns(e, {Meant(e)}, {})
      BY <1>1, <1>3, <1>5, <2>1, <3>1 DEF ByMark, Unmarked
    <3>3. Decode(file) \in Returns(e, {Meant(e)}, {})
      BY <3>2, ReturnsNothing, FirstStep
    <3> QED
      BY <3>3, ReturnedOf
  <2>2. CASE ~ StartsWithBom(file)
    <3>1. Declared(file) # {}
      BY <1>5, <2>2 DEF Truthful, Says, Utf16
    <3>2. file # << >> /\ file[1].in = "ASCII"
      BY <3>1 DEF Declared
    <3>3. 1 \in DOMAIN file
      BY <3>2
    <3> QED
      BY <1>5, <3>2, <3>3 DEF Truthful, WrittenIn, Utf16
  <2> QED
    BY <2>1, <2>2
<1>6. CASE e \in {"EUC-KR", "windows-1252"}
  <2>1. ~ StartsWithBom(file)
    BY <1>6, MarkedFile DEF Truthful, Says, Utf16
  <2>2. ByMark(file) = {} /\ Content(file) = file /\ u = file
    BY <2>1, UnmarkedContent
  <2>3. ByUtf8(Content(file)) = {}
    BY <1>2, <1>6, <2>2, NotUtf8, ReturnsNothing DEF ByUtf8
  <2>4. PICK l \in Declared(file) : e \in ResolveLabel(l)
    BY <1>6, <2>1 DEF Truthful, Says
  <2>5. UNION {ResolveLabel(m) : m \in Declared(file)} = {e}
    BY <2>4, OneLabel, OneEncoding
  <2>6. ByDeclaration(Content(file)) = ByDecoder(e, file)
    BY <2>2, <2>5 DEF ByDeclaration
  <2>7. ByDecoder(e, file) = Returns(e, {Meant(e)}, {})
    BY <1>1, <1>3, <2>2, <2>4, NoMismatch DEF ByDecoder
  <2>8. Decode(file) \in Returns(e, {Meant(e)}, {})
    BY <2>2, <2>3, <2>6, <2>7, ReturnsNothing, FirstStep
  <2> QED
    BY <2>8, ReturnedOf
<1> QED
  BY <1>4, <1>5, <1>6 DEF EncodingName

-----------------------------------------------------------------------------
(* Sizes.                                                                  *)

(* f holds the sums of the first widths, up to the n-th.                   *)
SumsUpTo(f, widths, n) ==
  f = [k \in 0 .. n |-> IF k = 0 THEN 0 ELSE f[k - 1] + widths[k]]

(* The recursive function of Total is one that can be: were there a first  *)
(* n it could not reach, it could be taken one further from n - 1.         *)
LEMMA SumsExist ==
  ASSUME NEW widths \in Seq(Nat), NEW n \in 0 .. Len(widths)
  PROVE  \E f : SumsUpTo(f, widths, n)
<1> DEFINE Bad == {k \in 0 .. Len(widths) : ~ \E f : SumsUpTo(f, widths, k)}
<1> SUFFICES ASSUME Bad # {} PROVE FALSE
  OBVIOUS
<1>0. Bad \subseteq Nat
  OBVIOUS
<1> HIDE DEF Bad
<1>1. PICK m \in Bad : \A k \in Bad : m <= k
  BY <1>0, NatLeast
<1> USE DEF Bad
<1>2. m \in 0 .. Len(widths) /\ ~ \E f : SumsUpTo(f, widths, m)
  BY <1>1
<1>3. CASE m = 0
  <2> DEFINE f == [k \in 0 .. 0 |-> 0]
  <2>1. f = [k \in 0 .. 0 |-> IF k = 0 THEN 0 ELSE f[k - 1] + widths[k]]
    OBVIOUS
  <2>2. SumsUpTo(f, widths, m)
    BY <1>3, <2>1 DEF SumsUpTo
  <2> QED
    BY <1>2, <2>2
<1>4. CASE m # 0
  <2>1. m - 1 \in 0 .. Len(widths) /\ m - 1 \notin Bad
    BY <1>1, <1>2, <1>4, SMTT(30)
  <2>2. PICK g : SumsUpTo(g, widths, m - 1)
    BY <2>1
  <2> DEFINE f == [k \in 0 .. m |-> IF k = m THEN g[m - 1] + widths[m] ELSE g[k]]
  <2>3. \A k \in 0 .. m - 1 : g[k] = IF k = 0 THEN 0 ELSE g[k - 1] + widths[k]
    BY <2>2 DEF SumsUpTo
  <2>4. \A k \in 0 .. m : f[k] = IF k = 0 THEN 0 ELSE f[k - 1] + widths[k]
    BY <1>2, <1>4, <2>3
  <2>5. SumsUpTo(f, widths, m)
    BY <2>4 DEF SumsUpTo
  <2> QED
    BY <1>2, <2>5
<1> QED
  BY <1>3, <1>4

(* Total is the last of the sums.                                          *)
LEMMA TotalOf ==
  ASSUME NEW widths \in Seq(Nat)
  PROVE  \E f : SumsUpTo(f, widths, Len(widths)) /\ Total(widths) = f[Len(widths)]
<1> DEFINE upTo == CHOOSE f : SumsUpTo(f, widths, Len(widths))
<1>1. Len(widths) \in 0 .. Len(widths)
  OBVIOUS
<1>2. SumsUpTo(upTo, widths, Len(widths))
  BY <1>1, SumsExist
<1>3. Total(widths) = upTo[Len(widths)]
  BY DEF Total, SumsUpTo
<1> QED
  BY <1>2, <1>3

(* The sums are naturals.                                                  *)
LEMMA SumsAreNaturals ==
  ASSUME NEW widths \in Seq(Nat), NEW f, SumsUpTo(f, widths, Len(widths))
  PROVE  \A k \in 0 .. Len(widths) :
           /\ f[k] \in Nat
           /\ f[0] = 0 /\ (k # 0 => f[k] = f[k - 1] + widths[k] /\ widths[k] \in Nat)
<1> DEFINE Bad == {k \in 0 .. Len(widths) : f[k] \notin Nat}
<1>1. \A k \in 0 .. Len(widths) : f[k] = IF k = 0 THEN 0 ELSE f[k - 1] + widths[k]
  BY DEF SumsUpTo
<1>2. \A k \in 1 .. Len(widths) : widths[k] \in Nat
  OBVIOUS
<1>3. Bad = {}
  <2> SUFFICES ASSUME Bad # {} PROVE FALSE
    OBVIOUS
  <2>0. Bad \subseteq Nat
    OBVIOUS
  <2> HIDE DEF Bad
  <2>1. PICK m \in Bad : \A k \in Bad : m <= k
    BY <2>0, NatLeast
  <2> USE DEF Bad
  <2>2. m \in 0 .. Len(widths) /\ f[m] \notin Nat
    BY <2>1
  <2>3. m # 0
    BY <1>1, <2>2
  <2>4. f[m - 1] \in Nat
    BY <2>1, <2>2, <2>3
  <2> QED
    BY <1>1, <1>2, <2>2, <2>3, <2>4
<1> QED
  BY <1>1, <1>2, <1>3

(* What is taken off at the front does not make a text longer.             *)
LEMMA TotalOfRest ==
  ASSUME NEW widths \in Seq(Nat), NEW m \in 1 .. Len(widths) + 1
  PROVE  Total(SubSeq(widths, m, Len(widths))) <= Total(widths)
<1> DEFINE rest == SubSeq(widths, m, Len(widths))
<1>1. /\ rest \in Seq(Nat) /\ Len(rest) = Len(widths) - m + 1
      /\ \A i \in 1 .. Len(rest) : rest[i] = widths[m + i - 1]
  <2>1. \A i \in m .. Len(widths) : widths[i] \in Nat
    OBVIOUS
  <2>2. /\ rest \in Seq(Nat) /\ Len(rest) = IF m <= Len(widths) THEN Len(widths) - m + 1 ELSE 0
        /\ \A i \in 1 .. Len(widths) - m + 1 : rest[i] = widths[m + i - 1]
    BY <2>1, SubSeqProperties
  <2> QED
    BY <2>2
<1> HIDE DEF rest
<1>2. PICK f : SumsUpTo(f, widths, Len(widths)) /\ Total(widths) = f[Len(widths)]
  BY TotalOf
<1>3. PICK g : SumsUpTo(g, rest, Len(rest)) /\ Total(rest) = g[Len(rest)]
  BY <1>1, TotalOf
<1>4. \A k \in 0 .. Len(widths) :
        f[k] \in Nat /\ (k # 0 => f[k] = f[k - 1] + widths[k] /\ widths[k] \in Nat)
  BY <1>2, SumsAreNaturals
<1>5. /\ \A k \in 0 .. Len(rest) : g[k] \in Nat /\ (k # 0 => g[k] = g[k - 1] + rest[k])
      /\ g[0] = 0
  <2>1. 0 \in 0 .. Len(rest)
    BY <1>1
  <2> QED
    BY <1>1, <1>3, <2>1, SumsAreNaturals
<1> DEFINE Bad == {k \in 0 .. Len(rest) : ~ g[k] <= f[m - 1 + k]}
<1>6. Bad = {}
  <2> SUFFICES ASSUME Bad # {} PROVE FALSE
    OBVIOUS
  <2>0. Bad \subseteq Nat
    OBVIOUS
  <2> HIDE DEF Bad
  <2>1. PICK n \in Bad : \A k \in Bad : n <= k
    BY <2>0, NatLeast
  <2> USE DEF Bad
  <2>2. n \in 0 .. Len(rest) /\ ~ g[n] <= f[m - 1 + n]
    BY <2>1
  <2>3. m - 1 + n \in 0 .. Len(widths)
    BY <1>1, <2>2
  <2>4. n # 0
    BY <1>4, <1>5, <2>2, <2>3
  <2>5. g[n - 1] <= f[m - 1 + (n - 1)]
    BY <1>1, <2>1, <2>2, <2>4
  <2>6. g[n] = g[n - 1] + rest[n] /\ g[n - 1] \in Nat /\ g[n] \in Nat
    BY <1>5, <2>2, <2>4
  <2>7. f[m - 1 + n] = f[(m - 1 + n) - 1] + widths[m - 1 + n]
    BY <1>4, <2>3, <2>4, <2>2
  <2>8. /\ (m - 1 + n) - 1 = m - 1 + (n - 1) /\ m + n - 1 = m - 1 + n
        /\ (m - 1 + n) - 1 \in 0 .. Len(widths)
    BY <2>2, <2>3, <2>4
  <2>9. rest[n] = widths[m - 1 + n] /\ widths[m - 1 + n] \in Nat /\ f[(m - 1 + n) - 1] \in Nat
    BY <1>1, <1>4, <2>2, <2>3, <2>4, <2>8, SMTT(30)
  <2>10. f[(m - 1 + n) - 1] = f[m - 1 + (n - 1)]
    BY <2>8
  <2>11. g[n] <= f[m - 1 + n]
    <3>1. \A a, b, w \in Nat : a <= b => a + w <= b + w
      OBVIOUS
    <3>2. g[n - 1] + rest[n] <= f[(m - 1 + n) - 1] + rest[n]
      BY <2>5, <2>6, <2>9, <2>10, <3>1
    <3> QED
      BY <2>6, <2>7, <2>9, <3>2
  <2> QED
    BY <2>2, <2>11
<1>7. Len(rest) \in 0 .. Len(rest) /\ m - 1 + Len(rest) = Len(widths)
  BY <1>1
<1>8. g[Len(rest)] <= f[Len(widths)]
  BY <1>6, <1>7
<1> QED
  BY <1>2, <1>3, <1>8 DEF rest

(* Characters have widths.                                                 *)
LEMMA WidthsOfText ==
  ASSUME NEW t \in Seq(Char)
  PROVE  [k \in DOMAIN t |-> t[k].width] \in Seq(Nat)
<1>1. \A c \in Char : c.width \in Nat
  BY DEF Char, Feff
<1>2. \A k \in 1 .. Len(t) : t[k].width \in Nat
  BY <1>1
<1>3. DOMAIN t = 1 .. Len(t) /\ Len(t) \in Nat
  OBVIOUS
<1> QED
  BY <1>2, <1>3

(* Every leading U+FEFF is taken off, and nothing else.                    *)
LEMMA FeffTakenOff ==
  ASSUME NEW t \in Seq(Char)
  PROVE  \E m \in 1 .. Len(t) + 1 :
           /\ WithoutFeff(t) = SubSeq(t, m, Len(t))
           /\ \A k \in 1 .. m - 1 : t[k] = Feff
<1> DEFINE kept == {k \in DOMAIN t : t[k] # Feff}
<1>1. DOMAIN t = 1 .. Len(t) /\ Len(t) \in Nat
  OBVIOUS
<1>2. kept \subseteq Nat
  BY <1>1
<1>3. CASE kept = {}
  <2>1. WithoutFeff(t) = SubSeq(t, Len(t) + 1, Len(t))
    BY <1>3, Zenon DEF WithoutFeff
  <2>2. \A k \in 1 .. (Len(t) + 1) - 1 : t[k] = Feff
    BY <1>1, <1>3
  <2> QED
    BY <1>1, <2>1, <2>2
<1>4. CASE kept # {}
  <2> HIDE DEF kept
  <2>1. \E m \in kept : \A j \in kept : m <= j
    BY <1>2, <1>4, NatLeast
  <2>2. Min(kept) \in kept /\ \A j \in kept : Min(kept) <= j
    BY <2>1, Zenon DEF Min
  <2> DEFINE m == Min(kept)
  <2>3. WithoutFeff(t) = SubSeq(t, m, Len(t))
    BY <1>4, Zenon DEF WithoutFeff, kept
  <2>4. m \in kept /\ \A j \in kept : m <= j
    BY <2>2
  <2> HIDE DEF m
  <2>5. m \in 1 .. Len(t) /\ \A k \in 1 .. m - 1 : t[k] = Feff
    BY <1>1, <2>4 DEF kept
  <2> QED
    BY <1>1, <2>3, <2>5
<1> QED
  BY <1>3, <1>4

(* The characters of what is left of a text.                               *)
LEMMA RestOfText ==
  ASSUME NEW t \in Seq(Char), NEW m \in 1 .. Len(t) + 1
  PROVE  /\ SubSeq(t, m, Len(t)) \in Seq(Char)
         /\ Len(SubSeq(t, m, Len(t))) = Len(t) - m + 1
         /\ \A i \in 1 .. Len(t) - m + 1 : SubSeq(t, m, Len(t))[i] = t[m + i - 1]
<1>1. \A i \in m .. Len(t) : t[i] \in Char
  OBVIOUS
<1> QED
  BY <1>1, SubSeqProperties

(* So a text is not the wider for it.                                      *)
LEMMA SizeWithoutFeff ==
  ASSUME NEW t \in Seq(Char)
  PROVE  /\ Size(t) \in Nat /\ Size(WithoutFeff(t)) \in Nat
         /\ Size(WithoutFeff(t)) <= Size(t)
<1> DEFINE widths == [k \in DOMAIN t |-> t[k].width]
           rest == WithoutFeff(t)
<1>1. PICK m \in 1 .. Len(t) + 1 : rest = SubSeq(t, m, Len(t))
  BY FeffTakenOff
<1> DEFINE ofRest == [k \in DOMAIN rest |-> rest[k].width]
           restOf == SubSeq(widths, m, Len(widths))
<1>2. /\ widths \in Seq(Nat) /\ Len(widths) = Len(t)
      /\ \A k \in 1 .. Len(t) : widths[k] = t[k].width
  BY WidthsOfText
<1>3. /\ rest \in Seq(Char) /\ Len(rest) = Len(t) - m + 1
      /\ \A i \in 1 .. Len(rest) : rest[i] = t[m + i - 1]
  BY <1>1, RestOfText
<1>4. ofRest \in Seq(Nat) /\ Len(ofRest) = Len(rest)
  <2> HIDE DEF rest
  <2>1. ofRest \in Seq(Nat)
    BY <1>3, WidthsOfText
  <2>2. DOMAIN ofRest = 1 .. Len(rest) /\ Len(rest) \in Nat
    BY <1>3
  <2> QED
    BY <2>1, <2>2
<1>5. /\ restOf \in Seq(Nat) /\ Len(restOf) = Len(t) - m + 1
      /\ \A i \in 1 .. Len(t) - m + 1 : restOf[i] = widths[m + i - 1]
  <2>1. \A i \in m .. Len(widths) : widths[i] \in Nat
    BY <1>2
  <2> HIDE DEF widths
  <2> QED
    BY <1>2, <2>1, SubSeqProperties
<1>6. \A i \in 1 .. Len(rest) : ofRest[i] = restOf[i]
  <2> TAKE i \in 1 .. Len(rest)
  <2>1. i \in DOMAIN rest /\ m + i - 1 \in 1 .. Len(t)
    BY <1>3
  <2> QED
    BY <1>2, <1>3, <1>5, <2>1
<1>7. ofRest = restOf
  <2>1. DOMAIN ofRest = 1 .. Len(ofRest) /\ DOMAIN restOf = 1 .. Len(restOf)
    BY <1>4, <1>5
  <2> HIDE DEF ofRest, restOf, rest
  <2> QED
    BY <1>3, <1>4, <1>5, <1>6, <2>1
<1>8. Size(t) = Total(widths) /\ Size(rest) = Total(restOf)
  BY <1>7 DEF Size
<1>9. Total(widths) \in Nat /\ Total(restOf) \in Nat /\ Total(restOf) <= Total(widths)
  <2> HIDE DEF widths
  <2>1. \A w \in Seq(Nat) : Total(w) \in Nat
    <3> TAKE w \in Seq(Nat)
    <3>1. PICK f : SumsUpTo(f, w, Len(w)) /\ Total(w) = f[Len(w)]
      BY TotalOf
    <3>2. Len(w) \in 0 .. Len(w)
      OBVIOUS
    <3> QED
      BY <3>1, <3>2, SumsAreNaturals
  <2> QED
    BY <1>2, <1>5, <2>1, TotalOfRest
<1> QED
  BY <1>8, <1>9

-----------------------------------------------------------------------------
(* The root.                                                               *)

(* What neither loop reads past: the root, and markup the reader is stuck  *)
(* at.                                                                     *)
Stop == {"start", "empty", "stuck"}

(* A loop over the root reads past the first n tokens.                     *)
GetsPast(d, n) == \A j \in 1 .. n : d[j].type \notin Stop

(* It comes to the k-th, and not further.                                  *)
StopsAt(d, k) == k \in DOMAIN d /\ d[k].type \in Stop /\ GetsPast(d, k - 1)

(* What the first of these says the dialect is.                            *)
AnswerAt(tok) == IF tok.type = "stuck" THEN Unknown ELSE DialectOf(tok.name)

(* What a loop over the root should answer for the document.               *)
IsAnswer(d, a) ==
  \/ GetsPast(d, Len(d)) /\ a = Unknown
  \/ \E k \in DOMAIN d : StopsAt(d, k) /\ a = AnswerAt(d[k])

(* A document has one answer.                                              *)
LEMMA OneStop ==
  ASSUME NEW d, NEW n \in Nat, DOMAIN d = 1 .. n, NEW i, NEW k, StopsAt(d, i), StopsAt(d, k)
  PROVE  i = k
<1>1. i \in 1 .. n /\ k \in 1 .. n
  BY DEF StopsAt
<1>2. ~ i < k
  <2> SUFFICES ASSUME i < k PROVE FALSE
    OBVIOUS
  <2>1. i \in 1 .. k - 1
    BY <1>1
  <2> QED
    BY <2>1 DEF StopsAt, GetsPast
<1>3. ~ k < i
  <2> SUFFICES ASSUME k < i PROVE FALSE
    OBVIOUS
  <2>1. k \in 1 .. i - 1
    BY <1>1
  <2> QED
    BY <2>1 DEF StopsAt, GetsPast
<1> QED
  BY <1>1, <1>2, <1>3

(* And no other.                                                           *)
LEMMA OneAnswer ==
  ASSUME NEW d, Len(d) \in Nat, DOMAIN d = 1 .. Len(d), NEW a, NEW b,
         IsAnswer(d, a), IsAnswer(d, b)
  PROVE  a = b
<1>1. \A k : StopsAt(d, k) => ~ GetsPast(d, Len(d))
  BY DEF StopsAt, GetsPast
<1>2. CASE GetsPast(d, Len(d))
  BY <1>1, <1>2 DEF IsAnswer
<1>3. CASE ~ GetsPast(d, Len(d))
  <2>1. PICK i : StopsAt(d, i) /\ a = AnswerAt(d[i])
    BY <1>3 DEF IsAnswer
  <2>2. PICK k : StopsAt(d, k) /\ b = AnswerAt(d[k])
    BY <1>3 DEF IsAnswer
  <2>3. i = k
    BY <2>1, <2>2, OneStop
  <2> QED
    BY <2>1, <2>2, <2>3
<1> QED
  BY <1>2, <1>3

(* What the reader is given of a text.                                     *)
LEMMA TokensOf ==
  ASSUME NEW t \in Seq(Char)
  PROVE  /\ DOMAIN Tokens(t) = 1 .. Len(t) /\ Len(Tokens(t)) = Len(t) /\ Len(t) \in Nat
         /\ \A k \in 1 .. Len(t) : t[k] = Feff => Tokens(t)[k].type = "text"
<1>1. DOMAIN t = 1 .. Len(t) /\ Len(t) \in Nat
  OBVIOUS
<1>2. DOMAIN Tokens(t) = 1 .. Len(t)
  BY <1>1 DEF Tokens
<1>3. Len(Tokens(t)) = Len(t)
  BY <1>1 DEF Tokens
<1>4. \A k \in 1 .. Len(t) : t[k] = Feff => Tokens(t)[k].type = "text"
  BY <1>1 DEF Tokens, Feff
<1> QED
  BY <1>1, <1>2, <1>3, <1>4

(* U+FEFF ahead of the root does not change the answer.                    *)
LEMMA AnswerWithoutFeff ==
  ASSUME NEW t \in Seq(Char), NEW a, IsAnswer(Tokens(WithoutFeff(t)), a)
  PROVE  IsAnswer(Tokens(t), a)
<1> DEFINE r == WithoutFeff(t)
           d == Tokens(t)
           e == Tokens(r)
<1>1. PICK m \in 1 .. Len(t) + 1 :
        r = SubSeq(t, m, Len(t)) /\ \A k \in 1 .. m - 1 : t[k] = Feff
  BY FeffTakenOff
<1>2. /\ r \in Seq(Char) /\ Len(r) = Len(t) - m + 1
      /\ \A i \in 1 .. Len(r) : r[i] = t[m + i - 1]
  BY <1>1, RestOfText
<1>3. /\ DOMAIN d = 1 .. Len(t) /\ Len(d) = Len(t) /\ Len(t) \in Nat
      /\ \A k \in 1 .. m - 1 : d[k].type = "text"
  BY <1>1, TokensOf
<1>4. /\ DOMAIN e = 1 .. Len(r) /\ Len(e) = Len(r) /\ Len(r) \in Nat
      /\ \A i \in 1 .. Len(r) : e[i] = d[m + i - 1]
  <2>1. \A i \in 1 .. Len(r) : i \in DOMAIN r /\ m + i - 1 \in DOMAIN t
    BY <1>2
  <2> HIDE DEF r
  <2>2. \A i \in 1 .. Len(r) : e[i] = d[m + i - 1]
    BY <1>2, <2>1 DEF Tokens
  <2> QED
    BY <1>2, <2>2, TokensOf
<1> HIDE DEF d, e, r
<1>5. \A n \in 0 .. Len(r) : GetsPast(e, n) => GetsPast(d, m - 1 + n)
  <2> TAKE n \in 0 .. Len(r)
  <2> HAVE GetsPast(e, n)
  <2> SUFFICES ASSUME NEW j \in 1 .. m - 1 + n PROVE d[j].type \notin Stop
    BY DEF GetsPast
  <2>1. CASE j \in 1 .. m - 1
    BY <1>3, <2>1 DEF Stop
  <2>2. CASE j \notin 1 .. m - 1
    <3>1. j - m + 1 \in 1 .. n /\ j - m + 1 \in 1 .. Len(r) /\ m + (j - m + 1) - 1 = j
      BY <1>2, <2>2
    <3>2. e[j - m + 1] = d[j]
      BY <1>4, <3>1
    <3> QED
      BY <3>1, <3>2 DEF GetsPast
  <2> QED
    BY <2>1, <2>2
<1>6. CASE GetsPast(e, Len(e)) /\ a = Unknown
  <2>1. GetsPast(d, m - 1 + Len(r)) /\ m - 1 + Len(r) = Len(d)
    BY <1>2, <1>3, <1>4, <1>5, <1>6
  <2> QED
    BY <1>6, <2>1 DEF IsAnswer, d
<1>7. ASSUME NEW k \in DOMAIN e, StopsAt(e, k), a = AnswerAt(e[k])
      PROVE  \E j \in DOMAIN d : StopsAt(d, j) /\ a = AnswerAt(d[j])
  <2>1. k \in 1 .. Len(r) /\ k - 1 \in 0 .. Len(r) /\ e[k] = d[m + k - 1]
    BY <1>4, <1>7
  <2>2. m + k - 1 \in DOMAIN d /\ (m + k - 1) - 1 = m - 1 + (k - 1)
    BY <1>2, <1>3, <2>1, SMTT(30)
  <2>3. d[m + k - 1].type \in Stop /\ GetsPast(d, (m + k - 1) - 1)
    BY <1>5, <1>7, <2>1, <2>2 DEF StopsAt
  <2> QED
    BY <1>7, <2>1, <2>2, <2>3 DEF StopsAt
<1> QED
  BY <1>6, <1>7 DEF IsAnswer, d, e, r

-----------------------------------------------------------------------------
(* The two loops over the root.                                            *)

(* Where either loop stands before it comes to an answer: it has got past  *)
(* everything so far, and past every error once.                           *)
AtRoot ==
  /\ Len(doc) \in Nat /\ DOMAIN doc = 1 .. Len(doc)
  /\ limit = Len(doc) /\ pos \in 0 .. limit /\ open = << >>
  /\ GetsPast(doc, pos)
  /\ lastErr["root"] \in Int
  /\ \/ lastErr["root"] < pos
     \/ lastErr["root"] = pos /\ pos < limit /\ doc[pos + 1].type = "stuck"

(* lastErr keeps one place for each loop.                                  *)
LastErrOK == lastErr = [l \in Walk!Loop |-> lastErr[l]]

(* The walk and the cheap look use the reader alike.                       *)
LEMMA SameReader ==
  /\ Walk!Tok = Reader!Tok /\ Walk!AtEof = Reader!AtEof /\ Walk!Read = Reader!Read
  /\ Walk!Fails = Reader!Fails
  /\ \A types : Walk!Sees(types) = Reader!Sees(types)
BY DEF Walk!Tok, Reader!Tok, Walk!AtEof, Reader!AtEof, Walk!Read, Reader!Read,
   Walk!Fails, Reader!Fails, Walk!Sees, Reader!Sees, Walk!Closes, Reader!Closes

(* There is a token to read.                                               *)
LEMMA RootSees ==
  ASSUME AtRoot, ~ Reader!AtEof
  PROVE  pos \in Nat /\ pos < limit /\ pos + 1 \in 1 .. Len(doc)
<1>1. Len(doc) \in Nat /\ limit = Len(doc) /\ pos \in 0 .. limit
  BY DEF AtRoot
<1>2. pos # limit
  BY DEF Reader!AtEof
<1> QED
  BY <1>1, <1>2

(* Reading on from what is no stop.                                        *)
LEMMA RootReadsOn ==
  ASSUME AtRoot, ~ Reader!AtEof, Reader!Tok.type \notin Stop, Reader!Read,
         lastErr'["root"] \in {lastErr["root"], pos}
  PROVE  AtRoot'
<1>1. pos + 1 \in 1 .. Len(doc) /\ pos \in Nat
  BY RootSees
<1>2. /\ pos' = pos + 1 /\ open' = open /\ doc' = doc /\ limit' = limit
  BY DEF AtRoot, Reader!Read, Reader!Tok, Stop
<1>3. GetsPast(doc, pos + 1)
  <2> SUFFICES ASSUME NEW j \in 1 .. pos + 1 PROVE doc[j].type \notin Stop
    BY DEF GetsPast
  <2>1. j \in 1 .. pos \/ j = pos + 1
    BY <1>1
  <2> QED
    BY <2>1 DEF AtRoot, GetsPast, Reader!Tok
<1>4. lastErr'["root"] \in Int /\ lastErr'["root"] < pos + 1
  BY <1>1 DEF AtRoot
<1> QED
  BY <1>1, <1>2, <1>3, <1>4 DEF AtRoot

(* Meeting for the first time what the reader cannot get past.             *)
LEMMA RootStuck ==
  ASSUME AtRoot, ~ Reader!AtEof, Reader!Tok.type = "stuck", Reader!Read,
         lastErr'["root"] = pos
  PROVE  AtRoot'
<1>1. pos \in Nat /\ pos < limit
  BY RootSees
<1>2. /\ pos' = pos /\ open' = open /\ doc' = doc /\ limit' = limit
      /\ doc[pos + 1].type = "stuck"
  BY DEF AtRoot, Reader!Read, Reader!Tok
<1> QED
  BY <1>1, <1>2 DEF AtRoot

(* An error that is none of the stops is met but once.                     *)
LEMMA RootFails ==
  ASSUME AtRoot, Reader!Fails
  PROVE  /\ ~ Reader!AtEof /\ Reader!Tok.type \in {"bad", "stuck", "end"}
         /\ Reader!Tok.type = "stuck" \/ Reader!Tok.type \notin Stop
         /\ lastErr["root"] = pos => Reader!Tok.type = "stuck"
<1>1. ~ Reader!AtEof /\ Reader!Tok.type \in {"bad", "stuck", "end"}
  BY DEF Reader!Fails, Reader!Sees
<1>2. lastErr["root"] = pos => Reader!Tok.type = "stuck"
  BY DEF AtRoot, Reader!Tok
<1> QED
  BY <1>1, <1>2 DEF Stop

(* What an answer rests on.                                                *)
LEMMA RootStops ==
  ASSUME AtRoot, ~ Reader!AtEof, Reader!Tok.type \in Stop
  PROVE  /\ pos + 1 \in DOMAIN doc /\ StopsAt(doc, pos + 1)
         /\ IsAnswer(doc, AnswerAt(Reader!Tok))
<1>1. pos + 1 \in DOMAIN doc /\ (pos + 1) - 1 = pos
  BY DEF AtRoot, Reader!AtEof
<1>2. StopsAt(doc, pos + 1)
  BY <1>1 DEF StopsAt, AtRoot, Reader!Tok
<1> QED
  BY <1>1, <1>2 DEF IsAnswer, Reader!Tok

(* A document that ends before its root has no dialect.                    *)
LEMMA RootNowhere ==
  ASSUME AtRoot, Reader!AtEof
  PROVE  IsAnswer(doc, Unknown)
BY DEF AtRoot, Reader!AtEof, IsAnswer

(* A root of another name is of no known dialect.                          *)
LEMMA DialectOfForeign ==
  ASSUME NEW name, name \notin Walk!RootName
  PROVE  DialectOf(name) = Unknown
<1>1. name # "mapper" /\ name # "sqlMap"
  BY DEF Walk!RootName
<1> QED
  BY <1>1, Zenon DEF DialectOf

(* A missing root, or a foreign one, was reported.                         *)
Reported == \E d \in walkDiags : d.code \in {"UnknownElement", "UnclosedTag"}

(* What the walk knows of the root: before it, nothing yet; behind it,     *)
(* where it is, or that there is none, which has been reported.            *)
WalkInv ==
  /\ LastErrOK
  /\ Len(doc) \in Nat /\ DOMAIN doc = 1 .. Len(doc)
  /\ loop = "root" => AtRoot /\ ~ walkMapper
  /\ loop # "root" /\ walkMapper => \E k : StopsAt(doc, k) /\ doc[k].type # "stuck"
  /\ loop # "root" /\ ~ walkMapper => IsAnswer(doc, Unknown) /\ Reported

(* Behind the root, nothing the loops do concerns it any more.             *)
LEMMA WalkBehindRoot ==
  ASSUME Walk!Next, loop # "root"
  PROVE  /\ loop' # "root" /\ walkMapper' = walkMapper /\ doc' = doc
         /\ walkDiags \subseteq walkDiags'
<1> USE DEF Walk!Report, Walk!Read, Walk!place, Walk!found, Walk!OpenOver
<1>1. CASE Walk!Recover \/ Walk!PassOver
  BY <1>1 DEF Walk!Recover, Walk!PassOver
<1>2. CASE Walk!RootOpens \/ Walk!RootEmpty \/ Walk!RootForeign \/ Walk!RootMissing
             \/ Walk!RootGivesUp
  BY <1>2 DEF Walk!RootOpens, Walk!RootEmpty, Walk!RootForeign, Walk!RootMissing,
      Walk!RootGivesUp
<1>3. CASE Walk!MapperCloses \/ Walk!MapperEof \/ Walk!MapperGivesUp
  BY <1>3 DEF Walk!MapperCloses, Walk!MapperEof, Walk!MapperGivesUp, Walk!MapperDone
<1>4. CASE Walk!MapperCaptures \/ Walk!MapperSkips \/ Walk!MapperEmpty
  BY <1>4 DEF Walk!MapperCaptures, Walk!MapperSkips, Walk!MapperEmpty
<1>5. CASE Walk!BodyCloses \/ Walk!BodyEof \/ Walk!BodyGivesUp
  BY <1>5 DEF Walk!BodyCloses, Walk!BodyEof, Walk!BodyGivesUp, Walk!BodyEnds
<1>6. CASE Walk!BodySegment \/ Walk!BodyIgnores \/ Walk!BodySkips
  BY <1>6 DEF Walk!BodySegment, Walk!BodyIgnores, Walk!BodySkips
<1>7. CASE Walk!SkipCounts \/ Walk!SkipCloses
  BY <1>7 DEF Walk!SkipCounts, Walk!SkipCloses
<1>8. CASE Walk!SkipAbandoned
  BY <1>8 DEF Walk!SkipAbandoned, Walk!BodyEnds
<1>9. CASE Walk!TrailingIgnores \/ Walk!TrailingRecovers \/ Walk!TrailingEnds
  BY <1>9 DEF Walk!TrailingIgnores, Walk!TrailingRecovers, Walk!TrailingEnds
<1>10. CASE Walk!CaptureSubtree
  BY <1>10 DEF Walk!CaptureSubtree
<1> QED
  BY <1>1, <1>2, <1>3, <1>4, <1>5, <1>6, <1>7, <1>8, <1>9, <1>10 DEF Walk!Next

(* No action of the walk adds a place to lastErr.                          *)
LEMMA WalkKeepsPlaces ==
  ASSUME Walk!Next, LastErrOK
  PROVE  LastErrOK'
<1>1. ASSUME NEW l, NEW p, lastErr' = [lastErr EXCEPT ![l] = p]
      PROVE  LastErrOK'
  BY <1>1 DEF LastErrOK
<1>2. lastErr' = lastErr => LastErrOK'
  BY DEF LastErrOK
<1>3. lastErr' = lastErr \/ \E l, p : lastErr' = [lastErr EXCEPT ![l] = p]
  <2>1. CASE Walk!Recover \/ Walk!PassOver
    BY <2>1 DEF Walk!Recover, Walk!PassOver
  <2>2. CASE Walk!RootOpens \/ Walk!RootEmpty \/ Walk!RootForeign \/ Walk!RootMissing
               \/ Walk!RootGivesUp
    BY <2>2 DEF Walk!RootOpens, Walk!RootEmpty, Walk!RootForeign, Walk!RootMissing,
        Walk!RootGivesUp
  <2>3. CASE Walk!MapperCloses \/ Walk!MapperEof \/ Walk!MapperGivesUp
    BY <2>3 DEF Walk!MapperCloses, Walk!MapperEof, Walk!MapperGivesUp, Walk!MapperDone
  <2>4. CASE Walk!MapperCaptures \/ Walk!MapperSkips \/ Walk!MapperEmpty
    BY <2>4 DEF Walk!MapperCaptures, Walk!MapperSkips, Walk!MapperEmpty
  <2>5. CASE Walk!BodyCloses \/ Walk!BodyEof \/ Walk!BodyGivesUp
    BY <2>5 DEF Walk!BodyCloses, Walk!BodyEof, Walk!BodyGivesUp, Walk!BodyEnds
  <2>6. CASE Walk!BodySegment \/ Walk!BodyIgnores \/ Walk!BodySkips
    BY <2>6 DEF Walk!BodySegment, Walk!BodyIgnores, Walk!BodySkips
  <2>7. CASE Walk!SkipCounts \/ Walk!SkipCloses
    BY <2>7 DEF Walk!SkipCounts, Walk!SkipCloses
  <2>8. CASE Walk!SkipAbandoned
    BY <2>8 DEF Walk!SkipAbandoned, Walk!BodyEnds
  <2>9. CASE Walk!TrailingIgnores \/ Walk!TrailingRecovers \/ Walk!TrailingEnds
    BY <2>9 DEF Walk!TrailingIgnores, Walk!TrailingRecovers, Walk!TrailingEnds
  <2>10. CASE Walk!CaptureSubtree
    BY <2>10 DEF Walk!CaptureSubtree
  <2> QED
    BY <2>1, <2>2, <2>3, <2>4, <2>5, <2>6, <2>7, <2>8, <2>9, <2>10 DEF Walk!Next
<1> QED
  BY <1>1, <1>2, <1>3

(* What the walk can do at the root.                                       *)
LEMMA WalkAtRoot ==
  ASSUME Walk!Next, loop = "root"
  PROVE  \/ Walk!Recover \/ Walk!PassOver \/ Walk!RootOpens \/ Walk!RootEmpty
         \/ Walk!RootForeign \/ Walk!RootMissing \/ Walk!RootGivesUp
BY DEF Walk!Next, Walk!MapperCloses, Walk!MapperEof, Walk!MapperGivesUp,
   Walk!MapperCaptures, Walk!MapperSkips, Walk!MapperEmpty, Walk!BodyCloses, Walk!BodyEof,
   Walk!BodyGivesUp, Walk!BodySegment, Walk!BodyIgnores, Walk!BodySkips, Walk!SkipCounts,
   Walk!SkipCloses, Walk!SkipAbandoned, Walk!TrailingIgnores, Walk!TrailingRecovers,
   Walk!TrailingEnds, Walk!CaptureSubtree

(* lastErr of the root, after an error and otherwise.                      *)
LEMMA RootErr ==
  ASSUME LastErrOK
  PROVE  /\ \A p : lastErr' = [lastErr EXCEPT !["root"] = p] => lastErr'["root"] = p
         /\ lastErr' = lastErr => lastErr'["root"] = lastErr["root"]
BY DEF LastErrOK, Walk!Loop

(* Every step of the walk keeps to what it knows of the root, and takes no *)
(* report back.                                                            *)
LEMMA WalkStep ==
  ASSUME WalkInv, Walk!Next
  PROVE  WalkInv' /\ doc' = doc /\ walkDiags \subseteq walkDiags'
<1>1. LastErrOK'
  BY WalkKeepsPlaces DEF WalkInv
<1>2. CASE loop # "root"
  <2>1. /\ loop' # "root" /\ walkMapper' = walkMapper /\ doc' = doc
        /\ walkDiags \subseteq walkDiags'
    BY <1>2, WalkBehindRoot
  <2>2. Reported => Reported'
    BY <2>1 DEF Reported
  <2> QED
    BY <1>1, <1>2, <2>1, <2>2 DEF WalkInv, StopsAt, GetsPast, IsAnswer
<1>3. CASE loop = "root"
  <2>1. AtRoot /\ ~ walkMapper /\ LastErrOK
    BY <1>3 DEF WalkInv
  <2>2. Len(doc) \in Nat /\ DOMAIN doc = 1 .. Len(doc)
    BY DEF WalkInv
  <2>3. CASE Walk!Recover
    <3>1. /\ Reader!Fails /\ Reader!Read
          /\ lastErr' = [lastErr EXCEPT !["root"] = pos]
          /\ loop' = loop /\ walkMapper' = walkMapper /\ walkDiags \subseteq walkDiags'
      BY <1>3, <2>3, SameReader DEF Walk!Recover, Walk!Report, Walk!place, Walk!found
    <3>2. lastErr'["root"] = pos
      BY <2>1, <3>1, RootErr
    <3>3. AtRoot'
      BY <2>1, <3>1, <3>2, RootFails, RootReadsOn, RootStuck
    <3>4. doc' = doc
      BY <3>1 DEF Reader!Read
    <3> QED
      BY <1>1, <1>3, <2>1, <2>2, <3>1, <3>3, <3>4 DEF WalkInv
  <2>4. CASE Walk!PassOver
    <3>1. /\ ~ Reader!AtEof /\ Reader!Tok.type \notin Stop /\ Reader!Read
          /\ lastErr' = lastErr
          /\ loop' = loop /\ walkMapper' = walkMapper /\ walkDiags \subseteq walkDiags'
      BY <1>3, <2>4, SameReader
         DEF Walk!PassOver, Walk!Report, Walk!place, Walk!found, Reader!Sees, Stop
    <3>2. AtRoot'
      BY <2>1, <3>1, RootErr, RootReadsOn
    <3>3. doc' = doc
      BY <3>1 DEF Reader!Read
    <3> QED
      BY <1>1, <1>3, <2>1, <2>2, <3>1, <3>2, <3>3 DEF WalkInv
  <2>5. CASE Walk!RootOpens \/ Walk!RootEmpty
    <3>1. /\ ~ Reader!AtEof /\ Reader!Tok.type \in {"start", "empty"} /\ Reader!Read
          /\ loop' # "root" /\ walkMapper' /\ walkDiags' = walkDiags
      BY <2>5, SameReader DEF Walk!RootOpens, Walk!RootEmpty, Reader!Sees
    <3>2. StopsAt(doc, pos + 1) /\ doc[pos + 1].type # "stuck"
      BY <2>1, <3>1, RootStops DEF Reader!Tok, Stop
    <3>3. doc' = doc
      BY <3>1 DEF Reader!Read
    <3> QED
      BY <1>1, <2>2, <3>1, <3>2, <3>3 DEF WalkInv, StopsAt, GetsPast
  <2>6. CASE Walk!RootForeign
    <3>1. /\ ~ Reader!AtEof /\ Reader!Tok.type \in {"start", "empty"} /\ Reader!Read
          /\ Reader!Tok.name \notin Walk!RootName
          /\ loop' # "root" /\ walkMapper' = walkMapper /\ walkDiags \subseteq walkDiags'
          /\ Walk!Diag("UnknownElement", pos, pos + 1) \in walkDiags'
      BY <2>6, SameReader DEF Walk!RootForeign, Reader!Sees, Walk!found, Walk!Report
    <3>2. IsAnswer(doc, Unknown)
      <4>1. AnswerAt(Reader!Tok) = Unknown
        BY <3>1, DialectOfForeign DEF AnswerAt
      <4> QED
        BY <2>1, <3>1, <4>1, RootStops DEF Stop
    <3>3. Reported'
      BY <3>1 DEF Reported, Walk!Diag
    <3>4. doc' = doc
      BY <3>1 DEF Reader!Read
    <3> QED
      BY <1>1, <2>1, <2>2, <3>1, <3>2, <3>3, <3>4 DEF WalkInv, IsAnswer, StopsAt, GetsPast
  <2>7. CASE Walk!RootMissing
    <3>1. /\ Reader!AtEof /\ doc' = doc
          /\ loop' # "root" /\ walkMapper' = walkMapper /\ walkDiags \subseteq walkDiags'
          /\ Walk!Diag("UnknownElement", Walk!NoPos, Walk!NoPos) \in walkDiags'
      BY <2>7, SameReader DEF Walk!RootMissing, Walk!found, Walk!Report
    <3>2. IsAnswer(doc, Unknown)
      BY <2>1, <3>1, RootNowhere
    <3>3. Reported'
      BY <3>1 DEF Reported, Walk!Diag
    <3> QED
      BY <1>1, <2>1, <2>2, <3>1, <3>2, <3>3 DEF WalkInv, IsAnswer, StopsAt, GetsPast
  <2>8. CASE Walk!RootGivesUp
    <3>1. /\ Reader!Fails /\ lastErr["root"] = pos /\ Reader!Read
          /\ loop' # "root" /\ walkMapper' = walkMapper /\ walkDiags \subseteq walkDiags'
          /\ Walk!Diag("UnclosedTag", pos, pos) \in walkDiags'
      BY <1>3, <2>8, SameReader
         DEF Walk!RootGivesUp, Walk!FirstError, Walk!found, Walk!Report
    <3>2. IsAnswer(doc, Unknown)
      <4>1. ~ Reader!AtEof /\ Reader!Tok.type = "stuck"
        BY <2>1, <3>1, RootFails
      <4> QED
        BY <2>1, <4>1, RootStops DEF AnswerAt, Stop
    <3>3. Reported'
      BY <3>1 DEF Reported, Walk!Diag
    <3>4. doc' = doc
      BY <3>1 DEF Reader!Read
    <3> QED
      BY <1>1, <2>1, <2>2, <3>1, <3>2, <3>3, <3>4 DEF WalkInv, IsAnswer, StopsAt, GetsPast
  <2> QED
    BY <1>3, <2>3, <2>4, <2>5, <2>6, <2>7, <2>8, WalkAtRoot
<1> QED
  BY <1>2, <1>3

-----------------------------------------------------------------------------
(* The two calls.                                                          *)

(* The root the walk has found gives the dialect.                          *)
LEMMA DialectOfRoot ==
  ASSUME WalkInv, loop # "root", walkMapper
  PROVE  IsAnswer(doc, DialectOf(doc[Walk!RootStart + 1].name))
<1> DEFINE roots == {i \in 1 .. Len(doc) : doc[i].type \in {"start", "empty"}}
<1>1. PICK k : StopsAt(doc, k) /\ doc[k].type # "stuck"
  BY DEF WalkInv
<1>2. /\ k \in 1 .. Len(doc) /\ doc[k].type \in {"start", "empty"}
      /\ \A j \in 1 .. k - 1 : doc[j].type \notin {"start", "empty"}
  BY <1>1 DEF StopsAt, GetsPast, Stop, WalkInv
<1>3. k \in roots /\ \A j \in roots : k <= j
  BY <1>2 DEF WalkInv
<1>4. \A i \in roots : (\A j \in roots : i <= j) => i = k
  BY <1>3 DEF WalkInv
<1>5. (CHOOSE i \in roots : \A j \in roots : i <= j) = k
  <2> HIDE DEF roots
  <2> QED
    BY <1>3, <1>4, Zenon
<1>6. Walk!RootStart + 1 = k
  BY <1>2, <1>5, SMTT(30) DEF Walk!RootStart, WalkInv
<1>7. AnswerAt(doc[k]) = DialectOf(doc[k].name)
  BY <1>1 DEF AnswerAt
<1>8. k \in DOMAIN doc /\ IsAnswer(doc, AnswerAt(doc[k]))
  BY <1>1 DEF StopsAt, IsAnswer
<1> QED
  BY <1>6, <1>7, <1>8

(* The size the first gate looks at is a natural.                          *)
LEMMA RawSizeOfFile ==
  ASSUME NEW f \in Seq(Unit)
  PROVE  RawSize(f) \in Nat
<1> DEFINE widths == [k \in DOMAIN f |-> RawWidth(f[k])]
<1>1. \A k \in DOMAIN f : RawWidth(f[k]) \in Nat
  BY WidthOfUnit
<1>2. widths \in Seq(Nat)
  BY <1>1
<1> HIDE DEF widths
<1>3. PICK g : SumsUpTo(g, widths, Len(widths)) /\ Total(widths) = g[Len(widths)]
  BY <1>2, TotalOf
<1>4. Len(widths) \in 0 .. Len(widths)
  BY <1>2
<1>5. Total(widths) \in Nat
  BY <1>2, <1>3, <1>4, SumsAreNaturals
<1> QED
  BY <1>5 DEF RawSize, widths

(* Whether parse_str is given the file's text, and lets it in.             *)
LetIn ==
  /\ RawSize(file) <= MaxInputBytes
  /\ Size(WithoutFeff(Decode(file).text)) <= MaxInputBytes

(* What the result of parse_bytes says of the dialect.                     *)
Told ==
  IF LetIn THEN IsAnswer(Tokens(WithoutFeff(Decode(file).text)), dialect)
  ELSE dialect = Unknown

(* Each call on its way, and what the first has left for the second.       *)
Parsing ==
  /\ phase \in {"received", "decoded"} =>
       /\ loop = "root" /\ ~ walkMapper
       /\ dialect = Unknown /\ mapper = FALSE
  /\ phase = "received" => encoding = "none"
  /\ phase \in {"decoded", "parsing"} =>
       /\ RawSize(file) <= MaxInputBytes /\ source = Decode(file).text
       /\ encoding = Decode(file).encoding /\ codes = Decode(file).diags
  /\ phase = "parsing" => LetIn /\ doc = Tokens(WithoutFeff(source)) /\ WalkInv

(* The same of the second call.                                            *)
Detecting ==
  /\ phase \in {"parsed", "redecoded", "detecting"} => Told
  /\ phase \in {"redecoded", "detecting"} =>
       RawSize(file) <= MaxInputBytes /\ source = Decode(file).text
  /\ phase = "detecting" =>
       Size(source) <= MaxInputBytes /\ doc = Tokens(source) /\ AtRoot

(* The phases of the two calls.                                            *)
Phase == {"received", "decoded", "parsing", "parsed", "redecoded", "detecting", "answered"}

(* The inductive invariant: the properties of the results, and what each   *)
(* phase knows of the one before.                                          *)
EntryInv ==
  /\ file \in Seq(Unit) /\ phase \in Phase /\ LastErrOK
  /\ Parsing /\ Detecting /\ DialectsAgree /\ NothingKeptQuiet

(* A loop that is given a text starts at its root.                         *)
LEMMA StartsAtRoot ==
  ASSUME LastErrOK, NEW t \in Seq(Char), StartReading(t)
  PROVE  LastErrOK' /\ AtRoot' /\ doc' = Tokens(t)
<1>1. /\ doc' = Tokens(t) /\ limit' = Len(t) /\ pos' = 0 /\ open' = << >>
      /\ lastErr' = [lastErr EXCEPT !["root"] = -1]
  BY DEF StartReading
<1>2. LastErrOK'
  BY <1>1 DEF LastErrOK
<1>3. lastErr'["root"] = -1
  BY <1>1, RootErr
<1>4. Len(t) \in Nat /\ Len(doc') = Len(t) /\ DOMAIN doc' = 1 .. Len(t)
  BY <1>1, TokensOf
<1>5. GetsPast(doc', 0)
  BY DEF GetsPast
<1> QED
  BY <1>1, <1>2, <1>3, <1>4, <1>5 DEF AtRoot

(* The text of a file, before and after U+FEFF is taken off.               *)
LEMMA TextOfFile ==
  ASSUME file \in Seq(Unit)
  PROVE  LET text == Decode(file).text
         IN  /\ text \in Seq(Char) /\ WithoutFeff(text) \in Seq(Char)
             /\ Size(text) \in Nat /\ Size(WithoutFeff(text)) \in Nat
             /\ Size(WithoutFeff(text)) <= Size(text)
             /\ RawSize(file) \in Nat /\ MaxInputBytes \in Nat
<1> DEFINE text == Decode(file).text
<1>1. text \in Seq(Char)
  BY DecodedText
<1> HIDE DEF text
<1>2. WithoutFeff(text) \in Seq(Char)
  BY <1>1, FeffTakenOff, RestOfText
<1> QED
  BY <1>1, <1>2, SizeWithoutFeff, RawSizeOfFile, MaxInputBytesAssumption DEF text

(* A text in an encoding it was not settled on strictly is reported.       *)
LEMMA Undetected ==
  ASSUME NEW f \in Seq(Unit), Strictly(Decode(f).encoding, Content(f)) = {},
         ~ StartsWithBom(Content(f))
  PROVE  "EncodingUndetectable" \in Decode(f).diags
<1>1. \A e : Sniffing(e, Content(f)) = Strictly(e, Content(f))
  BY DEF Sniffing
<1>2. Decode(f) \notin ByMark(f)
  BY DEF ByMark, Content, Utf16
<1>3. Decode(f) \notin ByUtf8(Content(f))
  <2> SUFFICES ASSUME Decode(f) \in ByUtf8(Content(f)) PROVE FALSE
    OBVIOUS
  <2> QED
    BY ReturnedOf DEF ByUtf8
<1>4. ASSUME NEW e, Decode(f) \in ByDecoder(e, Content(f))
      PROVE  FALSE
  BY <1>1, <1>4, ReturnedOf DEF ByDecoder
<1>5. Decode(f) \notin ByDeclaration(Content(f))
  BY <1>4 DEF ByDeclaration
<1>6. Decode(f) \in ByForce(Content(f))
  BY <1>2, <1>3, <1>4, <1>5, FirstStep
<1>7. Decode(f).diags = {"EncodingUndetectable"}
  BY <1>6, ReturnedOf DEF ByForce
<1> QED
  BY <1>7

(* parse_bytes.                                                            *)
LEMMA ParseStep ==
  ASSUME EntryInv,
         \/ ParseRefused \/ ParseDecodes \/ ParseStrRefuses \/ ParseStrStarts
         \/ ParseStrWalks \/ ParseReturns
  PROVE  EntryInv'
<1> DEFINE text == Decode(file).text
<1>1. file \in Seq(Unit) /\ LastErrOK /\ Parsing
  BY DEF EntryInv
<1>2. /\ text \in Seq(Char) /\ WithoutFeff(text) \in Seq(Char)
      /\ Size(WithoutFeff(text)) \in Nat /\ RawSize(file) \in Nat /\ MaxInputBytes \in Nat
  BY <1>1, TextOfFile
<1>3. LastErrOK /\ lastErr' = lastErr => LastErrOK'
  BY DEF LastErrOK
<1>4. CASE ParseRefused
  <2>1. /\ phase = "received" /\ phase' = "parsed" /\ RawSize(file) > MaxInputBytes
        /\ codes' = {"OversizeInput"} /\ encoding' = encoding /\ dialect' = dialect
        /\ file' = file /\ lastErr' = lastErr
    BY <1>4 DEF ParseRefused
  <2>2. encoding = "none" /\ dialect = Unknown
    BY <1>1, <2>1 DEF Parsing
  <2>3. Told'
    BY <1>2, <2>1, <2>2 DEF Told, LetIn
  <2>4. NothingKeptQuiet'
    BY <2>1, <2>2 DEF NothingKeptQuiet
  <2> QED
    BY <1>1, <1>3, <2>1, <2>3, <2>4
       DEF EntryInv, Parsing, Detecting, Phase, DialectsAgree, Answered
<1>5. CASE ParseDecodes
  <2>1. /\ phase = "received" /\ phase' = "decoded" /\ RawSize(file) <= MaxInputBytes
        /\ source' = text /\ encoding' = Decode(file).encoding /\ codes' = Decode(file).diags
        /\ file' = file /\ lastErr' = lastErr /\ loop' = loop /\ walkMapper' = walkMapper
        /\ dialect' = dialect /\ mapper' = mapper
    BY <1>5 DEF ParseDecodes, walk
  <2> QED
    BY <1>1, <1>3, <2>1 DEF EntryInv, Parsing, Detecting, Phase, DialectsAgree, Answered,
       NothingKeptQuiet
<1>6. CASE ParseStrRefuses
  <2>1. /\ phase = "decoded" /\ phase' = "parsed"
        /\ Size(WithoutFeff(source)) > MaxInputBytes
        /\ codes' = codes \cup {"OversizeInput"} /\ encoding' = encoding /\ dialect' = dialect
        /\ file' = file /\ lastErr' = lastErr
    BY <1>6 DEF ParseStrRefuses
  <2>2. /\ dialect = Unknown /\ source = text /\ encoding = Decode(file).encoding
        /\ codes = Decode(file).diags
    BY <1>1, <2>1 DEF Parsing
  <2>3. Told'
    BY <1>2, <2>1, <2>2 DEF Told, LetIn
  <2>4. NothingKeptQuiet'
    BY <1>1, <2>1, <2>2, Undetected DEF NothingKeptQuiet
  <2> QED
    BY <1>1, <1>3, <2>1, <2>3, <2>4
       DEF EntryInv, Parsing, Detecting, Phase, DialectsAgree, Answered
<1>7. CASE ParseStrStarts
  <2>1. /\ phase = "decoded" /\ phase' = "parsing"
        /\ Size(WithoutFeff(source)) <= MaxInputBytes /\ StartReading(WithoutFeff(source))
        /\ file' = file /\ source' = source /\ encoding' = encoding /\ codes' = codes
        /\ loop' = loop /\ walkMapper' = walkMapper
    BY <1>7 DEF ParseStrStarts, result, walk
  <2>2. /\ RawSize(file) <= MaxInputBytes /\ source = text /\ encoding = Decode(file).encoding
        /\ codes = Decode(file).diags /\ loop = "root" /\ ~ walkMapper
    BY <1>1, <2>1 DEF Parsing
  <2>3. LastErrOK' /\ AtRoot' /\ doc' = Tokens(WithoutFeff(source))
    BY <1>1, <1>2, <2>1, <2>2, StartsAtRoot
  <2>4. WalkInv'
    BY <2>1, <2>2, <2>3 DEF WalkInv, AtRoot
  <2>5. LetIn'
    BY <2>1, <2>2 DEF LetIn
  <2> QED
    BY <1>1, <2>1, <2>2, <2>3, <2>4, <2>5
       DEF EntryInv, Parsing, Detecting, Phase, DialectsAgree, Answered, NothingKeptQuiet
<1>8. CASE ParseStrWalks
  <2>1. /\ phase = "parsing" /\ phase' = phase /\ Walk!Next
        /\ file' = file /\ source' = source /\ encoding' = encoding /\ codes' = codes
    BY <1>8 DEF ParseStrWalks, result
  <2>2. LetIn /\ doc = Tokens(WithoutFeff(source)) /\ WalkInv
    BY <1>1, <2>1 DEF Parsing
  <2>3. WalkInv' /\ doc' = doc
    BY <2>1, <2>2, WalkStep
  <2>4. LetIn'
    BY <2>1, <2>2 DEF LetIn
  <2> QED
    BY <1>1, <2>1, <2>2, <2>3, <2>4
       DEF EntryInv, Parsing, Detecting, Phase, DialectsAgree, Answered, NothingKeptQuiet,
           WalkInv
<1>9. CASE ParseReturns
  <2>1. /\ phase = "parsing" /\ phase' = "parsed" /\ loop = "done"
        /\ mapper' = walkMapper
        /\ dialect' = IF walkMapper THEN DialectOf(doc[Walk!RootStart + 1].name) ELSE Unknown
        /\ codes' = codes \cup {d.code : d \in walkDiags}
        /\ encoding' = encoding /\ file' = file /\ lastErr' = lastErr
    BY <1>9 DEF ParseReturns, WalkEnded
  <2>2. /\ encoding = Decode(file).encoding /\ codes = Decode(file).diags /\ source = text
        /\ LetIn /\ doc = Tokens(WithoutFeff(source)) /\ WalkInv
    BY <1>1, <2>1 DEF Parsing
  <2>3. IsAnswer(Tokens(WithoutFeff(text)), dialect')
    <3>1. CASE walkMapper
      BY <2>1, <2>2, <3>1, DialectOfRoot
    <3>2. CASE ~ walkMapper
      BY <2>1, <2>2, <3>2 DEF WalkInv
    <3> QED
      BY <3>1, <3>2
  <2>4. Told'
    BY <2>1, <2>2, <2>3 DEF Told, LetIn
  <2>5. NothingKeptQuiet'
    <3>1. ~ walkMapper => \E c \in codes' : c \in {"UnknownElement", "UnclosedTag"}
      BY <2>1, <2>2 DEF WalkInv, Reported
    <3>2. Decode(file).diags \subseteq codes'
      BY <2>1, <2>2
    <3> QED
      BY <1>1, <2>1, <2>2, <3>1, <3>2, Undetected DEF NothingKeptQuiet
  <2> QED
    BY <1>1, <1>3, <2>1, <2>4, <2>5
       DEF EntryInv, Parsing, Detecting, Phase, DialectsAgree, Answered
<1> QED
  BY <1>4, <1>5, <1>6, <1>7, <1>8, <1>9

(* The cheap look answers what the text says of its root.                  *)
LEMMA DetectedOfRoot ==
  ASSUME AtRoot, DetectAnswers
  PROVE  IsAnswer(doc, detected')
<1>1. CASE Reader!Sees({"start", "empty"}) /\ Answer(DialectOf(Reader!Tok.name))
  <2>1. /\ ~ Reader!AtEof /\ Reader!Tok.type \in Stop /\ Reader!Tok.type # "stuck"
        /\ detected' = AnswerAt(Reader!Tok)
    BY <1>1 DEF Reader!Sees, Answer, Stop, AnswerAt
  <2> QED
    BY <2>1, RootStops
<1>2. CASE Reader!Fails /\ ~ FirstError /\ Answer(Unknown)
  <2>1. ~ Reader!AtEof /\ Reader!Tok.type = "stuck"
    BY <1>2, RootFails DEF FirstError
  <2>2. detected' = AnswerAt(Reader!Tok) /\ Reader!Tok.type \in Stop
    BY <1>2, <2>1 DEF Answer, AnswerAt, Stop
  <2> QED
    BY <2>1, <2>2, RootStops
<1>3. CASE Reader!AtEof /\ Answer(Unknown)
  BY <1>3, RootNowhere DEF Answer
<1> QED
  BY <1>1, <1>2, <1>3 DEF DetectAnswers

(* detect_dialect.                                                         *)
LEMMA DetectStep ==
  ASSUME EntryInv,
         \/ DetectRefused \/ DetectDecodes \/ DetectStrRefuses \/ DetectStrStarts
         \/ DetectReadsOn \/ DetectRecovers \/ DetectAnswers
  PROVE  EntryInv'
<1> DEFINE text == Decode(file).text
<1>1. file \in Seq(Unit) /\ LastErrOK /\ Detecting
  BY DEF EntryInv
<1>2. /\ text \in Seq(Char) /\ WithoutFeff(text) \in Seq(Char)
      /\ Size(text) \in Nat /\ Size(WithoutFeff(text)) \in Nat
      /\ Size(WithoutFeff(text)) <= Size(text)
      /\ RawSize(file) \in Nat /\ MaxInputBytes \in Nat
  BY <1>1, TextOfFile
<1>3. LastErrOK /\ lastErr' = lastErr => LastErrOK'
  BY DEF LastErrOK
<1>4. CASE DetectRefused
  <2>1. /\ phase = "parsed" /\ phase' = "answered" /\ RawSize(file) > MaxInputBytes
        /\ detected' = Unknown /\ dialect' = dialect /\ file' = file /\ lastErr' = lastErr
    BY <1>4 DEF DetectRefused, Answer, result
  <2>2. dialect = Unknown
    BY <1>1, <1>2, <2>1 DEF Detecting, Told, LetIn
  <2> QED
    BY <1>1, <1>3, <2>1, <2>2
       DEF EntryInv, Parsing, Detecting, Phase, DialectsAgree, NothingKeptQuiet
<1>5. CASE DetectDecodes
  <2>1. /\ phase = "parsed" /\ phase' = "redecoded" /\ RawSize(file) <= MaxInputBytes
        /\ source' = text /\ dialect' = dialect /\ file' = file /\ lastErr' = lastErr
    BY <1>5 DEF DetectDecodes, result
  <2>2. Told'
    BY <1>1, <2>1 DEF Detecting, Told, LetIn
  <2> QED
    BY <1>1, <1>3, <2>1, <2>2
       DEF EntryInv, Parsing, Detecting, Phase, DialectsAgree, Answered, NothingKeptQuiet
<1>6. CASE DetectStrRefuses
  <2>1. /\ phase = "redecoded" /\ phase' = "answered" /\ Size(source) > MaxInputBytes
        /\ detected' = Unknown /\ dialect' = dialect /\ file' = file /\ lastErr' = lastErr
    BY <1>6 DEF DetectStrRefuses, Answer, result
  <2>2. source = text /\ Told /\ RawSize(file) <= MaxInputBytes
    BY <1>1, <2>1 DEF Detecting
  <2>3. dialect = Unknown \/ Size(WithoutFeff(text)) <= MaxInputBytes
    BY <2>2 DEF Told, LetIn
  <2>4. DialectsAgree'
    BY <2>1, <2>2, <2>3 DEF DialectsAgree, LetInByOneGate
  <2> QED
    BY <1>1, <1>3, <2>1, <2>4
       DEF EntryInv, Parsing, Detecting, Phase, NothingKeptQuiet
<1>7. CASE DetectStrStarts
  <2>1. /\ phase = "redecoded" /\ phase' = "detecting" /\ Size(source) <= MaxInputBytes
        /\ StartReading(source) /\ source' = source /\ dialect' = dialect /\ file' = file
    BY <1>7 DEF DetectStrStarts, result
  <2>2. source = text /\ Told /\ RawSize(file) <= MaxInputBytes
    BY <1>1, <2>1 DEF Detecting
  <2>3. LastErrOK' /\ AtRoot' /\ doc' = Tokens(source)
    BY <1>1, <1>2, <2>1, <2>2, StartsAtRoot
  <2>4. Told'
    BY <2>1, <2>2 DEF Told, LetIn
  <2> QED
    BY <1>1, <2>1, <2>2, <2>3, <2>4
       DEF EntryInv, Parsing, Detecting, Phase, DialectsAgree, Answered, NothingKeptQuiet
<1>8. ASSUME phase = "detecting", phase' = phase, file' = file, source' = source,
             dialect' = dialect, Reader!Read, AtRoot', LastErrOK'
      PROVE  EntryInv'
  <2>1. /\ Told /\ RawSize(file) <= MaxInputBytes /\ source = text
        /\ Size(source) <= MaxInputBytes /\ doc = Tokens(source)
    BY <1>1, <1>8 DEF Detecting
  <2>2. Told' /\ doc' = doc
    BY <1>8, <2>1 DEF Told, LetIn, Reader!Read
  <2> QED
    BY <1>1, <1>8, <2>1, <2>2
       DEF EntryInv, Parsing, Detecting, Phase, DialectsAgree, Answered, NothingKeptQuiet
<1>9. CASE DetectReadsOn
  <2>1. /\ phase = "detecting" /\ phase' = phase /\ file' = file /\ source' = source
        /\ dialect' = dialect /\ Reader!Read /\ lastErr' = lastErr
        /\ ~ Reader!AtEof /\ Reader!Tok.type \notin Stop
    BY <1>9 DEF DetectReadsOn, result, Reader!Sees, Stop
  <2>2. AtRoot'
    BY <1>1, <2>1, RootErr, RootReadsOn DEF Detecting
  <2> QED
    BY <1>1, <1>3, <1>8, <2>1, <2>2
<1>10. CASE DetectRecovers
  <2>1. /\ phase = "detecting" /\ phase' = phase /\ file' = file /\ source' = source
        /\ dialect' = dialect /\ Reader!Read /\ Reader!Fails
        /\ lastErr' = [lastErr EXCEPT !["root"] = pos]
    BY <1>10 DEF DetectRecovers, result
  <2>2. lastErr'["root"] = pos /\ LastErrOK'
    BY <1>1, <2>1, RootErr DEF LastErrOK
  <2>3. AtRoot'
    BY <1>1, <2>1, <2>2, RootFails, RootReadsOn, RootStuck DEF Detecting
  <2> QED
    BY <1>8, <2>1, <2>2, <2>3
<1>11. CASE DetectAnswers
  <2>1. /\ phase = "detecting" /\ phase' = "answered" /\ dialect' = dialect /\ file' = file
        /\ lastErr' = lastErr
    BY <1>11 DEF DetectAnswers, Answer, result
  <2>2. /\ Told /\ RawSize(file) <= MaxInputBytes /\ source = text
        /\ Size(source) <= MaxInputBytes /\ doc = Tokens(source) /\ AtRoot
    BY <1>1, <2>1 DEF Detecting
  <2>3. IsAnswer(Tokens(text), dialect)
    <3>1. LetIn
      BY <1>2, <2>2 DEF LetIn
    <3> QED
      BY <1>2, <2>2, <3>1, AnswerWithoutFeff DEF Told
  <2>4. detected' = dialect
    <3>1. IsAnswer(doc, detected')
      BY <1>11, <2>2, DetectedOfRoot
    <3> QED
      BY <2>2, <2>3, <3>1, OneAnswer DEF AtRoot
  <2> QED
    BY <1>1, <1>3, <2>1, <2>4
       DEF EntryInv, Parsing, Detecting, Phase, DialectsAgree, NothingKeptQuiet
<1> QED
  BY <1>4, <1>5, <1>6, <1>7, <1>9, <1>10, <1>11

(* Nothing has been called yet.                                            *)
LEMMA EntryInvInit == Init => EntryInv
<1> SUFFICES ASSUME Init PROVE EntryInv
  OBVIOUS
<1>1. file \in Seq(Unit)
  BY FilesAssumption DEF Init
<1>2. LastErrOK
  BY DEF Init, LastErrOK
<1> QED
  BY <1>1, <1>2 DEF Init, EntryInv, Parsing, Detecting, Phase, DialectsAgree, Answered,
     NothingKeptQuiet

(* Either call takes a step.                                               *)
LEMMA EntryInvNext == EntryInv /\ [Next]_vars => EntryInv'
<1> SUFFICES ASSUME EntryInv, [Next]_vars PROVE EntryInv'
  OBVIOUS
<1>1. CASE Next
  BY <1>1, ParseStep, DetectStep DEF Next
<1>2. CASE UNCHANGED vars
  BY <1>2 DEF vars, result, reader, walk, EntryInv, Parsing, Detecting, Phase, LastErrOK,
     DialectsAgree, Answered, LetInByOneGate, NothingKeptQuiet, Told, LetIn, AtRoot, WalkInv,
     Reported, StopsAt, GetsPast, IsAnswer, Walk!Loop
<1> QED
  BY <1>1, <1>2

(* So the invariant holds in every state.                                  *)
LEMMA EntryInvAlways == Spec => []EntryInv
BY EntryInvInit, EntryInvNext, PTL DEF Spec

(* detect_dialect's loop over the root answers what parse_bytes does, for  *)
(* every file both of their gates let in (src/src/lib.rs:57).              *)
THEOREM DialectsAlwaysAgree == Spec => []DialectsAgree
<1>1. EntryInv => DialectsAgree
  BY DEF EntryInv
<1> QED
  BY <1>1, EntryInvAlways, PTL

(* The encoding reported is that of a decoder that makes this text of the  *)
(* file, lossy decoding included (src/src/encoding.rs:50).                 *)
THEOREM DecoderAlwaysReproduces == Spec => []DecoderReproduces
<1>1. EntryInv => DecoderReproduces
  <2> SUFFICES ASSUME EntryInv, JustDecoded, MarkedAsReported
               PROVE  source = TextDecoder(encoding, file)
    BY DEF DecoderReproduces
  <2>1. /\ file \in Seq(Unit) /\ source = Decode(file).text
        /\ encoding = Decode(file).encoding
    BY DEF EntryInv, Parsing, JustDecoded
  <2> QED
    BY <2>1, DecodedAsReported DEF MarkedAsReported
<1> QED
  BY <1>1, EntryInvAlways, PTL

(* decode believes a file that is what it says it is, and has nothing to   *)
(* report of it.                                                           *)
THEOREM TruthAlwaysBelieved == Spec => []TruthBelieved
<1>1. EntryInv => TruthBelieved
  <2> SUFFICES ASSUME EntryInv, JustDecoded, NEW e \in EncodingName, Truthful(e),
                      \E k \in DOMAIN file : file[k].in # "ASCII"
               PROVE  encoding = e /\ source = Meant(e) /\ codes = {}
    BY DEF TruthBelieved
  <2>1. /\ file \in Seq(Unit) /\ source = Decode(file).text
        /\ encoding = Decode(file).encoding /\ codes = Decode(file).diags
    BY DEF EntryInv, Parsing, JustDecoded
  <2> QED
    BY <2>1, TruthDecoded
<1> QED
  BY <1>1, EntryInvAlways, PTL

(* parse_bytes returns nothing without a mapper, and nothing that was not  *)
(* read faithfully, without a diagnostic (src/src/lib.rs:24).              *)
THEOREM NothingEverKeptQuiet == Spec => []NothingKeptQuiet
<1>1. EntryInv => NothingKeptQuiet
  BY DEF EntryInv
<1> QED
  BY <1>1, EntryInvAlways, PTL
===============================================================================
