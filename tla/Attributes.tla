------------------------------- MODULE Attributes -------------------------------
(***************************************************************************)
(* scan_attributes, the tokenizer every attribute of a mapper is read      *)
(* with, and attr_value_spanned and read_class_ref, which pick from what   *)
(* it found.  A statement hands it its opening tag; a dynamic tag hands it *)
(* the whole element, body included, so that it is the scan itself that    *)
(* must stop at the opening tag's end.  One action is one turn of its      *)
(* loop.  A letter stands for a name or for any other byte.                *)
(***************************************************************************)
EXTENDS Naturals, Sequences, FiniteSetsExt, Selection

CONSTANTS
  Letter,    \* the bytes that are no markup
  Tags       \* what may be scanned: [text, end, ...], end the first byte not to scan

Blank == " "
Quote == {"\"", "'"}
TagEnd == {">", "/"}
Byte == Letter \cup Quote \cup TagEnd \cup {Blank, "=", "<"}

ASSUME TagsAssumption ==
  /\ Letter \cap (Quote \cup TagEnd \cup {Blank, "=", "<", "end"}) = {}
  /\ \A t \in Tags : t.text \in Seq(Byte) /\ t.end \in 1 .. Len(t.text) + 1

VARIABLES
  tag,      \* what is scanned
  pos,      \* the next byte to look at
  attrs,    \* the RawAttrs found: where name and value start and end
  phase     \* "element", "attributes", "done"

vars == <<tag, pos, attrs, phase>>

RawAttr == [name : Nat \X Nat, value : Nat \X Nat]

(* The first byte from i on that is, or is not, one of bytes; the end of   *)
(* the scan when there is none.                                            *)
Until(i, bytes) ==
  IF i >= tag.end THEN i
  ELSE Min({tag.end} \cup {j \in i .. tag.end - 1 : tag.text[j] \in bytes})
Past(i, bytes) == Until(i, Byte \ bytes)

ByteAt(i) == IF i < tag.end THEN tag.text[i] ELSE "end"

(* The next attribute's name, what follows it, and what follows a "=".     *)
NameStops == {"=", Blank} \cup TagEnd
NameStart == Past(pos, {Blank})
\* Mutated: a name goes on through the tag's end.
NameEndInBody == Until(NameStart, {"=", Blank})
NameEnd == Until(NameStart, NameStops)
AfterName == Past(NameEnd, {Blank})
ValueQuote == Past(AfterName + 1, {Blank})
ValueStart == ValueQuote + 1
ValueEnd == Until(ValueStart, {tag.text[ValueQuote]})

IsQuoted == ValueQuote <= Len(tag.text) /\ tag.text[ValueQuote] \in Quote
AtTagEnd == ByteAt(NameStart) \in TagEnd \cup {"end"}
IsBare == ByteAt(AfterName) # "="
HasValue == IsQuoted /\ ValueEnd < tag.end

Init ==
  /\ tag \in Tags
  /\ pos = 1
  /\ attrs = << >>
  /\ phase = "element"

SkipElementName ==
  /\ phase = "element"
  /\ pos' = Until(IF ByteAt(pos) = "<" THEN pos + 1 ELSE pos, {Blank} \cup TagEnd)
  /\ phase' = "attributes"
  /\ UNCHANGED <<tag, attrs>>

(* A name without a value is passed over, and the scan goes on.            *)
SkipBare ==
  /\ phase = "attributes"
  /\ ~AtTagEnd
  /\ IsBare
  /\ pos' = AfterName
  /\ UNCHANGED <<tag, attrs, phase>>

TakeAttribute ==
  /\ phase = "attributes"
  /\ ~AtTagEnd
  /\ ~IsBare
  /\ HasValue
  /\ attrs' = Append(attrs, [name |-> <<NameStart, NameEnd>>,
                             value |-> <<ValueStart, ValueEnd>>])
  /\ pos' = ValueEnd + 1
  /\ UNCHANGED <<tag, phase>>

(* At the tag's end, or at a value without quotes or without an end.       *)
Stop ==
  /\ phase = "attributes"
  /\ \/ AtTagEnd
     \/ ~IsBare /\ ~HasValue
  /\ phase' = "done"
  /\ UNCHANGED <<tag, pos, attrs>>

Next == SkipElementName \/ SkipBare \/ TakeAttribute \/ Stop
Spec == Init /\ [][Next]_vars

-----------------------------------------------------------------------------
Text(span) == SubSeq(tag.text, span[1], span[2] - 1)

(* attr_value_spanned: the first attribute of a name, and a diagnostic at  *)
(* every later one.                                                        *)
Named(name) == Only(attrs, {i \in DOMAIN attrs : Text(attrs[i].name) = name})
FirstValue(name) ==
  IF Named(name) = << >> THEN {} ELSE {Text(Head(Named(name)).value)}
Duplicates(name) == {Named(name)[i].name : i \in 2 .. Len(Named(name))}

(* read_class_ref: the first of several names that is there, whichever was *)
(* written first, and the duplicates of all of them.                       *)
ClassRef(names) ==
  LET present == {i \in DOMAIN names : Named(names[i]) # << >>}
  IN  [value |-> IF present = {} THEN {} ELSE FirstValue(names[Min(present)]),
       duplicates |-> UNION {Duplicates(names[i]) : i \in DOMAIN names}]
===============================================================================
