--------------------------------- MODULE MCText ---------------------------------
(***************************************************************************)
(* TextPipeline on all short bodies of two kinds: text cut into segments   *)
(* anywhere, for the scan; and wrappers, nested and not, around the text   *)
(* they strip, for the span maps.                                          *)
(***************************************************************************)
EXTENDS TextReference

CONSTANTS
  MCLength,       \* the longest text cut in two
  MCCutLength,    \* the longest text cut in three
  MCFamilies      \* which kinds of bodies

Event(type, chars) == [type |-> type, chars |-> chars]

(* Text is not empty, and a reference decodes to one character.            *)
MCSegment(e) ==
  CASE e.type = "text" -> e.chars # << >>
    [] e.type = "ref" -> Len(e.chars) = 1
    [] OTHER -> TRUE

(* Text next to text: an ampersand that starts no reference starts a text  *)
(* of its own, and a comment may stand between.                            *)
MCAdjoining(a, b) ==
  {<<a, b>>} \cup IF a.type = "text" /\ b.type = "text"
                  THEN {<<a, [type |-> "comment"], b>>} ELSE {}

(* A text in two parts, or in three.                                       *)
MCCut(alphabet, n) ==
  UNION {MCAdjoining(Event(q[2], SubSeq(q[1], 1, q[4])),
                     Event(q[3], SubSeq(q[1], q[4] + 1, Len(q[1])))) :
     q \in {p \in BoundedSeq(alphabet, n) \X TextType \X TextType \X (0 .. n) :
              /\ p[4] <= Len(p[1])
              /\ MCSegment(Event(p[2], SubSeq(p[1], 1, p[4])))
              /\ MCSegment(Event(p[3], SubSeq(p[1], p[4] + 1, Len(p[1]))))}}

MCWhole(alphabet, n) == {<<Event("text", s)>> : s \in BoundedSeq(alphabet, n) \ {<< >>}}

MCCutTwice(alphabet, n) ==
  UNION {{a \o Tail(b) : a \in MCAdjoining(Event("text", <<c>>), Head(b))} :
           c \in alphabet, b \in MCCut(alphabet, n - 1)}

MCScanBodies ==
  MCCut({"#", "{", "}", "x"}, MCLength)
    \cup MCWhole({"#", "$", "{", "}", " ", "x"}, MCLength)
    \cup MCCut({"#", "$", ":", " ", "x"}, MCCutLength)
    \cup MCCutTwice({"#", "{", "}", "x"}, MCCutLength)
    \cup {<<Event("text", <<d, "{">> \o s \o <<"}">>)>> :
            d \in {"#", "$"}, s \in BoundedSeq({"{", "}", ",", " ", "x"}, MCCutLength)}

-------------------------------------------------------------------------------
MCWrapper(kind, prefix, suffix) == [kind |-> kind, prefix |-> prefix, suffix |-> suffix]

MCTrim(prefix, suffix, leading, trailing) ==
  [kind |-> "trim", prefix |-> prefix, suffix |-> suffix,
   leading |-> leading, trailing |-> trailing]

MCWrappers ==
  {MCWrapper("where", <<"W", " ">>, << >>), MCWrapper("set", <<"S", " ">>, << >>),
   MCWrapper("foreach", <<"(">>, <<")">>), MCWrapper("foreach", << >>, <<")">>),
   MCWrapper("dynamic", <<"P", " ">>, << >>),
   MCTrim(<<"P", " ">>, <<" ", "Q">>, <<<<"A">>, <<"A", " ">>>>, <<<<",">>, <<"x">>>>),
   MCTrim(<< >>, << >>, <<<<"A", " ">>, <<"P", " ">>>>, <<<<" ", "Q">>, <<"A">>>>)}

MCInnermost ==
  MCWrappers \cup {[kind |-> "is", prefix |-> <<"A">>, prepends |-> p] : p \in BOOLEAN}

MCAndOr == {<<"A">>}

MCPlaceholder == <<"#", "{", "x", "}">>
MCWords == {<<"A">>, <<" ">>, <<",">>, MCPlaceholder}

(* What stands inside a wrapper: up to three words in one text; a word by  *)
(* reference or in CDATA ahead of it; an include at either end; a comment  *)
(* ahead; nothing.                                                         *)
MCInside ==
  LET texts(n) == {Event("text", FlattenSeq(ws)) : ws \in BoundedSeq(MCWords, n) \ {<< >>}}
      heads == {Event("ref", <<"A">>), Event("ref", <<" ">>), Event("cdata", <<"A">>),
                Event("cdata", <<",", " ">>), Event("cdata", <<"<">>),
                Event("ref", <<"&", "r", ";">>), [type |-> "include"]}
  IN  {<< >>} \cup {<<t>> : t \in texts(3)}
        \cup {<<h>> : h \in heads}
        \cup {<<[type |-> "comment"], t>> : t \in texts(1)}
        \cup {<<h, t>> : h \in heads, t \in texts(2)}
        \cup {<<t, h>> : h \in heads, t \in texts(2)}

MCWrapped(w, inside) == <<[type |-> "open", wrapper |-> w]>> \o inside \o <<[type |-> "close"]>>

MCWrapBodies ==
  {MCWrapped(w, inside) : w \in MCInnermost, inside \in MCInside}
    \cup {MCWrapped(w, MCWrapped(v, inside) \o after) :
            w \in MCWrappers, v \in MCInnermost,
            inside \in {<<Event("text", FlattenSeq(ws))>> : ws \in BoundedSeq(MCWords, 2) \ {<< >>}},
            after \in {<< >>, <<Event("text", <<" ", "x">>)>>, <<[type |-> "include"]>>}}

MCAlphabet ==
  {"#", "$", "{", "}", ":", ",", " ", "x", "A", "W", "S", "P", "Q", "(", ")", "D", "Y",
   "?", "/*", "*/", "<", "&", "r", ";"}

MCDynMarker == <<"D", "Y">>

MCBodies ==
  (IF "scan" \in MCFamilies THEN MCScanBodies ELSE {})
    \cup (IF "wrap" \in MCFamilies THEN MCWrapBodies ELSE {})
===============================================================================
