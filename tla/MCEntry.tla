-------------------------------- MODULE MCEntry --------------------------------
(***************************************************************************)
(* EntryPoints on small files of three kinds: whatever may stand before    *)
(* and at the root; what a file says of its encoding and what it is in;    *)
(* and byte order marks in any order, with text that grows as it is        *)
(* decoded.                                                                *)
(***************************************************************************)
EXTENDS EntryReference

CONSTANTS
  MCTokens,    \* the longest file of the first kind
  MCContent,   \* the longest content of one of the second
  MCFamilies   \* which kinds

Tag(type, name) == [type |-> type, name |-> name]
Other(type) == [type |-> type, name |-> "none"]
Plain(token, e) == Markup(token, e, "none")

MCRoots == {Tag("start", "mapper"), Tag("empty", "sqlMap"), Tag("start", "other"), Tag("end", "mapper")}

MCRootFiles ==
  BoundedSeq({Plain(t, "ASCII") : t \in MCRoots \cup {Other("comment"), Other("amp"), Other("bad"),
                                                      Other("stuck")}},
             MCTokens)

(* A declaration, or none, ahead of content in any mixture of encodings.   *)
MCDeclarations == {<< >>} \cup {<<Markup(Other("comment"), "ASCII", l)>> : l \in Label}
MCMarks == {<< >>} \cup {<<Bom(e)>> : e \in {"UTF-8"} \cup Utf16}

MCContents ==
  BoundedSeq({Plain(Tag("start", "mapper"), e) : e \in {"ASCII"} \cup Utf16}
               \cup {Hangul(1, e) : e \in {"UTF-8", "EUC-KR"} \cup Utf16}
               \cup {LoneByte},
             MCContent)

MCEncodingFiles == {m \o d \o c : m \in MCMarks, d \in MCDeclarations, c \in MCContents}

MCGrowing(e) == {<<Plain(Tag("start", "sqlMap"), IF e \in Utf16 THEN e ELSE "ASCII"), Hangul(n, e)>> :
                   n \in {1, 6, 7, 8}}

MCMarkedFiles ==
  {m \o c : m \in BoundedSeq({Bom(e) : e \in {"UTF-8"} \cup Utf16}, 3),
            c \in UNION {MCGrowing(e) : e \in {"UTF-8", "EUC-KR"} \cup Utf16}}

MCFiles ==
  (IF "roots" \in MCFamilies THEN MCRootFiles ELSE {})
    \cup (IF "encodings" \in MCFamilies THEN MCEncodingFiles ELSE {})
    \cup (IF "marks" \in MCFamilies THEN MCMarkedFiles ELSE {})
===============================================================================
