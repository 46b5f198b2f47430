------------------------------ MODULE MCAttributes ------------------------------
(***************************************************************************)
(* Attributes on every opening tag of at most MCLength items, closed in     *)
(* each way, with bodies that continue or imitate an attribute.            *)
(***************************************************************************)
EXTENDS AttributeReference

CONSTANT MCLength   \* the most items of a tag

MCLetter == {"a", "b", "t"}
MCName == {<<"a">>, <<"b">>}

(* Values: empty, plain, an attribute in the other quotes, a tag's end.    *)
(* A plain one is also written with blanks around the "=".                 *)
MCValued(name, gap, quote, value) ==
  [form |-> "valued", name |-> name, gap |-> gap, quote |-> quote, value |-> value]

MCItem ==
  UNION {{MCValued(n, << >>, "'", << >>),
          MCValued(n, << >>, "'", <<"a">>),
          MCValued(n, <<Blank>>, "'", <<"b">>),
          MCValued(n, << >>, "\"", <<"b", "=", "'", "a", "'">>),
          MCValued(n, << >>, "'", <<"a", ">", "/">>)} : n \in MCName}
  \cup {[form |-> "bare", name |-> n] : n \in MCName}
  \cup {[form |-> "unquoted", name |-> <<"b">>, value |-> <<"a">>]}

MCClose == {<<">">>, <<Blank, ">">>, <<"/", ">">>}
MCBody ==
  {<< >>, <<"=", "'", "a", "'">>, <<"t", Blank, "b", "=", "'", "a", "'">>}

MCItems == UNION {[1 .. n -> MCItem] : n \in 0 .. MCLength}

(* The scan ends with the opening tag, as for a statement, or with the     *)
(* element, as for a dynamic tag; a self-closed one has no body.           *)
MCTag(items, close, body, whole) ==
  LET open == OpenTag(items) \o close
      text == open \o IF close = <<"/", ">">> THEN << >> ELSE body
  IN  [items |-> items, text |-> text,
       end |-> 1 + IF whole THEN Len(text) ELSE Len(open)]

MCTags ==
  {MCTag(w[1], w[2], w[3], w[4]) :
     w \in MCItems \X MCClose \X MCBody \X BOOLEAN}
===============================================================================
