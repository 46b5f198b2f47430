--------------------------- MODULE AttributeReference ---------------------------
(***************************************************************************)
(* What Attributes promises, stated on an element put together from        *)
(* written items: the opening tag is its name and the items, then come the *)
(* end of the tag and a body that may look like attributes itself.         *)
(***************************************************************************)
EXTENDS Attributes

(* One item of an opening tag.  A valued one has a quoted value, a bare    *)
(* one only its name, and an unquoted one a value without quotes.          *)
IsItem(item) ==
  /\ item.name \in Seq(Byte \ (NameStops \cup Quote)) /\ item.name # << >>
  /\ \/ /\ item.form = "valued"
        /\ item.gap \in Seq({Blank})
        /\ item.quote \in Quote
        /\ item.value \in Seq(Byte \ {item.quote})
     \/ item.form = "bare"
     \/ /\ item.form = "unquoted"
        /\ item.value \in Seq(Byte \ (Quote \cup {Blank})) /\ item.value # << >>

Spelled(item) ==
  <<Blank>> \o item.name \o
  CASE item.form = "valued" ->
         item.gap \o <<"=">> \o item.gap \o <<item.quote>> \o item.value \o <<item.quote>>
    [] item.form = "bare" -> << >>
    [] item.form = "unquoted" -> <<"=">> \o item.value

OpenTag(items) == <<"<", "t">> \o Together([i \in DOMAIN items |-> Spelled(items[i])])

(* What is scanned begins with an opening tag, blanks and the tag's end,   *)
(* or ends before that.                                                    *)
ASSUME ItemsAssumption ==
  \A t \in Tags :
    /\ t.items \in Seq({t.items[i] : i \in DOMAIN t.items})
    /\ \A i \in DOMAIN t.items : IsItem(t.items[i])
    /\ \E n \in Len(OpenTag(t.items)) .. t.end - 1 :
         /\ \A k \in 1 .. Len(OpenTag(t.items)) : t.text[k] = OpenTag(t.items)[k]
         /\ \A k \in Len(OpenTag(t.items)) + 1 .. n : t.text[k] = Blank
         /\ n + 1 < t.end => t.text[n + 1] \in TagEnd

(* The items a reader of the tag would name attributes.  Nothing after an  *)
(* unquoted value can be told apart from it.                               *)
Kept ==
  {i \in DOMAIN tag.items : /\ tag.items[i].form = "valued"
                            /\ \A j \in 1 .. i : tag.items[j].form # "unquoted"}
Written == Only(tag.items, Kept)

WrittenAs(name) == Only(Written, {i \in DOMAIN Written : Written[i].name = name})

(* However its opening tag is spelled and whatever its body looks like, an *)
(* element has exactly the attributes its tag writes, in their order and   *)
(* with their own bytes, and none from the body (scan_attributes, B6); of  *)
(* a name written twice the first value is used and every other is         *)
(* reported where it stands (attr_value_spanned); of two names for one     *)
(* thing the preferred one is used (read_class_ref).                       *)
AttributesExact ==
  phase = "done" =>
    /\ [i \in DOMAIN attrs |-> <<Text(attrs[i].name), Text(attrs[i].value)>>]
         = [i \in DOMAIN Written |-> <<Written[i].name, Written[i].value>>]
    /\ \A preferred, other \in {<<l>> : l \in Letter} :
         LET ref == ClassRef(<<preferred, other>>)
             used == IF WrittenAs(preferred) # << >> THEN WrittenAs(preferred)
                     ELSE WrittenAs(other)
         IN  /\ ref.value = IF used = << >> THEN {} ELSE {Head(used).value}
             /\ preferred # other =>
                  Cardinality(ref.duplicates) =
                    Cardinality({i \in DOMAIN Written :
                       /\ Written[i].name \in {preferred, other}
                       /\ \E j \in 1 .. i - 1 : Written[j].name = Written[i].name})
             /\ \A span \in ref.duplicates : span[2] <= Len(OpenTag(tag.items))
===============================================================================
