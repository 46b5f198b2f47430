-------------------------------- MODULE MCMapper --------------------------------
(***************************************************************************)
(* MapperBuild on all short documents of two families of children.         *)
(***************************************************************************)
EXTENDS MapperReference

CONSTANTS
  MCStatements,  \* the longest document of statements told apart by their ids
  MCIncluders    \* the longest document of children told apart by their includes

MCId == <<"a">>
MCKeyId == <<"a", "!selectKey">>

MCSelectKey(db, body) == [type |-> "selectKey", db |-> db, body |-> body]
MCTag(body) == [type |-> "tag", body |-> body]
MCInclude(refid, twice) == [type |-> "include", refid |-> refid, twice |-> twice]

MCChild(tag, id, db, body, capped) ==
  [tag |-> tag, id |-> id, db |-> db, body |-> body, capped |-> capped]

(* Statements, by what tells them apart.                                   *)
MCIdChildren ==
  LET bodies == BoundedSeq({MCSelectKey(db, << >>) : db \in {None, "x"}}, 1)
                  \cup {<<MCSelectKey("x", << >>), MCSelectKey(None, << >>)>>}
  IN  {MCChild("statement", id, db, body, FALSE) :
         id \in {None, MCId, MCKeyId}, db \in {None, "x"}, body \in bodies}

(* Statements, fragments and resultMaps, by the includes in them.          *)
MCIncludeChildren ==
  LET a == MCInclude(MCId, TRUE)
      none == MCInclude(None, FALSE)
      markers == {a, none} \cup
        {MCInclude(r, FALSE) : r \in {<<"b">>, <<"b", ".", "a">>, <<"b", "${">>}} \cup
        {MCTag(<<a>>), MCTag(<<none>>), MCSelectKey(None, <<a, none>>)}
  IN  {MCChild(tag, MCId, None, body, FALSE) :
         tag \in {"statement", "sql"}, body \in BoundedSeq(markers, 2)}
      \cup {MCChild(tag, id, None, << >>, TRUE) :
              tag \in {"statement", "sql", "resultMap"}, id \in {None, <<"b">>}}
      \cup {MCChild("sql", None, None, <<a>>, TRUE)}

MCDocuments ==
  BoundedSeq(MCIdChildren, MCStatements) \cup BoundedSeq(MCIncludeChildren, MCIncluders)
===============================================================================
