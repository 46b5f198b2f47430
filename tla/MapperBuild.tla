------------------------------- MODULE MapperBuild -------------------------------
(***************************************************************************)
(* What build_mapper (src/src/parse.rs) makes of a root element's children *)
(* once MarkupWalk has found them: statements, the statements of their     *)
(* selectKeys, fragments and resultMaps, the ids each registers, the       *)
(* includes each owns, and the diagnostics on them, up to the dangling     *)
(* check and dedup_diagnostics after the loop.                             *)
(*                                                                         *)
(* A place in the document is a path: <<3, 2>> is the second marker in the *)
(* body of the third child.  A body is its dynamic tags; text is left out, *)
(* and a tag other than include and selectKey is only what it holds.       *)
(***************************************************************************)
EXTENDS Integers, FiniteSets, SequencesExt, Selection

CONSTANTS
  Name,          \* the words ids are made of
  DatabaseId,    \* values of a databaseId attribute
  Documents,     \* the documents under consideration: sequences of children
  None           \* an attribute that is not there, a diagnostic without span

(* An id or refid is a sequence of words and of the signs that matter in   *)
(* one, so that "x!selectKey" is x with a suffix whoever wrote it.         *)
Id == Seq(Name \cup {"!selectKey", ".", "${"})

(* twice: the tag has a second refid attribute.                            *)
Include == [type : {"include"}, refid : Id \cup {None}, twice : BOOLEAN]
Marker ==
  Include \cup [type : {"tag"}, body : Seq(Include)]
    \cup [type : {"selectKey"}, db : DatabaseId \cup {None}, body : Seq(Include)]
Child ==
  [tag : {"statement", "sql", "resultMap"}, id : Id \cup {None},
   db : DatabaseId \cup {None}, body : Seq(Marker), capped : BOOLEAN]
Dialect == {"Mybatis", "Ibatis"}
Place == Seq(Nat)

ASSUME DocumentsAssumption == Documents \subseteq Seq(Child)
ASSUME NoneAssumption == None \notin Id \cup DatabaseId \cup Place

VARIABLES
  document, dialect,
  next,                                          \* the child the reader is at
  statements, fragments, resultMaps,
  seenIds, seenFragmentIds, seenResultMapIds,
  diagnostics,
  finished

input == <<document, dialect>>
vars == <<input, next, statements, fragments, resultMaps,
          seenIds, seenFragmentIds, seenResultMapIds, diagnostics, finished>>

Diagnostic(code, at) == [code |-> code, at |-> at]

-------------------------------------------------------------------------------
(* Bodies.                                                                 *)

(* capture_body, capture_subtree: one level of a body, each with its place.*)
Segments(at, body) == [i \in DOMAIN body |-> [at |-> Append(at, i), marker |-> body[i]]]

OfType(segments, type) ==
  Only(segments, {k \in DOMAIN segments : segments[k].marker.type = type})
NotOfType(segments, type) ==
  Only(segments, {k \in DOMAIN segments : segments[k].marker.type # type})

(* Every include of a body, at whatever level: flatten_body visits them in *)
(* document order (FlattenBody, for a body within the nesting limit).      *)
Within(s) == IF s.marker.type = "include" THEN <<s>> ELSE Segments(s.at, s.marker.body)
AllIncludes(segments) == Together([k \in DOMAIN segments |-> Within(segments[k])])

\* Mutated: a dotted refid is a local one in either dialect.
TargetAlwaysLocal(refid) == IF "${" \in ToSet(refid) THEN "Dynamic" ELSE "Local"

(* classify_include.                                                       *)
Target(refid) ==
  IF "${" \in ToSet(refid) THEN "Dynamic"
  ELSE IF dialect = "Mybatis" /\ "." \in ToSet(refid) THEN "Qualified"
  ELSE "Local"

Named(includes) == {k \in DOMAIN includes : includes[k].marker.refid # None}

WithRefid(includes) ==
  LET named == Only(includes, Named(includes))
  IN  [k \in DOMAIN named |->
         [at |-> named[k].at, refid |-> named[k].marker.refid,
          target |-> Target(named[k].marker.refid)]]

Each(code, includes) == [k \in DOMAIN includes |-> Diagnostic(code, includes[k].at)]

(* attr_value_spanned on an include with two refids.                       *)
DuplicateRefids(includes) ==
  Each("DuplicateAttribute", Only(includes, {k \in DOMAIN includes : includes[k].marker.twice}))

(* What lift_includes adds to those: an include without a refid.           *)
MissingRefids(includes) ==
  Each("DanglingRefid", Only(includes, DOMAIN includes \ Named(includes)))

Before(a, b) ==
  \/ \E i \in DOMAIN a \cap DOMAIN b :
       a[i] < b[i] /\ \A j \in 1 .. i - 1 : a[j] = b[j]
  \/ Len(a) < Len(b) /\ \A j \in DOMAIN a : a[j] = b[j]

(* What only the second pass found, after what the first one did.          *)
MergeUnsorted(top, nested) ==
  top \o Only(nested, {k \in DOMAIN nested : \A j \in DOMAIN top : top[j].at # nested[k].at})

(* sort_by_key: the k-th is the one that k - 1 others stand before.        *)
Sorted(s) ==
  LET rank(i) == Cardinality({j \in DOMAIN s : Before(s[j].at, s[i].at)})
  IN  [k \in DOMAIN s |-> s[CHOOSE i \in DOMAIN s : rank(i) = k - 1]]

(* merge_includes: each include once, in document order.                   *)
Merge(top, nested) == Sorted(MergeUnsorted(top, nested))

(* lift_includes, include by include.                                      *)
Lifted(top) ==
  Together([k \in DOMAIN top |-> DuplicateRefids(<<top[k]>>) \o MissingRefids(<<top[k]>>)])

(* lift_includes, flatten_body and merge_includes over the same segments.  *)
Body(segments, capped) ==
  LET top == OfType(segments, "include")
      all == AllIncludes(segments)
  IN  [includes |-> Merge(WithRefid(top), WithRefid(all)),
       diagnostics |->
         Lifted(top) \o DuplicateRefids(all)
           \o (IF capped THEN <<Diagnostic("BranchLimitExceeded", None)>> ELSE << >>)]

-------------------------------------------------------------------------------
(* Ids.                                                                    *)

(* The statements and selectKeys of a document share the space of (id,     *)
(* databaseId) pairs; no id, no pair.                                      *)
Register(id, key, seen, at) ==
  IF id # None /\ key \in seen THEN <<Diagnostic("DuplicateStatementId", at)>> ELSE << >>

MissingId(id, at) ==
  IF id = None THEN <<Diagnostic("MissingStatementId", at)>> ELSE << >>

Key(s) == <<s.id, s.db>>

\* Mutated: what has no id is registered all the same.
KeysWithoutId(S) == {Key(S[i]) : i \in DOMAIN S}

\* Mutated (as before A13): only what the author named is registered.
KeysAuthored(S) == {Key(S[i]) : i \in {j \in DOMAIN S : S[j].id # None /\ Len(S[j].at) = 1}}

Keys(S) == {Key(S[i]) : i \in {j \in DOMAIN S : S[j].id # None}}

Derived(id) == IF id = None THEN None ELSE Append(id, "!selectKey")

\* Mutated (as before A20): a selectKey is of the databaseId it names, if any.
SelectKeyDbOwn(c, s) == s.marker.db

(* A selectKey's own databaseId, or else its parent's.                     *)
SelectKeyDb(c, s) == IF s.marker.db # None THEN s.marker.db ELSE c.db

SelectKeyBody(s) == Body(Segments(s.at, s.marker.body), FALSE)

(* build_select_key_statement.                                             *)
SelectKeyStatement(c, s) ==
  [at |-> s.at, id |-> Derived(c.id), db |-> SelectKeyDb(c, s),
   includes |-> SelectKeyBody(s).includes]

-------------------------------------------------------------------------------
(* The n-th child: its markers, and what its body is without selectKeys.   *)

Markers(n) == Segments(<<n>>, document[n].body)
SelectKeys(n) == OfType(Markers(n), "selectKey")
OwnBody(n) == Body(NotOfType(Markers(n), "selectKey"), document[n].capped)

(* build_statement and extract_select_keys.                                *)
BuildStatements(n) ==
  LET c == document[n]
      keys == SelectKeys(n)
  IN  <<[at |-> <<n>>, id |-> c.id, db |-> c.db, includes |-> OwnBody(n).includes]>>
        \o [k \in DOMAIN keys |-> SelectKeyStatement(c, keys[k])]

(* The j-th of those is registered after the ones before it.               *)
Registered(built, j) ==
  Register(built[j].id, Key(built[j]), seenIds \cup Keys(SubSeq(built, 1, j - 1)), built[j].at)

(* Diagnostics of the selectKeys, one after the other.                     *)
OfSelectKeys(built, keys) ==
  Together([k \in DOMAIN keys |-> Registered(built, k + 1) \o SelectKeyBody(keys[k]).diagnostics])

-------------------------------------------------------------------------------
(* One turn of build_mapper's loop per child.                              *)

Here(tag) == ~ finished /\ next <= Len(document) /\ document[next].tag = tag

AtStatement ==
  /\ Here("statement")
  /\ LET built == BuildStatements(next)
     IN  /\ statements' = statements \o built
         /\ seenIds' = seenIds \cup Keys(built)
         /\ diagnostics' = diagnostics \o Registered(built, 1)
                             \o MissingId(document[next].id, <<next>>)
                             \o OfSelectKeys(built, SelectKeys(next))
                             \o OwnBody(next).diagnostics
  /\ next' = next + 1
  /\ UNCHANGED <<input, fragments, resultMaps, seenFragmentIds, seenResultMapIds, finished>>

(* What there is of a fragment or resultMap, which is nothing without id.  *)
BuildFragment(c, at, includes) ==
  IF c.id = None THEN << >> ELSE <<[at |-> at, id |-> c.id, includes |-> includes]>>

BuildResultMap(c, at) ==
  IF c.id = None THEN << >> ELSE <<[at |-> at, id |-> c.id]>>

(* A selectKey has no place in a fragment; a fragment without an id none   *)
(* in the result, and its body is not looked into.                         *)
AtFragment ==
  /\ Here("sql")
  /\ LET c == document[next]
         built == BuildFragment(c, <<next>>, OwnBody(next).includes)
     IN  /\ fragments' = fragments \o built
         /\ seenFragmentIds' = seenFragmentIds \cup {built[i].id : i \in DOMAIN built}
         /\ diagnostics' = diagnostics \o MissingId(c.id, <<next>>)
                             \o Register(c.id, c.id, seenFragmentIds, <<next>>)
                             \o Each("UnknownElement", SelectKeys(next))
                             \o (IF built # << >> THEN OwnBody(next).diagnostics ELSE << >>)
  /\ next' = next + 1
  /\ UNCHANGED <<input, statements, resultMaps, seenIds, seenResultMapIds, finished>>

(* The mappings of a resultMap are ResultMapWalk's.                        *)
AtResultMap ==
  /\ Here("resultMap")
  /\ LET c == document[next]
         built == BuildResultMap(c, <<next>>)
     IN  /\ resultMaps' = resultMaps \o built
         /\ seenResultMapIds' = seenResultMapIds \cup {built[i].id : i \in DOMAIN built}
         /\ diagnostics' = diagnostics \o MissingId(c.id, <<next>>)
                             \o Register(c.id, c.id, seenResultMapIds, <<next>>)
  /\ next' = next + 1
  /\ UNCHANGED <<input, statements, fragments, seenIds, seenFragmentIds, finished>>

(* check_dangling_local_refids.                                            *)
Dangling(includes) ==
  Each("DanglingRefid",
       Only(includes, {k \in DOMAIN includes : /\ includes[k].target = "Local"
                                              /\ includes[k].refid \notin seenFragmentIds}))

\* Mutated: those without a span are deduplicated by their code.
DedupByCode(D) == Only(D, {i \in DOMAIN D : \A j \in 1 .. i - 1 : D[j] # D[i]})

(* dedup_diagnostics: no span, no duplicate.                               *)
Dedup(D) ==
  Only(D, {i \in DOMAIN D : D[i].at = None \/ \A j \in 1 .. i - 1 : D[j] # D[i]})

(* The loop is over.  Fragments are known now, wherever they stood.        *)
AtEnd ==
  /\ ~ finished /\ next > Len(document)
  /\ finished' = TRUE
  /\ LET owners == statements \o fragments
         dangling == Together([i \in DOMAIN owners |-> Dangling(owners[i].includes)])
     IN  diagnostics' = Dedup(diagnostics \o (IF dialect = "Mybatis" THEN dangling ELSE << >>))
  /\ UNCHANGED <<input, next, statements, fragments, resultMaps,
                 seenIds, seenFragmentIds, seenResultMapIds>>

Init ==
  /\ document \in Documents /\ dialect \in Dialect
  /\ next = 1
  /\ statements = << >> /\ fragments = << >> /\ resultMaps = << >>
  /\ seenIds = {} /\ seenFragmentIds = {} /\ seenResultMapIds = {}
  /\ diagnostics = << >>
  /\ finished = FALSE

Next == AtStatement \/ AtFragment \/ AtResultMap \/ AtEnd

Spec == Init /\ [][Next]_vars /\ WF_vars(Next)

-------------------------------------------------------------------------------
(* Types of the state.  Nothing without an id is registered anywhere, and  *)
(* no fragment or resultMap without one is in the result.                  *)
IncludeRef == [at : Place, refid : Id, target : {"Local", "Qualified", "Dynamic"}]
Statement ==
  [at : Place, id : Id \cup {None}, db : DatabaseId \cup {None},
   includes : Seq(IncludeRef)]
Code == {"DuplicateStatementId", "MissingStatementId", "DuplicateAttribute",
         "DanglingRefid", "UnknownElement", "BranchLimitExceeded"}

TypeOK ==
  /\ document \in Seq(Child) /\ dialect \in Dialect
  /\ next \in 1 .. Len(document) + 1 /\ finished \in BOOLEAN
  /\ statements \in Seq(Statement)
  /\ fragments \in Seq([at : Place, id : Id, includes : Seq(IncludeRef)])
  /\ resultMaps \in Seq([at : Place, id : Id])
  /\ \A k \in seenIds : k[1] \in Id /\ k[2] \in DatabaseId \cup {None}
  /\ seenFragmentIds \subseteq Id /\ seenResultMapIds \subseteq Id
  /\ \A i \in DOMAIN diagnostics :
       diagnostics[i].code \in Code /\ diagnostics[i].at \in Place \cup {None}

(* DuplicateStatementId is reported as the turns go by, from a set of the  *)
(* keys seen; what it must mean is a fact about the result: of statements  *)
(* with the same id and databaseId, selectKeys and whoever wrote           *)
(* "x!selectKey" by hand included, all but the first are reported, and     *)
(* nothing else is.                                                        *)
IsRepeated(S, j) == S[j].id # None /\ \E i \in 1 .. j - 1 : Key(S[i]) = Key(S[j])

DuplicatesReported ==
  \A j \in DOMAIN statements :
    IsRepeated(statements, j) <=>
      Diagnostic("DuplicateStatementId", statements[j].at) \in ToSet(diagnostics)
===============================================================================
