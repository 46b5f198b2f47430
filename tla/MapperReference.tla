---------------------------- MODULE MapperReference ----------------------------
(***************************************************************************)
(* What build_mapper's result must be once it is finished, told from the   *)
(* document as a whole and not child by child.                             *)
(***************************************************************************)
EXTENDS MapperBuild

ChildrenOf(tags) == {c \in DOMAIN document : document[c].tag \in tags}

(* The children, and the markers in them, that the result has an entry for.*)
SelectKeyPlaces ==
  UNION {{<<c, m>> : m \in {i \in DOMAIN document[c].body :
                              document[c].body[i].type = "selectKey"}} :
           c \in ChildrenOf({"statement"})}
StatementPlaces == {<<c>> : c \in ChildrenOf({"statement"})} \cup SelectKeyPlaces
FragmentPlaces == {<<c>> : c \in {d \in ChildrenOf({"sql"}) : document[d].id # None}}

MarkerAt(p) ==
  IF Len(p) = 2 THEN document[p[1]].body[p[2]]
  ELSE document[p[1]].body[p[2]].body[p[3]]

(* Every include within a child's body.                                    *)
IncludePlaces ==
  UNION {LET body == document[c].body
             direct == {i \in DOMAIN body : body[i].type = "include"}
         IN  {<<c, i>> : i \in direct} \cup
               UNION {{<<c, i, k>> : k \in DOMAIN body[i].body} :
                        i \in DOMAIN body \ direct}
           : c \in DOMAIN document}

(* What an include belongs to: the innermost statement or fragment around  *)
(* it, a selectKey being one in a statement and nothing anywhere else.     *)
OwnerOf(p) ==
  IF Len(p) = 3 /\ MarkerAt(<<p[1], p[2]>>).type = "selectKey"
  THEN <<p[1], p[2]>> ELSE <<p[1]>>

Owned(owner) ==
  {p \in IncludePlaces : OwnerOf(p) = owner /\ MarkerAt(p).refid # None}

InOrder(P) ==
  [k \in 1 .. Cardinality(P) |->
     CHOOSE p \in P : Cardinality({q \in P : Before(q, p)}) = k - 1]
Places(S) == [i \in DOMAIN S |-> S[i].at]
Reported(code) == {d.at : d \in {e \in ToSet(diagnostics) : e.code = code}}

(* However its statements come about, each in several calls and selectKeys *)
(* beside the loop, the result has all of them in document order, and each *)
(* has all of its own includes, found by two passes, once and in document  *)
(* order.                                                                  *)
ResultInDocumentOrder ==
  finished =>
    /\ Places(statements) = InOrder(StatementPlaces)
    /\ Places(fragments) = InOrder(FragmentPlaces)
    /\ \A i \in DOMAIN statements :
         Places(statements[i].includes) = InOrder(Owned(statements[i].at))
    /\ \A i \in DOMAIN fragments :
         Places(fragments[i].includes) = InOrder(Owned(fragments[i].at))

(* The canonical dual-dialect mapper (A13, A20): statements that differ in *)
(* their databaseId, each with at most one selectKey that names none or    *)
(* the same, get no DuplicateStatementId for any of it.                    *)
DialectsApart ==
  LET S == ChildrenOf({"statement"})
      keys(c) == {p \in SelectKeyPlaces : p[1] = c}
      key(c) == <<document[c].id, document[c].db>>
  IN  /\ \A c, d \in S : c # d => key(c) # key(d)
      /\ \A c \in S : /\ Cardinality(keys(c)) <= 1
                      /\ document[c].id # None => "!selectKey" \notin ToSet(document[c].id)
                      /\ \A p \in keys(c) : MarkerAt(p).db \in {None, document[c].db}
      => Reported("DuplicateStatementId") \cap StatementPlaces = {}

(* In MyBatis an include dangles when no fragment of the file has the id   *)
(* it names, wherever the fragment stands and whoever owns the include, or *)
(* when it names none.  A dotted or dynamic refid is not for this file to  *)
(* judge, and in iBatis no refid is: the docs want no such report there    *)
(* (src/src/model.rs:134), the code makes one of an include that names no  *)
(* fragment at all (parse.rs:1594), and either is let pass.                *)
DanglingExact ==
  finished =>
    LET ids == {document[p[1]].id : p \in FragmentPlaces}
        judged == UNION {Owned(o) : o \in StatementPlaces \cup FragmentPlaces}
        plain(p) == {".", "${"} \cap ToSet(MarkerAt(p).refid) = {}
        named == {p \in judged : plain(p) /\ MarkerAt(p).refid \notin ids}
        unnamed == {p \in IncludePlaces :
                      /\ MarkerAt(p).refid = None
                      /\ OwnerOf(p) \in StatementPlaces \cup FragmentPlaces
                      /\ Len(p) = Len(OwnerOf(p)) + 1}
    IN  IF dialect = "Mybatis"
        THEN Reported("DanglingRefid") = unnamed \cup named
        ELSE Reported("DanglingRefid") \subseteq unnamed

(* Two passes look at an include, and one anomaly of it is one diagnostic. *)
(* A diagnostic without a span says something of the body it is about and  *)
(* is as frequent as such bodies are.                                      *)
EachAnomalyOnce ==
  finished =>
    LET unlocated == {i \in DOMAIN diagnostics : diagnostics[i].at = None}
        capped == {c \in DOMAIN document :
                     document[c].capped /\ <<c>> \in StatementPlaces \cup FragmentPlaces}
    IN  /\ \A i, j \in DOMAIN diagnostics \ unlocated :
             diagnostics[i] = diagnostics[j] => i = j
        /\ Cardinality(unlocated) = Cardinality(capped)
===============================================================================
