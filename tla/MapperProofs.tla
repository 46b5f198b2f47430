------------------------------ MODULE MapperProofs ------------------------------
(***************************************************************************)
(* That what build_mapper makes of a document is what the document has,    *)
(* for every set of documents and in either dialect.                       *)
(*                                                                         *)
(* MapperReference tells the result from the document as a whole, and only *)
(* of a loop that is over.  The invariant tells it of the children passed: *)
(* the statements and fragments so far are theirs, in document order, each *)
(* as the document has it, and the diagnostics so far say what those       *)
(* children give cause for.  A turn of the loop adds what the invariant    *)
(* tells of one child more.  The two passes over a body agree because what *)
(* the first one finds, the second one finds again.                        *)
(***************************************************************************)
EXTENDS MapperReference, CommonLemmas, FiniteSetTheorems

-------------------------------------------------------------------------------
(* The result as it should be at any turn of the loop.                     *)

(* The id that the statement or selectKey at a place has: its own, or what *)
(* is derived of its statement's.                                          *)
IdAt(p) == IF Len(p) = 1 THEN document[p[1]].id ELSE Derived(document[p[1]].id)

(* Its databaseId: its own or, of a selectKey that names none, its         *)
(* statement's.                                                            *)
DbAt(p) ==
  IF Len(p) = 1 THEN document[p[1]].db
  ELSE IF MarkerAt(p).db # None THEN MarkerAt(p).db ELSE document[p[1]].db

(* A list in document order.                                               *)
InPlace(S) == \A j, k \in DOMAIN S : j < k => Before(S[j].at, S[k].at)

(* S has one entry for each place of P, in document order.                 *)
Lists(S, P) ==
  /\ InPlace(S)
  /\ \A k \in DOMAIN S : S[k].at \in P
  /\ \A p \in P : \E k \in DOMAIN S : S[k].at = p

(* The includes of an owner: all that have a refid, each with its own      *)
(* refid and the target classify_include makes of it.                      *)
IncludesSound(includes, owner) ==
  /\ includes \in Seq(IncludeRef)
  /\ Lists(includes, Owned(owner))
  /\ \A k \in DOMAIN includes :
       /\ includes[k].refid = MarkerAt(includes[k].at).refid
       /\ includes[k].target = Target(includes[k].refid)

(* A statement as the document has it.                                     *)
Faithful(s) ==
  s \in Statement /\ s.id = IdAt(s.at) /\ s.db = DbAt(s.at) /\ IncludesSound(s.includes, s.at)

(* What there is in the result of a fragment.                              *)
Fragment == [at : Place, id : Id, includes : Seq(IncludeRef)]

(* A fragment as the document has it.                                      *)
FragmentFaithful(f) ==
  f \in Fragment /\ f.id = document[f.at[1]].id /\ IncludesSound(f.includes, f.at)

(* The places that belong to the children before the n-th.                 *)
UpTo(P, n) == {p \in P : p[1] < n}

(* The places the loop has been at.                                        *)
Passed(P) == UpTo(P, next)

(* The statements so far are those of the children passed, each as the     *)
(* document has it, and seenIds is their keys.                             *)
StatementsSound ==
  /\ statements \in Seq(Statement)
  /\ Lists(statements, Passed(StatementPlaces))
  /\ \A k \in DOMAIN statements : Faithful(statements[k])
  /\ seenIds = Keys(statements)

(* So are the fragments, and seenFragmentIds is their ids.                 *)
FragmentsSound ==
  /\ fragments \in Seq(Fragment)
  /\ Lists(fragments, Passed(FragmentPlaces))
  /\ \A k \in DOMAIN fragments : FragmentFaithful(fragments[k])
  /\ seenFragmentIds = {fragments[k].id : k \in DOMAIN fragments}

(* Of resultMaps no property but their types is told.                      *)
ResultMapsSound ==
  /\ resultMaps \in Seq([at : Place, id : Id])
  /\ seenResultMapIds \subseteq Id

(* What a diagnostic is.                                                   *)
Diag == [code : Code, at : Place \cup {None}]

(* Where lift_includes misses a refid: right in the body of an owner.      *)
Unnamed ==
  {p \in IncludePlaces :
      /\ MarkerAt(p).refid = None
      /\ OwnerOf(p) \in StatementPlaces \cup FragmentPlaces
      /\ Len(p) = Len(OwnerOf(p)) + 1}

(* The includes that the result has, by their places.                      *)
Judged == UNION {Owned(o) : o \in StatementPlaces \cup FragmentPlaces}

(* Those of them that check_dangling_local_refids reports.                 *)
DanglingPlaces ==
  IF dialect = "Mybatis"
  THEN {p \in Judged : /\ Target(MarkerAt(p).refid) = "Local"
                       /\ \A f \in FragmentPlaces : document[f[1]].id # MarkerAt(p).refid}
  ELSE {}

(* The diagnostics without a span.                                         *)
Unlocated(D) == {k \in DOMAIN D : D[k].at = None}

(* The children in the result whose body exceeds the branch limit.         *)
Capped == {c \in DOMAIN document :
             document[c].capped /\ <<c>> \in StatementPlaces \cup FragmentPlaces}

(* What the diagnostics so far say: the repeated keys; the missing refids  *)
(* of the children passed and, once the loop is over, the refids that no   *)
(* fragment has; and one without a span for each capped body so far.       *)
DiagnosticsSound ==
  /\ diagnostics \in Seq(Diag)
  /\ DuplicatesReported
  /\ \A p \in Reported("DuplicateStatementId") : p \in Place /\ p # << >> /\ p[1] < next
  /\ Reported("DanglingRefid") =
       IF finished THEN Unnamed \cup DanglingPlaces ELSE Passed(Unnamed)
  /\ Cardinality(Unlocated(diagnostics)) = Cardinality({c \in Capped : c < next})
  /\ finished => \A i, j \in DOMAIN diagnostics \ Unlocated(diagnostics) :
                    diagnostics[i] = diagnostics[j] => i = j

(* The loop is at a child of the document, or past the last one.           *)
Reading ==
  /\ document \in Documents /\ dialect \in Dialect
  /\ next \in 1 .. Len(document) + 1 /\ finished \in BOOLEAN
  /\ finished => next = Len(document) + 1

(* The inductive invariant.                                                *)
IInv == Reading /\ StatementsSound /\ FragmentsSound /\ ResultMapsSound /\ DiagnosticsSound

-------------------------------------------------------------------------------
(* Lists of places, and their order.                                       *)

(* What two sequences hold, one behind the other.                          *)
LEMMA SetOfJoined ==
  ASSUME NEW S, NEW a \in Seq(S), NEW b \in Seq(S)
  PROVE  ToSet(a \o b) = ToSet(a) \cup ToSet(b)
<1>1. /\ a \o b \in Seq(S) /\ Len(a \o b) = Len(a) + Len(b)
      /\ \A k \in 1 .. Len(a) : (a \o b)[k] = a[k]
      /\ \A k \in 1 .. Len(b) : (a \o b)[Len(a) + k] = b[k]
      /\ \A k \in 1 .. Len(a \o b) :
              \/ k \in 1 .. Len(a) /\ (a \o b)[k] = a[k]
              \/ k - Len(a) \in 1 .. Len(b) /\ (a \o b)[k] = b[k - Len(a)]
  BY Joined
<1> DEFINE c == a \o b
<1>2. /\ DOMAIN a = 1 .. Len(a) /\ DOMAIN b = 1 .. Len(b) /\ DOMAIN c = 1 .. Len(c)
      /\ Len(a) \in Nat /\ Len(b) \in Nat
  BY <1>1
<1>3. c \in Seq(S) /\ Len(c) = Len(a) + Len(b)
  BY <1>1
<1>4. \A k \in 1 .. Len(a) : k \in 1 .. Len(c) /\ c[k] = a[k]
  BY <1>1, <1>2, <1>3
<1>5. \A k \in 1 .. Len(b) : Len(a) + k \in 1 .. Len(c) /\ c[Len(a) + k] = b[k]
  BY <1>1, <1>2, <1>3
<1>6. \A k \in 1 .. Len(c) :
              \/ k \in 1 .. Len(a) /\ c[k] = a[k]
              \/ k - Len(a) \in 1 .. Len(b) /\ c[k] = b[k - Len(a)]
  BY <1>1
<1> HIDE DEF c
<1>7. ToSet(c) \subseteq ToSet(a) \cup ToSet(b)
  BY <1>2, <1>6 DEF ToSet
<1>8. ToSet(a) \subseteq ToSet(c)
  BY <1>2, <1>4 DEF ToSet
<1>9. ToSet(b) \subseteq ToSet(c)
  BY <1>2, <1>5 DEF ToSet
<1> QED
  BY <1>7, <1>8, <1>9 DEF c

(* What a selection holds.                                                 *)
LEMMA SetOfOnly ==
  ASSUME NEW S, NEW s \in Seq(S), NEW K
  PROVE  /\ Only(s, K) \in Seq(S)
         /\ ToSet(Only(s, K)) = {s[j] : j \in K \cap DOMAIN s}
<1> DEFINE r == Only(s, K)
<1>1. PICK w : r \in Seq(S) /\ Picks(r, w, s, K, Len(s))
  BY OnlyPicks
<1>2. DOMAIN s = 1 .. Len(s) /\ DOMAIN r = 1 .. Len(r) /\ Len(r) \in Nat
  BY <1>1
<1> HIDE DEF r
<1>3. \A k \in DOMAIN r : w[k] \in K \cap DOMAIN s /\ r[k] = s[w[k]]
  BY <1>1, <1>2 DEF Picks
<1>4. \A j \in K \cap DOMAIN s : \E k \in DOMAIN r : w[k] = j
  BY <1>1, <1>2 DEF Picks
<1>5. ToSet(r) = {s[j] : j \in K \cap DOMAIN s}
  BY <1>3, <1>4 DEF ToSet
<1> QED
  BY <1>1, <1>5 DEF r

(* A selection of a list in document order is in document order.           *)
LEMMA OnlyInPlace ==
  ASSUME NEW S, NEW s \in Seq(S), NEW K, InPlace(s)
  PROVE  InPlace(Only(s, K))
<1> DEFINE r == Only(s, K)
<1>1. PICK w : r \in Seq(S) /\ Picks(r, w, s, K, Len(s))
  BY OnlyPicks
<1>2. DOMAIN s = 1 .. Len(s) /\ DOMAIN r = 1 .. Len(r) /\ Len(r) \in Nat
  BY <1>1
<1> HIDE DEF r
<1>3. \A k \in DOMAIN r : w[k] \in DOMAIN s /\ r[k] = s[w[k]]
  BY <1>1, <1>2 DEF Picks
<1>4. \A j, k \in DOMAIN r : j < k => w[j] < w[k]
  BY <1>1, <1>2 DEF Picks
<1>5. InPlace(r)
  BY <1>3, <1>4 DEF InPlace
<1> QED
  BY <1>5 DEF r

(* So are two lists end to end when the one is before the other.           *)
LEMMA JoinedInPlace ==
  ASSUME NEW S, NEW a \in Seq(S), NEW b \in Seq(S), InPlace(a), InPlace(b),
         \A j \in DOMAIN a, k \in DOMAIN b : Before(a[j].at, b[k].at)
  PROVE  InPlace(a \o b)
<1> DEFINE r == a \o b
<1>1. /\ Len(r) = Len(a) + Len(b) /\ DOMAIN r = 1 .. Len(r)
      /\ \A k \in 1 .. Len(r) :
              \/ k \in 1 .. Len(a) /\ r[k] = a[k]
              \/ k - Len(a) \in 1 .. Len(b) /\ r[k] = b[k - Len(a)]
  BY Joined
<1>2. DOMAIN a = 1 .. Len(a) /\ DOMAIN b = 1 .. Len(b) /\ Len(a) \in Nat /\ Len(b) \in Nat
  OBVIOUS
<1> HIDE DEF r
<1> SUFFICES ASSUME NEW j \in 1 .. Len(r), NEW k \in 1 .. Len(r), j < k
             PROVE  Before(r[j].at, r[k].at)
  BY <1>1 DEF InPlace, r
<1>3. CASE k \in 1 .. Len(a) /\ r[k] = a[k]
  <2>1. j \in 1 .. Len(a) /\ r[j] = a[j]
    BY <1>1, <1>2, <1>3
  <2> QED
    BY <1>2, <1>3, <2>1 DEF InPlace
<1>4. CASE k - Len(a) \in 1 .. Len(b) /\ r[k] = b[k - Len(a)]
  <2>1. CASE j \in 1 .. Len(a) /\ r[j] = a[j]
    BY <1>2, <1>4, <2>1
  <2>2. CASE j - Len(a) \in 1 .. Len(b) /\ r[j] = b[j - Len(a)]
    <3>1. j - Len(a) < k - Len(a)
      BY <1>2
    <3> QED
      BY <1>2, <1>4, <2>2, <3>1 DEF InPlace
  <2> QED
    BY <1>1, <2>1, <2>2
<1> QED
  BY <1>1, <1>3, <1>4

(* What many sequences hold, end to end.                                   *)
LEMMA SetOfTogether ==
  ASSUME NEW S, NEW ss \in Seq(Seq(S))
  PROVE  /\ Together(ss) \in Seq(S)
         /\ ToSet(Together(ss)) = UNION {ToSet(ss[m]) : m \in DOMAIN ss}
<1> DEFINE J == Joins(ss)
           n == Len(ss)
           P == {k \in 0 .. n : ToSet(J[k]) = UNION {ToSet(ss[m]) : m \in 1 .. k}}
<1>1. /\ J \in [0 .. n -> Seq(S)] /\ J[0] = << >>
      /\ \A k \in 1 .. n : J[k] = J[k - 1] \o ss[k]
  BY JoinsGrow
<1>2. n \in Nat /\ DOMAIN ss = 1 .. n /\ \A k \in 1 .. n : ss[k] \in Seq(S)
  OBVIOUS
<1> HIDE DEF J, n
<1>3. 0 \in P
  <2>1. ToSet(<< >>) = {}
    BY DEF ToSet
  <2>2. 0 \in 0 .. n /\ 1 .. 0 = {}
    BY <1>2
  <2> QED
    BY <1>1, <2>1, <2>2
<1>4. ASSUME NEW k \in 1 .. n, k - 1 \in P PROVE k \in P
  <2>1. k \in 0 .. n /\ k - 1 \in 0 .. n /\ 1 .. k = (1 .. k - 1) \cup {k}
    BY <1>2
  <2>2. ToSet(J[k]) = ToSet(J[k - 1]) \cup ToSet(ss[k])
    <3>1. J[k - 1] \in Seq(S) /\ ss[k] \in Seq(S) /\ J[k] = J[k - 1] \o ss[k]
      BY <1>1, <1>2, <2>1
    <3> QED
      BY <3>1, SetOfJoined
  <2>3. ToSet(J[k - 1]) = UNION {ToSet(ss[m]) : m \in 1 .. k - 1}
    BY <1>4
  <2>4. UNION {ToSet(ss[m]) : m \in 1 .. k}
          = (UNION {ToSet(ss[m]) : m \in 1 .. k - 1}) \cup ToSet(ss[k])
    BY <2>1
  <2> QED
    BY <2>1, <2>2, <2>3, <2>4
<1> HIDE DEF P
<1>5. \A k \in 0 .. n : k \in P
  <2>1. \A k \in 1 .. n : k - 1 \in P => k \in P
    BY <1>4
  <2> QED
    BY <1>2, <1>3, <2>1, StepByStep, Zenon
<1>6. n \in 0 .. n
  BY <1>2
<1>7. ToSet(J[n]) = UNION {ToSet(ss[m]) : m \in 1 .. n} /\ J[n] \in Seq(S)
  BY <1>1, <1>5, <1>6 DEF P
<1> QED
  BY <1>2, <1>7 DEF J, n, Together

(* Many lists end to end are in document order when each is and each is    *)
(* before those that follow it.                                            *)
LEMMA TogetherInPlace ==
  ASSUME NEW S, NEW ss \in Seq(Seq(S)), \A m \in DOMAIN ss : InPlace(ss[m]),
         \A m, o \in DOMAIN ss : m < o =>
           \A x \in ToSet(ss[m]), y \in ToSet(ss[o]) : Before(x.at, y.at)
  PROVE  InPlace(Together(ss))
<1> DEFINE J == Joins(ss)
           n == Len(ss)
           P == {k \in 0 .. n : InPlace(J[k])
                                /\ ToSet(J[k]) = UNION {ToSet(ss[m]) : m \in 1 .. k}}
<1>1. /\ J \in [0 .. n -> Seq(S)] /\ J[0] = << >>
      /\ \A k \in 1 .. n : J[k] = J[k - 1] \o ss[k]
  BY JoinsGrow
<1>2. n \in Nat /\ DOMAIN ss = 1 .. n /\ \A k \in 1 .. n : ss[k] \in Seq(S)
  OBVIOUS
<1> HIDE DEF J, n
<1>3. 0 \in P
  <2>1. ToSet(<< >>) = {} /\ InPlace(<< >>)
    BY DEF ToSet, InPlace
  <2>2. 0 \in 0 .. n /\ 1 .. 0 = {}
    BY <1>2
  <2> QED
    BY <1>1, <2>1, <2>2
<1>4. ASSUME NEW k \in 1 .. n, k - 1 \in P PROVE k \in P
  <2>1. k \in 0 .. n /\ k - 1 \in 0 .. n /\ 1 .. k = (1 .. k - 1) \cup {k}
        /\ \A m \in 1 .. k - 1 : m \in 1 .. n /\ m < k
    BY <1>2
  <2>2. J[k - 1] \in Seq(S) /\ ss[k] \in Seq(S) /\ J[k] = J[k - 1] \o ss[k]
    BY <1>1, <1>2, <2>1
  <2>3. ToSet(J[k]) = ToSet(J[k - 1]) \cup ToSet(ss[k])
    BY <2>2, SetOfJoined
  <2>4. ToSet(J[k - 1]) = UNION {ToSet(ss[m]) : m \in 1 .. k - 1} /\ InPlace(J[k - 1])
    BY <1>4
  <2>5. UNION {ToSet(ss[m]) : m \in 1 .. k}
          = (UNION {ToSet(ss[m]) : m \in 1 .. k - 1}) \cup ToSet(ss[k])
    BY <2>1
  <2>6. \A x \in ToSet(J[k - 1]), y \in ToSet(ss[k]) : Before(x.at, y.at)
    BY <1>2, <2>1, <2>4
  <2>7. \A j \in DOMAIN J[k - 1], o \in DOMAIN ss[k] : Before(J[k - 1][j].at, ss[k][o].at)
    BY <2>6 DEF ToSet
  <2>8. InPlace(J[k])
    BY <1>2, <2>2, <2>4, <2>7, JoinedInPlace
  <2> QED
    BY <2>1, <2>3, <2>4, <2>5, <2>8
<1> HIDE DEF P
<1>5. \A k \in 0 .. n : k \in P
  <2>1. \A k \in 1 .. n : k - 1 \in P => k \in P
    BY <1>4
  <2> QED
    BY <1>2, <1>3, <2>1, StepByStep, Zenon
<1>6. n \in 0 .. n
  BY <1>2
<1>7. InPlace(J[n])
  BY <1>5, <1>6 DEF P
<1> QED
  BY <1>7 DEF J, n, Together

(* Document order does not go both ways.                                   *)
LEMMA BeforeOneWay ==
  ASSUME NEW a \in Place, NEW b \in Place, Before(a, b)
  PROVE  ~ Before(b, a)
<1> SUFFICES ASSUME Before(b, a) PROVE FALSE
  OBVIOUS
<1>0. /\ Len(a) \in Nat /\ Len(b) \in Nat /\ DOMAIN a = 1 .. Len(a) /\ DOMAIN b = 1 .. Len(b)
      /\ \A k \in DOMAIN a : a[k] \in Nat
      /\ \A k \in DOMAIN b : b[k] \in Nat
  BY DEF Place
<1>1. CASE \E i \in DOMAIN a \cap DOMAIN b : a[i] < b[i] /\ \A j \in 1 .. i - 1 : a[j] = b[j]
  <2>1. PICK i \in DOMAIN a \cap DOMAIN b : a[i] < b[i] /\ \A j \in 1 .. i - 1 : a[j] = b[j]
    BY <1>1
  <2>2. CASE \E l \in DOMAIN a \cap DOMAIN b : b[l] < a[l] /\ \A j \in 1 .. l - 1 : b[j] = a[j]
    <3>1. PICK l \in DOMAIN a \cap DOMAIN b : b[l] < a[l] /\ \A j \in 1 .. l - 1 : b[j] = a[j]
      BY <2>2
    <3>2. CASE l < i
      <4>1. l \in 1 .. i - 1
        BY <1>0, <3>2
      <4> QED
        BY <1>0, <2>1, <3>1, <4>1
    <3>3. CASE i < l
      <4>1. i \in 1 .. l - 1
        BY <1>0, <3>3
      <4> QED
        BY <1>0, <2>1, <3>1, <4>1
    <3>4. CASE i = l
      BY <1>0, <2>1, <3>1, <3>4
    <3> QED
      BY <1>0, <3>2, <3>3, <3>4
  <2>3. CASE Len(b) < Len(a) /\ \A j \in DOMAIN b : b[j] = a[j]
    BY <1>0, <2>1, <2>3
  <2> QED
    BY <2>2, <2>3 DEF Before
<1>2. CASE Len(a) < Len(b) /\ \A j \in DOMAIN a : a[j] = b[j]
  <2>2. CASE \E l \in DOMAIN a \cap DOMAIN b : b[l] < a[l] /\ \A j \in 1 .. l - 1 : b[j] = a[j]
    BY <1>0, <1>2, <2>2
  <2>3. CASE Len(b) < Len(a) /\ \A j \in DOMAIN b : b[j] = a[j]
    BY <1>0, <1>2, <2>3
  <2> QED
    BY <2>2, <2>3 DEF Before
<1> QED
  BY <1>1, <1>2 DEF Before

(* A place is a path that starts with another one.                         *)
Under(p, at) == Len(at) <= Len(p) /\ \A k \in 1 .. Len(at) : p[k] = at[k]

(* A step down from a place: a place under it and behind it.               *)
LEMMA FartherDown ==
  ASSUME NEW at \in Place, NEW j \in Nat
  PROVE  /\ Append(at, j) \in Place /\ Len(Append(at, j)) = Len(at) + 1
         /\ Append(at, j)[Len(at) + 1] = j /\ Under(Append(at, j), at)
         /\ Under(at, at) /\ Before(at, Append(at, j))
<1>1. /\ Append(at, j) \in Place /\ Len(Append(at, j)) = Len(at) + 1
      /\ Append(at, j)[Len(at) + 1] = j /\ Len(at) \in Nat /\ DOMAIN at = 1 .. Len(at)
      /\ \A k \in 1 .. Len(at) : Append(at, j)[k] = at[k]
  BY DEF Place
<1> QED
  BY <1>1 DEF Under, Before

(* All that is under a marker is before all that is under a later one      *)
(* beside it.                                                              *)
LEMMA SiblingsBefore ==
  ASSUME NEW at \in Place, NEW j \in Nat, NEW k \in Nat, j < k,
         NEW p \in Place, NEW q \in Place, Under(p, Append(at, j)), Under(q, Append(at, k))
  PROVE  Before(p, q)
<1>1. /\ Len(at) \in Nat /\ Len(Append(at, j)) = Len(at) + 1 /\ Len(Append(at, k)) = Len(at) + 1
      /\ Append(at, j)[Len(at) + 1] = j /\ Append(at, k)[Len(at) + 1] = k
      /\ \A m \in 1 .. Len(at) : Append(at, j)[m] = at[m] /\ Append(at, k)[m] = at[m]
  BY DEF Place
<1>2. /\ Len(at) + 1 <= Len(p) /\ Len(at) + 1 <= Len(q)
      /\ p[Len(at) + 1] = j /\ q[Len(at) + 1] = k
      /\ \A m \in 1 .. Len(at) : p[m] = at[m] /\ q[m] = at[m]
  BY <1>1 DEF Under
<1>3. DOMAIN p = 1 .. Len(p) /\ DOMAIN q = 1 .. Len(q) /\ Len(p) \in Nat /\ Len(q) \in Nat
  BY DEF Place
<1>4. Len(at) + 1 \in DOMAIN p \cap DOMAIN q /\ (Len(at) + 1) - 1 = Len(at)
  BY <1>1, <1>2, <1>3
<1> QED
  BY <1>2, <1>4 DEF Before

(* f has n members, all different.                                         *)
Apart(f, n) == \A l, m \in 1 .. n : f[l] = f[m] => l = m

(* The first k - 1 of them.                                                *)
Earlier(f, k) == {f[m] : m \in 1 .. k - 1}

(* How many come before the k-th.                                          *)
LEMMA RankOfListed ==
  ASSUME NEW n \in Nat, NEW k \in 1 .. n + 1, NEW f, Apart(f, n)
  PROVE  Cardinality(Earlier(f, k)) = k - 1
<1> DEFINE T == {f[m] : m \in 1 .. k - 1}
           g == [m \in 1 .. k - 1 |-> f[m]]
<1>0. 1 .. k - 1 \subseteq 1 .. n
  OBVIOUS
<1>1. g \in Bijection(1 .. k - 1, T)
  BY <1>0 DEF Apart, Bijection, Injection, Surjection, IsInjective
<1>2. IsFiniteSet(1 .. k - 1) /\ Cardinality(1 .. k - 1) = k - 1
  <2>1. 1 \in Int /\ k - 1 \in Int
    OBVIOUS
  <2>2. IsFiniteSet(1 .. k - 1)
        /\ Cardinality(1 .. k - 1) = IF 1 > k - 1 THEN 0 ELSE k - 1 - 1 + 1
    BY <2>1, FS_Interval
  <2> QED
    BY <2>2
<1>3. Cardinality(1 .. k - 1) = Cardinality(T)
  <2>1. ExistsBijection(1 .. k - 1, T)
    BY <1>1 DEF ExistsBijection
  <2> HIDE DEF T
  <2> QED
    BY <1>2, <2>1, FS_Bijection
<1> QED
  BY <1>2, <1>3 DEF Earlier

(* A list in document order has no place twice, and tells by its positions *)
(* which place is before which.                                            *)
LEMMA PlacesApart ==
  ASSUME NEW S, NEW r \in Seq(S), InPlace(r), \A k \in DOMAIN r : r[k].at \in Place,
         NEW j \in DOMAIN r, NEW k \in DOMAIN r
  PROVE  /\ r[j].at = r[k].at => j = k
         /\ Before(r[j].at, r[k].at) <=> j < k
<1>1. DOMAIN r = 1 .. Len(r) /\ Len(r) \in Nat
  OBVIOUS
<1>2. j \in Int /\ k \in Int
  BY <1>1
<1>3. /\ j < k => Before(r[j].at, r[k].at)
      /\ k < j => Before(r[k].at, r[j].at)
  BY DEF InPlace
<1>4. Before(r[j].at, r[k].at) => ~ Before(r[k].at, r[j].at)
  BY BeforeOneWay
<1>5. r[j].at = r[k].at => ~ Before(r[j].at, r[k].at) /\ ~ Before(r[k].at, r[j].at)
  BY BeforeOneWay
<1> QED
  BY <1>2, <1>3, <1>4, <1>5

(* sort_by_key, of whatever holds what a list in document order does,      *)
(* makes that list.                                                        *)
LEMMA SortedLists ==
  ASSUME NEW S, NEW r \in Seq(S), InPlace(r), \A k \in DOMAIN r : r[k].at \in Place,
         NEW u \in Seq(S), \A i, j \in DOMAIN u : u[i].at = u[j].at => i = j,
         ToSet(u) = ToSet(r)
  PROVE  Sorted(u) = r
<1> DEFINE n == Len(r)
           g == [m \in 1 .. n |-> CHOOSE i \in DOMAIN u : u[i] = r[m]]
           rank(i) == Cardinality({j \in DOMAIN u : Before(u[j].at, u[i].at)})
<1>0. /\ DOMAIN r = 1 .. n /\ n \in Nat /\ DOMAIN u = 1 .. Len(u) /\ Len(u) \in Nat
      /\ r = [k \in 1 .. n |-> r[k]]
  OBVIOUS
<1> HIDE DEF n
<1>n. n \in Nat
  BY <1>0
<1>1. ASSUME NEW m \in 1 .. n PROVE g[m] \in DOMAIN u /\ u[g[m]] = r[m]
  <2>1. r[m] \in ToSet(u)
    BY <1>0 DEF ToSet
  <2>2. \E i \in DOMAIN u : u[i] = r[m]
    BY <2>1 DEF ToSet
  <2> QED
    BY <2>2
<1> HIDE DEF g
<1>2. ASSUME NEW i \in DOMAIN u PROVE \E m \in 1 .. n : g[m] = i
  <2>1. u[i] \in ToSet(r)
    BY DEF ToSet
  <2>2. PICK m \in 1 .. n : u[i] = r[m]
    BY <1>0, <2>1 DEF ToSet
  <2>3. g[m] \in DOMAIN u /\ u[g[m]].at = u[i].at
    BY <1>1, <2>2
  <2> QED
    BY <2>3
<1>3. Apart(g, n)
  <2> SUFFICES ASSUME NEW l \in 1 .. n, NEW m \in 1 .. n, g[l] = g[m] PROVE l = m
    BY DEF Apart
  <2>1. r[l].at = r[m].at
    BY <1>1
  <2> QED
    BY <1>0, <2>1, PlacesApart
<1>4. Len(u) = n
  <2>1. n + 1 \in 1 .. n + 1 /\ (n + 1) - 1 = n
    BY <1>0
  <2>2. Cardinality(Earlier(g, n + 1)) = n
    <3> DEFINE k == n + 1
    <3>1. Cardinality(Earlier(g, k)) = k - 1
      <4>1. k \in 1 .. n + 1
        BY <2>1
      <4> HIDE DEF k
      <4> QED
        BY <1>3, <1>n, <4>1, RankOfListed, Zenon
    <3>2. k - 1 = n
      BY <2>1
    <3> QED
      BY <3>1, <3>2
  <2>3. Earlier(g, n + 1) = 1 .. Len(u)
    BY <1>0, <1>1, <1>2, <2>1 DEF Earlier
  <2>4. Cardinality(1 .. Len(u)) = IF 1 > Len(u) THEN 0 ELSE Len(u) - 1 + 1
    <3>1. 1 \in Int /\ Len(u) \in Int
      BY <1>0
    <3> QED
      BY <3>1, FS_Interval
  <2>5. Len(u) = Cardinality(1 .. Len(u))
    BY <1>0, <2>4
  <2> QED
    BY <2>2, <2>3, <2>5
<1>5. ASSUME NEW k \in 1 .. n PROVE rank(g[k]) = k - 1
  <2>1. {j \in DOMAIN u : Before(u[j].at, u[g[k]].at)} = {g[m] : m \in 1 .. k - 1}
    <3>1. ASSUME NEW j \in DOMAIN u, Before(u[j].at, u[g[k]].at)
          PROVE  j \in {g[m] : m \in 1 .. k - 1}
      <4>1. PICK m \in 1 .. n : g[m] = j
        BY <1>2
      <4>2. Before(r[m].at, r[k].at)
        BY <1>1, <3>1, <4>1
      <4>3. m < k
        BY <1>0, <4>2, PlacesApart
      <4>4. m \in 1 .. k - 1
        BY <1>0, <4>3
      <4> QED
        BY <4>1, <4>4
    <3>2. ASSUME NEW m \in 1 .. k - 1
          PROVE  g[m] \in DOMAIN u /\ Before(u[g[m]].at, u[g[k]].at)
      <4>1. m \in 1 .. n /\ m < k
        BY <1>0
      <4>2. Before(r[m].at, r[k].at)
        BY <1>0, <4>1, PlacesApart
      <4> QED
        BY <1>1, <4>1, <4>2
    <3> QED
      BY <3>1, <3>2
  <2>2. k \in 1 .. n + 1
    BY <1>0
  <2>3. Cardinality(Earlier(g, k)) = k - 1
    BY <1>3, <1>n, <2>2, RankOfListed, Zenon
  <2> QED
    BY <2>1, <2>3 DEF Earlier
<1>6. ASSUME NEW k \in 1 .. n
      PROVE  (CHOOSE i \in DOMAIN u : rank(i) = k - 1) = g[k]
  <2> DEFINE c == CHOOSE i \in DOMAIN u : rank(i) = k - 1
  <2>1. g[k] \in DOMAIN u /\ rank(g[k]) = k - 1
    BY <1>1, <1>5
  <2> HIDE DEF rank
  <2>2. c \in DOMAIN u /\ rank(c) = k - 1
    BY <2>1
  <2>3. PICK m \in 1 .. n : g[m] = c
    BY <1>2, <2>2
  <2>4. rank(g[m]) = m - 1
    BY <1>5
  <2>5. m = k
    BY <1>0, <2>2, <2>3, <2>4
  <2> QED
    BY <2>3, <2>5
<1>7. Sorted(u) = [k \in DOMAIN u |-> u[CHOOSE i \in DOMAIN u : rank(i) = k - 1]]
  BY DEF Sorted
<1> HIDE DEF rank
<1>8. DOMAIN u = 1 .. n
  BY <1>0, <1>4
<1>9. \A k \in 1 .. n : u[CHOOSE i \in DOMAIN u : rank(i) = k - 1] = r[k]
  BY <1>1, <1>6
<1>10. Sorted(u) = [k \in 1 .. n |-> r[k]]
  BY <1>7, <1>8, <1>9
<1> QED
  BY <1>0, <1>10

(* A list of the places of P is P in order.                                *)
LEMMA ListedInOrder ==
  ASSUME NEW S, NEW r \in Seq(S), \A k \in DOMAIN r : r[k].at \in Place,
         NEW P, Lists(r, P)
  PROVE  Places(r) = InOrder(P)
<1> DEFINE n == Len(r)
           f == [m \in 1 .. n |-> r[m].at]
           rank(p) == Cardinality({q \in P : Before(q, p)})
<1>0. DOMAIN r = 1 .. n /\ n \in Nat /\ InPlace(r)
  BY DEF Lists
<1> HIDE DEF n
<1>1. /\ \A m \in 1 .. n : f[m] \in P /\ f[m] = r[m].at
      /\ \A p \in P : \E m \in 1 .. n : f[m] = p
  BY <1>0 DEF Lists
<1> HIDE DEF f
<1>2. \A l, m \in 1 .. n : (f[l] = f[m] => l = m) /\ (Before(f[l], f[m]) <=> l < m)
  BY <1>0, <1>1, PlacesApart
<1>n. n \in Nat
  BY <1>0
<1>m. Apart(f, n)
  BY <1>2 DEF Apart
<1>3. Cardinality(P) = n
  <2> DEFINE k == n + 1
  <2>1. Cardinality(Earlier(f, k)) = k - 1
    <3>1. k \in 1 .. n + 1
      BY <1>0
    <3> HIDE DEF k
    <3> QED
      BY <1>n, <1>m, <3>1, RankOfListed, Zenon
  <2>2. k - 1 = n
    BY <1>0
  <2>3. Earlier(f, k) = P
    BY <1>1, <2>2 DEF Earlier
  <2> HIDE DEF k
  <2> QED
    BY <2>1, <2>2, <2>3
<1>4. ASSUME NEW k \in 1 .. n PROVE rank(f[k]) = k - 1
  <2>1. {q \in P : Before(q, f[k])} = Earlier(f, k)
    <3>1. ASSUME NEW q \in P, Before(q, f[k]) PROVE q \in {f[m] : m \in 1 .. k - 1}
      <4>1. PICK m \in 1 .. n : f[m] = q
        BY <1>1
      <4>2. m < k
        BY <1>2, <3>1, <4>1
      <4>3. m \in 1 .. k - 1
        BY <1>0, <4>2
      <4> QED
        BY <4>1, <4>3
    <3>2. ASSUME NEW m \in 1 .. k - 1 PROVE f[m] \in P /\ Before(f[m], f[k])
      <4>1. m \in 1 .. n /\ m < k
        BY <1>0
      <4> QED
        BY <1>1, <1>2, <4>1
    <3> QED
      BY <3>1, <3>2 DEF Earlier
  <2>2. k \in 1 .. n + 1
    BY <1>0
  <2> QED
    BY <1>n, <1>m, <2>1, <2>2, RankOfListed, Zenon
<1>5. ASSUME NEW k \in 1 .. n PROVE (CHOOSE p \in P : rank(p) = k - 1) = f[k]
  <2> DEFINE c == CHOOSE p \in P : rank(p) = k - 1
  <2>1. f[k] \in P /\ rank(f[k]) = k - 1
    BY <1>1, <1>4
  <2> HIDE DEF rank
  <2>2. c \in P /\ rank(c) = k - 1
    BY <2>1
  <2>3. PICK m \in 1 .. n : f[m] = c
    BY <1>1, <2>2
  <2>4. rank(f[m]) = m - 1
    BY <1>4
  <2>5. m = k
    BY <1>0, <2>2, <2>3, <2>4
  <2> QED
    BY <2>3, <2>5
<1>6. InOrder(P) = [k \in 1 .. Cardinality(P) |-> CHOOSE p \in P : rank(p) = k - 1]
  BY DEF InOrder
<1> HIDE DEF rank
<1>7. InOrder(P) = [k \in 1 .. n |-> f[k]]
  BY <1>3, <1>5, <1>6
<1>8. Places(r) = [k \in 1 .. n |-> r[k].at]
  BY <1>0 DEF Places
<1> QED
  BY <1>1, <1>7, <1>8

-------------------------------------------------------------------------------
(* Segments of a body, and the includes within them.                       *)

(* What capture_body makes of a marker: the marker and its place.          *)
Segment == [at : Place, marker : Marker]

(* The same of an include.                                                 *)
IncludeSegment == [at : Place, marker : Include]

(* A marker is an include, or it has a body of includes.                   *)
LEMMA MarkerKinds ==
  ASSUME NEW m \in Marker
  PROVE  /\ m.type \in {"include", "tag", "selectKey"}
         /\ m.type = "include" => m \in Include
         /\ m.type # "include" => m.body \in Seq(Include) /\ m.body \in Seq(Marker)
         /\ m.type = "selectKey" => m.db \in DatabaseId \cup {None}
<1>1. Include \subseteq Marker
  BY DEF Marker
<1>2. CASE m \in Include
  <2>1. m.type = "include"
    BY <1>2 DEF Include
  <2> QED
    BY <1>2, <2>1
<1>3. CASE m \in [type : {"tag"}, body : Seq(Include)]
  <2>1. m.type = "tag" /\ m.body \in Seq(Include)
    BY <1>3
  <2>2. m.body \in Seq(Marker)
    BY <1>1, <2>1
  <2> QED
    BY <2>1, <2>2
<1>4. CASE m \in [type : {"selectKey"}, db : DatabaseId \cup {None}, body : Seq(Include)]
  <2>1. m.type = "selectKey" /\ m.body \in Seq(Include) /\ m.db \in DatabaseId \cup {None}
    BY <1>4
  <2>2. m.body \in Seq(Marker)
    BY <1>1, <2>1
  <2> QED
    BY <2>1, <2>2
<1> QED
  BY <1>2, <1>3, <1>4 DEF Marker

(* What a body's segments are.                                             *)
LEMMA SegmentsOf ==
  ASSUME NEW S, NEW at \in Place, NEW body \in Seq(S)
  PROVE  Segments(at, body) \in Seq([at : Place, marker : S])
<1> DEFINE s == Segments(at, body)
<1>1. s = [i \in 1 .. Len(body) |-> [at |-> Append(at, i), marker |-> body[i]]]
      /\ DOMAIN body = 1 .. Len(body) /\ Len(body) \in Nat
  BY DEF Segments
<1>2. \A i \in 1 .. Len(body) : body[i] \in S /\ i \in Nat
  OBVIOUS
<1>3. \A i \in 1 .. Len(body) : Append(at, i) \in Place
  BY <1>2, FartherDown
<1> HIDE DEF s
<1>4. \A i \in 1 .. Len(body) : s[i] \in [at : Place, marker : S]
  BY <1>1, <1>2, <1>3
<1>5. s \in Seq([at : Place, marker : S])
  BY <1>1, <1>4
<1> QED
  BY <1>5 DEF s

(* Segments right under one place, in document order.                      *)
Siblings(segments, at) ==
  /\ InPlace(segments)
  /\ \A k \in DOMAIN segments : \E a \in Nat : segments[k].at = Append(at, a)

(* A body's segments are siblings.                                         *)
LEMMA SegmentsSiblings ==
  ASSUME NEW at \in Place, NEW body \in Seq(Marker)
  PROVE  Siblings(Segments(at, body), at)
<1> DEFINE s == Segments(at, body)
<1>1. /\ DOMAIN s = DOMAIN body
      /\ \A i \in DOMAIN body : s[i] = [at |-> Append(at, i), marker |-> body[i]]
  BY DEF Segments
<1>2. DOMAIN body \subseteq Nat
  OBVIOUS
<1> HIDE DEF s
<1>3. \A i \in DOMAIN s : s[i].at = Append(at, i) /\ i \in Nat
  BY <1>1, <1>2
<1>4. \A i, j \in DOMAIN s : i < j => Before(s[i].at, s[j].at)
  <2> SUFFICES ASSUME NEW i \in DOMAIN s, NEW j \in DOMAIN s, i < j
               PROVE  Before(s[i].at, s[j].at)
    OBVIOUS
  <2>1. i \in Nat /\ j \in Nat
    BY <1>3
  <2>2. /\ Append(at, i) \in Place /\ Append(at, j) \in Place
        /\ Under(Append(at, i), Append(at, i)) /\ Under(Append(at, j), Append(at, j))
    BY <2>1, FartherDown
  <2>3. Before(Append(at, i), Append(at, j))
    BY <2>1, <2>2, SiblingsBefore
  <2> QED
    BY <1>3, <2>3
<1> QED
  BY <1>3, <1>4 DEF Siblings, InPlace, s

(* A selection of siblings are siblings.                                   *)
LEMMA OnlySiblings ==
  ASSUME NEW S, NEW s \in Seq(S), NEW K, NEW at, Siblings(s, at)
  PROVE  Siblings(Only(s, K), at)
<1> DEFINE r == Only(s, K)
<1>1. PICK w : r \in Seq(S) /\ Picks(r, w, s, K, Len(s))
  BY OnlyPicks
<1>2. DOMAIN s = 1 .. Len(s) /\ DOMAIN r = 1 .. Len(r) /\ Len(r) \in Nat
  BY <1>1
<1>3. InPlace(r)
  BY OnlyInPlace DEF Siblings
<1> HIDE DEF r
<1>4. \A k \in DOMAIN r : w[k] \in DOMAIN s /\ r[k] = s[w[k]]
  BY <1>1, <1>2 DEF Picks
<1> QED
  BY <1>3, <1>4 DEF Siblings, r

(* What is under one sibling is before what is under a later one.          *)
LEMMA SiblingsApart ==
  ASSUME NEW S, NEW s \in Seq(S), NEW at \in Place, Siblings(s, at),
         NEW j \in DOMAIN s, NEW k \in DOMAIN s, j < k,
         NEW p \in Place, NEW q \in Place, Under(p, s[j].at), Under(q, s[k].at)
  PROVE  Before(p, q)
<1>1. PICK a \in Nat : s[j].at = Append(at, a)
  BY DEF Siblings
<1>2. PICK b \in Nat : s[k].at = Append(at, b)
  BY DEF Siblings
<1>3. Append(at, a) \in Place /\ Append(at, b) \in Place
      /\ Under(Append(at, a), Append(at, a)) /\ Under(Append(at, b), Append(at, b))
  BY FartherDown
<1>4. Before(Append(at, a), Append(at, b))
  BY <1>1, <1>2 DEF Siblings, InPlace
<1>5. a < b
  <2>1. CASE b < a
    BY <2>1, <1>3, <1>4, SiblingsBefore, BeforeOneWay
  <2>2. CASE a = b
    BY <2>2, <1>3, <1>4, BeforeOneWay
  <2> QED
    BY <2>1, <2>2
<1> QED
  BY <1>1, <1>2, <1>5, SiblingsBefore

(* The includes within a segment: itself, or what its body holds, and      *)
(* nothing that is not under it.                                           *)
LEMMA WithinSegment ==
  ASSUME NEW s \in Segment
  PROVE  /\ Within(s) \in Seq(IncludeSegment) /\ InPlace(Within(s))
         /\ s.marker.type = "include" => ToSet(Within(s)) = {s}
         /\ s.marker.type # "include" =>
              ToSet(Within(s)) = {[at |-> Append(s.at, k), marker |-> s.marker.body[k]] :
                                     k \in DOMAIN s.marker.body}
         /\ \A x \in ToSet(Within(s)) : Under(x.at, s.at)
<1>1. s.at \in Place /\ s.marker \in Marker /\ s = [at |-> s.at, marker |-> s.marker]
  BY DEF Segment
<1>2. CASE s.marker.type = "include"
  <2>1. s.marker \in Include
    BY <1>1, <1>2, MarkerKinds
  <2>2. s \in IncludeSegment
    BY <1>1, <2>1 DEF IncludeSegment
  <2>3. Within(s) = <<s>>
    BY <1>2 DEF Within
  <2>4. <<s>> \in Seq(IncludeSegment) /\ InPlace(<<s>>)
    BY <2>2 DEF InPlace
  <2>5. ToSet(<<s>>) = {s}
    BY DEF ToSet
  <2>6. Under(s.at, s.at)
    BY <1>1, FartherDown, 0 \in Nat
  <2> QED
    BY <1>2, <2>3, <2>4, <2>5, <2>6
<1>3. CASE s.marker.type # "include"
  <2> DEFINE b == s.marker.body
             w == Segments(s.at, b)
  <2>1. b \in Seq(Include) /\ b \in Seq(Marker)
    BY <1>1, <1>3, MarkerKinds
  <2>3. /\ w \in Seq([at : Place, marker : Include]) /\ DOMAIN w = DOMAIN b
        /\ \A i \in DOMAIN b : w[i] = [at |-> Append(s.at, i), marker |-> b[i]]
    <3>1. w \in Seq([at : Place, marker : Include])
      BY <1>1, <2>1, SegmentsOf
    <3>2. /\ DOMAIN w = DOMAIN b
          /\ \A i \in DOMAIN b : w[i] = [at |-> Append(s.at, i), marker |-> b[i]]
      BY DEF Segments
    <3> QED
      BY <3>1, <3>2
  <2>4. InPlace(w)
    BY <1>1, <2>1, SegmentsSiblings DEF Siblings
  <2>5. Within(s) = w
    BY <1>3 DEF Within
  <2>6. DOMAIN b \subseteq Nat
    BY <2>1
  <2> HIDE DEF w, b
  <2>7. ToSet(w) = {[at |-> Append(s.at, k), marker |-> b[k]] : k \in DOMAIN b}
    BY <2>3 DEF ToSet
  <2>8. \A x \in ToSet(w) : Under(x.at, s.at)
    <3> TAKE x \in ToSet(w)
    <3>1. PICK k \in DOMAIN b : x = [at |-> Append(s.at, k), marker |-> b[k]]
      BY <2>7
    <3>2. x.at = Append(s.at, k) /\ k \in Nat
      BY <2>6, <3>1
    <3> QED
      BY <1>1, <3>2, FartherDown
  <2> QED
    BY <1>3, <2>3, <2>4, <2>5, <2>7, <2>8 DEF IncludeSegment, b
<1> QED
  BY <1>2, <1>3

(* The second pass finds all includes within the segments, in document     *)
(* order.                                                                  *)
LEMMA AllIncludesFound ==
  ASSUME NEW at \in Place, NEW segments \in Seq(Segment), Siblings(segments, at)
  PROVE  /\ AllIncludes(segments) \in Seq(IncludeSegment)
         /\ InPlace(AllIncludes(segments))
         /\ ToSet(AllIncludes(segments)) = UNION {ToSet(Within(s)) : s \in ToSet(segments)}
<1> DEFINE ss == [k \in DOMAIN segments |-> Within(segments[k])]
<1>1. /\ DOMAIN segments = 1 .. Len(segments) /\ Len(segments) \in Nat
      /\ \A k \in DOMAIN segments : segments[k] \in Segment
  OBVIOUS
<1>2. \A k \in DOMAIN segments : /\ Within(segments[k]) \in Seq(IncludeSegment)
                                 /\ InPlace(Within(segments[k]))
                                 /\ \A x \in ToSet(Within(segments[k])) :
                                      Under(x.at, segments[k].at)
  BY <1>1, WithinSegment
<1>3. ss \in Seq(Seq(IncludeSegment)) /\ DOMAIN ss = DOMAIN segments
      /\ \A k \in DOMAIN segments : ss[k] = Within(segments[k])
  BY <1>1, <1>2
<1>4. AllIncludes(segments) = Together(ss)
  BY DEF AllIncludes
<1> HIDE DEF ss
<1>5. /\ Together(ss) \in Seq(IncludeSegment)
      /\ ToSet(Together(ss)) = UNION {ToSet(ss[m]) : m \in DOMAIN ss}
  BY <1>3, SetOfTogether
<1>6. UNION {ToSet(ss[m]) : m \in DOMAIN ss} = UNION {ToSet(Within(s)) : s \in ToSet(segments)}
  <2>1. ToSet(segments) = {segments[m] : m \in DOMAIN segments}
    BY DEF ToSet
  <2>2. \A x : x \in UNION {ToSet(ss[m]) : m \in DOMAIN ss}
               <=> \E m \in DOMAIN segments : x \in ToSet(Within(segments[m]))
    BY <1>3
  <2>3. \A x : x \in UNION {ToSet(Within(s)) : s \in ToSet(segments)}
               <=> \E m \in DOMAIN segments : x \in ToSet(Within(segments[m]))
    BY <2>1
  <2> QED
    BY <2>2, <2>3
<1>7. InPlace(Together(ss))
  <2>1. \A m \in DOMAIN ss : InPlace(ss[m])
    BY <1>2, <1>3
  <2>2. ASSUME NEW m \in DOMAIN ss, NEW o \in DOMAIN ss, m < o,
               NEW x \in ToSet(ss[m]), NEW y \in ToSet(ss[o])
        PROVE  Before(x.at, y.at)
    <3>1. x \in IncludeSegment /\ y \in IncludeSegment
      BY <1>2, <1>3 DEF ToSet
    <3>2. x.at \in Place /\ y.at \in Place
      BY <3>1 DEF IncludeSegment
    <3>3. Under(x.at, segments[m].at) /\ Under(y.at, segments[o].at)
      BY <1>2, <1>3
    <3> QED
      BY <1>3, <2>2, <3>2, <3>3, SiblingsApart
  <2> QED
    BY <1>3, <2>1, <2>2, TogetherInPlace
<1> QED
  BY <1>4, <1>5, <1>6, <1>7

(* merge_includes of a list and one that holds all of it is that one: what *)
(* the first pass found is found again.                                    *)
LEMMA MergeAbsorbs ==
  ASSUME NEW S, \A x \in S : x.at \in Place,
         NEW top \in Seq(S), NEW nested \in Seq(S), InPlace(top), InPlace(nested),
         ToSet(top) \subseteq ToSet(nested)
  PROVE  Merge(top, nested) = nested
<1> DEFINE K == {k \in DOMAIN nested : \A j \in DOMAIN top : top[j].at # nested[k].at}
           r == Only(nested, K)
           u == top \o r
<1>1. /\ DOMAIN top = 1 .. Len(top) /\ Len(top) \in Nat
      /\ DOMAIN nested = 1 .. Len(nested) /\ Len(nested) \in Nat
      /\ \A k \in DOMAIN top : top[k] \in S /\ top[k].at \in Place
      /\ \A k \in DOMAIN nested : nested[k] \in S /\ nested[k].at \in Place
  OBVIOUS
<1>2. r \in Seq(S) /\ ToSet(r) = {nested[j] : j \in K \cap DOMAIN nested}
  BY SetOfOnly
<1>3. InPlace(r)
  BY OnlyInPlace
<1>4. K \subseteq DOMAIN nested /\ \A k \in K : \A j \in DOMAIN top : top[j].at # nested[k].at
  OBVIOUS
<1>5. \A k \in DOMAIN nested \ K : \E j \in DOMAIN top : top[j].at = nested[k].at
  OBVIOUS
<1>6. MergeUnsorted(top, nested) = u
  BY DEF MergeUnsorted
<1> HIDE DEF K, r
<1>7. /\ u \in Seq(S) /\ Len(u) = Len(top) + Len(r) /\ DOMAIN u = 1 .. Len(u)
      /\ \A k \in 1 .. Len(u) :
              \/ k \in 1 .. Len(top) /\ u[k] = top[k]
              \/ k - Len(top) \in 1 .. Len(r) /\ u[k] = r[k - Len(top)]
  BY <1>2, Joined
<1>8. ToSet(u) = ToSet(top) \cup ToSet(r)
  BY <1>2, SetOfJoined
<1> HIDE DEF u
<1>9. DOMAIN r = 1 .. Len(r) /\ Len(r) \in Nat /\ \A k \in DOMAIN r : r[k].at \in Place
  BY <1>2
<1>10. ToSet(u) = ToSet(nested)
  <2>1. ToSet(r) \subseteq ToSet(nested)
    BY <1>2 DEF ToSet
  <2>2. ASSUME NEW k \in DOMAIN nested PROVE nested[k] \in ToSet(top) \cup ToSet(r)
    <3>1. CASE k \in K
      BY <1>2, <3>1
    <3>2. CASE k \notin K
      <4>1. PICK j \in DOMAIN top : top[j].at = nested[k].at
        BY <1>5, <3>2
      <4>2. top[j] \in ToSet(nested)
        BY DEF ToSet
      <4>3. PICK m \in DOMAIN nested : nested[m] = top[j]
        BY <4>2 DEF ToSet
      <4>4. m = k
        BY <1>1, <4>1, <4>3, PlacesApart
      <4> QED
        BY <4>3, <4>4 DEF ToSet
    <3> QED
      BY <3>1, <3>2
  <2>3. ToSet(nested) \subseteq ToSet(top) \cup ToSet(r)
    BY <2>2 DEF ToSet
  <2> QED
    BY <1>8, <2>1, <2>3
<1>11. \A j \in DOMAIN top, k \in DOMAIN r : top[j].at # r[k].at
  <2> TAKE j \in DOMAIN top, k \in DOMAIN r
  <2>1. r[k] \in ToSet(r)
    BY DEF ToSet
  <2>2. PICK m \in K : r[k] = nested[m]
    BY <1>2, <2>1
  <2> QED
    BY <1>4, <2>2
<1>12. ASSUME NEW i \in DOMAIN u, NEW j \in DOMAIN u, u[i].at = u[j].at PROVE i = j
  <2>0. i \in Nat /\ j \in Nat
    BY <1>7
  <2>1. CASE i \in 1 .. Len(top) /\ u[i] = top[i]
    <3>1. CASE j \in 1 .. Len(top) /\ u[j] = top[j]
      BY <1>1, <1>12, <2>1, <3>1, PlacesApart
    <3>2. CASE j - Len(top) \in 1 .. Len(r) /\ u[j] = r[j - Len(top)]
      BY <1>1, <1>9, <1>11, <1>12, <2>1, <3>2
    <3> QED
      BY <1>7, <3>1, <3>2
  <2>2. CASE i - Len(top) \in 1 .. Len(r) /\ u[i] = r[i - Len(top)]
    <3>1. CASE j \in 1 .. Len(top) /\ u[j] = top[j]
      BY <1>1, <1>9, <1>11, <1>12, <2>2, <3>1
    <3>2. CASE j - Len(top) \in 1 .. Len(r) /\ u[j] = r[j - Len(top)]
      <4>1. i - Len(top) = j - Len(top)
        BY <1>2, <1>3, <1>9, <1>12, <2>2, <3>2, PlacesApart, SMTT(30)
      <4> QED
        BY <1>1, <2>0, <4>1
    <3> QED
      BY <1>7, <3>1, <3>2
  <2> QED
    BY <1>7, <2>1, <2>2
<1>13. Sorted(u) = nested
  <2>1. \A i, j \in DOMAIN u : u[i].at = u[j].at => i = j
    BY <1>12
  <2>2. \A k \in DOMAIN nested : nested[k].at \in Place
    BY <1>1
  <2> QED
    BY <1>7, <1>10, <2>1, <2>2, SortedLists
<1> QED
  BY <1>6, <1>13 DEF Merge

(* What an include with a refid is in the result.                          *)
Ref(x) == [at |-> x.at, refid |-> x.marker.refid, target |-> Target(x.marker.refid)]

(* What lifting makes of includes: those with a refid, in their order.     *)
LEMMA RefsOf ==
  ASSUME NEW s \in Seq(IncludeSegment), InPlace(s)
  PROVE  /\ WithRefid(s) \in Seq(IncludeRef) /\ InPlace(WithRefid(s))
         /\ ToSet(WithRefid(s)) = {Ref(x) : x \in {y \in ToSet(s) : y.marker.refid # None}}
<1> DEFINE r == Only(s, Named(s))
           w == WithRefid(s)
<1>1. r \in Seq(IncludeSegment) /\ ToSet(r) = {s[j] : j \in Named(s) \cap DOMAIN s}
  BY SetOfOnly
<1>2. InPlace(r)
  BY OnlyInPlace
<1>3. w = [k \in DOMAIN r |-> Ref(r[k])]
  BY DEF WithRefid, Ref
<1> HIDE DEF r, w
<1>4. ToSet(r) = {y \in ToSet(s) : y.marker.refid # None}
  <2>1. Named(s) = {k \in DOMAIN s : s[k].marker.refid # None}
    BY DEF Named
  <2> QED
    BY <1>1, <2>1 DEF ToSet
<1>5. DOMAIN r = 1 .. Len(r) /\ Len(r) \in Nat
  BY <1>1
<1>6. ASSUME NEW k \in DOMAIN r PROVE Ref(r[k]) \in IncludeRef
  <2>1. r[k] \in IncludeSegment /\ r[k].marker.refid # None
    BY <1>1, <1>4 DEF ToSet
  <2>2. r[k].at \in Place /\ r[k].marker.refid \in Id
    BY <2>1 DEF IncludeSegment, Include
  <2>3. Target(r[k].marker.refid) \in {"Local", "Qualified", "Dynamic"}
    BY DEF Target
  <2> QED
    BY <2>2, <2>3 DEF Ref, IncludeRef
<1>7. w \in Seq(IncludeRef) /\ DOMAIN w = DOMAIN r /\ \A k \in DOMAIN r : w[k] = Ref(r[k])
  BY <1>3, <1>5, <1>6
<1>8. \A k \in DOMAIN r : w[k].at = r[k].at
  BY <1>7 DEF Ref
<1>9. InPlace(w)
  BY <1>2, <1>7, <1>8 DEF InPlace
<1>10. ToSet(w) = {Ref(x) : x \in ToSet(r)}
  <2>1. ToSet(w) = {w[k] : k \in DOMAIN r} /\ ToSet(r) = {r[k] : k \in DOMAIN r}
    BY <1>7 DEF ToSet
  <2>2. {w[k] : k \in DOMAIN r} = {Ref(r[k]) : k \in DOMAIN r}
    BY <1>7
  <2>3. {Ref(x) : x \in {r[k] : k \in DOMAIN r}} = {Ref(r[k]) : k \in DOMAIN r}
    BY Zenon
  <2> QED
    BY <2>1, <2>2, <2>3
<1> QED
  BY <1>4, <1>7, <1>9, <1>10 DEF w

(* The segments of a type.                                                 *)
LEMMA OfTypeFound ==
  ASSUME NEW segments \in Seq(Segment), NEW type
  PROVE  /\ OfType(segments, type) \in Seq(Segment)
         /\ ToSet(OfType(segments, type)) = {s \in ToSet(segments) : s.marker.type = type}
<1> DEFINE K == {k \in DOMAIN segments : segments[k].marker.type = type}
<1>1. /\ Only(segments, K) \in Seq(Segment)
      /\ ToSet(Only(segments, K)) = {segments[j] : j \in K \cap DOMAIN segments}
  BY SetOfOnly
<1>2. {segments[j] : j \in K \cap DOMAIN segments} = {s \in ToSet(segments) : s.marker.type = type}
  BY DEF ToSet
<1> QED
  BY <1>1, <1>2 DEF OfType

(* The segments of any other type.                                         *)
LEMMA NotOfTypeFound ==
  ASSUME NEW segments \in Seq(Segment), NEW type
  PROVE  /\ NotOfType(segments, type) \in Seq(Segment)
         /\ ToSet(NotOfType(segments, type)) = {s \in ToSet(segments) : s.marker.type # type}
<1> DEFINE K == {k \in DOMAIN segments : segments[k].marker.type # type}
<1>1. /\ Only(segments, K) \in Seq(Segment)
      /\ ToSet(Only(segments, K)) = {segments[j] : j \in K \cap DOMAIN segments}
  BY SetOfOnly
<1>2. {segments[j] : j \in K \cap DOMAIN segments} = {s \in ToSet(segments) : s.marker.type # type}
  BY DEF ToSet
<1> QED
  BY <1>1, <1>2 DEF NotOfType

(* The includes among siblings, in document order.                         *)
LEMMA IncludesAreSegments ==
  ASSUME NEW segments \in Seq(Segment), NEW at, Siblings(segments, at)
  PROVE  /\ OfType(segments, "include") \in Seq(IncludeSegment)
         /\ InPlace(OfType(segments, "include"))
<1> DEFINE t == OfType(segments, "include")
<1>1. t \in Seq(Segment) /\ ToSet(t) = {s \in ToSet(segments) : s.marker.type = "include"}
  BY OfTypeFound
<1>2. InPlace(t)
  BY OnlyInPlace DEF OfType, Siblings
<1> HIDE DEF t
<1>3. ASSUME NEW k \in DOMAIN t PROVE t[k] \in IncludeSegment
  <2>1. t[k] \in Segment /\ t[k].marker.type = "include"
    BY <1>1 DEF ToSet
  <2>2. t[k].at \in Place /\ t[k].marker \in Marker /\ t[k] = [at |-> t[k].at, marker |-> t[k].marker]
    BY <2>1 DEF Segment
  <2>3. t[k].marker \in Include
    BY <2>1, <2>2, MarkerKinds
  <2> QED
    BY <2>2, <2>3 DEF IncludeSegment
<1>4. t \in Seq(IncludeSegment)
  BY <1>1, <1>3
<1> QED
  BY <1>2, <1>4 DEF t

(* Both passes merged are what the second one found.                       *)
LEMMA BodyIncludes ==
  ASSUME NEW at \in Place, NEW segments \in Seq(Segment), Siblings(segments, at),
         NEW capped
  PROVE  Body(segments, capped).includes = WithRefid(AllIncludes(segments))
<1> DEFINE t == OfType(segments, "include")
           a == AllIncludes(segments)
<1>1. t \in Seq(IncludeSegment) /\ InPlace(t)
  BY IncludesAreSegments
<1>2. /\ a \in Seq(IncludeSegment) /\ InPlace(a)
      /\ ToSet(a) = UNION {ToSet(Within(s)) : s \in ToSet(segments)}
  BY AllIncludesFound
<1>3. ToSet(t) = {s \in ToSet(segments) : s.marker.type = "include"}
  BY OfTypeFound
<1>4. Body(segments, capped).includes = Merge(WithRefid(t), WithRefid(a))
  BY DEF Body
<1> HIDE DEF t, a
<1>5. ToSet(t) \subseteq ToSet(a)
  <2> SUFFICES ASSUME NEW s \in ToSet(segments), s.marker.type = "include"
               PROVE  s \in ToSet(a)
    BY <1>3
  <2>1. s \in Segment
    BY DEF ToSet
  <2>2. ToSet(Within(s)) = {s}
    BY <2>1, WithinSegment
  <2> QED
    BY <1>2, <2>2
<1>6. /\ WithRefid(t) \in Seq(IncludeRef) /\ InPlace(WithRefid(t))
      /\ ToSet(WithRefid(t)) = {Ref(x) : x \in {y \in ToSet(t) : y.marker.refid # None}}
  BY <1>1, RefsOf
<1>7. /\ WithRefid(a) \in Seq(IncludeRef) /\ InPlace(WithRefid(a))
      /\ ToSet(WithRefid(a)) = {Ref(x) : x \in {y \in ToSet(a) : y.marker.refid # None}}
  BY <1>2, RefsOf
<1>8. ToSet(WithRefid(t)) \subseteq ToSet(WithRefid(a))
  BY <1>5, <1>6, <1>7
<1>9. \A x \in IncludeRef : x.at \in Place
  BY DEF IncludeRef
<1> QED
  BY <1>4, <1>6, <1>7, <1>8, <1>9, MergeAbsorbs DEF t, a

-------------------------------------------------------------------------------
(* The places of a document.                                               *)

(* What the places of a child, a marker and an include in a marker are     *)
(* made of.                                                                *)
LEMMA Paths ==
  ASSUME NEW c \in Nat, NEW i \in Nat, NEW k \in Nat
  PROVE  /\ <<c>> \in Place /\ Len(<<c>>) = 1 /\ <<c>>[1] = c
         /\ <<c, i>> \in Place /\ Len(<<c, i>>) = 2 /\ <<c, i>>[1] = c /\ <<c, i>>[2] = i
         /\ <<c, i, k>> \in Place /\ Len(<<c, i, k>>) = 3
         /\ <<c, i, k>>[1] = c /\ <<c, i, k>>[2] = i /\ <<c, i, k>>[3] = k
<1>1. <<c>> \in Place /\ Len(<<c>>) = 1 /\ <<c>>[1] = c
  BY DEF Place
<1>2. <<c, i>> \in Place /\ Len(<<c, i>>) = 2 /\ <<c, i>>[1] = c /\ <<c, i>>[2] = i
  BY DEF Place
<1>3. <<c, i, k>> \in Place /\ Len(<<c, i, k>>) = 3
  BY DEF Place
<1>4. <<c, i, k>>[1] = c /\ <<c, i, k>>[2] = i /\ <<c, i, k>>[3] = k
  OBVIOUS
<1> QED
  BY <1>1, <1>2, <1>3, <1>4

(* How they are made.                                                      *)
LEMMA PathsGrow ==
  \A c, i, k \in Nat : Append(<<c>>, i) = <<c, i>> /\ Append(<<c, i>>, k) = <<c, i, k>>
<1> SUFFICES ASSUME NEW c \in Nat, NEW i \in Nat, NEW k \in Nat
             PROVE  Append(<<c>>, i) = <<c, i>> /\ Append(<<c, i>>, k) = <<c, i, k>>
  OBVIOUS
<1>1. <<c>> \in Place /\ Len(<<c>>) = 1 /\ <<c>>[1] = c
  BY DEF Place
<1>2. <<c, i>> \in Place /\ Len(<<c, i>>) = 2 /\ <<c, i>>[1] = c /\ <<c, i>>[2] = i
  BY DEF Place
<1>3. <<c, i, k>> \in Place /\ Len(<<c, i, k>>) = 3
  BY DEF Place
<1>4. <<c, i, k>>[1] = c /\ <<c, i, k>>[2] = i /\ <<c, i, k>>[3] = k
  OBVIOUS
<1>5. Append(<<c>>, i) = <<c, i>>
  <2> DEFINE s == Append(<<c>>, i)
             t == <<c, i>>
  <2>1. s \in Seq(Nat) /\ Len(s) = 2 /\ s[1] = c /\ s[2] = i
    BY <1>1 DEF Place
  <2>2. t \in Seq(Nat) /\ Len(t) = 2 /\ t[1] = c /\ t[2] = i
    BY <1>2 DEF Place
  <2> HIDE DEF s, t
  <2>3. \A j \in 1 .. Len(s) : s[j] = t[j]
    BY <2>1, <2>2
  <2>4. s = t
    BY <2>1, <2>2, <2>3, SeqEqual
  <2> QED
    BY <2>4 DEF s, t
<1>6. Append(<<c, i>>, k) = <<c, i, k>>
  <2> DEFINE u == <<c, i>>
             s == Append(u, k)
             t == <<c, i, k>>
  <2>0. u \in Seq(Nat) /\ Len(u) = 2 /\ u[1] = c /\ u[2] = i
    BY <1>2 DEF Place
  <2>2. t \in Seq(Nat) /\ Len(t) = 3 /\ t[1] = c /\ t[2] = i /\ t[3] = k
    BY <1>3, <1>4 DEF Place
  <2> HIDE DEF u, t
  <2>1. s \in Seq(Nat) /\ Len(s) = 3 /\ s[1] = c /\ s[2] = i /\ s[3] = k
    <3>1. /\ Append(u, k) \in Seq(Nat) /\ Len(Append(u, k)) = Len(u) + 1
          /\ \A j \in 1 .. Len(u) : Append(u, k)[j] = u[j]
          /\ Append(u, k)[Len(u) + 1] = k
      BY <2>0, OneMore
    <3>2. 1 \in 1 .. 2 /\ 2 \in 1 .. 2 /\ 2 + 1 = 3
      OBVIOUS
    <3> QED
      BY <2>0, <3>1, <3>2
  <2> HIDE DEF s
  <2>3. \A j \in 1 .. Len(s) : s[j] = t[j]
    BY <2>1, <2>2
  <2>4. s = t
    BY <2>1, <2>2, <2>3, SeqEqual
  <2> QED
    BY <2>4 DEF s, t, u
<1> QED
  BY <1>5, <1>6

(* No two of them are the same.                                            *)
LEMMA PathsDiffer ==
  ASSUME NEW c, NEW i, NEW k, NEW d, NEW j, NEW l
  PROVE  /\ <<c, i>> = <<d, j>> => c = d /\ i = j
         /\ <<c, i, k>> = <<d, j, l>> => c = d /\ i = j /\ k = l
         /\ <<c>> = <<d>> => c = d
         /\ <<c>> # <<d, j>>
         /\ <<c>> # <<d, j, l>>
         /\ <<c, i>> # <<d, j, l>>
OBVIOUS

(* Of a document with children as they are.                                *)
Typed == document \in Seq(Child)

(* A child, and the markers of its body.                                   *)
LEMMA ChildAt ==
  ASSUME Typed, NEW n \in DOMAIN document
  PROVE  /\ n \in Nat /\ n >= 1 /\ document[n] \in Child /\ document[n].body \in Seq(Marker)
         /\ DOMAIN document[n].body = 1 .. Len(document[n].body)
         /\ Len(document[n].body) \in Nat
         /\ \A i \in DOMAIN document[n].body :
              /\ i \in Nat /\ document[n].body[i] \in Marker
              /\ document[n].body[i].type # "include" =>
                   /\ document[n].body[i].body \in Seq(Include)
                   /\ document[n].body[i].body \in Seq(Marker)
                   /\ DOMAIN document[n].body[i].body \subseteq Nat
<1>1. document \in Seq(Child) /\ n \in Nat /\ n >= 1 /\ document[n] \in Child
  BY DEF Typed
<1>2. document[n].body \in Seq(Marker)
  BY <1>1 DEF Child
<1>3. \A i \in DOMAIN document[n].body : i \in Nat /\ document[n].body[i] \in Marker
  BY <1>2
<1>4. \A i \in DOMAIN document[n].body : document[n].body[i].type # "include" =>
           /\ document[n].body[i].body \in Seq(Include)
           /\ document[n].body[i].body \in Seq(Marker)
  BY <1>3, MarkerKinds
<1>5. \A b \in Seq(Include) : DOMAIN b \subseteq Nat
  OBVIOUS
<1>6. \A b \in Seq(Marker) : DOMAIN b = 1 .. Len(b) /\ Len(b) \in Nat
  OBVIOUS
<1> QED
  BY <1>1, <1>2, <1>3, <1>4, <1>5, <1>6

(* The segments of a child's body.                                         *)
LEMMA MarkersOf ==
  ASSUME Typed, NEW n \in DOMAIN document
  PROVE  /\ Markers(n) \in Seq(Segment) /\ Siblings(Markers(n), <<n>>) /\ <<n>> \in Place
         /\ DOMAIN Markers(n) = DOMAIN document[n].body
         /\ \A i \in DOMAIN document[n].body :
              Markers(n)[i] = [at |-> <<n, i>>, marker |-> document[n].body[i]]
<1> DEFINE b == document[n].body
           s == Segments(<<n>>, b)
<1>1. n \in Nat /\ b \in Seq(Marker) /\ \A i \in DOMAIN b : i \in Nat
  BY ChildAt
<1>2. <<n>> \in Place /\ \A i \in DOMAIN b : Append(<<n>>, i) = <<n, i>>
  BY <1>1, Paths, PathsGrow
<1>4. Markers(n) = s
  BY DEF Markers
<1> HIDE DEF b
<1>5. /\ s \in Seq([at : Place, marker : Marker])
      /\ DOMAIN s = DOMAIN b
      /\ \A i \in DOMAIN b : s[i] = [at |-> Append(<<n>>, i), marker |-> b[i]]
  <2>1. s \in Seq([at : Place, marker : Marker])
    BY <1>1, <1>2, SegmentsOf
  <2>2. /\ DOMAIN s = DOMAIN b
        /\ \A i \in DOMAIN b : s[i] = [at |-> Append(<<n>>, i), marker |-> b[i]]
    BY DEF Segments
  <2> QED
    BY <2>1, <2>2
<1>6. Siblings(s, <<n>>)
  BY <1>1, <1>2, SegmentsSiblings
<1> HIDE DEF s
<1> QED
  BY <1>2, <1>4, <1>5, <1>6 DEF b, Segment

(* The includes in the i-th marker of child c.                             *)
IncludesIn(c, i) ==
  IF document[c].body[i].type = "include" THEN {<<c, i>>}
  ELSE {<<c, i, k>> : k \in DOMAIN document[c].body[i].body}

(* All includes, marker by marker.                                         *)
LEMMA IncludePlacesAre ==
  IncludePlaces = UNION {UNION {IncludesIn(c, i) : i \in DOMAIN document[c].body} :
                           c \in DOMAIN document}
<1> DEFINE direct(c) == {i \in DOMAIN document[c].body : document[c].body[i].type = "include"}
           In(c) == {<<c, i>> : i \in direct(c)} \cup
                      (UNION {{<<c, i, k>> : k \in DOMAIN document[c].body[i].body} :
                                i \in DOMAIN document[c].body \ direct(c)})
<1>1. IncludePlaces = UNION {In(c) : c \in DOMAIN document}
  BY DEF IncludePlaces
<1>2. ASSUME NEW c \in DOMAIN document
      PROVE  In(c) = UNION {IncludesIn(c, i) : i \in DOMAIN document[c].body}
  <2>1. ASSUME NEW p \in In(c)
        PROVE  p \in UNION {IncludesIn(c, i) : i \in DOMAIN document[c].body}
    <3>1. CASE p \in {<<c, i>> : i \in direct(c)}
      <4>1. PICK i \in DOMAIN document[c].body : /\ document[c].body[i].type = "include"
                                                 /\ p = <<c, i>>
        BY <3>1
      <4>2. p \in IncludesIn(c, i)
        BY <4>1 DEF IncludesIn
      <4> QED
        BY <4>2
    <3>2. CASE p \in UNION {{<<c, i, k>> : k \in DOMAIN document[c].body[i].body} :
                                i \in DOMAIN document[c].body \ direct(c)}
      <4>1. PICK i \in DOMAIN document[c].body :
               /\ document[c].body[i].type # "include"
               /\ p \in {<<c, i, k>> : k \in DOMAIN document[c].body[i].body}
        BY <3>2
      <4>2. p \in IncludesIn(c, i)
        BY <4>1 DEF IncludesIn
      <4> QED
        BY <4>2
    <3> QED
      BY <2>1, <3>1, <3>2
  <2>2. ASSUME NEW i \in DOMAIN document[c].body, NEW p \in IncludesIn(c, i)
        PROVE  p \in In(c)
    <3>1. CASE document[c].body[i].type = "include"
      BY <2>2, <3>1 DEF IncludesIn
    <3>2. CASE document[c].body[i].type # "include"
      <4>1. p \in {<<c, i, k>> : k \in DOMAIN document[c].body[i].body}
        BY <2>2, <3>2 DEF IncludesIn
      <4>2. i \in DOMAIN document[c].body \ direct(c)
        BY <3>2
      <4> QED
        BY <4>1, <4>2
    <3> QED
      BY <3>1, <3>2
  <2> QED
    BY <2>1, <2>2
<1> HIDE DEF In
<1> QED
  BY <1>1, <1>2

(* One include of a child: where it is, and whose.                         *)
LEMMA IncludeAt ==
  ASSUME Typed, NEW c \in DOMAIN document, NEW i \in DOMAIN document[c].body,
         NEW p \in IncludesIn(c, i)
  PROVE  /\ p \in IncludePlaces /\ p \in Place /\ p[1] = c /\ p[2] = i
         /\ MarkerAt(p) \in Include
         /\ \/ p = <<c, i>> /\ MarkerAt(p) = document[c].body[i]
               /\ document[c].body[i].type = "include"
            \/ \E k \in DOMAIN document[c].body[i].body :
                 /\ p = <<c, i, k>> /\ MarkerAt(p) = document[c].body[i].body[k]
                 /\ document[c].body[i].type # "include"
         /\ OwnerOf(p) = IF document[c].body[i].type = "selectKey" THEN <<c, i>> ELSE <<c>>
<1>1. c \in Nat /\ i \in Nat /\ document[c].body[i] \in Marker
  BY ChildAt
<1>2. p \in IncludePlaces
  BY IncludePlacesAre
<1>3. MarkerAt(<<c, i>>) = document[c].body[i]
  BY <1>1, Paths DEF MarkerAt
<1>4. CASE document[c].body[i].type = "include"
  <2>1. p = <<c, i>>
    BY <1>4 DEF IncludesIn
  <2>2. p \in Place /\ p[1] = c /\ p[2] = i /\ Len(p) = 2
    BY <1>1, <2>1, Paths
  <2>3. document[c].body[i] \in Include
    BY <1>1, <1>4, MarkerKinds
  <2>4. OwnerOf(p) = <<c>>
    BY <2>2 DEF OwnerOf
  <2> QED
    BY <1>2, <1>3, <1>4, <2>1, <2>2, <2>3, <2>4
<1>5. CASE document[c].body[i].type # "include"
  <2>1. PICK k \in DOMAIN document[c].body[i].body : p = <<c, i, k>>
    BY <1>5 DEF IncludesIn
  <2>2. document[c].body[i].body \in Seq(Include) /\ k \in Nat
    BY <1>5, ChildAt
  <2>3. p \in Place /\ p[1] = c /\ p[2] = i /\ p[3] = k /\ Len(p) = 3
    BY <1>1, <2>1, <2>2, Paths
  <2>4. MarkerAt(p) = document[c].body[i].body[k]
    BY <2>3 DEF MarkerAt
  <2>5. document[c].body[i].body[k] \in Include
    BY <2>2
  <2>6. OwnerOf(p) = IF document[c].body[i].type = "selectKey" THEN <<c, i>> ELSE <<c>>
    BY <1>3, <2>3 DEF OwnerOf
  <2> QED
    BY <1>2, <1>5, <2>1, <2>3, <2>4, <2>5, <2>6
<1> QED
  BY <1>4, <1>5

(* What is within a segment of a child is the includes there.              *)
LEMMA WithinMarker ==
  ASSUME Typed, NEW c \in DOMAIN document, NEW i \in DOMAIN document[c].body
  PROVE  /\ \A x \in ToSet(Within(Markers(c)[i])) :
              x.at \in IncludesIn(c, i) /\ x.marker = MarkerAt(x.at)
         /\ \A p \in IncludesIn(c, i) : \E x \in ToSet(Within(Markers(c)[i])) : x.at = p
<1> DEFINE s == Markers(c)[i]
<1>1. s = [at |-> <<c, i>>, marker |-> document[c].body[i]] /\ s \in Segment
  <2>1. /\ Markers(c) \in Seq(Segment) /\ i \in DOMAIN Markers(c)
        /\ Markers(c)[i] = [at |-> <<c, i>>, marker |-> document[c].body[i]]
    BY MarkersOf
  <2> QED
    BY <2>1
<1>2. s.at = <<c, i>> /\ s.marker = document[c].body[i] /\ c \in Nat /\ i \in Nat
  BY <1>1, ChildAt
<1> HIDE DEF s
<1>3. MarkerAt(<<c, i>>) = document[c].body[i]
  BY <1>2, Paths DEF MarkerAt
<1>4. CASE document[c].body[i].type = "include"
  <2>1. ToSet(Within(s)) = {s}
    BY <1>1, <1>2, <1>4, WithinSegment
  <2>2. IncludesIn(c, i) = {<<c, i>>}
    BY <1>4 DEF IncludesIn
  <2> QED
    BY <1>2, <1>3, <2>1, <2>2 DEF s
<1>5. CASE document[c].body[i].type # "include"
  <2> DEFINE b == document[c].body[i].body
             W == ToSet(Within(s))
  <2>1. W = {[at |-> Append(<<c, i>>, k), marker |-> b[k]] : k \in DOMAIN b}
    <3>1. ToSet(Within(s)) = {[at |-> Append(s.at, k), marker |-> s.marker.body[k]] :
                                 k \in DOMAIN s.marker.body}
      BY <1>1, <1>2, <1>5, WithinSegment
    <3> QED
      BY <1>2, <3>1
  <2>2. IncludesIn(c, i) = {<<c, i, k>> : k \in DOMAIN b}
    BY <1>5 DEF IncludesIn
  <2>3. DOMAIN b \subseteq Nat
    BY <1>5, ChildAt
  <2>4. ASSUME NEW k \in DOMAIN b
        PROVE  Append(<<c, i>>, k) = <<c, i, k>> /\ MarkerAt(<<c, i, k>>) = b[k]
    <3>1. k \in Nat
      BY <2>3
    <3>2. MarkerAt(<<c, i, k>>) = document[c].body[i].body[k]
      BY <1>2, <3>1, Paths DEF MarkerAt
    <3>3. Append(<<c, i>>, k) = <<c, i, k>>
      <4>1. c \in Nat /\ i \in Nat
        BY <1>2
      <4> QED
        BY <3>1, <4>1, PathsGrow
    <3> QED
      BY <3>2, <3>3
  <2> HIDE DEF b, W
  <2>5. ASSUME NEW x \in W PROVE x.at \in IncludesIn(c, i) /\ x.marker = MarkerAt(x.at)
    <3>1. PICK k \in DOMAIN b : x = [at |-> Append(<<c, i>>, k), marker |-> b[k]]
      BY <2>1
    <3>2. x.at = <<c, i, k>> /\ x.marker = b[k]
      BY <2>4, <3>1
    <3> QED
      BY <2>2, <2>4, <3>2
  <2>6. ASSUME NEW p \in IncludesIn(c, i) PROVE \E x \in W : x.at = p
    <3>1. PICK k \in DOMAIN b : p = <<c, i, k>>
      BY <2>2
    <3>2. [at |-> Append(<<c, i>>, k), marker |-> b[k]] \in W
      BY <2>1
    <3>3. [at |-> Append(<<c, i>>, k), marker |-> b[k]].at = p
      BY <2>4, <3>1
    <3> QED
      BY <3>2, <3>3
  <2> QED
    BY <2>5, <2>6 DEF W, s
<1> QED
  BY <1>4, <1>5

-------------------------------------------------------------------------------
(* The includes of statements, selectKeys and fragments.                   *)

(* Segments that are all the includes of an owner make includes that are   *)
(* sound.                                                                  *)
LEMMA IncludesSoundFrom ==
  ASSUME NEW a \in Seq(IncludeSegment), InPlace(a), NEW o,
         \A x \in ToSet(a) : /\ x.at \in IncludePlaces /\ OwnerOf(x.at) = o
                             /\ x.marker = MarkerAt(x.at),
         \A p \in IncludePlaces : OwnerOf(p) = o => \E x \in ToSet(a) : x.at = p
  PROVE  IncludesSound(WithRefid(a), o)
<1> DEFINE w == WithRefid(a)
           N == {y \in ToSet(a) : y.marker.refid # None}
<1>1. w \in Seq(IncludeRef) /\ InPlace(w) /\ ToSet(w) = {Ref(x) : x \in N}
  BY RefsOf
<1> HIDE DEF w
<1>2. ASSUME NEW k \in DOMAIN w
      PROVE  /\ w[k].at \in Owned(o) /\ w[k].refid = MarkerAt(w[k].at).refid
             /\ w[k].target = Target(w[k].refid)
  <2>1. w[k] \in ToSet(w)
    BY DEF ToSet
  <2>2. PICK x \in N : w[k] = Ref(x)
    BY <1>1, <2>1
  <2>3. w[k].at = x.at /\ w[k].refid = x.marker.refid /\ w[k].target = Target(x.marker.refid)
    BY <2>2 DEF Ref
  <2>4. /\ x.at \in IncludePlaces /\ OwnerOf(x.at) = o /\ x.marker = MarkerAt(x.at)
        /\ x.marker.refid # None
    OBVIOUS
  <2> QED
    BY <2>3, <2>4 DEF Owned
<1>3. ASSUME NEW p \in Owned(o) PROVE \E k \in DOMAIN w : w[k].at = p
  <2>1. p \in IncludePlaces /\ OwnerOf(p) = o /\ MarkerAt(p).refid # None
    BY DEF Owned
  <2>2. PICK x \in ToSet(a) : x.at = p
    BY <2>1
  <2>3. x \in N
    BY <2>1, <2>2
  <2>4. Ref(x) \in ToSet(w) /\ Ref(x).at = p
    BY <1>1, <2>2, <2>3 DEF Ref
  <2> QED
    BY <2>4 DEF ToSet
<1>4. Lists(w, Owned(o))
  BY <1>1, <1>2, <1>3 DEF Lists
<1> QED
  BY <1>1, <1>2, <1>4 DEF IncludesSound, w

(* Which child and which marker an include is in.                          *)
LEMMA IncludeSomewhere ==
  ASSUME NEW p \in IncludePlaces
  PROVE  \E c \in DOMAIN document : \E i \in DOMAIN document[c].body : p \in IncludesIn(c, i)
BY IncludePlacesAre

(* A child's body without its selectKeys.                                  *)
OwnSegments(n) == NotOfType(Markers(n), "selectKey")

(* What it holds.                                                          *)
LEMMA OwnSegmentsFound ==
  ASSUME Typed, NEW n \in DOMAIN document
  PROVE  /\ OwnSegments(n) \in Seq(Segment) /\ Siblings(OwnSegments(n), <<n>>)
         /\ <<n>> \in Place
         /\ ToSet(OwnSegments(n)) =
              {Markers(n)[i] : i \in {j \in DOMAIN document[n].body :
                                        document[n].body[j].type # "selectKey"}}
<1> DEFINE m == Markers(n)
           b == document[n].body
<1>1. /\ m \in Seq(Segment) /\ Siblings(m, <<n>>) /\ <<n>> \in Place
      /\ DOMAIN m = DOMAIN b
      /\ \A i \in DOMAIN b : m[i] = [at |-> <<n, i>>, marker |-> b[i]]
  BY MarkersOf
<1> HIDE DEF m, b
<1>2. OwnSegments(n) = NotOfType(m, "selectKey")
  BY DEF OwnSegments, m
<1>3. /\ NotOfType(m, "selectKey") \in Seq(Segment)
      /\ ToSet(NotOfType(m, "selectKey")) = {s \in ToSet(m) : s.marker.type # "selectKey"}
  BY <1>1, NotOfTypeFound
<1>4. Siblings(NotOfType(m, "selectKey"), <<n>>)
  BY <1>1, OnlySiblings DEF NotOfType
<1>5. ToSet(m) = {m[i] : i \in DOMAIN b} /\ \A i \in DOMAIN b : m[i].marker = b[i]
  BY <1>1 DEF ToSet
<1>6. {s \in ToSet(m) : s.marker.type # "selectKey"}
        = {m[i] : i \in {j \in DOMAIN b : b[j].type # "selectKey"}}
  BY <1>5
<1> QED
  BY <1>1, <1>2, <1>3, <1>4, <1>6 DEF m, b

(* A statement's or fragment's own includes are those the document gives   *)
(* to it.                                                                  *)
LEMMA OwnIncludesSound ==
  ASSUME Typed, NEW n \in DOMAIN document
  PROVE  IncludesSound(OwnBody(n).includes, <<n>>)
<1> DEFINE s == OwnSegments(n)
           a == AllIncludes(s)
           own == {j \in DOMAIN document[n].body : document[n].body[j].type # "selectKey"}
<1>1. /\ s \in Seq(Segment) /\ Siblings(s, <<n>>) /\ <<n>> \in Place
      /\ ToSet(s) = {Markers(n)[i] : i \in own}
  BY OwnSegmentsFound
<1>2. OwnBody(n) = Body(s, document[n].capped)
  BY DEF OwnBody, OwnSegments
<1> HIDE DEF s
<1>3. OwnBody(n).includes = WithRefid(a)
  BY <1>1, <1>2, BodyIncludes
<1>4. /\ a \in Seq(IncludeSegment) /\ InPlace(a)
      /\ ToSet(a) = UNION {ToSet(Within(x)) : x \in ToSet(s)}
  BY <1>1, AllIncludesFound
<1> HIDE DEF a
<1>5. ASSUME NEW x \in ToSet(a)
      PROVE  x.at \in IncludePlaces /\ OwnerOf(x.at) = <<n>> /\ x.marker = MarkerAt(x.at)
  <2>1. PICK i \in own : x \in ToSet(Within(Markers(n)[i]))
    BY <1>1, <1>4
  <2>2. i \in DOMAIN document[n].body /\ document[n].body[i].type # "selectKey"
    OBVIOUS
  <2>3. x.at \in IncludesIn(n, i) /\ x.marker = MarkerAt(x.at)
    BY <2>1, <2>2, WithinMarker
  <2> QED
    BY <2>2, <2>3, IncludeAt
<1>6. ASSUME NEW p \in IncludePlaces, OwnerOf(p) = <<n>> PROVE \E x \in ToSet(a) : x.at = p
  <2>1. PICK c \in DOMAIN document : \E i \in DOMAIN document[c].body : p \in IncludesIn(c, i)
    BY IncludeSomewhere
  <2>1a. PICK i \in DOMAIN document[c].body : p \in IncludesIn(c, i)
    BY <2>1
  <2>2. OwnerOf(p) = IF document[c].body[i].type = "selectKey" THEN <<c, i>> ELSE <<c>>
    BY <2>1a, IncludeAt
  <2>3. document[c].body[i].type # "selectKey" /\ c = n
    BY <1>6, <2>2, PathsDiffer
  <2>4. i \in own
    BY <2>3
  <2>5. PICK x \in ToSet(Within(Markers(n)[i])) : x.at = p
    BY <2>1a, <2>3, WithinMarker
  <2>6. x \in ToSet(a)
    BY <1>1, <1>4, <2>4, <2>5
  <2> QED
    BY <2>5, <2>6
<1>7. IncludesSound(WithRefid(a), <<n>>)
  BY <1>4, <1>5, <1>6, IncludesSoundFrom
<1> QED
  BY <1>3, <1>7

(* The body of a selectKey.                                                *)
KeySegments(n, i) == Segments(<<n, i>>, document[n].body[i].body)

(* What it holds.                                                          *)
LEMMA KeySegmentsFound ==
  ASSUME Typed, NEW n \in DOMAIN document, NEW i \in DOMAIN document[n].body,
         document[n].body[i].type = "selectKey"
  PROVE  /\ KeySegments(n, i) \in Seq(Segment) /\ Siblings(KeySegments(n, i), <<n, i>>)
         /\ KeySegments(n, i) \in Seq(IncludeSegment)
         /\ <<n, i>> \in Place
         /\ ToSet(KeySegments(n, i)) = ToSet(Within(Markers(n)[i]))
         /\ SelectKeyBody(Markers(n)[i]) = Body(KeySegments(n, i), FALSE)
<1> DEFINE b == document[n].body[i].body
           t == KeySegments(n, i)
           m == Markers(n)[i]
<1>1. n \in Nat /\ i \in Nat /\ b \in Seq(Include) /\ b \in Seq(Marker)
  BY ChildAt
<1>2. <<n, i>> \in Place
  BY <1>1, Paths
<1>3. t \in Seq(IncludeSegment) /\ t \in Seq(Segment)
  BY <1>1, <1>2, SegmentsOf DEF KeySegments, Segment, IncludeSegment
<1>4. Siblings(t, <<n, i>>)
  BY <1>1, <1>2, SegmentsSiblings DEF KeySegments
<1>5. m = [at |-> <<n, i>>, marker |-> document[n].body[i]]
  BY MarkersOf
<1>6. m.at = <<n, i>> /\ m.marker = document[n].body[i] /\ m.marker.type # "include"
  BY <1>5
<1>7. Within(m) = t
  BY <1>6 DEF Within, KeySegments
<1>8. SelectKeyBody(m) = Body(t, FALSE)
  BY <1>6 DEF SelectKeyBody, KeySegments
<1> QED
  BY <1>2, <1>3, <1>4, <1>7, <1>8

(* So are a selectKey's.                                                   *)
LEMMA KeyIncludesSound ==
  ASSUME Typed, NEW n \in DOMAIN document, NEW i \in DOMAIN document[n].body,
         document[n].body[i].type = "selectKey"
  PROVE  IncludesSound(SelectKeyBody(Markers(n)[i]).includes, <<n, i>>)
<1> DEFINE t == KeySegments(n, i)
           a == AllIncludes(t)
<1>1. /\ t \in Seq(Segment) /\ Siblings(t, <<n, i>>) /\ t \in Seq(IncludeSegment)
      /\ <<n, i>> \in Place /\ ToSet(t) = ToSet(Within(Markers(n)[i]))
      /\ SelectKeyBody(Markers(n)[i]) = Body(t, FALSE)
  BY KeySegmentsFound
<1> HIDE DEF t
<1>2. SelectKeyBody(Markers(n)[i]).includes = WithRefid(a)
  BY <1>1, BodyIncludes
<1>3. /\ a \in Seq(IncludeSegment) /\ InPlace(a)
      /\ ToSet(a) = UNION {ToSet(Within(x)) : x \in ToSet(t)}
  BY <1>1, AllIncludesFound
<1> HIDE DEF a
<1>4. ASSUME NEW x \in ToSet(t) PROVE ToSet(Within(x)) = {x}
  <2>1. x \in Segment /\ x \in IncludeSegment
    BY <1>1 DEF ToSet
  <2>2. x.marker.type = "include"
    BY <2>1 DEF IncludeSegment, Include
  <2> QED
    BY <2>1, <2>2, WithinSegment
<1>5. ToSet(a) = ToSet(t)
  BY <1>3, <1>4
<1>6. ASSUME NEW x \in ToSet(a)
      PROVE  x.at \in IncludePlaces /\ OwnerOf(x.at) = <<n, i>> /\ x.marker = MarkerAt(x.at)
  <2>1. x.at \in IncludesIn(n, i) /\ x.marker = MarkerAt(x.at)
    BY <1>1, <1>5, WithinMarker
  <2> QED
    BY <2>1, IncludeAt
<1>7. ASSUME NEW p \in IncludePlaces, OwnerOf(p) = <<n, i>> PROVE \E x \in ToSet(a) : x.at = p
  <2>1. PICK c \in DOMAIN document : \E j \in DOMAIN document[c].body : p \in IncludesIn(c, j)
    BY IncludeSomewhere
  <2>1a. PICK j \in DOMAIN document[c].body : p \in IncludesIn(c, j)
    BY <2>1
  <2>2. OwnerOf(p) = IF document[c].body[j].type = "selectKey" THEN <<c, j>> ELSE <<c>>
    BY <2>1a, IncludeAt
  <2>3. c = n /\ j = i
    BY <1>7, <2>2, PathsDiffer
  <2>4. \E x \in ToSet(Within(Markers(n)[i])) : x.at = p
    BY <2>1a, <2>3, WithinMarker
  <2> QED
    BY <1>1, <1>5, <2>4
<1>8. IncludesSound(WithRefid(a), <<n, i>>)
  BY <1>3, <1>6, <1>7, IncludesSoundFrom
<1> QED
  BY <1>2, <1>8

-------------------------------------------------------------------------------
(* Statements and fragments, child by child.                               *)

(* Two lists end to end, of places before one another.                     *)
LEMMA ListsGrow ==
  ASSUME NEW S, NEW r \in Seq(S), NEW b \in Seq(S), NEW P, NEW Q, Lists(r, P), Lists(b, Q),
         \A p \in P, q \in Q : Before(p, q)
  PROVE  Lists(r \o b, P \cup Q)
<1> DEFINE t == r \o b
<1>1. /\ t \in Seq(S) /\ Len(t) = Len(r) + Len(b)
      /\ \A k \in 1 .. Len(r) : t[k] = r[k]
      /\ \A k \in 1 .. Len(b) : t[Len(r) + k] = b[k]
      /\ \A k \in 1 .. Len(t) :
              \/ k \in 1 .. Len(r) /\ t[k] = r[k]
              \/ k - Len(r) \in 1 .. Len(b) /\ t[k] = b[k - Len(r)]
  BY Joined
<1>2. DOMAIN r = 1 .. Len(r) /\ DOMAIN b = 1 .. Len(b) /\ Len(r) \in Nat /\ Len(b) \in Nat
  OBVIOUS
<1>3. DOMAIN t = 1 .. Len(t)
  BY <1>1
<1>4. /\ InPlace(r) /\ InPlace(b)
      /\ \A k \in DOMAIN r : r[k].at \in P
      /\ \A k \in DOMAIN b : b[k].at \in Q
      /\ \A p \in P : \E k \in DOMAIN r : r[k].at = p
      /\ \A p \in Q : \E k \in DOMAIN b : b[k].at = p
  BY DEF Lists
<1>5. InPlace(t)
  BY <1>4, JoinedInPlace
<1> HIDE DEF t
<1>6. \A k \in DOMAIN t : t[k].at \in P \cup Q
  BY <1>1, <1>2, <1>3, <1>4
<1>7. ASSUME NEW p \in P PROVE \E k \in DOMAIN t : t[k].at = p
  <2>1. PICK k \in DOMAIN r : r[k].at = p
    BY <1>4
  <2>2. k \in DOMAIN t /\ t[k] = r[k]
    BY <1>1, <1>2, <1>3
  <2> QED
    BY <2>1, <2>2
<1>8. ASSUME NEW p \in Q PROVE \E k \in DOMAIN t : t[k].at = p
  <2>1. PICK k \in DOMAIN b : b[k].at = p
    BY <1>4
  <2>2. Len(r) + k \in DOMAIN t /\ t[Len(r) + k] = b[k]
    BY <1>1, <1>2, <1>3
  <2> QED
    BY <2>1, <2>2
<1> QED
  BY <1>5, <1>6, <1>7, <1>8 DEF Lists, t

(* What an earlier child holds is before what a later one holds.           *)
LEMMA EarlierChild ==
  ASSUME NEW p \in Place, NEW q \in Place, Len(p) >= 1, Len(q) >= 1, p[1] < q[1]
  PROVE  Before(p, q)
<1>1. DOMAIN p = 1 .. Len(p) /\ DOMAIN q = 1 .. Len(q) /\ Len(p) \in Nat /\ Len(q) \in Nat
  BY DEF Place
<1>2. 1 \in DOMAIN p \cap DOMAIN q /\ 1 .. 1 - 1 = {}
  BY <1>1
<1> QED
  BY <1>2 DEF Before

(* The selectKeys in a child's body.                                       *)
SelectKeysIn(n) == {i \in DOMAIN document[n].body : document[n].body[i].type = "selectKey"}

(* The places of the statements a child makes.                             *)
StatementsAt(n) ==
  IF document[n].tag = "statement" THEN {<<n>>} \cup {<<n, i>> : i \in SelectKeysIn(n)} ELSE {}

(* All statements, child by child.                                         *)
LEMMA StatementPlacesAre ==
  StatementPlaces = UNION {StatementsAt(n) : n \in DOMAIN document}
<1>1. \A c : c \in ChildrenOf({"statement"}) <=> c \in DOMAIN document /\ document[c].tag = "statement"
  BY DEF ChildrenOf
<1>2. SelectKeyPlaces = UNION {{<<c, m>> : m \in SelectKeysIn(c)} : c \in ChildrenOf({"statement"})}
  BY DEF SelectKeyPlaces, SelectKeysIn
<1>3. ASSUME NEW p \in StatementPlaces PROVE \E n \in DOMAIN document : p \in StatementsAt(n)
  <2>1. CASE p \in {<<c>> : c \in ChildrenOf({"statement"})}
    <3>1. PICK c \in ChildrenOf({"statement"}) : p = <<c>>
      BY <2>1
    <3> QED
      BY <1>1, <3>1 DEF StatementsAt
  <2>2. CASE p \in SelectKeyPlaces
    <3>1. PICK c \in ChildrenOf({"statement"}) : p \in {<<c, m>> : m \in SelectKeysIn(c)}
      BY <1>2, <2>2
    <3> QED
      BY <1>1, <3>1 DEF StatementsAt
  <2> QED
    BY <2>1, <2>2 DEF StatementPlaces
<1>4. ASSUME NEW n \in DOMAIN document, NEW p \in StatementsAt(n) PROVE p \in StatementPlaces
  <2>1. n \in ChildrenOf({"statement"}) /\ p \in {<<n>>} \cup {<<n, i>> : i \in SelectKeysIn(n)}
    BY <1>1 DEF StatementsAt
  <2>2. CASE p = <<n>>
    BY <2>1, <2>2 DEF StatementPlaces
  <2>3. CASE p \in {<<n, i>> : i \in SelectKeysIn(n)}
    BY <1>2, <2>1, <2>3 DEF StatementPlaces
  <2> QED
    BY <2>1, <2>2, <2>3
<1> QED
  BY <1>3, <1>4

(* Where they are.                                                         *)
LEMMA StatementAt ==
  ASSUME Typed, NEW n \in DOMAIN document, NEW p \in StatementsAt(n)
  PROVE  /\ p \in Place /\ Len(p) >= 1 /\ p[1] = n
         /\ p = <<n>> \/ (\E i \in SelectKeysIn(n) : p = <<n, i>>)
<1>1. n \in Nat /\ \A i \in SelectKeysIn(n) : i \in Nat
  BY ChildAt DEF SelectKeysIn
<1>2. p = <<n>> \/ (\E i \in SelectKeysIn(n) : p = <<n, i>>)
  BY DEF StatementsAt
<1>3. CASE p = <<n>>
  <2>1. <<n>> \in Place /\ Len(<<n>>) = 1 /\ <<n>>[1] = n
    BY <1>1, Paths
  <2>2. p \in Place /\ Len(p) >= 1 /\ p[1] = n
    BY <1>3, <2>1
  <2> QED
    BY <1>2, <2>2, Zenon
<1>4. CASE \E i \in SelectKeysIn(n) : p = <<n, i>>
  <2>1. PICK i \in SelectKeysIn(n) : p = <<n, i>>
    BY <1>4
  <2>2. i \in Nat
    BY <1>1
  <2>3. p \in Place /\ Len(p) = 2 /\ p[1] = n
    BY <1>1, <2>1, <2>2, Paths
  <2> QED
    BY <1>2, <2>3
<1> QED
  BY <1>2, <1>3, <1>4

(* The place of the fragment a child makes.                                *)
FragmentsAt(n) ==
  IF document[n].tag = "sql" /\ document[n].id # None THEN {<<n>>} ELSE {}

(* All fragments, child by child.                                          *)
LEMMA FragmentPlacesAre ==
  FragmentPlaces = UNION {FragmentsAt(n) : n \in DOMAIN document}
BY DEF FragmentPlaces, FragmentsAt, ChildrenOf

(* extract_select_keys finds every selectKey of a body, in document order. *)
LEMMA SelectKeysFound ==
  ASSUME Typed, NEW n \in DOMAIN document
  PROVE  /\ SelectKeys(n) \in Seq(Segment) /\ InPlace(SelectKeys(n))
         /\ \A k \in DOMAIN SelectKeys(n) : \E i \in SelectKeysIn(n) :
              SelectKeys(n)[k] = Markers(n)[i] /\ SelectKeys(n)[k].at = <<n, i>>
              /\ SelectKeys(n)[k].marker = document[n].body[i]
         /\ \A i \in SelectKeysIn(n) : \E k \in DOMAIN SelectKeys(n) :
              SelectKeys(n)[k] = Markers(n)[i] /\ SelectKeys(n)[k].at = <<n, i>>
<1> DEFINE m == Markers(n)
           b == document[n].body
           t == OfType(m, "selectKey")
<1>1. /\ m \in Seq(Segment) /\ Siblings(m, <<n>>) /\ DOMAIN m = DOMAIN b
      /\ \A i \in DOMAIN b : m[i] = [at |-> <<n, i>>, marker |-> b[i]]
  BY MarkersOf
<1>2. SelectKeysIn(n) = {i \in DOMAIN b : b[i].type = "selectKey"}
  BY DEF SelectKeysIn
<1>3. SelectKeys(n) = t
  BY DEF SelectKeys
<1> HIDE DEF m, b
<1>4. t \in Seq(Segment) /\ ToSet(t) = {s \in ToSet(m) : s.marker.type = "selectKey"}
  BY <1>1, OfTypeFound
<1>5. InPlace(t)
  BY <1>1, OnlyInPlace DEF OfType, Siblings
<1> HIDE DEF t
<1>6. \A i \in DOMAIN b : m[i].marker = b[i] /\ m[i].at = <<n, i>>
  BY <1>1
<1>7. ASSUME NEW k \in DOMAIN t
      PROVE  \E i \in SelectKeysIn(n) : t[k] = m[i] /\ t[k].at = <<n, i>> /\ t[k].marker = b[i]
  <2>1. t[k] \in ToSet(m) /\ t[k].marker.type = "selectKey"
    BY <1>4 DEF ToSet
  <2>2. PICK i \in DOMAIN b : t[k] = m[i]
    BY <1>1, <2>1 DEF ToSet
  <2> QED
    BY <1>2, <1>6, <2>1, <2>2
<1>8. ASSUME NEW i \in SelectKeysIn(n)
      PROVE  \E k \in DOMAIN t : t[k] = m[i] /\ t[k].at = <<n, i>>
  <2>1. i \in DOMAIN b /\ b[i].type = "selectKey"
    BY <1>2
  <2>2. m[i] \in ToSet(m)
    BY <1>1, <2>1 DEF ToSet
  <2>3. m[i] \in ToSet(t)
    BY <1>4, <1>6, <2>1, <2>2
  <2>4. PICK k \in DOMAIN t : t[k] = m[i]
    BY <2>3 DEF ToSet
  <2> QED
    BY <1>6, <2>1, <2>4
<1> QED
  BY <1>3, <1>4, <1>5, <1>7, <1>8 DEF m, b

(* A sequence with one more is a sequence.                                 *)
LEMMA IdIsSequence == \A S, x : \A s \in Seq(S) : x \in S => Append(s, x) \in Seq(S)
OBVIOUS

(* There is a derived id where there is an id.                             *)
LEMMA DerivedId ==
  ASSUME NEW id \in Id \cup {None}
  PROVE  Derived(id) \in Id \cup {None} /\ (Derived(id) = None <=> id = None)
<1> DEFINE W == Name \cup {"!selectKey", ".", "${"}
<1>1. "!selectKey" \in W
  OBVIOUS
<1>2. CASE id = None
  BY <1>2 DEF Derived
<1>3. CASE id # None
  <2>1. id \in Seq(W)
    BY <1>3 DEF Id
  <2>2. Append(id, "!selectKey") \in Seq(W)
    BY <1>1, <2>1, IdIsSequence, Zenon
  <2>3. Append(id, "!selectKey") \in Id
    BY <2>2, Zenon DEF Id
  <2>4. Derived(id) = Append(id, "!selectKey")
    BY <1>3, Zenon DEF Derived
  <2>5. None \notin Id
    BY NoneAssumption
  <2> QED
    BY <1>3, <2>3, <2>4, <2>5, Zenon
<1> QED
  BY <1>2, <1>3

(* What build_select_key_statement makes is as the document has it.        *)
LEMMA SelectKeyFaithful ==
  ASSUME Typed, NEW n \in DOMAIN document, NEW i \in SelectKeysIn(n)
  PROVE  /\ Faithful(SelectKeyStatement(document[n], Markers(n)[i]))
         /\ SelectKeyStatement(document[n], Markers(n)[i]).at = <<n, i>>
<1> DEFINE m == Markers(n)[i]
           c == document[n]
           s == SelectKeyStatement(c, m)
           inc == SelectKeyBody(m).includes
<1>1. i \in DOMAIN c.body /\ c.body[i].type = "selectKey"
  BY DEF SelectKeysIn
<1>2. m.at = <<n, i>> /\ m.marker = c.body[i]
  <2>1. m = [at |-> <<n, i>>, marker |-> document[n].body[i]]
    BY <1>1, MarkersOf
  <2> QED
    BY <2>1
<1>3. n \in Nat /\ i \in Nat /\ c.body[i] \in Marker /\ c \in Child
  BY <1>1, ChildAt
<1>4. <<n, i>> \in Place /\ Len(<<n, i>>) = 2 /\ <<n, i>>[1] = n /\ <<n, i>>[2] = i
  BY <1>3, Paths
<1>5. IncludesSound(inc, <<n, i>>)
  BY <1>1, KeyIncludesSound
<1>6. s = [at |-> m.at, id |-> Derived(c.id), db |-> SelectKeyDb(c, m), includes |-> inc]
  BY DEF SelectKeyStatement
<1> HIDE DEF m, s, inc
<1>7. s.at = <<n, i>> /\ s.id = Derived(c.id) /\ s.db = SelectKeyDb(c, m) /\ s.includes = inc
  BY <1>2, <1>6
<1>8. c.id \in Id \cup {None} /\ c.db \in DatabaseId \cup {None}
  BY <1>3 DEF Child
<1>9. Derived(c.id) \in Id \cup {None}
  BY <1>8, DerivedId
<1>10. c.body[i].db \in DatabaseId \cup {None}
  BY <1>1, <1>3, MarkerKinds
<1>11. SelectKeyDb(c, m) = IF c.body[i].db # None THEN c.body[i].db ELSE c.db
  BY <1>2 DEF SelectKeyDb
<1>12. inc \in Seq(IncludeRef)
  BY <1>5 DEF IncludesSound
<1>13. s \in Statement
  BY <1>2, <1>4, <1>6, <1>8, <1>9, <1>10, <1>11, <1>12 DEF Statement
<1>14. MarkerAt(<<n, i>>) = c.body[i]
  BY <1>4 DEF MarkerAt
<1>15. IdAt(<<n, i>>) = Derived(c.id)
  BY <1>4 DEF IdAt
<1>16. DbAt(<<n, i>>) = SelectKeyDb(c, m)
  BY <1>4, <1>11, <1>14 DEF DbAt
<1> QED
  BY <1>5, <1>7, <1>13, <1>15, <1>16 DEF Faithful, m, s

(* So is all that a statement's turn adds, and it adds all of the child's  *)
(* statements, itself first.                                               *)
LEMMA BuildStatementsSound ==
  ASSUME Typed, NEW n \in DOMAIN document, document[n].tag = "statement"
  PROVE  LET B == BuildStatements(n) keys == SelectKeys(n)
         IN  /\ B \in Seq(Statement) /\ Len(B) = Len(keys) + 1
             /\ Lists(B, StatementsAt(n))
             /\ \A k \in DOMAIN B : Faithful(B[k])
             /\ B[1].at = <<n>> /\ B[1].id = document[n].id
             /\ \A k \in DOMAIN keys : B[k + 1].at = keys[k].at
<1> DEFINE c == document[n]
           keys == SelectKeys(n)
           first == [at |-> <<n>>, id |-> c.id, db |-> c.db, includes |-> OwnBody(n).includes]
           rest == [k \in DOMAIN keys |-> SelectKeyStatement(c, keys[k])]
           B == <<first>> \o rest
<1>1. /\ keys \in Seq(Segment) /\ InPlace(keys)
      /\ \A k \in DOMAIN keys : \E i \in SelectKeysIn(n) :
           keys[k] = Markers(n)[i] /\ keys[k].at = <<n, i>>
      /\ \A i \in SelectKeysIn(n) : \E k \in DOMAIN keys :
           keys[k] = Markers(n)[i] /\ keys[k].at = <<n, i>>
  BY SelectKeysFound
<1>2. DOMAIN keys = 1 .. Len(keys) /\ Len(keys) \in Nat
  BY <1>1
<1>3. BuildStatements(n) = B
  BY DEF BuildStatements
<1>4. Faithful(first) /\ first.at = <<n>> /\ first.id = c.id /\ first \in Statement
  <2>1. n \in Nat /\ c \in Child
    BY ChildAt
  <2>2. c.id \in Id \cup {None} /\ c.db \in DatabaseId \cup {None}
    BY <2>1 DEF Child
  <2>3. IncludesSound(OwnBody(n).includes, <<n>>)
    BY OwnIncludesSound
  <2>4. OwnBody(n).includes \in Seq(IncludeRef)
    BY <2>3 DEF IncludesSound
  <2>5. <<n>> \in Place /\ Len(<<n>>) = 1 /\ <<n>>[1] = n
    BY <2>1, Paths
  <2>6. IdAt(<<n>>) = c.id /\ DbAt(<<n>>) = c.db
    BY <2>5 DEF IdAt, DbAt
  <2>7. first \in Statement
    BY <2>2, <2>4, <2>5 DEF Statement
  <2>8. first.at = <<n>> /\ first.id = c.id /\ first.db = c.db
        /\ first.includes = OwnBody(n).includes
    OBVIOUS
  <2> HIDE DEF first
  <2> QED
    BY <2>3, <2>6, <2>7, <2>8 DEF Faithful
<1>5. \A k \in DOMAIN keys : rest[k] = SelectKeyStatement(c, keys[k])
  OBVIOUS
<1>6. DOMAIN rest = DOMAIN keys
  OBVIOUS
<1>6a. rest = [k \in 1 .. Len(keys) |-> rest[k]]
  BY <1>2
<1> HIDE DEF keys, first, rest, c
<1>7. ASSUME NEW k \in DOMAIN keys
      PROVE  Faithful(rest[k]) /\ rest[k].at = keys[k].at /\ rest[k] \in Statement
             /\ \E i \in SelectKeysIn(n) : rest[k].at = <<n, i>>
  <2>1. PICK i \in SelectKeysIn(n) : keys[k] = Markers(n)[i] /\ keys[k].at = <<n, i>>
    BY <1>1
  <2>2. Faithful(rest[k]) /\ rest[k].at = <<n, i>>
    BY <1>5, <2>1, SelectKeyFaithful DEF c
  <2> QED
    BY <2>1, <2>2 DEF Faithful
<1>8. rest \in Seq(Statement) /\ Len(rest) = Len(keys)
  BY <1>2, <1>6a, <1>7
<1>9. <<first>> \in Seq(Statement) /\ Len(<<first>>) = 1 /\ <<first>>[1] = first
  BY <1>4
<1>10. /\ B \in Seq(Statement) /\ Len(B) = 1 + Len(keys)
       /\ \A k \in 1 .. 1 : B[k] = <<first>>[k]
       /\ \A k \in 1 .. Len(rest) : B[1 + k] = rest[k]
       /\ \A k \in 1 .. Len(B) : \/ k \in 1 .. 1 /\ B[k] = <<first>>[k]
                                 \/ k - 1 \in 1 .. Len(rest) /\ B[k] = rest[k - 1]
  BY <1>8, <1>9, Joined
<1>11. Lists(<<first>>, {<<n>>})
  BY <1>4, <1>9 DEF Lists, InPlace
<1>12. Lists(rest, {<<n, i>> : i \in SelectKeysIn(n)})
  <2>1. InPlace(rest)
    BY <1>1, <1>6, <1>7 DEF InPlace
  <2>2. \A k \in DOMAIN rest : rest[k].at \in {<<n, i>> : i \in SelectKeysIn(n)}
    BY <1>6, <1>7
  <2>3. ASSUME NEW i \in SelectKeysIn(n) PROVE \E k \in DOMAIN rest : rest[k].at = <<n, i>>
    <3>1. PICK k \in DOMAIN keys : keys[k].at = <<n, i>>
      BY <1>1
    <3> QED
      BY <1>6, <1>7, <3>1
  <2> QED
    BY <2>1, <2>2, <2>3 DEF Lists
<1>13. ASSUME NEW i \in SelectKeysIn(n) PROVE Before(<<n>>, <<n, i>>)
  <2>1. n \in Nat /\ i \in Nat
    BY ChildAt DEF SelectKeysIn
  <2>2. <<n>> \in Place /\ Append(<<n>>, i) = <<n, i>>
    BY <2>1, Paths, PathsGrow
  <2>3. Before(<<n>>, Append(<<n>>, i))
    BY <2>1, <2>2, FartherDown
  <2> QED
    BY <2>2, <2>3
<1>14. Lists(B, {<<n>>} \cup {<<n, i>> : i \in SelectKeysIn(n)})
  <2>1. \A p \in {<<n>>}, q \in {<<n, i>> : i \in SelectKeysIn(n)} : Before(p, q)
    BY <1>13
  <2> QED
    BY <1>8, <1>9, <1>11, <1>12, <2>1, ListsGrow
<1>15. Lists(B, StatementsAt(n))
  BY <1>14 DEF StatementsAt
<1> HIDE DEF B
<1>16. DOMAIN B = 1 .. Len(B)
  BY <1>10
<1>17. B[1] = first /\ \A k \in 1 .. Len(keys) : B[k + 1] = rest[k]
  BY <1>2, <1>8, <1>9, <1>10
<1>18. \A k \in DOMAIN B : Faithful(B[k])
  <2> TAKE k \in DOMAIN B
  <2>1. CASE k \in 1 .. 1 /\ B[k] = <<first>>[k]
    <3>1. B[k] = first
      BY <1>9, <2>1
    <3> QED
      BY <1>4, <3>1
  <2>2. CASE k - 1 \in 1 .. Len(rest) /\ B[k] = rest[k - 1]
    BY <1>2, <1>7, <1>8, <2>2
  <2> QED
    BY <1>10, <1>16, <2>1, <2>2
<1>19. B[1].at = <<n>> /\ B[1].id = document[n].id
  BY <1>4, <1>17 DEF c
<1>20. \A k \in DOMAIN keys : B[k + 1].at = keys[k].at
  BY <1>2, <1>7, <1>17
<1> QED
  BY <1>2, <1>3, <1>10, <1>15, <1>18, <1>19, <1>20 DEF keys

-------------------------------------------------------------------------------
(* What diagnostics say.                                                   *)

(* The places that D reports a code at.                                    *)
AtCode(D, code) == {d.at : d \in {e \in ToSet(D) : e.code = code}}

(* What a list of diagnostics says, as far as the properties tell: where   *)
(* it reports duplicate ids, where dangling refids, and how many have no   *)
(* span.                                                                   *)
Says(D, dup, dangling, spanless) ==
  /\ D \in Seq(Diag)
  /\ AtCode(D, "DuplicateStatementId") = dup
  /\ AtCode(D, "DanglingRefid") = dangling
  /\ Cardinality(Unlocated(D)) = spanless

(* Those without a span are counted.                                       *)
LEMMA UnlocatedFinite ==
  ASSUME NEW D \in Seq(Diag)
  PROVE  /\ IsFiniteSet(Unlocated(D)) /\ Cardinality(Unlocated(D)) \in Nat
         /\ Cardinality(Unlocated(D)) = 0 <=> Unlocated(D) = {}
<1>1. Unlocated(D) \subseteq 1 .. Len(D) /\ Len(D) \in Int /\ 1 \in Int
  BY DEF Unlocated
<1>2. IsFiniteSet(1 .. Len(D))
  BY <1>1, FS_Interval
<1>3. IsFiniteSet(Unlocated(D))
  BY <1>1, <1>2, FS_Subset
<1> QED
  BY <1>3, FS_CardinalityType, FS_EmptySet

(* Their count, of two lists end to end.                                   *)
LEMMA UnlocatedJoined ==
  ASSUME NEW a \in Seq(Diag), NEW b \in Seq(Diag)
  PROVE  Cardinality(Unlocated(a \o b)) = Cardinality(Unlocated(a)) + Cardinality(Unlocated(b))
<1> DEFINE c == a \o b
           U == Unlocated(a)
           V == Unlocated(b)
           W == {Len(a) + k : k \in V}
           f == [k \in V |-> Len(a) + k]
<1>1. /\ c \in Seq(Diag) /\ Len(c) = Len(a) + Len(b)
      /\ \A k \in 1 .. Len(a) : c[k] = a[k]
      /\ \A k \in 1 .. Len(b) : c[Len(a) + k] = b[k]
      /\ \A k \in 1 .. Len(c) : \/ k \in 1 .. Len(a) /\ c[k] = a[k]
                                \/ k - Len(a) \in 1 .. Len(b) /\ c[k] = b[k - Len(a)]
  BY Joined
<1>2. /\ DOMAIN a = 1 .. Len(a) /\ DOMAIN b = 1 .. Len(b) /\ DOMAIN c = 1 .. Len(c)
      /\ Len(a) \in Nat /\ Len(b) \in Nat
  BY <1>1
<1> HIDE DEF c
<1>3. /\ U \subseteq 1 .. Len(a) /\ V \subseteq 1 .. Len(b)
      /\ IsFiniteSet(U) /\ IsFiniteSet(V)
      /\ Cardinality(U) \in Nat /\ Cardinality(V) \in Nat
  BY <1>2, UnlocatedFinite DEF Unlocated
<1>4. Unlocated(c) = U \cup W
  <2>1. ASSUME NEW k \in Unlocated(c) PROVE k \in U \cup W
    <3>1. k \in 1 .. Len(c) /\ c[k].at = None
      BY <1>2 DEF Unlocated
    <3>2. CASE k \in 1 .. Len(a) /\ c[k] = a[k]
      BY <1>2, <3>1, <3>2 DEF Unlocated
    <3>3. CASE k - Len(a) \in 1 .. Len(b) /\ c[k] = b[k - Len(a)]
      <4>1. k - Len(a) \in V
        BY <1>2, <3>1, <3>3 DEF Unlocated
      <4>2. k = Len(a) + (k - Len(a))
        BY <1>2, <3>1
      <4> QED
        BY <4>1, <4>2
    <3> QED
      BY <1>1, <3>1, <3>2, <3>3
  <2>2. ASSUME NEW k \in U PROVE k \in Unlocated(c)
    <3>1. k \in 1 .. Len(a) /\ a[k].at = None
      BY <1>2 DEF Unlocated
    <3>2. k \in 1 .. Len(c) /\ c[k] = a[k]
      BY <1>1, <1>2, <3>1
    <3> QED
      BY <1>2, <3>1, <3>2 DEF Unlocated
  <2>3. ASSUME NEW k \in V PROVE Len(a) + k \in Unlocated(c)
    <3>1. k \in 1 .. Len(b) /\ b[k].at = None
      BY <1>2 DEF Unlocated
    <3>2. Len(a) + k \in 1 .. Len(c) /\ c[Len(a) + k] = b[k]
      BY <1>1, <1>2, <3>1
    <3> QED
      BY <1>2, <3>1, <3>2 DEF Unlocated
  <2> HIDE DEF U, V
  <2> QED
    BY <2>1, <2>2, <2>3
<1> HIDE DEF U, V
<1>5. f \in Bijection(V, W)
  <2>1. V \subseteq Nat /\ Len(a) \in Nat
    BY <1>2, <1>3
  <2>2. f \in [V -> W]
    OBVIOUS
  <2>3. \A j, k \in V : f[j] = f[k] => j = k
    BY <2>1
  <2>4. \A w \in W : \E k \in V : f[k] = w
    OBVIOUS
  <2> HIDE DEF f, W
  <2> QED
    BY <2>2, <2>3, <2>4 DEF Bijection, Injection, Surjection, IsInjective
<1>6. U \cap W = {}
  BY <1>2, <1>3
<1> HIDE DEF W, f
<1>7. IsFiniteSet(W) /\ Cardinality(W) = Cardinality(V)
  <2>1. ExistsBijection(V, W)
    BY <1>5 DEF ExistsBijection
  <2> QED
    BY <1>3, <2>1, FS_Bijection
<1>8. Cardinality(U \cup W) = Cardinality(U) + Cardinality(W) - Cardinality(U \cap W)
  BY <1>3, <1>7, FS_Union
<1>9. Cardinality(U \cap W) = 0
  BY <1>6, FS_EmptySet
<1> QED
  BY <1>3, <1>4, <1>7, <1>8, <1>9 DEF c, U, V

(* The places of a code, of two lists end to end.                          *)
LEMMA AtCodeJoined ==
  ASSUME NEW a \in Seq(Diag), NEW b \in Seq(Diag), NEW code
  PROVE  AtCode(a \o b, code) = AtCode(a, code) \cup AtCode(b, code)
<1>1. ToSet(a \o b) = ToSet(a) \cup ToSet(b)
  BY SetOfJoined
<1> QED
  BY <1>1 DEF AtCode

(* What two lists end to end say.                                          *)
LEMMA SaysJoined ==
  ASSUME NEW a, NEW b, NEW A1, NEW A2, NEW B1, NEW B2, NEW n1, NEW n2,
         Says(a, A1, B1, n1), Says(b, A2, B2, n2)
  PROVE  Says(a \o b, A1 \cup A2, B1 \cup B2, n1 + n2)
<1>1. a \in Seq(Diag) /\ b \in Seq(Diag)
  BY DEF Says
<1>2. a \o b \in Seq(Diag)
  BY <1>1, Joined
<1>3. Cardinality(Unlocated(a \o b)) = n1 + n2
  BY <1>1, UnlocatedJoined DEF Says
<1>4. AtCode(a \o b, "DuplicateStatementId") = A1 \cup A2
  BY <1>1, AtCodeJoined DEF Says
<1>5. AtCode(a \o b, "DanglingRefid") = B1 \cup B2
  BY <1>1, AtCodeJoined DEF Says
<1> QED
  BY <1>2, <1>3, <1>4, <1>5 DEF Says

(* What the empty list says.                                               *)
LEMMA NothingSaid == Says(<< >>, {}, {}, 0)
<1>1. << >> \in Seq(Diag) /\ DOMAIN << >> = {}
  OBVIOUS
<1>2. Unlocated(<< >>) = {} /\ ToSet(<< >>) = {}
  BY <1>1 DEF Unlocated, ToSet
<1>3. Cardinality(Unlocated(<< >>)) = 0
  BY <1>2, FS_EmptySet
<1>4. AtCode(<< >>, "DuplicateStatementId") = {} /\ AtCode(<< >>, "DanglingRefid") = {}
  BY <1>2 DEF AtCode
<1> QED
  BY <1>1, <1>3, <1>4 DEF Says

(* What one diagnostic with a span says.                                   *)
LEMMA OneSaid ==
  ASSUME NEW code \in Code, NEW at \in Place
  PROVE  Says(<<Diagnostic(code, at)>>,
              IF code = "DuplicateStatementId" THEN {at} ELSE {},
              IF code = "DanglingRefid" THEN {at} ELSE {}, 0)
<1> DEFINE d == Diagnostic(code, at)
           D == <<d>>
<1>1. d.code = code /\ d.at = at /\ d \in Diag
  BY DEF Diagnostic, Diag
<1> HIDE DEF d
<1>2. D \in Seq(Diag) /\ DOMAIN D = {1} /\ D[1] = d
  BY <1>1
<1>3. at # None
  BY NoneAssumption
<1> HIDE DEF D
<1>4. Unlocated(D) = {} /\ ToSet(D) = {d}
  BY <1>1, <1>2, <1>3 DEF Unlocated, ToSet
<1>5. Cardinality(Unlocated(D)) = 0
  BY <1>4, FS_EmptySet
<1>6. \A c : AtCode(D, c) = IF c = code THEN {at} ELSE {}
  BY <1>1, <1>4 DEF AtCode
<1>7. Says(D, IF code = "DuplicateStatementId" THEN {at} ELSE {},
              IF code = "DanglingRefid" THEN {at} ELSE {}, 0)
  BY <1>2, <1>5, <1>6 DEF Says
<1> QED
  BY <1>7 DEF D, d

(* What a body over the branch limit says.                                 *)
LEMMA CappedSaid == Says(<<Diagnostic("BranchLimitExceeded", None)>>, {}, {}, 1)
<1> DEFINE d == Diagnostic("BranchLimitExceeded", None)
           D == <<d>>
<1>1. d.code = "BranchLimitExceeded" /\ d.at = None /\ d \in Diag
  BY DEF Diagnostic, Diag, Code
<1> HIDE DEF d
<1>2. D \in Seq(Diag) /\ DOMAIN D = {1} /\ D[1] = d
  BY <1>1
<1> HIDE DEF D
<1>4. Unlocated(D) = {1} /\ ToSet(D) = {d}
  BY <1>1, <1>2 DEF Unlocated, ToSet
<1>5. Cardinality(Unlocated(D)) = 1
  BY <1>4, FS_Singleton
<1>6. AtCode(D, "DuplicateStatementId") = {} /\ AtCode(D, "DanglingRefid") = {}
  BY <1>1, <1>4 DEF AtCode
<1> QED
  BY <1>2, <1>5, <1>6 DEF Says, D, d

(* Many diagnostics of one code, each at its place.                        *)
LEMMA EachSaid ==
  ASSUME NEW S, \A x \in S : x.at \in Place, NEW s \in Seq(S), NEW code \in Code
  PROVE  Says(Each(code, s),
              IF code = "DuplicateStatementId" THEN {x.at : x \in ToSet(s)} ELSE {},
              IF code = "DanglingRefid" THEN {x.at : x \in ToSet(s)} ELSE {}, 0)
<1> DEFINE D == Each(code, s)
           P == {x.at : x \in ToSet(s)}
<1>1. D = [k \in 1 .. Len(s) |-> Diagnostic(code, s[k].at)]
      /\ DOMAIN s = 1 .. Len(s) /\ Len(s) \in Nat
  BY DEF Each
<1>2. \A k \in 1 .. Len(s) : s[k].at \in Place /\ s[k].at # None
  BY NoneAssumption
<1> HIDE DEF D
<1>3. ASSUME NEW k \in 1 .. Len(s)
      PROVE  D[k].code = code /\ D[k].at = s[k].at /\ D[k] \in Diag
  BY <1>1, <1>2 DEF Diagnostic, Diag
<1>4. D \in Seq(Diag) /\ DOMAIN D = 1 .. Len(s)
  BY <1>1, <1>3
<1>5. Unlocated(D) = {}
  BY <1>2, <1>3, <1>4 DEF Unlocated
<1>6. Cardinality(Unlocated(D)) = 0
  BY <1>5, FS_EmptySet
<1>7. AtCode(D, code) = P
  <2>1. ToSet(D) = {D[k] : k \in 1 .. Len(s)} /\ ToSet(s) = {s[k] : k \in 1 .. Len(s)}
    BY <1>1, <1>4 DEF ToSet
  <2>2. ASSUME NEW p \in AtCode(D, code) PROVE p \in P
    <3>1. PICK e \in ToSet(D) : e.at = p
      BY DEF AtCode
    <3>2. PICK k \in 1 .. Len(s) : e = D[k]
      BY <2>1
    <3> QED
      BY <1>3, <2>1, <3>1, <3>2
  <2>3. ASSUME NEW p \in P PROVE p \in AtCode(D, code)
    <3>1. PICK k \in 1 .. Len(s) : p = s[k].at
      BY <2>1
    <3>2. D[k] \in {e \in ToSet(D) : e.code = code} /\ D[k].at = p
      BY <1>3, <2>1, <3>1
    <3> QED
      BY <3>2 DEF AtCode
  <2> HIDE DEF P
  <2> QED
    BY <2>2, <2>3
<1>8. \A c : c # code => AtCode(D, c) = {}
  BY <1>3, <1>4 DEF AtCode, ToSet
<1>9. Says(D, IF code = "DuplicateStatementId" THEN P ELSE {},
              IF code = "DanglingRefid" THEN P ELSE {}, 0)
  BY <1>4, <1>6, <1>7, <1>8 DEF Says
<1> QED
  BY <1>9 DEF D

(* ss has n lists, the k-th of which says A[k] and B[k].                   *)
EachSays(ss, n, A, B) ==
  ss = [k \in 1 .. n |-> ss[k]] /\ \A k \in 1 .. n : Says(ss[k], A[k], B[k], 0)

(* The members of n sets.                                                  *)
AllOf(A, n) == UNION {A[k] : k \in 1 .. n}

(* What n lists say end to end.                                            *)
LEMMA SaysTogether ==
  ASSUME NEW n \in Nat, NEW ss, NEW A, NEW B, EachSays(ss, n, A, B)
  PROVE  Says(Together(ss), AllOf(A, n), AllOf(B, n), 0)
<1> DEFINE T == Together(ss)
<1>0. ss = [k \in 1 .. n |-> ss[k]] /\ \A k \in 1 .. n : Says(ss[k], A[k], B[k], 0)
  BY DEF EachSays
<1>1. \A k \in 1 .. n : ss[k] \in Seq(Diag)
  BY <1>0 DEF Says
<1>2. ss \in Seq(Seq(Diag)) /\ DOMAIN ss = 1 .. n
  BY <1>0, <1>1
<1>3. T \in Seq(Diag) /\ ToSet(T) = UNION {ToSet(ss[m]) : m \in 1 .. n}
  BY <1>2, SetOfTogether
<1> HIDE DEF T
<1>4. ASSUME NEW code PROVE AtCode(T, code) = UNION {AtCode(ss[k], code) : k \in 1 .. n}
  BY <1>3 DEF AtCode
<1>5. AtCode(T, "DuplicateStatementId") = UNION {A[k] : k \in 1 .. n}
  BY <1>0, <1>4 DEF Says
<1>6. AtCode(T, "DanglingRefid") = UNION {B[k] : k \in 1 .. n}
  BY <1>0, <1>4 DEF Says
<1>7. Unlocated(T) = {}
  <2> SUFFICES ASSUME NEW j \in Unlocated(T) PROVE FALSE
    OBVIOUS
  <2>1. T[j] \in ToSet(T) /\ T[j].at = None
    BY DEF Unlocated, ToSet
  <2>2. PICK m \in 1 .. n : T[j] \in ToSet(ss[m])
    BY <1>3, <2>1
  <2>3. PICK l \in DOMAIN ss[m] : ss[m][l] = T[j]
    BY <2>2 DEF ToSet
  <2>4. l \in Unlocated(ss[m])
    BY <2>1, <2>3 DEF Unlocated
  <2>5. Unlocated(ss[m]) = {}
    BY <1>0, <1>1, UnlocatedFinite DEF Says
  <2> QED
    BY <2>4, <2>5
<1>8. Cardinality(Unlocated(T)) = 0
  BY <1>7, FS_EmptySet
<1> QED
  BY <1>3, <1>5, <1>6, <1>8 DEF Says, T, AllOf

-------------------------------------------------------------------------------
(* What the reading of a body says.                                        *)

(* A second refid attribute is neither of the two codes.                   *)
LEMMA DuplicateRefidsSaid ==
  ASSUME NEW S, \A x \in S : x.at \in Place, NEW s \in Seq(S)
  PROVE  Says(DuplicateRefids(s), {}, {}, 0)
<1> DEFINE r == Only(s, {k \in DOMAIN s : s[k].marker.twice})
           code == "DuplicateAttribute"
<1>1. r \in Seq(S)
  BY SetOfOnly
<1>2. DuplicateRefids(s) = Each(code, r)
  BY DEF DuplicateRefids
<1>3. code \in Code /\ code # "DuplicateStatementId" /\ code # "DanglingRefid"
  BY DEF Code
<1> HIDE DEF r, code
<1>4. Says(Each(code, r),
           IF code = "DuplicateStatementId" THEN {x.at : x \in ToSet(r)} ELSE {},
           IF code = "DanglingRefid" THEN {x.at : x \in ToSet(r)} ELSE {}, 0)
  BY <1>1, <1>3, EachSaid
<1> QED
  BY <1>2, <1>3, <1>4

(* The includes of a sequence that have no refid, by their places.         *)
Refless(s) == {x.at : x \in {y \in ToSet(s) : y.marker.refid = None}}

(* lift_includes reports them as dangling.                                 *)
LEMMA MissingRefidsSaid ==
  ASSUME NEW S, \A x \in S : x.at \in Place, NEW s \in Seq(S)
  PROVE  Says(MissingRefids(s), {}, Refless(s), 0)
<1> DEFINE K == DOMAIN s \ Named(s)
           r == Only(s, K)
           code == "DanglingRefid"
<1>1. r \in Seq(S) /\ ToSet(r) = {s[j] : j \in K \cap DOMAIN s}
  BY SetOfOnly
<1>2. MissingRefids(s) = Each(code, r)
  BY DEF MissingRefids
<1>3. code \in Code /\ code # "DuplicateStatementId" /\ code = "DanglingRefid"
  BY DEF Code
<1>4. K = {j \in DOMAIN s : s[j].marker.refid = None}
  BY DEF Named
<1> HIDE DEF r, code, K
<1>5. ToSet(r) = {y \in ToSet(s) : y.marker.refid = None}
  BY <1>1, <1>4 DEF ToSet
<1>6. Says(Each(code, r),
           IF code = "DuplicateStatementId" THEN {x.at : x \in ToSet(r)} ELSE {},
           IF code = "DanglingRefid" THEN {x.at : x \in ToSet(r)} ELSE {}, 0)
  BY <1>1, <1>3, EachSaid
<1>7. Refless(s) = {x.at : x \in ToSet(r)}
  BY <1>5 DEF Refless
<1> QED
  BY <1>2, <1>3, <1>6, <1>7

(* All that lift_includes says.                                            *)
LEMMA LiftedSaid ==
  ASSUME NEW S, \A x \in S : x.at \in Place, NEW s \in Seq(S)
  PROVE  Says(Lifted(s), {}, Refless(s), 0)
<1> DEFINE n == Len(s)
           ss == [k \in 1 .. n |-> DuplicateRefids(<<s[k]>>) \o MissingRefids(<<s[k]>>)]
           A == [k \in 1 .. n |-> {}]
           B == [k \in 1 .. n |-> Refless(<<s[k]>>)]
<1>1. n \in Nat /\ DOMAIN s = 1 .. n
  OBVIOUS
<1>2. Lifted(s) = Together(ss)
  BY <1>1 DEF Lifted
<1>3. ss = [k \in 1 .. n |-> ss[k]]
  OBVIOUS
<1>4. \A k \in 1 .. n : /\ ss[k] = DuplicateRefids(<<s[k]>>) \o MissingRefids(<<s[k]>>)
                        /\ A[k] = {} /\ B[k] = Refless(<<s[k]>>)
  OBVIOUS
<1>5. \A k \in 1 .. n : s[k] \in S /\ <<s[k]>> \in Seq(S)
  OBVIOUS
<1> HIDE DEF n, ss, A, B
<1>6. ASSUME NEW k \in 1 .. n PROVE Says(ss[k], A[k], B[k], 0)
  <2>1. Says(DuplicateRefids(<<s[k]>>), {}, {}, 0)
    BY <1>5, DuplicateRefidsSaid
  <2>2. Says(MissingRefids(<<s[k]>>), {}, Refless(<<s[k]>>), 0)
    BY <1>5, MissingRefidsSaid
  <2>3. Says(DuplicateRefids(<<s[k]>>) \o MissingRefids(<<s[k]>>),
             {} \cup {}, {} \cup Refless(<<s[k]>>), 0 + 0)
    BY <2>1, <2>2, SaysJoined
  <2>4. {} \cup {} = {} /\ {} \cup Refless(<<s[k]>>) = Refless(<<s[k]>>) /\ 0 + 0 = 0
    OBVIOUS
  <2> QED
    BY <1>4, <2>3, <2>4
<1>7. Says(Together(ss), AllOf(A, n), AllOf(B, n), 0)
  <2>1. EachSays(ss, n, A, B)
    BY <1>3, <1>6 DEF EachSays
  <2> QED
    BY <1>1, <2>1, SaysTogether
<1>8. AllOf(A, n) = {}
  BY <1>4 DEF AllOf
<1>9. AllOf(B, n) = Refless(s)
  <2>1. ASSUME NEW k \in 1 .. n
        PROVE  B[k] = IF s[k].marker.refid = None THEN {s[k].at} ELSE {}
    <3>1. ToSet(<<s[k]>>) = {s[k]}
      BY DEF ToSet
    <3> QED
      BY <1>4, <3>1 DEF Refless
  <2>2. ToSet(s) = {s[k] : k \in 1 .. n}
    BY <1>1 DEF ToSet
  <2>3. ASSUME NEW p \in AllOf(B, n) PROVE p \in Refless(s)
    <3>1. PICK k \in 1 .. n : p \in B[k]
      BY DEF AllOf
    <3>2. s[k].marker.refid = None /\ p = s[k].at
      BY <2>1, <3>1
    <3> QED
      BY <2>2, <3>2 DEF Refless
  <2>4. ASSUME NEW p \in Refless(s) PROVE p \in AllOf(B, n)
    <3>1. PICK y \in ToSet(s) : y.marker.refid = None /\ p = y.at
      BY DEF Refless
    <3>2. PICK k \in 1 .. n : y = s[k]
      BY <2>2
    <3> QED
      BY <2>1, <3>1, <3>2 DEF AllOf
  <2> QED
    BY <2>3, <2>4
<1> QED
  BY <1>2, <1>7, <1>8, <1>9

(* The includes right in a body that have no refid, by their places.       *)
ReflessIn(segments) ==
  {x.at : x \in {y \in ToSet(segments) : y.marker.type = "include" /\ y.marker.refid = None}}

(* What the reading of a body says: its own missing refids, and whether it *)
(* is over the branch limit.                                               *)
LEMMA BodySaid ==
  ASSUME NEW at \in Place, NEW segments \in Seq(Segment), Siblings(segments, at),
         NEW capped \in BOOLEAN
  PROVE  Says(Body(segments, capped).diagnostics, {}, ReflessIn(segments),
              IF capped THEN 1 ELSE 0)
<1> DEFINE t == OfType(segments, "include")
           a == AllIncludes(segments)
           c == IF capped THEN <<Diagnostic("BranchLimitExceeded", None)>> ELSE << >>
           u == IF capped THEN 1 ELSE 0
<1>1. t \in Seq(IncludeSegment)
  BY IncludesAreSegments
<1>2. a \in Seq(IncludeSegment)
  BY AllIncludesFound
<1>3. ToSet(t) = {s \in ToSet(segments) : s.marker.type = "include"}
  BY OfTypeFound
<1>4. Body(segments, capped).diagnostics = Lifted(t) \o DuplicateRefids(a) \o c
  BY DEF Body
<1>5. Says(c, {}, {}, u)
  <2>1. CASE capped
    <3>1. c = <<Diagnostic("BranchLimitExceeded", None)>> /\ u = 1
      BY <2>1
    <3> QED
      BY <3>1, CappedSaid
  <2>2. CASE ~ capped
    <3>1. c = << >> /\ u = 0
      BY <2>2
    <3> QED
      BY <3>1, NothingSaid
  <2> QED
    BY <2>1, <2>2
<1>6. u \in Nat
  OBVIOUS
<1> HIDE DEF t, a, c, u
<1>7. \A x \in IncludeSegment : x.at \in Place
  BY DEF IncludeSegment
<1>8. Says(Lifted(t), {}, Refless(t), 0)
  BY <1>1, <1>7, LiftedSaid
<1>9. Says(DuplicateRefids(a), {}, {}, 0)
  BY <1>2, <1>7, DuplicateRefidsSaid
<1>10. Says(Lifted(t) \o DuplicateRefids(a), {} \cup {}, Refless(t) \cup {}, 0 + 0)
  BY <1>8, <1>9, SaysJoined
<1>11. Says(Lifted(t) \o DuplicateRefids(a) \o c,
            ({} \cup {}) \cup {}, (Refless(t) \cup {}) \cup {}, (0 + 0) + u)
  BY <1>5, <1>10, SaysJoined
<1>12. Refless(t) = ReflessIn(segments)
  BY <1>3 DEF Refless, ReflessIn
<1>13. ({} \cup {}) \cup {} = {} /\ (Refless(t) \cup {}) \cup {} = Refless(t) /\ (0 + 0) + u = u
  BY <1>6
<1> QED
  BY <1>4, <1>11, <1>12, <1>13 DEF u

(* The same of a child's body.                                             *)
UnnamedDirect(n) ==
  {<<n, i>> : i \in {j \in DOMAIN document[n].body :
      document[n].body[j].type = "include" /\ document[n].body[j].refid = None}}

(* The same of the body of a marker.                                       *)
UnnamedIn(n, i) ==
  {<<n, i, k>> : k \in {j \in DOMAIN document[n].body[i].body :
      document[n].body[i].body[j].refid = None}}

(* What the reading of a child's body says.                                *)
LEMMA OwnBodySaid ==
  ASSUME Typed, NEW n \in DOMAIN document
  PROVE  Says(OwnBody(n).diagnostics, {}, UnnamedDirect(n),
              IF document[n].capped THEN 1 ELSE 0)
<1> DEFINE s == OwnSegments(n)
           b == document[n].body
<1>1. /\ s \in Seq(Segment) /\ Siblings(s, <<n>>) /\ <<n>> \in Place
      /\ ToSet(s) = {Markers(n)[i] : i \in {j \in DOMAIN b : b[j].type # "selectKey"}}
  BY OwnSegmentsFound
<1>2. OwnBody(n) = Body(s, document[n].capped)
  BY DEF OwnBody, OwnSegments
<1>3. document[n].capped \in BOOLEAN
  <2>1. document[n] \in Child
    BY ChildAt
  <2> QED
    BY <2>1 DEF Child
<1>4. \A i \in DOMAIN b : Markers(n)[i] = [at |-> <<n, i>>, marker |-> b[i]]
  BY MarkersOf
<1> HIDE DEF s
<1>5. Says(Body(s, document[n].capped).diagnostics, {}, ReflessIn(s),
           IF document[n].capped THEN 1 ELSE 0)
  BY <1>1, <1>3, BodySaid
<1>6. \A i \in DOMAIN b : Markers(n)[i].at = <<n, i>> /\ Markers(n)[i].marker = b[i]
  <2> TAKE i \in DOMAIN b
  <2>1. Markers(n)[i] = [at |-> <<n, i>>, marker |-> b[i]]
    BY <1>4
  <2> QED
    BY <2>1
<1> HIDE DEF b
<1>7. ReflessIn(s) = {<<n, i>> : i \in {j \in DOMAIN b : b[j].type = "include" /\ b[j].refid = None}}
  <2> DEFINE R == {<<n, i>> : i \in {j \in DOMAIN b : b[j].type = "include" /\ b[j].refid = None}}
  <2>1. ASSUME NEW p \in ReflessIn(s) PROVE p \in R
    <3>1. PICK y \in ToSet(s) : y.marker.type = "include" /\ y.marker.refid = None /\ p = y.at
      BY DEF ReflessIn
    <3>2. PICK i \in DOMAIN b : y = Markers(n)[i]
      BY <1>1
    <3> QED
      BY <1>6, <3>1, <3>2
  <2>2. ASSUME NEW p \in R PROVE p \in ReflessIn(s)
    <3>1. PICK i \in DOMAIN b : b[i].type = "include" /\ b[i].refid = None /\ p = <<n, i>>
      OBVIOUS
    <3>2. Markers(n)[i] \in ToSet(s)
      BY <1>1, <3>1
    <3> QED
      BY <1>6, <3>1, <3>2 DEF ReflessIn
  <2> HIDE DEF R
  <2> QED
    BY <2>1, <2>2 DEF R
<1> QED
  BY <1>2, <1>5, <1>7 DEF UnnamedDirect, b

(* What the reading of a selectKey's body says.                            *)
LEMMA KeyBodySaid ==
  ASSUME Typed, NEW n \in DOMAIN document, NEW i \in SelectKeysIn(n)
  PROVE  Says(SelectKeyBody(Markers(n)[i]).diagnostics, {}, UnnamedIn(n, i), 0)
<1> DEFINE s == KeySegments(n, i)
           c == FALSE
<1>0. i \in DOMAIN document[n].body /\ document[n].body[i].type = "selectKey"
  BY DEF SelectKeysIn
<1>1. /\ s \in Seq(Segment) /\ Siblings(s, <<n, i>>) /\ <<n, i>> \in Place
      /\ s \in Seq(IncludeSegment)
      /\ ToSet(s) = ToSet(Within(Markers(n)[i]))
      /\ SelectKeyBody(Markers(n)[i]) = Body(s, FALSE)
  BY <1>0, KeySegmentsFound
<1> HIDE DEF s
<1>c. c \in BOOLEAN /\ c = FALSE
  OBVIOUS
<1> HIDE DEF c
<1>2. Says(Body(s, c).diagnostics, {}, ReflessIn(s), IF c THEN 1 ELSE 0)
  BY <1>1, <1>c, BodySaid
<1>3. \A x \in ToSet(s) : /\ x.marker.type = "include"
                          /\ x.at \in IncludesIn(n, i) /\ x.marker = MarkerAt(x.at)
  <2>1. \A x \in ToSet(s) : x.at \in IncludesIn(n, i) /\ x.marker = MarkerAt(x.at)
    BY <1>0, <1>1, WithinMarker
  <2>2. \A x \in ToSet(s) : x.marker \in Include
    <3>1. \A x \in ToSet(s) : x \in IncludeSegment
      BY <1>1 DEF ToSet
    <3> QED
      BY <3>1 DEF IncludeSegment
  <2> QED
    BY <2>1, <2>2 DEF Include
<1>4. \A p \in IncludesIn(n, i) : \E x \in ToSet(s) : x.at = p
  BY <1>0, <1>1, WithinMarker
<1>5. ReflessIn(s) = {p \in IncludesIn(n, i) : MarkerAt(p).refid = None}
  BY <1>3, <1>4 DEF ReflessIn
<1>6. {p \in IncludesIn(n, i) : MarkerAt(p).refid = None} = UnnamedIn(n, i)
  <2> DEFINE b == document[n].body[i].body
  <2>1. n \in Nat /\ i \in Nat /\ DOMAIN b \subseteq Nat
    BY <1>0, ChildAt
  <2>2. IncludesIn(n, i) = {<<n, i, k>> : k \in DOMAIN b}
    BY <1>0 DEF IncludesIn
  <2>3. ASSUME NEW k \in DOMAIN b PROVE MarkerAt(<<n, i, k>>) = b[k]
    <3>1. k \in Nat
      BY <2>1
    <3> QED
      BY <2>1, <3>1, Paths DEF MarkerAt
  <2>4. UnnamedIn(n, i) = {<<n, i, k>> : k \in {j \in DOMAIN b : b[j].refid = None}}
    BY DEF UnnamedIn
  <2> HIDE DEF b
  <2> QED
    BY <2>2, <2>3, <2>4
<1> QED
  BY <1>1, <1>2, <1>5, <1>6, <1>c

(* What a registration says.                                               *)
LEMMA RegisterSaid ==
  ASSUME NEW id, NEW key, NEW seen, NEW at \in Place
  PROVE  Says(Register(id, key, seen, at),
              IF id # None /\ key \in seen THEN {at} ELSE {}, {}, 0)
<1> DEFINE code == "DuplicateStatementId"
<1>1. code \in Code /\ code = "DuplicateStatementId" /\ code # "DanglingRefid"
  BY DEF Code
<1>2. Register(id, key, seen, at)
        = IF id # None /\ key \in seen THEN <<Diagnostic(code, at)>> ELSE << >>
  BY DEF Register
<1> HIDE DEF code
<1>3. CASE id # None /\ key \in seen
  <2>1. Says(<<Diagnostic(code, at)>>, IF code = "DuplicateStatementId" THEN {at} ELSE {},
             IF code = "DanglingRefid" THEN {at} ELSE {}, 0)
    BY <1>1, OneSaid
  <2> QED
    BY <1>1, <1>2, <1>3, <2>1
<1>4. CASE ~ (id # None /\ key \in seen)
  <2>1. Register(id, key, seen, at) = << >>
    BY <1>2, <1>4
  <2>2. (IF id # None /\ key \in seen THEN {at} ELSE {}) = {}
    BY <1>4
  <2> QED
    BY <2>1, <2>2, NothingSaid
<1> QED
  BY <1>3, <1>4

(* A missing id is neither of the two codes.                               *)
LEMMA MissingIdSaid ==
  ASSUME NEW id, NEW at \in Place
  PROVE  Says(MissingId(id, at), {}, {}, 0)
<1> DEFINE code == "MissingStatementId"
<1>1. code \in Code /\ code # "DuplicateStatementId" /\ code # "DanglingRefid"
  BY DEF Code
<1>2. MissingId(id, at) = IF id = None THEN <<Diagnostic(code, at)>> ELSE << >>
  BY DEF MissingId
<1> HIDE DEF code
<1>3. Says(<<Diagnostic(code, at)>>, IF code = "DuplicateStatementId" THEN {at} ELSE {},
             IF code = "DanglingRefid" THEN {at} ELSE {}, 0)
  BY <1>1, OneSaid
<1> QED
  BY <1>1, <1>2, <1>3, NothingSaid

-------------------------------------------------------------------------------
(* What a child gives cause for.                                           *)

(* The children that own includes.                                         *)
InResult(n) == document[n].tag = "statement" \/ (document[n].tag = "sql" /\ document[n].id # None)

(* All owners are such children or selectKeys of them.                     *)
LEMMA OwnersAre ==
  /\ \A p \in StatementPlaces :
       \/ \E c \in DOMAIN document : p = <<c>> /\ document[c].tag = "statement"
       \/ \E c \in DOMAIN document : \E j \in SelectKeysIn(c) :
            p = <<c, j>> /\ document[c].tag = "statement"
  /\ \A p \in FragmentPlaces :
       \E c \in DOMAIN document : p = <<c>> /\ document[c].tag = "sql" /\ document[c].id # None
<1>1. ASSUME NEW p \in StatementPlaces
      PROVE  \/ \E c \in DOMAIN document : p = <<c>> /\ document[c].tag = "statement"
             \/ \E c \in DOMAIN document : \E j \in SelectKeysIn(c) :
                  p = <<c, j>> /\ document[c].tag = "statement"
  <2>1. PICK c \in DOMAIN document : p \in StatementsAt(c)
    BY StatementPlacesAre
  <2> QED
    BY <2>1 DEF StatementsAt
<1>2. ASSUME NEW p \in FragmentPlaces
      PROVE  \E c \in DOMAIN document : p = <<c>> /\ document[c].tag = "sql" /\ document[c].id # None
  BY FragmentPlacesAre DEF FragmentsAt
<1> QED
  BY <1>1, <1>2

(* Whether a child is an owner.                                            *)
LEMMA ChildInResult ==
  ASSUME NEW n \in DOMAIN document
  PROVE  /\ <<n>> \in StatementPlaces \cup FragmentPlaces <=> InResult(n)
         /\ <<n>> \in StatementPlaces <=> document[n].tag = "statement"
         /\ <<n>> \in FragmentPlaces <=> document[n].tag = "sql" /\ document[n].id # None
<1>1. document[n].tag = "statement" => <<n>> \in StatementPlaces
  BY StatementPlacesAre DEF StatementsAt
<1>2. document[n].tag = "sql" /\ document[n].id # None => <<n>> \in FragmentPlaces
  BY FragmentPlacesAre DEF FragmentsAt
<1>3. <<n>> \in StatementPlaces => document[n].tag = "statement"
  BY OwnersAre, PathsDiffer
<1>4. <<n>> \in FragmentPlaces => document[n].tag = "sql" /\ document[n].id # None
  BY OwnersAre, PathsDiffer
<1> QED
  BY <1>1, <1>2, <1>3, <1>4 DEF InResult

(* Whether a child and its markers are.                                    *)
LEMMA OwnersOfChild ==
  ASSUME NEW n \in DOMAIN document, NEW i \in DOMAIN document[n].body
  PROVE  /\ <<n>> \in StatementPlaces \cup FragmentPlaces <=> InResult(n)
         /\ <<n, i>> \in StatementPlaces \cup FragmentPlaces
              <=> document[n].tag = "statement" /\ i \in SelectKeysIn(n)
<1>1. document[n].tag = "statement" /\ i \in SelectKeysIn(n) => <<n, i>> \in StatementPlaces
  BY StatementPlacesAre DEF StatementsAt
<1>2. <<n, i>> \in StatementPlaces => document[n].tag = "statement" /\ i \in SelectKeysIn(n)
  BY OwnersAre, PathsDiffer
<1>3. <<n, i>> \notin FragmentPlaces
  BY OwnersAre, PathsDiffer
<1> QED
  BY <1>1, <1>2, <1>3, ChildInResult

(* The missing refids that a child's turn reports.                         *)
UnnamedAt(n) ==
  (IF InResult(n) THEN UnnamedDirect(n) ELSE {}) \cup
  (IF document[n].tag = "statement" THEN UNION {UnnamedIn(n, i) : i \in SelectKeysIn(n)} ELSE {})

(* All of them, child by child.                                            *)
LEMMA UnnamedAre ==
  ASSUME Typed
  PROVE  /\ Unnamed = UNION {UnnamedAt(n) : n \in DOMAIN document}
         /\ \A n \in DOMAIN document : \A p \in UnnamedAt(n) : p[1] = n
<1>1. ASSUME NEW p \in Unnamed PROVE \E n \in DOMAIN document : p \in UnnamedAt(n)
  <2>0. /\ p \in IncludePlaces /\ MarkerAt(p).refid = None
        /\ OwnerOf(p) \in StatementPlaces \cup FragmentPlaces
        /\ Len(p) = Len(OwnerOf(p)) + 1
    BY DEF Unnamed
  <2>1. PICK c \in DOMAIN document : \E i \in DOMAIN document[c].body : p \in IncludesIn(c, i)
    BY <2>0, IncludeSomewhere
  <2>2. PICK i \in DOMAIN document[c].body : p \in IncludesIn(c, i)
    BY <2>1
  <2>3. /\ \/ p = <<c, i>> /\ MarkerAt(p) = document[c].body[i]
                /\ document[c].body[i].type = "include"
           \/ \E k \in DOMAIN document[c].body[i].body :
                 /\ p = <<c, i, k>> /\ MarkerAt(p) = document[c].body[i].body[k]
                 /\ document[c].body[i].type # "include"
        /\ OwnerOf(p) = IF document[c].body[i].type = "selectKey" THEN <<c, i>> ELSE <<c>>
    BY <2>2, IncludeAt
  <2>4. c \in Nat /\ i \in Nat
    BY ChildAt
  <2>5. CASE p = <<c, i>> /\ MarkerAt(p) = document[c].body[i]
                /\ document[c].body[i].type = "include"
    <3>1. OwnerOf(p) = <<c>>
      BY <2>3, <2>5
    <3>2. InResult(c)
      BY <2>0, <3>1, OwnersOfChild
    <3>3. p \in UnnamedDirect(c)
      BY <2>0, <2>5 DEF UnnamedDirect
    <3> QED
      BY <3>2, <3>3 DEF UnnamedAt
  <2>6. CASE \E k \in DOMAIN document[c].body[i].body :
                 /\ p = <<c, i, k>> /\ MarkerAt(p) = document[c].body[i].body[k]
                 /\ document[c].body[i].type # "include"
    <3>1. PICK k \in DOMAIN document[c].body[i].body :
                 /\ p = <<c, i, k>> /\ MarkerAt(p) = document[c].body[i].body[k]
                 /\ document[c].body[i].type # "include"
      BY <2>6
    <3>2. k \in Nat
      BY <3>1, ChildAt
    <3>3. Len(p) = 3 /\ Len(<<c>>) = 1
      BY <2>4, <3>1, <3>2, Paths
    <3>4. document[c].body[i].type = "selectKey" /\ OwnerOf(p) = <<c, i>>
      <4>1. OwnerOf(p) # <<c>>
        <5>1. SUFFICES ASSUME OwnerOf(p) = <<c>> PROVE FALSE
          OBVIOUS
        <5>2. Len(OwnerOf(p)) = 1
          BY <3>3, <5>1
        <5>3. \A l \in {3}, m \in {1} : l # m + 1
          OBVIOUS
        <5> QED
          BY <2>0, <3>3, <5>2, <5>3
      <4> QED
        BY <2>3, <4>1
    <3>5. document[c].tag = "statement" /\ i \in SelectKeysIn(c)
      BY <2>0, <3>4, OwnersOfChild
    <3>6. p \in UnnamedIn(c, i)
      BY <2>0, <3>1 DEF UnnamedIn
    <3> QED
      BY <3>5, <3>6 DEF UnnamedAt
  <2> QED
    BY <2>3, <2>5, <2>6
<1>2. ASSUME NEW n \in DOMAIN document, NEW p \in UnnamedAt(n)
      PROVE  p \in Unnamed /\ p[1] = n
  <2>0. n \in Nat
    BY ChildAt
  <2>1. CASE InResult(n) /\ p \in UnnamedDirect(n)
    <3>1. PICK i \in DOMAIN document[n].body : /\ document[n].body[i].type = "include"
                                               /\ document[n].body[i].refid = None
                                               /\ p = <<n, i>>
      BY <2>1 DEF UnnamedDirect
    <3>2. i \in Nat
      BY ChildAt
    <3>3. p \in IncludesIn(n, i)
      BY <3>1 DEF IncludesIn
    <3>4. Len(p) = 2 /\ p[1] = n /\ p[2] = i /\ Len(<<n>>) = 1
      BY <2>0, <3>1, <3>2, Paths
    <3>5. p \in IncludePlaces /\ OwnerOf(p) = <<n>>
      BY <3>1, <3>3, IncludeAt
    <3>6. MarkerAt(p) = document[n].body[i]
      BY <3>4 DEF MarkerAt
    <3>7. <<n>> \in StatementPlaces \cup FragmentPlaces
      BY <2>1, OwnersOfChild
    <3>8. Len(OwnerOf(p)) = 1 /\ 2 = 1 + 1
      BY <3>4, <3>5
    <3>9. Len(p) = Len(OwnerOf(p)) + 1
      BY <3>4, <3>8
    <3>10. MarkerAt(p).refid = None /\ OwnerOf(p) \in StatementPlaces \cup FragmentPlaces
      BY <3>1, <3>5, <3>6, <3>7
    <3> QED
      BY <3>4, <3>5, <3>9, <3>10, Zenon DEF Unnamed
  <2>2. CASE document[n].tag = "statement" /\ \E i \in SelectKeysIn(n) : p \in UnnamedIn(n, i)
    <3>1. PICK i \in SelectKeysIn(n) : p \in UnnamedIn(n, i)
      BY <2>2
    <3>2. i \in DOMAIN document[n].body /\ document[n].body[i].type = "selectKey"
      BY DEF SelectKeysIn
    <3>3. PICK k \in DOMAIN document[n].body[i].body :
             document[n].body[i].body[k].refid = None /\ p = <<n, i, k>>
      BY <3>1 DEF UnnamedIn
    <3>4. i \in Nat /\ k \in Nat
      BY <3>2, ChildAt
    <3>5. p \in IncludesIn(n, i)
      BY <3>2, <3>3 DEF IncludesIn
    <3>6. Len(p) = 3 /\ p[1] = n /\ p[2] = i /\ p[3] = k /\ Len(<<n, i>>) = 2
      BY <2>0, <3>3, <3>4, Paths
    <3>7. p \in IncludePlaces /\ OwnerOf(p) = <<n, i>>
      BY <3>2, <3>5, IncludeAt
    <3>8. MarkerAt(p) = document[n].body[i].body[k]
      BY <3>6 DEF MarkerAt
    <3>9. <<n, i>> \in StatementPlaces \cup FragmentPlaces
      BY <2>2, <3>2, OwnersOfChild
    <3>10. Len(OwnerOf(p)) = 2 /\ 3 = 2 + 1
      BY <3>6, <3>7
    <3>11. Len(p) = Len(OwnerOf(p)) + 1
      BY <3>6, <3>10
    <3>12. MarkerAt(p).refid = None /\ OwnerOf(p) \in StatementPlaces \cup FragmentPlaces
      BY <3>3, <3>7, <3>8, <3>9
    <3> QED
      BY <3>6, <3>7, <3>11, <3>12, Zenon DEF Unnamed
  <2> QED
    BY <2>1, <2>2 DEF UnnamedAt
<1> QED
  BY <1>1, <1>2

(* The j-th of B has the key of one before it.                             *)
Repeats(B, j) == B[j].id # None /\ Key(B[j]) \in seenIds \cup Keys(SubSeq(B, 1, j - 1))

(* The places of B whose registration fails.                               *)
RepeatedIn(B) == {B[j].at : j \in {k \in DOMAIN B : Repeats(B, k)}}

(* What the j-th registration says.                                        *)
LEMMA RegisteredSaid ==
  ASSUME NEW B, NEW j, B[j].at \in Place
  PROVE  Says(Registered(B, j), IF Repeats(B, j) THEN {B[j].at} ELSE {}, {}, 0)
<1> DEFINE id == B[j].id
           key == Key(B[j])
           seen == seenIds \cup Keys(SubSeq(B, 1, j - 1))
           at == B[j].at
<1>1. Registered(B, j) = Register(id, key, seen, at)
  BY DEF Registered
<1>2. Repeats(B, j) <=> id # None /\ key \in seen
  BY DEF Repeats
<1>3. at \in Place
  OBVIOUS
<1> HIDE DEF id, key, seen, at
<1>4. Says(Register(id, key, seen, at), IF id # None /\ key \in seen THEN {at} ELSE {}, {}, 0)
  BY <1>3, RegisterSaid
<1> QED
  BY <1>1, <1>2, <1>4 DEF at

(* What the selectKeys of a statement say.                                 *)
LEMMA OfSelectKeysSaid ==
  ASSUME Typed, NEW n \in DOMAIN document, document[n].tag = "statement"
  PROVE  LET B == BuildStatements(n) keys == SelectKeys(n)
         IN  Says(OfSelectKeys(B, keys),
                  {B[k + 1].at : k \in {j \in DOMAIN keys : Repeats(B, j + 1)}},
                  UNION {UnnamedIn(n, i) : i \in SelectKeysIn(n)}, 0)
<1> DEFINE B == BuildStatements(n)
           keys == SelectKeys(n)
           m == Len(keys)
           ss == [k \in 1 .. m |-> Registered(B, k + 1) \o SelectKeyBody(keys[k]).diagnostics]
           dup == [k \in 1 .. m |-> IF Repeats(B, k + 1) THEN {B[k + 1].at} ELSE {}]
           un == [k \in 1 .. m |-> UnnamedIn(n, CHOOSE i \in SelectKeysIn(n) : keys[k].at = <<n, i>>)]
<1>1. /\ B \in Seq(Statement) /\ Len(B) = m + 1
      /\ \A k \in DOMAIN keys : B[k + 1].at = keys[k].at
  BY BuildStatementsSound
<1>2. /\ keys \in Seq(Segment)
      /\ \A k \in DOMAIN keys : \E i \in SelectKeysIn(n) :
              keys[k] = Markers(n)[i] /\ keys[k].at = <<n, i>>
      /\ \A i \in SelectKeysIn(n) : \E k \in DOMAIN keys :
              keys[k] = Markers(n)[i] /\ keys[k].at = <<n, i>>
  BY SelectKeysFound
<1>3. DOMAIN keys = 1 .. m /\ m \in Nat
  BY <1>2
<1>4. OfSelectKeys(B, keys) = Together(ss)
  BY <1>3 DEF OfSelectKeys
<1>5. ss = [k \in 1 .. m |-> ss[k]]
  OBVIOUS
<1>6. \A k \in 1 .. m :
        /\ ss[k] = Registered(B, k + 1) \o SelectKeyBody(keys[k]).diagnostics
        /\ dup[k] = IF Repeats(B, k + 1) THEN {B[k + 1].at} ELSE {}
        /\ un[k] = UnnamedIn(n, CHOOSE i \in SelectKeysIn(n) : keys[k].at = <<n, i>>)
  OBVIOUS
<1> HIDE DEF B, keys, m, ss, dup, un
<1>7. ASSUME NEW k \in 1 .. m, NEW i \in SelectKeysIn(n), keys[k].at = <<n, i>>
      PROVE  un[k] = UnnamedIn(n, i) /\ keys[k] = Markers(n)[i]
  <2> DEFINE c == CHOOSE j \in SelectKeysIn(n) : keys[k].at = <<n, j>>
  <2>1. c \in SelectKeysIn(n) /\ keys[k].at = <<n, c>>
    BY <1>7
  <2>2. c = i
    BY <1>7, <2>1, PathsDiffer
  <2>3. PICK j \in SelectKeysIn(n) : keys[k] = Markers(n)[j] /\ keys[k].at = <<n, j>>
    BY <1>2, <1>3
  <2>4. j = i
    BY <1>7, <2>3, PathsDiffer
  <2> QED
    BY <1>6, <2>2, <2>3, <2>4
<1>8. ASSUME NEW k \in 1 .. m PROVE Says(ss[k], dup[k], un[k], 0)
  <2>1. PICK i \in SelectKeysIn(n) : keys[k].at = <<n, i>>
    BY <1>2, <1>3
  <2>2. un[k] = UnnamedIn(n, i) /\ keys[k] = Markers(n)[i]
    BY <1>7, <2>1
  <2>3. Says(SelectKeyBody(keys[k]).diagnostics, {}, un[k], 0)
    BY <2>2, KeyBodySaid
  <2>4. B[k + 1].at \in Place
    <3>1. k + 1 \in 1 .. Len(B)
      BY <1>1, <1>3
    <3>2. B[k + 1] \in Statement
      BY <1>1, <3>1
    <3> QED
      BY <3>2 DEF Statement
  <2>5. Says(Registered(B, k + 1), IF Repeats(B, k + 1) THEN {B[k + 1].at} ELSE {}, {}, 0)
    <3> DEFINE j == k + 1
    <3>1. B[j].at \in Place
      BY <2>4
    <3> HIDE DEF j
    <3>2. Says(Registered(B, j), IF Repeats(B, j) THEN {B[j].at} ELSE {}, {}, 0)
      BY <3>1, RegisteredSaid
    <3> QED
      BY <3>2 DEF j
  <2>6. Says(Registered(B, k + 1), dup[k], {}, 0)
    BY <1>6, <2>5
  <2>7. Says(Registered(B, k + 1) \o SelectKeyBody(keys[k]).diagnostics,
             dup[k] \cup {}, {} \cup un[k], 0 + 0)
    BY <2>3, <2>6, SaysJoined
  <2>8. dup[k] \cup {} = dup[k] /\ {} \cup un[k] = un[k] /\ 0 + 0 = 0
    OBVIOUS
  <2> QED
    BY <1>6, <2>7, <2>8
<1>9. Says(Together(ss), AllOf(dup, m), AllOf(un, m), 0)
  <2>1. EachSays(ss, m, dup, un)
    BY <1>5, <1>8 DEF EachSays
  <2> QED
    BY <1>3, <2>1, SaysTogether
<1>10. AllOf(dup, m) = {B[k + 1].at : k \in {j \in DOMAIN keys : Repeats(B, j + 1)}}
  <2> DEFINE R == {B[k + 1].at : k \in {j \in DOMAIN keys : Repeats(B, j + 1)}}
  <2>1. ASSUME NEW p \in AllOf(dup, m) PROVE p \in R
    <3>1. PICK k \in 1 .. m : p \in dup[k]
      BY DEF AllOf
    <3>2. Repeats(B, k + 1) /\ p = B[k + 1].at
      BY <1>6, <3>1
    <3> QED
      BY <1>3, <3>2
  <2>2. ASSUME NEW p \in R PROVE p \in AllOf(dup, m)
    <3>1. PICK k \in 1 .. m : Repeats(B, k + 1) /\ p = B[k + 1].at
      BY <1>3
    <3>2. p \in dup[k]
      BY <1>6, <3>1
    <3> QED
      BY <3>2 DEF AllOf
  <2> HIDE DEF R
  <2> QED
    BY <2>1, <2>2 DEF R
<1>11. AllOf(un, m) = UNION {UnnamedIn(n, i) : i \in SelectKeysIn(n)}
  <2>1. ASSUME NEW p \in AllOf(un, m) PROVE \E i \in SelectKeysIn(n) : p \in UnnamedIn(n, i)
    <3>1. PICK k \in 1 .. m : p \in un[k]
      BY DEF AllOf
    <3>2. PICK i \in SelectKeysIn(n) : keys[k].at = <<n, i>>
      BY <1>2, <1>3
    <3> QED
      BY <1>7, <3>1, <3>2
  <2>2. ASSUME NEW i \in SelectKeysIn(n), NEW p \in UnnamedIn(n, i) PROVE p \in AllOf(un, m)
    <3>1. PICK k \in 1 .. m : keys[k].at = <<n, i>>
      BY <1>2, <1>3
    <3>2. p \in un[k]
      BY <1>7, <2>2, <3>1
    <3> QED
      BY <3>2 DEF AllOf
  <2> QED
    BY <2>1, <2>2
<1> QED
  BY <1>4, <1>9, <1>10, <1>11 DEF B, keys

-------------------------------------------------------------------------------
(* The turns of the loop.                                                  *)

(* While the document is the same, so is what is told of it.               *)
LEMMA Still ==
  ASSUME UNCHANGED input
  PROVE  /\ Typed' <=> Typed
         /\ StatementPlaces' = StatementPlaces /\ FragmentPlaces' = FragmentPlaces
         /\ Unnamed' = Unnamed /\ Capped' = Capped /\ DanglingPlaces' = DanglingPlaces
         /\ \A s : Faithful(s)' <=> Faithful(s)
         /\ \A inc, o : IncludesSound(inc, o)' <=> IncludesSound(inc, o)
<1>1. document' = document /\ dialect' = dialect
  BY DEF input
<1>2. Typed' <=> Typed
  BY <1>1 DEF Typed
<1>3. \A T : ChildrenOf(T)' = ChildrenOf(T)
  BY <1>1 DEF ChildrenOf
<1>4. SelectKeyPlaces' = SelectKeyPlaces
  BY <1>1, <1>3 DEF SelectKeyPlaces
<1>5. StatementPlaces' = StatementPlaces
  BY <1>3, <1>4 DEF StatementPlaces
<1>6. FragmentPlaces' = FragmentPlaces
  BY <1>1, <1>3 DEF FragmentPlaces
<1>7. \A p : MarkerAt(p)' = MarkerAt(p)
  BY <1>1 DEF MarkerAt
<1>8. IncludePlaces' = IncludePlaces
  BY <1>1 DEF IncludePlaces
<1>9. \A p : OwnerOf(p)' = OwnerOf(p)
  BY <1>1, <1>7 DEF OwnerOf
<1>10. \A o : Owned(o)' = Owned(o)
  BY <1>7, <1>8, <1>9 DEF Owned
<1>11. \A r : Target(r)' = Target(r)
  BY <1>1 DEF Target
<1>12. Unnamed' = Unnamed
  BY <1>5, <1>6, <1>7, <1>8, <1>9 DEF Unnamed
<1>13. Capped' = Capped
  BY <1>1, <1>5, <1>6 DEF Capped
<1>14. DanglingPlaces' = DanglingPlaces
  <2>1. Judged' = Judged
    BY <1>5, <1>6, <1>10 DEF Judged
  <2> QED
    BY <1>1, <1>6, <1>7, <1>11, <2>1 DEF DanglingPlaces
<1>15. \A inc, o : IncludesSound(inc, o)' <=> IncludesSound(inc, o)
  BY <1>7, <1>10, <1>11 DEF IncludesSound
<1>16. \A p : IdAt(p)' = IdAt(p) /\ DbAt(p)' = DbAt(p)
  BY <1>1, <1>7 DEF IdAt, DbAt
<1>17. \A s : Faithful(s)' <=> Faithful(s)
  BY <1>15, <1>16 DEF Faithful
<1> QED
  BY <1>2, <1>5, <1>6, <1>12, <1>13, <1>14, <1>15, <1>17

(* How many diagnostics without a span a child's turn makes.               *)
Cap(n) == IF document[n].capped /\ InResult(n) THEN 1 ELSE 0

(* What the diagnostics say after a statement's turn.                      *)
LEMMA StatementSaid ==
  ASSUME Typed, NEW n \in DOMAIN document, document[n].tag = "statement",
         NEW D, NEW X, NEW Y, NEW c \in Nat, Says(D, X, Y, c)
  PROVE  LET B == BuildStatements(n)
         IN  Says(D \o Registered(B, 1) \o MissingId(document[n].id, <<n>>)
                    \o OfSelectKeys(B, SelectKeys(n)) \o OwnBody(n).diagnostics,
                  X \cup RepeatedIn(B), Y \cup UnnamedAt(n), c + Cap(n))
<1> DEFINE B == BuildStatements(n)
           keys == SelectKeys(n)
           R == Registered(B, 1)
           M == MissingId(document[n].id, <<n>>)
           K == OfSelectKeys(B, keys)
           W == OwnBody(n).diagnostics
           d1 == IF Repeats(B, 1) THEN {B[1].at} ELSE {}
           d2 == {B[k + 1].at : k \in {j \in DOMAIN keys : Repeats(B, j + 1)}}
           u1 == UNION {UnnamedIn(n, i) : i \in SelectKeysIn(n)}
           u2 == UnnamedDirect(n)
           e == Cap(n)
<1>1. /\ B \in Seq(Statement) /\ Len(B) = Len(keys) + 1 /\ B[1].at = <<n>>
  BY BuildStatementsSound
<1>2. n \in Nat /\ <<n>> \in Place
  <2>1. n \in Nat
    BY ChildAt
  <2> QED
    BY <2>1, Paths
<1>3. Says(R, d1, {}, 0)
  <2> DEFINE j == 1
  <2>1. B[j].at \in Place
    BY <1>1, <1>2
  <2> HIDE DEF B, j
  <2>2. Says(Registered(B, j), IF Repeats(B, j) THEN {B[j].at} ELSE {}, {}, 0)
    BY <2>1, RegisteredSaid
  <2> QED
    BY <2>2 DEF j
<1>4. Says(M, {}, {}, 0)
  BY <1>2, MissingIdSaid
<1>5. Says(K, d2, u1, 0)
  BY OfSelectKeysSaid
<1>6. Says(W, {}, u2, e)
  <2>1. e = IF document[n].capped THEN 1 ELSE 0
    BY DEF Cap, InResult
  <2>2. Says(W, {}, u2, IF document[n].capped THEN 1 ELSE 0)
    BY OwnBodySaid
  <2> QED
    BY <2>1, <2>2
<1>7. DOMAIN keys = 1 .. Len(keys) /\ Len(keys) \in Nat
  <2>1. keys \in Seq(Segment)
    BY SelectKeysFound
  <2> QED
    BY <2>1
<1>8. DOMAIN B = 1 .. Len(keys) + 1
  BY <1>1
<1>9. d1 \cup d2 = RepeatedIn(B)
  <2> HIDE DEF B, keys
  <2>1. ASSUME NEW p \in RepeatedIn(B) PROVE p \in d1 \cup d2
    <3>1. PICK j \in DOMAIN B : Repeats(B, j) /\ p = B[j].at
      BY DEF RepeatedIn
    <3>2. CASE j = 1
      BY <3>1, <3>2
    <3>3. CASE j # 1
      <4>1. j - 1 \in DOMAIN keys /\ (j - 1) + 1 = j
        BY <1>7, <1>8, <3>3
      <4> QED
        BY <3>1, <4>1
    <3> QED
      BY <3>2, <3>3
  <2>2. ASSUME NEW p \in d1 PROVE p \in RepeatedIn(B)
    <3>1. Repeats(B, 1) /\ p = B[1].at /\ 1 \in DOMAIN B
      BY <1>7, <1>8
    <3> QED
      BY <3>1 DEF RepeatedIn
  <2>3. ASSUME NEW p \in d2 PROVE p \in RepeatedIn(B)
    <3>1. PICK k \in DOMAIN keys : Repeats(B, k + 1) /\ p = B[k + 1].at
      OBVIOUS
    <3>2. k + 1 \in DOMAIN B
      BY <1>7, <1>8
    <3> QED
      BY <3>1, <3>2 DEF RepeatedIn
  <2> HIDE DEF d1, d2
  <2> QED
    BY <2>1, <2>2, <2>3
<1>10. u1 \cup u2 = UnnamedAt(n)
  BY DEF UnnamedAt, InResult
<1>11. e \in Nat
  BY DEF Cap
<1> HIDE DEF B, keys, R, M, K, W, d1, d2, u1, u2, e
<1>12. Says(D \o R, X \cup d1, Y \cup {}, c + 0)
  BY <1>3, SaysJoined
<1>13. Says(D \o R \o M, (X \cup d1) \cup {}, (Y \cup {}) \cup {}, (c + 0) + 0)
  BY <1>4, <1>12, SaysJoined
<1>14. Says(D \o R \o M \o K, ((X \cup d1) \cup {}) \cup d2, ((Y \cup {}) \cup {}) \cup u1,
            ((c + 0) + 0) + 0)
  BY <1>5, <1>13, SaysJoined
<1>15. Says(D \o R \o M \o K \o W, (((X \cup d1) \cup {}) \cup d2) \cup {},
            (((Y \cup {}) \cup {}) \cup u1) \cup u2, (((c + 0) + 0) + 0) + e)
  BY <1>6, <1>14, SaysJoined
<1>16. /\ (((X \cup d1) \cup {}) \cup d2) \cup {} = X \cup RepeatedIn(B)
       /\ (((Y \cup {}) \cup {}) \cup u1) \cup u2 = Y \cup UnnamedAt(n)
       /\ (((c + 0) + 0) + 0) + e = c + e
  BY <1>9, <1>10, <1>11
<1> QED
  BY <1>15, <1>16 DEF B, keys, R, M, K, W, e

(* What they say after a fragment's turn, which may find its id used.      *)
FragmentTurn(D, n, seen, b, X, Y, c) ==
  \E Z \in SUBSET {<<n>>} :
    Says(D \o MissingId(document[n].id, <<n>>)
           \o Register(document[n].id, document[n].id, seen, <<n>>)
           \o Each("UnknownElement", SelectKeys(n))
           \o (IF b # << >> THEN OwnBody(n).diagnostics ELSE << >>),
         X \cup Z, Y \cup UnnamedAt(n), c + Cap(n))

(* They do say that.                                                       *)
LEMMA FragmentSaid ==
  ASSUME Typed, NEW n \in DOMAIN document, document[n].tag = "sql", NEW seen, NEW b,
         b # << >> <=> document[n].id # None,
         NEW D, NEW X, NEW Y, NEW c \in Nat, Says(D, X, Y, c)
  PROVE  FragmentTurn(D, n, seen, b, X, Y, c)
<1> SUFFICES \E Z \in SUBSET {<<n>>} :
             Says(D \o MissingId(document[n].id, <<n>>)
                    \o Register(document[n].id, document[n].id, seen, <<n>>)
                    \o Each("UnknownElement", SelectKeys(n))
                    \o (IF b # << >> THEN OwnBody(n).diagnostics ELSE << >>),
                  X \cup Z, Y \cup UnnamedAt(n), c + Cap(n))
  BY DEF FragmentTurn
<1> DEFINE id == document[n].id
           M == MissingId(id, <<n>>)
           R == Register(id, id, seen, <<n>>)
           E == Each("UnknownElement", SelectKeys(n))
           W == IF b # << >> THEN OwnBody(n).diagnostics ELSE << >>
           Z == IF id # None /\ id \in seen THEN {<<n>>} ELSE {}
           u == UnnamedAt(n)
           e == Cap(n)
<1>1. n \in Nat /\ <<n>> \in Place
  <2>1. n \in Nat
    BY ChildAt
  <2> QED
    BY <2>1, Paths
<1>2. Says(M, {}, {}, 0)
  BY <1>1, MissingIdSaid
<1>3. Says(R, Z, {}, 0)
  <2> DEFINE i == id
             at == <<n>>
  <2>1. at \in Place
    BY <1>1
  <2> HIDE DEF i, at
  <2>2. Says(Register(i, i, seen, at), IF i # None /\ i \in seen THEN {at} ELSE {}, {}, 0)
    BY <2>1, RegisterSaid
  <2> QED
    BY <2>2 DEF i, at
<1>4. Says(E, {}, {}, 0)
  <2> DEFINE code == "UnknownElement"
             s == SelectKeys(n)
  <2>1. code \in Code /\ code # "DuplicateStatementId" /\ code # "DanglingRefid"
    BY DEF Code
  <2>2. s \in Seq(Segment)
    BY SelectKeysFound
  <2>3. \A x \in Segment : x.at \in Place
    BY DEF Segment
  <2> HIDE DEF code, s
  <2>4. Says(Each(code, s),
             IF code = "DuplicateStatementId" THEN {x.at : x \in ToSet(s)} ELSE {},
             IF code = "DanglingRefid" THEN {x.at : x \in ToSet(s)} ELSE {}, 0)
    BY <2>1, <2>2, <2>3, EachSaid
  <2>5. Says(Each(code, s), {}, {}, 0)
    BY <2>1, <2>4
  <2> QED
    BY <2>5 DEF code, s
<1>5. Says(W, {}, u, e)
  <2>1. CASE id # None
    <3>1. W = OwnBody(n).diagnostics /\ InResult(n)
      BY <2>1 DEF InResult
    <3>2. u = UnnamedDirect(n)
      BY <3>1 DEF UnnamedAt
    <3>3. e = IF document[n].capped THEN 1 ELSE 0
      BY <3>1 DEF Cap
    <3>4. Says(OwnBody(n).diagnostics, {}, UnnamedDirect(n), IF document[n].capped THEN 1 ELSE 0)
      BY OwnBodySaid
    <3> QED
      BY <3>1, <3>2, <3>3, <3>4
  <2>2. CASE id = None
    <3>1. W = << >> /\ ~ InResult(n)
      BY <2>2 DEF InResult
    <3>2. u = {} /\ e = 0
      BY <3>1 DEF UnnamedAt, Cap
    <3> QED
      BY <3>1, <3>2, NothingSaid
  <2> QED
    BY <2>1, <2>2
<1>6. e \in Nat
  BY DEF Cap
<1>7. Z \in SUBSET {<<n>>}
  OBVIOUS
<1> HIDE DEF id, M, R, E, W, Z, u, e
<1>8. Says(D \o M, X \cup {}, Y \cup {}, c + 0)
  BY <1>2, SaysJoined
<1>9. Says(D \o M \o R, (X \cup {}) \cup Z, (Y \cup {}) \cup {}, (c + 0) + 0)
  BY <1>3, <1>8, SaysJoined
<1>10. Says(D \o M \o R \o E, ((X \cup {}) \cup Z) \cup {}, ((Y \cup {}) \cup {}) \cup {},
            ((c + 0) + 0) + 0)
  BY <1>4, <1>9, SaysJoined
<1>11. Says(D \o M \o R \o E \o W, (((X \cup {}) \cup Z) \cup {}) \cup {},
            (((Y \cup {}) \cup {}) \cup {}) \cup u, (((c + 0) + 0) + 0) + e)
  BY <1>5, <1>10, SaysJoined
<1>12. /\ (((X \cup {}) \cup Z) \cup {}) \cup {} = X \cup Z
       /\ (((Y \cup {}) \cup {}) \cup {}) \cup u = Y \cup u
       /\ (((c + 0) + 0) + 0) + e = c + e
  BY <1>6
<1>13. Says(D \o M \o R \o E \o W, X \cup Z, Y \cup u, c + e)
  BY <1>11, <1>12
<1> QED
  BY <1>7, <1>13 DEF id, M, R, E, W, u, e

(* What they say after a resultMap's turn.                                 *)
LEMMA ResultMapSaid ==
  ASSUME Typed, NEW n \in DOMAIN document, document[n].tag = "resultMap", NEW seen,
         NEW D, NEW X, NEW Y, NEW c \in Nat, Says(D, X, Y, c)
  PROVE  \E Z \in SUBSET {<<n>>} :
           Says(D \o MissingId(document[n].id, <<n>>)
                  \o Register(document[n].id, document[n].id, seen, <<n>>),
                X \cup Z, Y \cup UnnamedAt(n), c + Cap(n))
<1> DEFINE id == document[n].id
           at == <<n>>
           M == MissingId(id, at)
           R == Register(id, id, seen, at)
           Z == IF id # None /\ id \in seen THEN {at} ELSE {}
           u == UnnamedAt(n)
           e == Cap(n)
<1>1. at \in Place
  <2>1. n \in Nat
    BY ChildAt
  <2> QED
    BY <2>1, Paths
<1>2. ~ InResult(n)
  BY DEF InResult
<1>3. u = {} /\ e = 0
  BY <1>2 DEF UnnamedAt, Cap
<1>4. Z \in SUBSET {at}
  OBVIOUS
<1> HIDE DEF id, at, u, e
<1>5. Says(M, {}, {}, 0)
  BY <1>1, MissingIdSaid
<1>6. Says(R, Z, {}, 0)
  BY <1>1, RegisterSaid
<1> HIDE DEF M, R, Z
<1>7. Says(D \o M, X \cup {}, Y \cup {}, c + 0)
  BY <1>5, SaysJoined
<1>8. Says(D \o M \o R, (X \cup {}) \cup Z, (Y \cup {}) \cup {}, (c + 0) + 0)
  BY <1>6, <1>7, SaysJoined
<1>9. /\ (X \cup {}) \cup Z = X \cup Z /\ (Y \cup {}) \cup {} = Y \cup u
      /\ (c + 0) + 0 = c + e
  BY <1>3
<1>10. Says(D \o M \o R, X \cup Z, Y \cup u, c + e)
  BY <1>8, <1>9
<1> QED
  BY <1>4, <1>10 DEF id, at, M, R, u, e

(* The keys of a sequence depend on what it holds.                         *)
LEMMA KeysOfSet ==
  ASSUME NEW S
  PROVE  Keys(S) = {Key(s) : s \in {t \in ToSet(S) : t.id # None}}
BY DEF Keys, ToSet

(* The keys of two sequences end to end.                                   *)
LEMMA KeysJoined ==
  ASSUME NEW T, NEW a \in Seq(T), NEW b \in Seq(T)
  PROVE  Keys(a \o b) = Keys(a) \cup Keys(b)
<1>1. ToSet(a \o b) = ToSet(a) \cup ToSet(b)
  BY SetOfJoined
<1> QED
  BY <1>1, KeysOfSet

(* The keys of those before the j-th.                                      *)
LEMMA KeysBefore ==
  ASSUME NEW T, NEW B \in Seq(T), NEW j \in DOMAIN B
  PROVE  \A key : key \in Keys(SubSeq(B, 1, j - 1))
           <=> \E i \in 1 .. j - 1 : B[i].id # None /\ Key(B[i]) = key
<1> DEFINE s == SubSeq(B, 1, j - 1)
<1>1. j - 1 \in Nat /\ j - 1 <= Len(B)
  OBVIOUS
<1>2. /\ s \in Seq(T) /\ Len(s) = j - 1 /\ \A i \in 1 .. j - 1 : s[i] = B[i]
  <2> DEFINE n == j - 1
  <2>1. n \in Nat /\ n <= Len(B)
    BY <1>1
  <2> HIDE DEF n
  <2>2. /\ SubSeq(B, 1, n) \in Seq(T) /\ Len(SubSeq(B, 1, n)) = n
        /\ \A i \in 1 .. n : SubSeq(B, 1, n)[i] = B[i]
    BY <2>1, FirstOnes
  <2> QED
    BY <2>2 DEF n
<1> HIDE DEF s
<1>3. DOMAIN s = 1 .. j - 1
  BY <1>2
<1>4. \A key : key \in Keys(s) <=> \E i \in 1 .. j - 1 : B[i].id # None /\ Key(B[i]) = key
  BY <1>2, <1>3 DEF Keys
<1> QED
  BY <1>4 DEF s

(* The statements so far with B behind them: the repetitions are those     *)
(* there were, and those in B.                                             *)
LEMMA DuplicatesJoined ==
  ASSUME NEW S \in Seq(Statement), NEW B \in Seq(Statement), NEW X,
         seenIds = Keys(S),
         \A j \in DOMAIN S : IsRepeated(S, j) <=> S[j].at \in X,
         \A j \in DOMAIN S, k \in DOMAIN B : S[j].at # B[k].at,
         \A j \in DOMAIN B : B[j].at \notin X,
         \A j, k \in DOMAIN B : B[j].at = B[k].at => j = k
  PROVE  \A j \in DOMAIN (S \o B) :
           IsRepeated(S \o B, j) <=> (S \o B)[j].at \in X \cup RepeatedIn(B)
<1> DEFINE T == S \o B
<1>1. /\ T \in Seq(Statement) /\ Len(T) = Len(S) + Len(B)
      /\ \A k \in 1 .. Len(S) : T[k] = S[k]
      /\ \A k \in 1 .. Len(B) : T[Len(S) + k] = B[k]
      /\ \A k \in 1 .. Len(T) : \/ k \in 1 .. Len(S) /\ T[k] = S[k]
                                \/ k - Len(S) \in 1 .. Len(B) /\ T[k] = B[k - Len(S)]
  BY Joined
<1>2. /\ DOMAIN S = 1 .. Len(S) /\ DOMAIN B = 1 .. Len(B) /\ DOMAIN T = 1 .. Len(T)
      /\ Len(S) \in Nat /\ Len(B) \in Nat
  BY <1>1
<1> HIDE DEF T
<1>3. \A s, t : Key(s) = Key(t) => s.id = t.id
  BY DEF Key
<1>4. ASSUME NEW j \in DOMAIN T, j \in 1 .. Len(S), T[j] = S[j]
      PROVE  IsRepeated(T, j) <=> T[j].at \in X \cup RepeatedIn(B)
  <2>1. \A i \in 1 .. j - 1 : i \in 1 .. Len(S) /\ T[i] = S[i]
    BY <1>1, <1>2, <1>4
  <2>2. IsRepeated(T, j) <=> IsRepeated(S, j)
    BY <1>4, <2>1 DEF IsRepeated
  <2>3. S[j].at \notin RepeatedIn(B)
    BY <1>2, <1>4 DEF RepeatedIn
  <2> QED
    BY <1>2, <1>4, <2>2, <2>3
<1>5. ASSUME NEW j \in DOMAIN T, j - Len(S) \in 1 .. Len(B), T[j] = B[j - Len(S)]
      PROVE  IsRepeated(T, j) <=> T[j].at \in X \cup RepeatedIn(B)
  <2> DEFINE k == j - Len(S)
  <2>0. k \in DOMAIN B /\ T[j] = B[k] /\ j = Len(S) + k /\ j \in Nat /\ k \in Nat
    BY <1>2, <1>5
  <2> HIDE DEF k
  <2>1. T[j].at \in X \cup RepeatedIn(B) <=> Repeats(B, k)
    BY <2>0 DEF RepeatedIn
  <2>2. ASSUME IsRepeated(T, j) PROVE Repeats(B, k)
    <3>1. T[j].id # None
      BY <2>2 DEF IsRepeated
    <3>2. PICK i \in 1 .. j - 1 : Key(T[i]) = Key(T[j])
      BY <2>2 DEF IsRepeated
    <3>3. T[i].id # None
      BY <1>3, <3>1, <3>2
    <3>4. CASE i \in 1 .. Len(S) /\ T[i] = S[i]
      <4>1. Key(T[j]) \in Keys(S)
        BY <1>2, <3>2, <3>3, <3>4 DEF Keys
      <4> QED
        BY <2>0, <3>1, <4>1 DEF Repeats
    <3>5. CASE i - Len(S) \in 1 .. Len(B) /\ T[i] = B[i - Len(S)]
      <4>1. i - Len(S) \in 1 .. k - 1
        BY <1>2, <2>0, <3>5
      <4>2. Key(T[j]) \in Keys(SubSeq(B, 1, k - 1))
        BY <2>0, <3>2, <3>3, <3>5, <4>1, KeysBefore
      <4> QED
        BY <2>0, <3>1, <4>2 DEF Repeats
    <3>6. i \in 1 .. Len(T)
      BY <1>2
    <3> QED
      BY <1>1, <3>4, <3>5, <3>6
  <2>3. ASSUME Repeats(B, k) PROVE IsRepeated(T, j)
    <3>1. B[k].id # None /\ Key(B[k]) \in Keys(S) \cup Keys(SubSeq(B, 1, k - 1))
      BY <2>3 DEF Repeats
    <3>2. CASE Key(B[k]) \in Keys(S)
      <4>1. PICK i \in DOMAIN S : Key(S[i]) = Key(B[k])
        BY <3>2 DEF Keys
      <4>2. i \in 1 .. j - 1 /\ T[i] = S[i]
        BY <1>1, <1>2, <2>0
      <4> QED
        BY <2>0, <3>1, <4>1, <4>2 DEF IsRepeated
    <3>3. CASE Key(B[k]) \in Keys(SubSeq(B, 1, k - 1))
      <4>1. PICK i \in 1 .. k - 1 : Key(B[i]) = Key(B[k])
        BY <2>0, <3>3, KeysBefore
      <4>2. Len(S) + i \in 1 .. j - 1 /\ i \in 1 .. Len(B)
        BY <1>2, <2>0
      <4>3. T[Len(S) + i] = B[i]
        BY <1>1, <4>2
      <4> QED
        BY <2>0, <3>1, <4>1, <4>2, <4>3 DEF IsRepeated
    <3> QED
      BY <3>1, <3>2, <3>3
  <2> QED
    BY <2>1, <2>2, <2>3
<1>6. \A j \in DOMAIN T : IsRepeated(T, j) <=> T[j].at \in X \cup RepeatedIn(B)
  BY <1>1, <1>2, <1>4, <1>5
<1> QED
  BY <1>6 DEF T

(* The places up to one child more.                                        *)
LEMMA OneChildMore ==
  ASSUME NEW P, NEW Q, NEW n \in Nat, \A p \in P : p[1] \in Nat, Q = {p \in P : p[1] = n}
  PROVE  UpTo(P, n + 1) = UpTo(P, n) \cup Q
BY DEF UpTo

(* What a turn adds to the places passed.                                  *)
LEMMA PlacesOfChild ==
  ASSUME Typed, NEW n \in DOMAIN document
  PROVE  /\ UpTo(StatementPlaces, n + 1) = UpTo(StatementPlaces, n) \cup StatementsAt(n)
         /\ UpTo(FragmentPlaces, n + 1) = UpTo(FragmentPlaces, n) \cup FragmentsAt(n)
         /\ UpTo(Unnamed, n + 1) = UpTo(Unnamed, n) \cup UnnamedAt(n)
<1>0. n \in Nat /\ DOMAIN document \subseteq Nat
  BY ChildAt
<1>1. /\ \A c \in DOMAIN document : \A p \in StatementsAt(c) : p[1] = c
      /\ \A c \in DOMAIN document : \A p \in FragmentsAt(c) : p[1] = c
      /\ \A c \in DOMAIN document : \A p \in UnnamedAt(c) : p[1] = c
  <2>1. \A c \in DOMAIN document : \A p \in StatementsAt(c) : p[1] = c
    BY StatementAt
  <2>2. \A c \in DOMAIN document : \A p \in FragmentsAt(c) : p[1] = c
    BY DEF FragmentsAt
  <2> QED
    BY <2>1, <2>2, UnnamedAre
<1>2. UpTo(StatementPlaces, n + 1) = UpTo(StatementPlaces, n) \cup StatementsAt(n)
  <2>1. StatementsAt(n) = {p \in StatementPlaces : p[1] = n} /\ \A p \in StatementPlaces : p[1] \in Nat
    BY <1>0, <1>1, StatementPlacesAre
  <2> QED
    BY <1>0, <2>1, OneChildMore
<1>3. UpTo(FragmentPlaces, n + 1) = UpTo(FragmentPlaces, n) \cup FragmentsAt(n)
  <2>1. FragmentsAt(n) = {p \in FragmentPlaces : p[1] = n} /\ \A p \in FragmentPlaces : p[1] \in Nat
    BY <1>0, <1>1, FragmentPlacesAre
  <2> QED
    BY <1>0, <2>1, OneChildMore
<1>4. UpTo(Unnamed, n + 1) = UpTo(Unnamed, n) \cup UnnamedAt(n)
  <2>1. UnnamedAt(n) = {p \in Unnamed : p[1] = n} /\ \A p \in Unnamed : p[1] \in Nat
    BY <1>0, <1>1, UnnamedAre
  <2> QED
    BY <1>0, <2>1, OneChildMore
<1> QED
  BY <1>2, <1>3, <1>4

(* The capped bodies of the children before the n-th.                      *)
CappedUpTo(n) == {c \in Capped : c < n}

(* What a turn adds to their number.                                       *)
LEMMA CappedOfChild ==
  ASSUME Typed, NEW n \in DOMAIN document
  PROVE  Cardinality(CappedUpTo(n + 1)) = Cardinality(CappedUpTo(n)) + Cap(n)
         /\ Cardinality(CappedUpTo(n)) \in Nat
<1>1. Capped = {c \in DOMAIN document : document[c].capped /\ InResult(c)}
  BY ChildInResult DEF Capped
<1>2. DOMAIN document = 1 .. Len(document) /\ Len(document) \in Nat /\ n \in Nat
  BY DEF Typed
<1>3. CappedUpTo(n + 1) = IF n \in Capped THEN CappedUpTo(n) \cup {n} ELSE CappedUpTo(n)
  BY <1>1, <1>2 DEF CappedUpTo
<1>4. IsFiniteSet(CappedUpTo(n)) /\ Cardinality(CappedUpTo(n)) \in Nat
  <2>1. CappedUpTo(n) \subseteq 1 .. Len(document)
    BY <1>1, <1>2 DEF CappedUpTo
  <2>2. IsFiniteSet(1 .. Len(document))
    <3>1. 1 \in Int /\ Len(document) \in Int
      BY <1>2
    <3> QED
      BY <3>1, FS_Interval
  <2> QED
    BY <2>1, <2>2, FS_Subset, FS_CardinalityType
<1>5. n \notin CappedUpTo(n)
  BY <1>2 DEF CappedUpTo
<1>6. Cardinality(CappedUpTo(n) \cup {n}) = Cardinality(CappedUpTo(n)) + 1
  BY <1>4, <1>5, FS_AddElement
<1>7. CASE n \in Capped
  <2>1. Cap(n) = 1
    BY <1>1, <1>7 DEF Cap
  <2> QED
    BY <1>3, <1>4, <1>6, <1>7, <2>1
<1>8. CASE n \notin Capped
  <2>1. Cap(n) = 0
    BY <1>1, <1>8 DEF Cap
  <2>2. \A x \in Nat : x = x + 0
    OBVIOUS
  <2> QED
    BY <1>3, <1>4, <1>8, <2>1, <2>2
<1> QED
  BY <1>7, <1>8

(* A diagnostic is one of D's if its place is one of its code's.           *)
LEMMA InAtCode ==
  ASSUME NEW D \in Seq(Diag), NEW code, NEW at
  PROVE  Diagnostic(code, at) \in ToSet(D) <=> at \in AtCode(D, code)
<1>1. \A d \in ToSet(D) : d \in Diag
  BY DEF ToSet
<1>2. \A d \in Diag : d = [code |-> d.code, at |-> d.at]
  BY DEF Diag
<1>3. ASSUME at \in AtCode(D, code) PROVE Diagnostic(code, at) \in ToSet(D)
  <2>1. PICK d \in ToSet(D) : d.code = code /\ d.at = at
    BY <1>3 DEF AtCode
  <2>2. d = [code |-> code, at |-> at]
    BY <1>1, <1>2, <2>1
  <2> QED
    BY <2>1, <2>2 DEF Diagnostic
<1>4. ASSUME Diagnostic(code, at) \in ToSet(D) PROVE at \in AtCode(D, code)
  <2>1. Diagnostic(code, at).code = code /\ Diagnostic(code, at).at = at
    BY DEF Diagnostic
  <2> QED
    BY <1>4, <2>1 DEF AtCode
<1> QED
  BY <1>3, <1>4

(* What the state reports of a code.                                       *)
LEMMA ReportedIs == \A code : Reported(code) = AtCode(diagnostics, code)
BY DEF Reported, AtCode

(* The diagnostics so far, in one formula.                                 *)
LEMMA SaidSoFar ==
  ASSUME DiagnosticsSound, ~ finished
  PROVE  Says(diagnostics, Reported("DuplicateStatementId"), UpTo(Unnamed, next),
              Cardinality(CappedUpTo(next)))
<1>1. /\ diagnostics \in Seq(Diag)
      /\ Reported("DanglingRefid") = UpTo(Unnamed, next)
      /\ Cardinality(Unlocated(diagnostics)) = Cardinality({c \in Capped : c < next})
  BY DEF DiagnosticsSound, Passed
<1>2. AtCode(diagnostics, "DuplicateStatementId") = Reported("DuplicateStatementId")
  BY ReportedIs
<1>3. AtCode(diagnostics, "DanglingRefid") = UpTo(Unnamed, next)
  BY <1>1, ReportedIs
<1> QED
  BY <1>1, <1>2, <1>3 DEF Says, CappedUpTo

(* A turn that reports what its child gives cause for keeps the            *)
(* diagnostics sound.                                                      *)
LEMMA DiagnosticsGrow ==
  ASSUME Typed, next \in DOMAIN document, DiagnosticsSound, ~ finished,
         UNCHANGED input, next' = next + 1, finished' = finished,
         NEW Z, \A p \in Z : p \in Place /\ Len(p) >= 1 /\ p[1] = next,
         Says(diagnostics', Reported("DuplicateStatementId") \cup Z,
              UpTo(Unnamed, next) \cup UnnamedAt(next),
              Cardinality(CappedUpTo(next)) + Cap(next)),
         DuplicatesReported'
  PROVE  DiagnosticsSound'
<1> DEFINE n == next
<1>0. n \in Nat /\ n \in DOMAIN document
  BY ChildAt
<1>1. Unnamed' = Unnamed /\ Capped' = Capped
  BY Still
<1>2. diagnostics' \in Seq(Diag)
  BY DEF Says
<1>2a. Diag' = Diag
  BY DEF Diag, Code, Place
<1>3. /\ Reported("DuplicateStatementId")' = Reported("DuplicateStatementId") \cup Z
      /\ Reported("DanglingRefid")' = UpTo(Unnamed, n) \cup UnnamedAt(n)
  <2>1. \A code : Reported(code)' = AtCode(diagnostics', code)
    BY DEF Reported, AtCode
  <2> QED
    BY <2>1 DEF Says
<1>4. Reported("DanglingRefid")' = UpTo(Unnamed', n')
  <2>1. UpTo(Unnamed, n + 1) = UpTo(Unnamed, n) \cup UnnamedAt(n)
    BY <1>0, PlacesOfChild
  <2> QED
    BY <1>1, <1>3, <2>1
<1>5. \A p \in Reported("DuplicateStatementId")' : p \in Place /\ p # << >> /\ p[1] < n'
  <2> SUFFICES ASSUME NEW p \in Reported("DuplicateStatementId") \cup Z
               PROVE  p \in Place /\ p # << >> /\ p[1] < n + 1
    BY <1>3
  <2>1. CASE p \in Reported("DuplicateStatementId")
    <3>1. p \in Place /\ p # << >> /\ p[1] < n
      BY <2>1 DEF DiagnosticsSound
    <3>2. p[1] \in Nat
      BY <3>1 DEF Place
    <3> QED
      BY <1>0, <3>1, <3>2
  <2>2. CASE p \in Z
    <3>1. p \in Place /\ Len(p) >= 1 /\ p[1] = n
      BY <2>2
    <3>2. p # << >>
      <4>1. Len(<< >>) = 0
        OBVIOUS
      <4>2. Len(p) # 0
        BY <3>1
      <4> QED
        BY <4>1, <4>2, Zenon
    <3> QED
      BY <1>0, <3>1, <3>2
  <2> QED
    BY <2>1, <2>2
<1>6. Cardinality(Unlocated(diagnostics')) = Cardinality({c \in Capped' : c < n'})
  <2>1. Cardinality(CappedUpTo(n + 1)) = Cardinality(CappedUpTo(n)) + Cap(n)
    BY <1>0, CappedOfChild
  <2>2. CappedUpTo(n + 1) = {c \in Capped : c < n + 1}
    BY DEF CappedUpTo
  <2>3. Cardinality(Unlocated(diagnostics')) = Cardinality(CappedUpTo(n)) + Cap(n)
    BY DEF Says
  <2>4. {c \in Capped' : c < n'} = {c \in Capped : c < n + 1}
    BY <1>1
  <2> QED
    BY <2>1, <2>2, <2>3, <2>4
<1>7. ~ finished'
  OBVIOUS
<1>8. (Unlocated(diagnostics))' = Unlocated(diagnostics')
  BY DEF Unlocated
<1> QED
  BY <1>2, <1>4, <1>5, <1>6, <1>7, <1>8 DEF DiagnosticsSound, Passed, UpTo, Diag, Code, Place

(* A turn of the loop is at a child.                                       *)
LEMMA AtChild ==
  ASSUME Reading, ~ finished, next <= Len(document)
  PROVE  Typed /\ next \in DOMAIN document /\ next \in Nat /\ next + 1 \in 1 .. Len(document) + 1
<1>1. document \in Seq(Child) /\ next \in 1 .. Len(document) + 1
  BY DocumentsAssumption DEF Reading
<1>2. DOMAIN document = 1 .. Len(document) /\ Len(document) \in Nat
  BY <1>1
<1> QED
  BY <1>1, <1>2 DEF Typed

(* After it the loop is at the next one, or past the last.                 *)
LEMMA ReadingOn ==
  ASSUME Reading, ~ finished, next <= Len(document), UNCHANGED input, next' = next + 1,
         finished' = finished
  PROVE  Reading'
<1>1. next + 1 \in 1 .. Len(document) + 1
  BY AtChild
<1>2. document' = document /\ dialect' = dialect
  BY DEF input
<1> QED
  BY <1>1, <1>2 DEF Reading, Dialect

(* What a statement's turn does to the statements and says.                *)
LEMMA StatementsGrow ==
  ASSUME IInv, AtStatement
  PROVE  StatementsSound' /\ DuplicatesReported'
         /\ Says(diagnostics', Reported("DuplicateStatementId") \cup RepeatedIn(BuildStatements(next)),
                 UpTo(Unnamed, next) \cup UnnamedAt(next),
                 Cardinality(CappedUpTo(next)) + Cap(next))
<1> DEFINE n == next
           B == BuildStatements(n)
           X == Reported("DuplicateStatementId")
           T == statements \o B
<1>1. /\ ~ finished /\ n <= Len(document) /\ document[n].tag = "statement"
      /\ statements' = T /\ seenIds' = seenIds \cup Keys(B)
      /\ diagnostics' = diagnostics \o Registered(B, 1) \o MissingId(document[n].id, <<n>>)
                          \o OfSelectKeys(B, SelectKeys(n)) \o OwnBody(n).diagnostics
      /\ next' = n + 1 /\ finished' = finished /\ UNCHANGED input
  BY DEF AtStatement, Here
<1>2. Typed /\ n \in DOMAIN document /\ n \in Nat
  BY <1>1, AtChild DEF IInv
<1>3. /\ B \in Seq(Statement) /\ Lists(B, StatementsAt(n))
      /\ \A k \in DOMAIN B : Faithful(B[k])
  BY <1>1, <1>2, BuildStatementsSound
<1>4. /\ statements \in Seq(Statement) /\ Lists(statements, UpTo(StatementPlaces, n))
      /\ \A k \in DOMAIN statements : Faithful(statements[k])
      /\ seenIds = Keys(statements)
  BY DEF IInv, StatementsSound, Passed
<1>5. DiagnosticsSound
  BY DEF IInv
<1>6. Says(diagnostics, X, UpTo(Unnamed, n), Cardinality(CappedUpTo(n)))
  BY <1>1, <1>5, SaidSoFar
<1>7. Cardinality(CappedUpTo(n)) \in Nat
  BY <1>2, CappedOfChild
<1>8. Says(diagnostics', X \cup RepeatedIn(B), UpTo(Unnamed, n) \cup UnnamedAt(n),
           Cardinality(CappedUpTo(n)) + Cap(n))
  <2> DEFINE c == Cardinality(CappedUpTo(n))
             Y == UpTo(Unnamed, n)
             m == n
  <2>1. c \in Nat /\ Says(diagnostics, X, Y, c)
    BY <1>6, <1>7
  <2>2. document[m].tag = "statement" /\ m \in DOMAIN document
    BY <1>1, <1>2
  <2> HIDE DEF c, Y, X, m
  <2>3. LET A == BuildStatements(m)
        IN  Says(diagnostics \o Registered(A, 1) \o MissingId(document[m].id, <<m>>)
                    \o OfSelectKeys(A, SelectKeys(m)) \o OwnBody(m).diagnostics,
                  X \cup RepeatedIn(A), Y \cup UnnamedAt(m), c + Cap(m))
    BY <1>2, <2>1, <2>2, StatementSaid
  <2> QED
    BY <1>1, <2>3 DEF c, Y, m
<1>9. \A k \in DOMAIN B : B[k].at \in Place /\ Len(B[k].at) >= 1 /\ B[k].at[1] = n
  BY <1>2, <1>3, StatementAt DEF Lists
<1>10. \A k \in DOMAIN statements :
         statements[k].at \in Place /\ Len(statements[k].at) >= 1 /\ statements[k].at[1] < n
  <2> TAKE k \in DOMAIN statements
  <2>1. statements[k].at \in StatementPlaces /\ statements[k].at[1] < n
    BY <1>4 DEF Lists, UpTo
  <2>2. PICK c \in DOMAIN document : statements[k].at \in StatementsAt(c)
    BY <2>1, StatementPlacesAre
  <2>3. statements[k].at \in Place /\ Len(statements[k].at) >= 1
    BY <1>2, <2>2, StatementAt
  <2> QED
    BY <2>1, <2>3
<1>11. Lists(T, UpTo(StatementPlaces, n + 1))
  <2>1. \A p \in UpTo(StatementPlaces, n), q \in StatementsAt(n) : Before(p, q)
    <3> TAKE p \in UpTo(StatementPlaces, n), q \in StatementsAt(n)
    <3>1. PICK c \in DOMAIN document : p \in StatementsAt(c)
      BY StatementPlacesAre DEF UpTo
    <3>2. p \in Place /\ Len(p) >= 1 /\ q \in Place /\ Len(q) >= 1 /\ q[1] = n
      BY <1>2, <3>1, StatementAt
    <3>3. p[1] < n
      BY DEF UpTo
    <3> QED
      BY <3>2, <3>3, EarlierChild
  <2>2. Lists(T, UpTo(StatementPlaces, n) \cup StatementsAt(n))
    BY <1>3, <1>4, <2>1, ListsGrow
  <2> QED
    BY <1>2, <2>2, PlacesOfChild
<1>12. /\ T \in Seq(Statement) /\ Len(T) = Len(statements) + Len(B)
       /\ \A k \in 1 .. Len(T) : \/ k \in 1 .. Len(statements) /\ T[k] = statements[k]
                                 \/ k - Len(statements) \in 1 .. Len(B) /\ T[k] = B[k - Len(statements)]
  BY <1>3, <1>4, Joined
<1>13. \A k \in DOMAIN T : Faithful(T[k])
  <2>1. DOMAIN T = 1 .. Len(T) /\ DOMAIN B = 1 .. Len(B) /\ DOMAIN statements = 1 .. Len(statements)
    BY <1>3, <1>4, <1>12
  <2> QED
    BY <1>3, <1>4, <1>12, <2>1
<1>14. seenIds' = Keys(T)
  BY <1>1, <1>3, <1>4, KeysJoined
<1>15. \A j \in DOMAIN T : IsRepeated(T, j) <=> T[j].at \in X \cup RepeatedIn(B)
  <2>1. \A j \in DOMAIN statements : IsRepeated(statements, j) <=> statements[j].at \in X
    <3>1. \A j \in DOMAIN statements : IsRepeated(statements, j)
             <=> Diagnostic("DuplicateStatementId", statements[j].at) \in ToSet(diagnostics)
      BY <1>5 DEF DiagnosticsSound, DuplicatesReported
    <3>2. \A at : Diagnostic("DuplicateStatementId", at) \in ToSet(diagnostics) <=> at \in X
      BY <1>5, InAtCode, ReportedIs DEF DiagnosticsSound
    <3> QED
      BY <3>1, <3>2
  <2>2. \A j \in DOMAIN statements, k \in DOMAIN B : statements[j].at # B[k].at
    <3> TAKE j \in DOMAIN statements, k \in DOMAIN B
    <3>1. statements[j].at[1] < n /\ B[k].at[1] = n
      BY <1>9, <1>10
    <3> QED
      BY <1>2, <3>1
  <2>3. \A j \in DOMAIN B : B[j].at \notin X
    <3> TAKE j \in DOMAIN B
    <3>1. B[j].at[1] = n
      BY <1>9
    <3>2. \A p \in X : p[1] < n
      BY <1>5 DEF DiagnosticsSound
    <3> QED
      BY <1>2, <3>1, <3>2
  <2>4. \A j, k \in DOMAIN B : B[j].at = B[k].at => j = k
    <3>1. InPlace(B) /\ \A k \in DOMAIN B : B[k].at \in Place
      BY <1>3, <1>9 DEF Lists
    <3> QED
      BY <1>3, <3>1, PlacesApart
  <2> HIDE DEF B, X
  <2> QED
    BY <1>3, <1>4, <2>1, <2>2, <2>3, <2>4, DuplicatesJoined
<1> HIDE DEF T, B, X, n
<1>16. StatementsSound'
  <2>1. StatementPlaces' = StatementPlaces /\ \A s : Faithful(s)' <=> Faithful(s)
    BY <1>1, Still
  <2>2. \A k \in DOMAIN statements' : Faithful(statements'[k])
    BY <1>1, <1>13
  <2>3. (\A k \in DOMAIN statements : Faithful(statements[k]))'
    BY <2>1, <2>2
  <2>4. Lists(statements', UpTo(StatementPlaces', next'))
    BY <1>1, <1>11, <2>1
  <2>5. statements' \in Seq(Statement) /\ seenIds' = Keys(statements')
    BY <1>1, <1>12, <1>14
  <2> QED
    BY <2>3, <2>4, <2>5 DEF StatementsSound, Passed, UpTo, Lists, InPlace, Before, Keys, Key,
       Statement, IncludeRef, Place, Id
<1>17. DuplicatesReported'
  <2>1. diagnostics' \in Seq(Diag) /\ AtCode(diagnostics', "DuplicateStatementId") = X \cup RepeatedIn(B)
    BY <1>8 DEF Says
  <2>2. \A at : Diagnostic("DuplicateStatementId", at) \in ToSet(diagnostics')
                  <=> at \in X \cup RepeatedIn(B)
    BY <2>1, InAtCode
  <2>3. \A j \in DOMAIN statements' :
          IsRepeated(statements', j)
            <=> Diagnostic("DuplicateStatementId", statements'[j].at) \in ToSet(diagnostics')
    BY <1>1, <1>15, <2>2
  <2> QED
    BY <2>3 DEF DuplicatesReported, IsRepeated, Key, Diagnostic, ToSet
<1> QED
  BY <1>8, <1>16, <1>17 DEF n, B, X

-------------------------------------------------------------------------------
(* The steps of a statement, a resultMap and a fragment.                   *)

(* What any other turn does to them: nothing.                              *)
LEMMA StatementsKept ==
  ASSUME Typed, next \in DOMAIN document, StatementsSound, StatementsAt(next) = {},
         UNCHANGED <<input, statements, seenIds>>, next' = next + 1
  PROVE  StatementsSound'
<1>1. StatementPlaces' = StatementPlaces /\ \A s : Faithful(s)' <=> Faithful(s)
  BY Still
<1>2. UpTo(StatementPlaces, next + 1) = UpTo(StatementPlaces, next)
  BY PlacesOfChild
<1>3. /\ statements \in Seq(Statement) /\ Lists(statements, UpTo(StatementPlaces, next))
      /\ \A k \in DOMAIN statements : Faithful(statements[k])
      /\ seenIds = Keys(statements)
  BY DEF StatementsSound, Passed
<1>4. (\A k \in DOMAIN statements : Faithful(statements[k]))'
  BY <1>1, <1>3
<1>5. Lists(statements', UpTo(StatementPlaces', next')) /\ statements' \in Seq(Statement)
      /\ seenIds' = Keys(statements')
  BY <1>1, <1>2, <1>3
<1> QED
  BY <1>4, <1>5 DEF StatementsSound, Passed, UpTo, Lists, InPlace, Before, Keys, Key,
     Statement, IncludeRef, Place, Id

(* While the document is the same, a fragment is as sound as it was.       *)
LEMMA FragmentStill ==
  ASSUME UNCHANGED input
  PROVE  \A f : FragmentFaithful(f)' <=> FragmentFaithful(f)
<1>1. document' = document /\ \A inc, o : IncludesSound(inc, o)' <=> IncludesSound(inc, o)
  BY Still DEF input
<1> QED
  BY <1>1 DEF FragmentFaithful

(* What a turn that is no fragment's does to the fragments: nothing.       *)
LEMMA FragmentsKept ==
  ASSUME Typed, next \in DOMAIN document, FragmentsSound, FragmentsAt(next) = {},
         UNCHANGED <<input, fragments, seenFragmentIds>>, next' = next + 1
  PROVE  FragmentsSound'
<1>1. FragmentPlaces' = FragmentPlaces /\ \A f : FragmentFaithful(f)' <=> FragmentFaithful(f)
  BY Still, FragmentStill
<1>2. UpTo(FragmentPlaces, next + 1) = UpTo(FragmentPlaces, next)
  BY PlacesOfChild
<1>3. /\ fragments \in Seq(Fragment)
      /\ Lists(fragments, UpTo(FragmentPlaces, next))
      /\ \A k \in DOMAIN fragments : FragmentFaithful(fragments[k])
      /\ seenFragmentIds = {fragments[k].id : k \in DOMAIN fragments}
  BY DEF FragmentsSound, Passed
<1>4. (\A k \in DOMAIN fragments : FragmentFaithful(fragments[k]))'
  BY <1>1, <1>3
<1>5. Lists(fragments', UpTo(FragmentPlaces', next')) /\ fragments' \in Seq(Fragment)
      /\ seenFragmentIds' = {fragments'[k].id : k \in DOMAIN fragments'}
  BY <1>1, <1>2, <1>3
<1> QED
  BY <1>4, <1>5 DEF FragmentsSound, FragmentFaithful, Passed, UpTo, Lists, InPlace, Before,
     Fragment, IncludeRef, Place, Id

(* What any other turn than a statement's reports leaves the repetitions   *)
(* of statements alone: a fragment and a resultMap register in spaces of   *)
(* their own, and report at their own place.                               *)
LEMMA NothingRepeated ==
  ASSUME Typed, next \in DOMAIN document, StatementsSound, DiagnosticsSound, ~ finished,
         UNCHANGED statements, NEW Z \in SUBSET {<<next>>}, NEW Y, NEW c,
         Says(diagnostics', Reported("DuplicateStatementId") \cup Z, Y, c)
  PROVE  DuplicatesReported'
<1> DEFINE X == Reported("DuplicateStatementId")
<1>1. next \in Nat
  BY ChildAt
<1>2. diagnostics' \in Seq(Diag) /\ AtCode(diagnostics', "DuplicateStatementId") = X \cup Z
  BY DEF Says
<1>3. \A j \in DOMAIN statements : IsRepeated(statements, j)
         <=> Diagnostic("DuplicateStatementId", statements[j].at) \in ToSet(diagnostics)
  BY DEF DiagnosticsSound, DuplicatesReported
<1>4. \A at : /\ Diagnostic("DuplicateStatementId", at) \in ToSet(diagnostics) <=> at \in X
              /\ Diagnostic("DuplicateStatementId", at) \in ToSet(diagnostics') <=> at \in X \cup Z
  <2>1. diagnostics \in Seq(Diag)
    BY DEF DiagnosticsSound
  <2> QED
    BY <1>2, <2>1, InAtCode, ReportedIs
<1>5. \A j \in DOMAIN statements : statements[j].at \notin Z
  <2> TAKE j \in DOMAIN statements
  <2>1. statements[j].at[1] < next
    BY DEF StatementsSound, Passed, UpTo, Lists
  <2>2. <<next>>[1] = next
    OBVIOUS
  <2> QED
    BY <1>1, <2>1, <2>2
<1> HIDE DEF X
<1>6. \A j \in DOMAIN statements' :
        IsRepeated(statements', j)
          <=> Diagnostic("DuplicateStatementId", statements'[j].at) \in ToSet(diagnostics')
  BY <1>3, <1>4, <1>5
<1> QED
  BY <1>6 DEF DuplicatesReported, IsRepeated, Key, Diagnostic, ToSet

(* The place of a child.                                                   *)
LEMMA HereOnly ==
  ASSUME Typed, NEW n \in DOMAIN document
  PROVE  /\ <<n>> \in Place /\ Len(<<n>>) = 1 /\ <<n>>[1] = n
         /\ \A Z \in SUBSET {<<n>>} : \A p \in Z : p \in Place /\ Len(p) >= 1 /\ p[1] = n
<1>1. n \in Nat
  BY ChildAt
<1>2. <<n>> \in Place /\ Len(<<n>>) = 1 /\ <<n>>[1] = n
  BY <1>1, Paths
<1> QED
  BY <1>2

(* AtStatement keeps the invariant.                                        *)
LEMMA StatementStep ==
  ASSUME IInv, AtStatement
  PROVE  IInv'
<1> DEFINE B == BuildStatements(next)
<1>1. /\ ~ finished /\ next <= Len(document) /\ document[next].tag = "statement"
      /\ next' = next + 1 /\ finished' = finished /\ UNCHANGED input
      /\ UNCHANGED <<fragments, resultMaps, seenFragmentIds, seenResultMapIds>>
  BY DEF AtStatement, Here
<1>2. Reading /\ FragmentsSound /\ ResultMapsSound /\ DiagnosticsSound
  BY DEF IInv
<1>3. Typed /\ next \in DOMAIN document
  BY <1>1, <1>2, AtChild
<1>4. Reading'
  BY <1>1, <1>2, ReadingOn
<1>5. /\ StatementsSound' /\ DuplicatesReported'
      /\ Says(diagnostics', Reported("DuplicateStatementId") \cup RepeatedIn(B),
                 UpTo(Unnamed, next) \cup UnnamedAt(next),
                 Cardinality(CappedUpTo(next)) + Cap(next))
  BY StatementsGrow
<1>6. FragmentsSound'
  <2>1. FragmentsAt(next) = {}
    BY <1>1 DEF FragmentsAt
  <2> QED
    BY <1>1, <1>2, <1>3, <2>1, FragmentsKept
<1>7. ResultMapsSound'
  BY <1>1, <1>2 DEF ResultMapsSound, Place, Id
<1>8. DiagnosticsSound'
  <2>1. \A p \in RepeatedIn(B) : p \in Place /\ Len(p) >= 1 /\ p[1] = next
    <3>1. Lists(B, StatementsAt(next))
      BY <1>1, <1>3, BuildStatementsSound
    <3>2. \A p \in RepeatedIn(B) : p \in StatementsAt(next)
      BY <3>1 DEF RepeatedIn, Lists
    <3> QED
      BY <1>3, <3>2, StatementAt
  <2> HIDE DEF B
  <2> QED
    BY <1>1, <1>2, <1>3, <1>5, <2>1, DiagnosticsGrow
<1> QED
  BY <1>4, <1>5, <1>6, <1>7, <1>8 DEF IInv

(* AtResultMap keeps the invariant.                                        *)
LEMMA ResultMapStep ==
  ASSUME IInv, AtResultMap
  PROVE  IInv'
<1> DEFINE id == document[next].id
           b == BuildResultMap(document[next], <<next>>)
           Y == UpTo(Unnamed, next)
           c == Cardinality(CappedUpTo(next))
           X == Reported("DuplicateStatementId")
<1>1. /\ ~ finished /\ next <= Len(document) /\ document[next].tag = "resultMap"
      /\ next' = next + 1 /\ finished' = finished /\ UNCHANGED input
      /\ UNCHANGED <<statements, fragments, seenIds, seenFragmentIds>>
      /\ resultMaps' = resultMaps \o b
      /\ seenResultMapIds' = seenResultMapIds \cup {b[i].id : i \in DOMAIN b}
      /\ diagnostics' = diagnostics \o MissingId(id, <<next>>)
                          \o Register(id, id, seenResultMapIds, <<next>>)
  BY DEF AtResultMap, Here
<1>2. Reading /\ StatementsSound /\ FragmentsSound /\ ResultMapsSound /\ DiagnosticsSound
  BY DEF IInv
<1>3. Typed /\ next \in DOMAIN document
  BY <1>1, <1>2, AtChild
<1>4. Reading'
  BY <1>1, <1>2, ReadingOn
<1>5. StatementsSound'
  <2>1. StatementsAt(next) = {}
    BY <1>1 DEF StatementsAt
  <2> QED
    BY <1>1, <1>2, <1>3, <2>1, StatementsKept
<1>6. FragmentsSound'
  <2>1. FragmentsAt(next) = {}
    BY <1>1 DEF FragmentsAt
  <2> QED
    BY <1>1, <1>2, <1>3, <2>1, FragmentsKept
<1>7. <<next>> \in Place
  BY <1>3, HereOnly
<1>8. ResultMapsSound'
  <2> DEFINE R == [at : Place, id : Id]
  <2>1. resultMaps \in Seq(R) /\ seenResultMapIds \subseteq Id
    BY <1>2 DEF ResultMapsSound
  <2>2. b \in Seq(R) /\ \A i \in DOMAIN b : b[i].id \in Id
    <3>1. id \in Id \cup {None}
      <4>1. document[next] \in Child
        BY <1>3, ChildAt
      <4> QED
        BY <4>1 DEF Child
    <3>2. CASE id = None
      <4>1. b = << >>
        BY <3>2 DEF BuildResultMap
      <4> HIDE DEF b, R
      <4> QED
        BY <4>1
    <3>3. CASE id # None
      <4> DEFINE r == [at |-> <<next>>, id |-> id]
      <4>1. r \in R /\ r.id \in Id
        BY <1>7, <3>1, <3>3
      <4>2. b = <<r>>
        BY <3>3 DEF BuildResultMap
      <4> HIDE DEF b, r, R
      <4>3. <<r>> \in Seq(R) /\ DOMAIN <<r>> = {1} /\ <<r>>[1] = r
        BY <4>1
      <4>4. \A i \in DOMAIN <<r>> : <<r>>[i].id \in Id
        BY <4>1, <4>3
      <4> QED
        BY <4>2, <4>3, <4>4, Zenon
    <3> QED
      BY <3>2, <3>3
  <2> HIDE DEF b, R
  <2>3. resultMaps' \in Seq(R) /\ seenResultMapIds' \subseteq Id
    BY <1>1, <2>1, <2>2
  <2> QED
    BY <2>3 DEF R, ResultMapsSound, Place, Id
<1>9. Says(diagnostics, X, Y, c) /\ c \in Nat
  BY <1>1, <1>2, <1>3, SaidSoFar, CappedOfChild
<1> HIDE DEF X, Y, c, b
<1>10. PICK Z \in SUBSET {<<next>>} :
         Says(diagnostics', X \cup Z, Y \cup UnnamedAt(next), c + Cap(next))
  BY <1>1, <1>3, <1>9, ResultMapSaid
<1>11. DuplicatesReported'
  BY <1>1, <1>2, <1>3, <1>10, NothingRepeated DEF X
<1>12. DiagnosticsSound'
  <2>1. \A p \in Z : p \in Place /\ Len(p) >= 1 /\ p[1] = next
    BY <1>3, HereOnly
  <2> QED
    BY <1>1, <1>2, <1>3, <1>10, <1>11, <2>1, DiagnosticsGrow DEF X, Y, c
<1> QED
  BY <1>4, <1>5, <1>6, <1>8, <1>12 DEF IInv

(* What a fragment's turn adds to the fragments.                           *)
LEMMA FragmentBuilt ==
  ASSUME Typed, NEW n \in DOMAIN document, document[n].tag = "sql",
         NEW b, b = BuildFragment(document[n], <<n>>, OwnBody(n).includes)
  PROVE  /\ b \in Seq(Fragment) /\ Lists(b, FragmentsAt(n))
         /\ \A k \in DOMAIN b : FragmentFaithful(b[k])
         /\ b # << >> <=> document[n].id # None
<1>1. <<n>> \in Place /\ <<n>>[1] = n
  BY HereOnly
<1>2. document[n].id \in Id \cup {None}
  BY ChildAt DEF Child
<1>3. CASE document[n].id = None
  <2>1. b = << >>
    BY <1>3, Zenon DEF BuildFragment
  <2>2. FragmentsAt(n) = {}
    BY <1>3 DEF FragmentsAt
  <2>3. \A S : << >> \in Seq(S) /\ DOMAIN << >> = {}
    OBVIOUS
  <2> QED
    BY <1>3, <2>1, <2>2, <2>3, Zenon DEF Lists, InPlace
<1>4. CASE document[n].id # None
  <2> DEFINE f == [at |-> <<n>>, id |-> document[n].id, includes |-> OwnBody(n).includes]
  <2>1. f.at = <<n>> /\ f.id = document[n].id /\ IncludesSound(f.includes, <<n>>)
    BY OwnIncludesSound
  <2>2. OwnBody(n).includes \in Seq(IncludeRef)
    BY OwnIncludesSound DEF IncludesSound
  <2>3. f \in Fragment
    BY <1>1, <1>2, <1>4, <2>2 DEF Fragment
  <2>4. b = <<f>>
    BY <1>4 DEF BuildFragment
  <2>5. FragmentFaithful(f)
    BY <1>1, <2>1, <2>3, Zenon DEF FragmentFaithful
  <2>6. FragmentsAt(n) = {f.at}
    BY <1>4, <2>1 DEF FragmentsAt
  <2> HIDE DEF f
  <2>7. <<f>> \in Seq(Fragment) /\ DOMAIN <<f>> = {1} /\ <<f>>[1] = f /\ Len(<<f>>) = 1
    BY <2>3
  <2>8. <<f>> # << >>
    BY <2>7
  <2>9. \A k \in DOMAIN <<f>> : k = 1 /\ FragmentFaithful(<<f>>[k])
    BY <2>5, <2>7
  <2>10. InPlace(<<f>>)
    <3> SUFFICES ASSUME NEW j \in {1}, NEW k \in {1}, j < k PROVE FALSE
      BY <2>7 DEF InPlace
    <3> QED
      OBVIOUS
  <2>11. Lists(<<f>>, FragmentsAt(n))
    BY <2>6, <2>7, <2>10, Zenon DEF Lists
  <2> QED
    BY <1>4, <2>4, <2>7, <2>8, <2>9, <2>11, Zenon
<1> QED
  BY <1>3, <1>4

(* The ids of two lists of fragments end to end.                           *)
LEMMA IdsJoined ==
  ASSUME NEW a \in Seq(Fragment), NEW b \in Seq(Fragment)
  PROVE  {(a \o b)[k].id : k \in DOMAIN (a \o b)} =
           {a[k].id : k \in DOMAIN a} \cup {b[k].id : k \in DOMAIN b}
<1>1. /\ DOMAIN (a \o b) = 1 .. Len(a \o b) /\ DOMAIN a = 1 .. Len(a) /\ DOMAIN b = 1 .. Len(b)
      /\ Len(a) \in Nat /\ Len(b) \in Nat
  OBVIOUS
<1>2. /\ Len(a \o b) = Len(a) + Len(b)
      /\ \A k \in 1 .. Len(a) : (a \o b)[k] = a[k]
      /\ \A k \in 1 .. Len(b) : (a \o b)[Len(a) + k] = b[k]
      /\ \A k \in 1 .. Len(a \o b) :
              \/ k \in 1 .. Len(a) /\ (a \o b)[k] = a[k]
              \/ k - Len(a) \in 1 .. Len(b) /\ (a \o b)[k] = b[k - Len(a)]
  BY Joined
<1>3. \A k \in 1 .. Len(a) : k \in 1 .. Len(a \o b)
  BY <1>1, <1>2
<1>4. \A k \in 1 .. Len(b) : Len(a) + k \in 1 .. Len(a \o b)
  BY <1>1, <1>2
<1>5. PICK c : c = a \o b
  OBVIOUS
<1>6. \A x \in {c[k].id : k \in DOMAIN c} :
        x \in {a[k].id : k \in DOMAIN a} \cup {b[k].id : k \in DOMAIN b}
  BY <1>1, <1>2, <1>5
<1>7. \A x \in {a[k].id : k \in DOMAIN a} \cup {b[k].id : k \in DOMAIN b} :
        x \in {c[k].id : k \in DOMAIN c}
  <2>1. \A k \in DOMAIN a : k \in DOMAIN c /\ c[k] = a[k]
    BY <1>1, <1>2, <1>3, <1>5
  <2>2. \A k \in DOMAIN b : Len(a) + k \in DOMAIN c /\ c[Len(a) + k] = b[k]
    BY <1>1, <1>2, <1>4, <1>5
  <2> QED
    BY <2>1, <2>2, Zenon
<1> QED
  BY <1>5, <1>6, <1>7, Zenon

(* Every fragment's place is a child's.                                    *)
LEMMA FragmentPlace ==
  ASSUME Typed, NEW p \in FragmentPlaces
  PROVE  p \in Place /\ Len(p) = 1 /\ p = <<p[1]>> /\ p[1] \in DOMAIN document
         /\ document[p[1]].tag = "sql" /\ document[p[1]].id # None
<1>1. PICK c \in DOMAIN document : p = <<c>> /\ document[c].tag = "sql" /\ document[c].id # None
  BY OwnersAre
<1>2. <<c>> \in Place /\ Len(<<c>>) = 1 /\ <<c>>[1] = c
  BY HereOnly
<1> QED
  BY <1>1, <1>2

(* What a fragment's turn does to the fragments.                           *)
LEMMA FragmentsGrow ==
  ASSUME Typed, next \in DOMAIN document, FragmentsSound, document[next].tag = "sql",
         UNCHANGED input, next' = next + 1,
         NEW b, b = BuildFragment(document[next], <<next>>, OwnBody(next).includes),
         fragments' = fragments \o b,
         seenFragmentIds' = seenFragmentIds \cup {b[i].id : i \in DOMAIN b}
  PROVE  FragmentsSound'
<1> DEFINE n == next
           T == fragments \o b
<1>1. /\ b \in Seq(Fragment) /\ Lists(b, FragmentsAt(n))
      /\ \A k \in DOMAIN b : FragmentFaithful(b[k])
  BY FragmentBuilt
<1>2. /\ fragments \in Seq(Fragment) /\ Lists(fragments, UpTo(FragmentPlaces, n))
      /\ \A k \in DOMAIN fragments : FragmentFaithful(fragments[k])
      /\ seenFragmentIds = {fragments[k].id : k \in DOMAIN fragments}
  BY DEF FragmentsSound, Passed
<1>3. Lists(T, UpTo(FragmentPlaces, n + 1))
  <2>1. \A p \in UpTo(FragmentPlaces, n), q \in FragmentsAt(n) : Before(p, q)
    <3> TAKE p \in UpTo(FragmentPlaces, n), q \in FragmentsAt(n)
    <3>1. q \in FragmentPlaces /\ q[1] = n
      BY FragmentPlacesAre, HereOnly DEF FragmentsAt
    <3>2. p \in FragmentPlaces /\ p[1] < n
      BY DEF UpTo
    <3>3. p \in Place /\ Len(p) = 1 /\ q \in Place /\ Len(q) = 1
      BY <3>1, <3>2, FragmentPlace
    <3> QED
      BY <3>1, <3>2, <3>3, EarlierChild
  <2>2. Lists(T, UpTo(FragmentPlaces, n) \cup FragmentsAt(n))
    BY <1>1, <1>2, <2>1, ListsGrow
  <2> QED
    BY <2>2, PlacesOfChild
<1>4. /\ T \in Seq(Fragment) /\ Len(T) = Len(fragments) + Len(b)
      /\ \A k \in 1 .. Len(T) : \/ k \in 1 .. Len(fragments) /\ T[k] = fragments[k]
                                \/ k - Len(fragments) \in 1 .. Len(b) /\ T[k] = b[k - Len(fragments)]
  BY <1>1, <1>2, Joined
<1>5. \A k \in DOMAIN T : FragmentFaithful(T[k])
  <2>1. DOMAIN T = 1 .. Len(T) /\ DOMAIN b = 1 .. Len(b) /\ DOMAIN fragments = 1 .. Len(fragments)
    BY <1>1, <1>2, <1>4
  <2> HIDE DEF T
  <2> QED
    BY <1>1, <1>2, <1>4, <2>1
<1>6. seenFragmentIds' = {T[k].id : k \in DOMAIN T}
  BY <1>1, <1>2, IdsJoined
<1>7. FragmentPlaces' = FragmentPlaces /\ \A f : FragmentFaithful(f)' <=> FragmentFaithful(f)
  BY Still, FragmentStill
<1> HIDE DEF T, n
<1>8. T = fragments'
  BY DEF T
<1>9. \A k \in DOMAIN fragments' : FragmentFaithful(fragments'[k])
  BY <1>5, <1>8
<1>10. (\A k \in DOMAIN fragments : FragmentFaithful(fragments[k]))'
  BY <1>7, <1>9
<1>11. Lists(fragments', UpTo(FragmentPlaces', next')) /\ fragments' \in Seq(Fragment)
       /\ seenFragmentIds' = {fragments'[k].id : k \in DOMAIN fragments'}
  <2>1. Lists(T, UpTo(FragmentPlaces', next'))
    BY <1>3, <1>7, Zenon DEF n
  <2>2. Lists(fragments', UpTo(FragmentPlaces', next')) /\ fragments' \in Seq(Fragment)
    BY <1>4, <1>8, <2>1
  <2>3. \A u : u = T => {T[k].id : k \in DOMAIN T} = {u[k].id : k \in DOMAIN u}
    OBVIOUS
  <2> QED
    BY <1>6, <1>8, <2>2, <2>3
<1> QED
  BY <1>10, <1>11 DEF FragmentsSound, FragmentFaithful, Passed, UpTo, Lists, InPlace, Before,
     Fragment, IncludeRef, Place, Id

(* AtFragment keeps the invariant.                                         *)
LEMMA FragmentStep ==
  ASSUME IInv, AtFragment
  PROVE  IInv'
<1> DEFINE id == document[next].id
           b == BuildFragment(document[next], <<next>>, OwnBody(next).includes)
           Y == UpTo(Unnamed, next)
           c == Cardinality(CappedUpTo(next))
           X == Reported("DuplicateStatementId")
<1>1. /\ ~ finished /\ next <= Len(document) /\ document[next].tag = "sql"
      /\ next' = next + 1 /\ finished' = finished /\ UNCHANGED input
      /\ UNCHANGED <<statements, resultMaps, seenIds, seenResultMapIds>>
      /\ fragments' = fragments \o b
      /\ seenFragmentIds' = seenFragmentIds \cup {b[i].id : i \in DOMAIN b}
      /\ diagnostics' = diagnostics \o MissingId(id, <<next>>)
                          \o Register(id, id, seenFragmentIds, <<next>>)
                          \o Each("UnknownElement", SelectKeys(next))
                          \o (IF b # << >> THEN OwnBody(next).diagnostics ELSE << >>)
  BY DEF AtFragment, Here
<1>2. Reading /\ StatementsSound /\ FragmentsSound /\ ResultMapsSound /\ DiagnosticsSound
  BY DEF IInv
<1>3. Typed /\ next \in DOMAIN document
  BY <1>1, <1>2, AtChild
<1>4. Reading'
  BY <1>1, <1>2, ReadingOn
<1>5. StatementsSound'
  <2>1. StatementsAt(next) = {}
    BY <1>1 DEF StatementsAt
  <2> QED
    BY <1>1, <1>2, <1>3, <2>1, StatementsKept
<1>6. b # << >> <=> id # None
  BY <1>1, <1>3, FragmentBuilt
<1> HIDE DEF b
<1>7. FragmentsSound'
  BY <1>1, <1>2, <1>3, FragmentsGrow DEF b
<1>8. ResultMapsSound'
  BY <1>1, <1>2 DEF ResultMapsSound, Place, Id
<1>9. Says(diagnostics, X, Y, c) /\ c \in Nat
  BY <1>1, <1>2, <1>3, SaidSoFar, CappedOfChild
<1> HIDE DEF X, Y, c
<1>10. PICK Z \in SUBSET {<<next>>} :
         Says(diagnostics', X \cup Z, Y \cup UnnamedAt(next), c + Cap(next))
  <2> DEFINE m == next
  <2>1. m \in DOMAIN document /\ document[m].tag = "sql" /\ (b # << >> <=> document[m].id # None)
    BY <1>1, <1>3, <1>6
  <2> HIDE DEF m, id
  <2>2. FragmentTurn(diagnostics, m, seenFragmentIds, b, X, Y, c)
    BY <1>3, <1>9, <2>1, FragmentSaid
  <2> QED
    BY <1>1, <2>2, Zenon DEF FragmentTurn, m, id
<1>11. DuplicatesReported'
  BY <1>1, <1>2, <1>3, <1>10, NothingRepeated DEF X
<1>12. DiagnosticsSound'
  <2>1. \A p \in Z : p \in Place /\ Len(p) >= 1 /\ p[1] = next
    BY <1>3, HereOnly
  <2> QED
    BY <1>1, <1>2, <1>3, <1>10, <1>11, <2>1, DiagnosticsGrow DEF X, Y, c
<1> QED
  BY <1>4, <1>5, <1>7, <1>8, <1>12 DEF IInv

-------------------------------------------------------------------------------
(* The end.                                                                *)

(* What dedup_diagnostics keeps.                                           *)
Firsts(D) == {i \in DOMAIN D : D[i].at = None \/ \A j \in 1 .. i - 1 : D[j] # D[i]}

(* No two diagnostics with a span are the same.                            *)
LocatedOnce(D) == \A i, j \in DOMAIN D \ Unlocated(D) : D[i] = D[j] => i = j

(* dedup_diagnostics keeps what is said, and as often what has no span.    *)
LEMMA DedupSaid ==
  ASSUME NEW D, NEW X, NEW Y, NEW c, Says(D, X, Y, c)
  PROVE  Says(Dedup(D), X, Y, c) /\ LocatedOnce(Dedup(D))
<1> DEFINE K == Firsts(D)
           r == Dedup(D)
<1>1. D \in Seq(Diag) /\ r = Only(D, K)
  BY Zenon DEF Says, Dedup, Firsts
<1>2. DOMAIN D = 1 .. Len(D) /\ Len(D) \in Nat
  BY <1>1
<1> HIDE DEF r
<1>3. r \in Seq(Diag) /\ ToSet(r) = {D[j] : j \in K \cap DOMAIN D}
  BY <1>1, SetOfOnly
<1>4. ToSet(r) = ToSet(D)
  <2>1. ASSUME NEW i \in DOMAIN D PROVE \E m \in K : D[m] = D[i]
    <3> DEFINE L == {j \in DOMAIN D : D[j] = D[i]}
    <3>1. PICK m \in L : \A j \in L : m <= j
      <4>1. L \subseteq Nat /\ L # {}
        BY <1>2
      <4> HIDE DEF L
      <4> QED
        BY <4>1, NatLeast
    <3>2. \A j \in 1 .. m - 1 : D[j] # D[m]
      BY <1>2, <3>1
    <3> QED
      BY <3>1, <3>2 DEF Firsts
  <2>2. K \cap DOMAIN D = K
    BY DEF Firsts
  <2>3. \A i \in K : i \in DOMAIN D
    BY DEF Firsts
  <2> HIDE DEF K
  <2> QED
    BY <1>3, <2>1, <2>2, <2>3 DEF ToSet
<1>5. PICK w : Picks(r, w, D, K, Len(D))
  BY <1>1, OnlyPicks
<1>6. DOMAIN r = 1 .. Len(r) /\ Len(r) \in Nat
  BY <1>3
<1>7. /\ K \subseteq DOMAIN D /\ K \cap (1 .. Len(D)) = K
      /\ w \in [DOMAIN r -> K] /\ \A k \in K : \E p \in DOMAIN r : w[p] = k
      /\ \A p \in DOMAIN r : r[p] = D[w[p]]
      /\ \A p, j \in DOMAIN r : p < j => w[p] < w[j]
  <2>1. K \subseteq DOMAIN D
    BY DEF Firsts
  <2> HIDE DEF K
  <2> QED
    BY <1>2, <1>5, <1>6, <2>1 DEF Picks
<1>8. \A p, j \in DOMAIN r : w[p] = w[j] => p = j
  BY <1>2, <1>6, <1>7
<1>9. AtCode(r, "DuplicateStatementId") = X /\ AtCode(r, "DanglingRefid") = Y
  BY <1>4 DEF Says, AtCode
<1>10. Cardinality(Unlocated(r)) = c
  <2> DEFINE U == Unlocated(r)
             V == Unlocated(D)
             g == [k \in U |-> w[k]]
  <2>1. U \subseteq DOMAIN r /\ \A k \in DOMAIN r : k \in U <=> r[k].at = None
    BY DEF Unlocated
  <2>2. V \subseteq K /\ \A i \in DOMAIN D : i \in V <=> D[i].at = None
    BY DEF Unlocated, Firsts
  <2> HIDE DEF U, V, K
  <2>3. g \in [U -> V]
    BY <1>7, <2>1, <2>2
  <2>4. \A k, l \in U : g[k] = g[l] => k = l
    BY <1>8, <2>1
  <2>5. \A i \in V : \E k \in U : g[k] = i
    BY <1>7, <2>1, <2>2
  <2> HIDE DEF g
  <2>6. g \in Bijection(U, V)
    BY <2>3, <2>4, <2>5 DEF Bijection, Injection, IsInjective, Surjection
  <2>7. ExistsBijection(U, V)
    BY <2>6 DEF ExistsBijection
  <2>8. IsFiniteSet(U)
    BY <1>3, UnlocatedFinite DEF U
  <2>9. Cardinality(V) = Cardinality(U)
    BY <2>7, <2>8, FS_Bijection
  <2> QED
    BY <2>9 DEF U, V, Says
<1>11. LocatedOnce(r)
  <2> SUFFICES ASSUME NEW i \in DOMAIN r, NEW j \in DOMAIN r, i \notin Unlocated(r),
                      r[i] = r[j], i < j
               PROVE  FALSE
    BY <1>6 DEF LocatedOnce, Unlocated
  <2>1. w[i] < w[j] /\ D[w[i]] = D[w[j]] /\ w[i] \in DOMAIN D /\ w[j] \in K
    BY <1>7
  <2>2. D[w[j]].at # None
    BY <1>7, <2>1 DEF Unlocated
  <2>3. w[i] \in 1 .. w[j] - 1
    BY <1>2, <1>7, <2>1
  <2> QED
    BY <2>1, <2>2, <2>3 DEF Firsts
<1> QED
  BY <1>3, <1>9, <1>10, <1>11 DEF Says, r

(* The local includes that name no fragment.                               *)
Misses(includes) ==
  {inc.at : inc \in {x \in ToSet(includes) : x.target = "Local" /\ x.refid \notin seenFragmentIds}}

(* The dangling check of one list of includes.                             *)
LEMMA DanglingSaid ==
  ASSUME NEW includes \in Seq(IncludeRef)
  PROVE  Says(Dangling(includes), {}, Misses(includes), 0)
<1> DEFINE K == {k \in DOMAIN includes : /\ includes[k].target = "Local"
                                        /\ includes[k].refid \notin seenFragmentIds}
           s == Only(includes, K)
           code == "DanglingRefid"
<1>1. s \in Seq(IncludeRef) /\ ToSet(s) = {includes[j] : j \in K \cap DOMAIN includes}
  BY SetOfOnly
<1>2. {x.at : x \in ToSet(s)} = Misses(includes)
  BY <1>1 DEF Misses, ToSet
<1>3. \A x \in IncludeRef : x.at \in Place
  BY DEF IncludeRef
<1>4. code \in Code /\ code # "DuplicateStatementId" /\ code = "DanglingRefid"
  BY DEF Code
<1> HIDE DEF s, code
<1>5. Says(Each(code, s), IF code = "DuplicateStatementId" THEN {x.at : x \in ToSet(s)} ELSE {},
           IF code = "DanglingRefid" THEN {x.at : x \in ToSet(s)} ELSE {}, 0)
  BY <1>1, <1>3, <1>4, EachSaid
<1>6. Says(Each(code, s), {}, Misses(includes), 0)
  BY <1>2, <1>4, <1>5
<1> QED
  BY <1>6 DEF Dangling, s, code

(* Statements and fragments alike.                                         *)
Owner == Statement \cup Fragment

(* When the loop is over, all places are passed.                           *)
LEMMA AtTheEnd ==
  ASSUME Typed, next = Len(document) + 1
  PROVE  /\ UpTo(StatementPlaces, next) = StatementPlaces
         /\ UpTo(FragmentPlaces, next) = FragmentPlaces
         /\ UpTo(Unnamed, next) = Unnamed
         /\ CappedUpTo(next) = Capped
<1>1. \A n \in DOMAIN document : n < next
  BY DEF Typed
<1>2. \A p \in StatementPlaces : p[1] < next
  <2> TAKE p \in StatementPlaces
  <2>1. PICK n \in DOMAIN document : p \in StatementsAt(n)
    BY StatementPlacesAre
  <2> QED
    BY <1>1, <2>1, StatementAt
<1>3. \A p \in FragmentPlaces : p[1] < next
  BY <1>1, FragmentPlace
<1>4. \A p \in Unnamed : p[1] < next
  <2> TAKE p \in Unnamed
  <2>1. PICK n \in DOMAIN document : p \in UnnamedAt(n)
    BY UnnamedAre
  <2> QED
    BY <1>1, <2>1, UnnamedAre
<1>5. \A c \in Capped : c < next
  BY <1>1 DEF Capped
<1> QED
  BY <1>2, <1>3, <1>4, <1>5 DEF UpTo, CappedUpTo

(* The owners of includes, and what their includes are.                    *)
LEMMA OwnersListed ==
  ASSUME Typed, next = Len(document) + 1, StatementsSound, FragmentsSound,
         NEW owners, owners = statements \o fragments
  PROVE  /\ owners \in Seq(Owner)
         /\ \A i \in DOMAIN owners : /\ owners[i].at \in StatementPlaces \cup FragmentPlaces
                                     /\ IncludesSound(owners[i].includes, owners[i].at)
         /\ \A o \in StatementPlaces \cup FragmentPlaces :
              \E i \in DOMAIN owners : owners[i].at = o
<1>1. /\ statements \in Seq(Statement) /\ Lists(statements, StatementPlaces)
      /\ \A k \in DOMAIN statements : Faithful(statements[k])
  BY AtTheEnd DEF StatementsSound, Passed
<1>2. /\ fragments \in Seq(Fragment) /\ Lists(fragments, FragmentPlaces)
      /\ \A k \in DOMAIN fragments : FragmentFaithful(fragments[k])
  BY AtTheEnd DEF FragmentsSound, Passed
<1>3. statements \in Seq(Owner) /\ fragments \in Seq(Owner)
  <2>1. \A S, T : \A s \in Seq(S) : s \in Seq(S \cup T) /\ s \in Seq(T \cup S)
    OBVIOUS
  <2> QED
    BY <1>1, <1>2, <2>1, Zenon DEF Owner
<1>4. /\ DOMAIN statements = 1 .. Len(statements) /\ DOMAIN fragments = 1 .. Len(fragments)
      /\ Len(statements) \in Nat /\ Len(fragments) \in Nat
  BY <1>3
<1>5. /\ owners \in Seq(Owner) /\ Len(owners) = Len(statements) + Len(fragments)
      /\ \A k \in 1 .. Len(statements) : owners[k] = statements[k]
      /\ \A k \in 1 .. Len(fragments) : owners[Len(statements) + k] = fragments[k]
      /\ \A k \in 1 .. Len(owners) :
              \/ k \in 1 .. Len(statements) /\ owners[k] = statements[k]
              \/ k - Len(statements) \in 1 .. Len(fragments)
                 /\ owners[k] = fragments[k - Len(statements)]
  BY <1>3, Joined
<1>6. DOMAIN owners = 1 .. Len(owners)
  BY <1>5
<1>7. \A k \in DOMAIN statements :
        /\ statements[k].at \in StatementPlaces
        /\ IncludesSound(statements[k].includes, statements[k].at)
  BY <1>1 DEF Lists, Faithful
<1>8. \A k \in DOMAIN fragments :
        /\ fragments[k].at \in FragmentPlaces
        /\ IncludesSound(fragments[k].includes, fragments[k].at)
  BY <1>2 DEF Lists, FragmentFaithful
<1>9. \A i \in DOMAIN owners : /\ owners[i].at \in StatementPlaces \cup FragmentPlaces
                               /\ IncludesSound(owners[i].includes, owners[i].at)
  BY <1>4, <1>5, <1>6, <1>7, <1>8
<1>10. \A o \in StatementPlaces : \E i \in DOMAIN owners : owners[i].at = o
  <2> TAKE o \in StatementPlaces
  <2>1. PICK k \in DOMAIN statements : statements[k].at = o
    BY <1>1 DEF Lists
  <2>2. k \in DOMAIN owners /\ owners[k] = statements[k]
    BY <1>4, <1>5, <1>6
  <2> QED
    BY <2>1, <2>2
<1>11. \A o \in FragmentPlaces : \E i \in DOMAIN owners : owners[i].at = o
  <2> TAKE o \in FragmentPlaces
  <2>1. PICK k \in DOMAIN fragments : fragments[k].at = o
    BY <1>2 DEF Lists
  <2>2. Len(statements) + k \in DOMAIN owners /\ owners[Len(statements) + k] = fragments[k]
    BY <1>4, <1>5, <1>6
  <2> QED
    BY <2>1, <2>2
<1> QED
  BY <1>5, <1>9, <1>10, <1>11

(* What an owner's includes miss of the fragments.                         *)
LEMMA MissesAre ==
  ASSUME NEW includes, NEW o, IncludesSound(includes, o)
  PROVE  Misses(includes) =
           {p \in Owned(o) : /\ Target(MarkerAt(p).refid) = "Local"
                             /\ MarkerAt(p).refid \notin seenFragmentIds}
<1>1. /\ \A k \in DOMAIN includes : includes[k].at \in Owned(o)
      /\ \A p \in Owned(o) : \E k \in DOMAIN includes : includes[k].at = p
      /\ \A k \in DOMAIN includes :
           /\ includes[k].refid = MarkerAt(includes[k].at).refid
           /\ includes[k].target = Target(includes[k].refid)
  BY DEF IncludesSound, Lists
<1> QED
  BY <1>1 DEF Misses, ToSet

(* The dangling check of all of them.                                      *)
LEMMA AllDangling ==
  ASSUME Typed, next = Len(document) + 1, StatementsSound, FragmentsSound,
         NEW owners, owners = statements \o fragments
  PROVE  Says(Together([i \in DOMAIN owners |-> Dangling(owners[i].includes)]), {},
              {p \in Judged : /\ Target(MarkerAt(p).refid) = "Local"
                              /\ \A f \in FragmentPlaces : document[f[1]].id # MarkerAt(p).refid},
              0)
<1> DEFINE n == Len(owners)
           ss == [i \in DOMAIN owners |-> Dangling(owners[i].includes)]
           A == [k \in 1 .. n |-> {}]
           B == [k \in 1 .. n |-> Misses(owners[k].includes)]
           Local(p) == /\ Target(MarkerAt(p).refid) = "Local"
                       /\ MarkerAt(p).refid \notin seenFragmentIds
<1>1. /\ owners \in Seq(Owner)
      /\ \A i \in DOMAIN owners : /\ owners[i].at \in StatementPlaces \cup FragmentPlaces
                                  /\ IncludesSound(owners[i].includes, owners[i].at)
      /\ \A o \in StatementPlaces \cup FragmentPlaces :
           \E i \in DOMAIN owners : owners[i].at = o
  BY OwnersListed
<1>2. n \in Nat /\ DOMAIN owners = 1 .. n
  BY <1>1
<1>3. \A k \in 1 .. n : Says(ss[k], A[k], B[k], 0)
  <2> TAKE k \in 1 .. n
  <2>1. owners[k].includes \in Seq(IncludeRef)
    BY <1>1, <1>2 DEF IncludesSound
  <2>2. Says(Dangling(owners[k].includes), {}, Misses(owners[k].includes), 0)
    BY <2>1, DanglingSaid
  <2>3. ss[k] = Dangling(owners[k].includes) /\ A[k] = {} /\ B[k] = Misses(owners[k].includes)
    BY <1>2, Zenon
  <2> QED
    BY <2>2, <2>3
<1>4. ss = [k \in 1 .. n |-> ss[k]]
  BY <1>2
<1>5. AllOf(A, n) = {}
  BY DEF AllOf
<1>6. AllOf(B, n) = {p \in Judged : Local(p)}
  <2>1. \A k \in 1 .. n : B[k] = {p \in Owned(owners[k].at) : Local(p)}
    <3> TAKE k \in 1 .. n
    <3>1. B[k] = Misses(owners[k].includes)
      BY Zenon
    <3> QED
      BY <1>1, <1>2, <3>1, MissesAre
  <2> HIDE DEF B, Local
  <2>2. \A p \in AllOf(B, n) : p \in Judged /\ Local(p)
    <3> TAKE p \in AllOf(B, n)
    <3>1. PICK k \in 1 .. n : p \in B[k]
      BY DEF AllOf
    <3>2. p \in Owned(owners[k].at) /\ Local(p)
      BY <2>1, <3>1
    <3> QED
      BY <1>1, <1>2, <3>2 DEF Judged
  <2>3. \A p \in Judged : Local(p) => p \in AllOf(B, n)
    <3> TAKE p \in Judged
    <3>1. PICK o \in StatementPlaces \cup FragmentPlaces : p \in Owned(o)
      BY DEF Judged
    <3>2. PICK k \in 1 .. n : owners[k].at = o
      BY <1>1, <1>2
    <3> QED
      BY <2>1, <3>1, <3>2 DEF AllOf
  <2> QED
    BY <2>2, <2>3
<1>7. seenFragmentIds = {document[f[1]].id : f \in FragmentPlaces}
  <2>1. /\ Lists(fragments, FragmentPlaces)
        /\ \A k \in DOMAIN fragments : FragmentFaithful(fragments[k])
        /\ seenFragmentIds = {fragments[k].id : k \in DOMAIN fragments}
    BY AtTheEnd DEF FragmentsSound, Passed
  <2> DEFINE id(p) == document[p[1]].id
  <2>2. \A k \in DOMAIN fragments : /\ fragments[k].at \in FragmentPlaces
                                    /\ fragments[k].id = id(fragments[k].at)
    BY <2>1 DEF Lists, FragmentFaithful
  <2>3. \A p \in FragmentPlaces : \E k \in DOMAIN fragments : fragments[k].at = p
    BY <2>1 DEF Lists
  <2> HIDE DEF id
  <2>4. seenFragmentIds = {id(f) : f \in FragmentPlaces}
    <3>1. \A k \in DOMAIN fragments : fragments[k].id \in {id(f) : f \in FragmentPlaces}
      BY <2>2
    <3>2. \A f \in FragmentPlaces : id(f) \in {fragments[k].id : k \in DOMAIN fragments}
      BY <2>2, <2>3
    <3> QED
      BY <2>1, <3>1, <3>2
  <2> QED
    BY <2>4 DEF id
<1>8. {p \in Judged : Local(p)} =
        {p \in Judged : /\ Target(MarkerAt(p).refid) = "Local"
                        /\ \A f \in FragmentPlaces : document[f[1]].id # MarkerAt(p).refid}
  BY <1>7
<1> HIDE DEF ss, A, B, n, Local
<1>9. EachSays(ss, n, A, B)
  BY <1>3, <1>4 DEF EachSays
<1>10. Says(Together(ss), AllOf(A, n), AllOf(B, n), 0)
  BY <1>2, <1>9, SaysTogether
<1>11. Says(Together(ss), {}, {p \in Judged : Local(p)}, 0)
  BY <1>5, <1>6, <1>10
<1> QED
  BY <1>8, <1>11 DEF ss

(* While the result and the document are the same, the result is as sound  *)
(* as it was.                                                              *)
LEMMA ResultStill ==
  ASSUME StatementsSound, FragmentsSound, ResultMapsSound,
         UNCHANGED <<input, next, statements, fragments, resultMaps,
                     seenIds, seenFragmentIds, seenResultMapIds>>
  PROVE  StatementsSound' /\ FragmentsSound' /\ ResultMapsSound'
<1>1. UNCHANGED <<input, next, statements, fragments, resultMaps,
                  seenIds, seenFragmentIds, seenResultMapIds>>
  OBVIOUS
<1>2. /\ StatementPlaces' = StatementPlaces /\ FragmentPlaces' = FragmentPlaces
      /\ \A s : Faithful(s)' <=> Faithful(s)
  BY <1>1, Still
<1>3. StatementsSound'
  <2>1. /\ statements \in Seq(Statement) /\ Lists(statements, UpTo(StatementPlaces, next))
        /\ \A k \in DOMAIN statements : Faithful(statements[k])
        /\ seenIds = Keys(statements)
    BY DEF StatementsSound, Passed
  <2>2. (\A k \in DOMAIN statements : Faithful(statements[k]))'
    BY <1>1, <1>2, <2>1
  <2>3. Lists(statements', UpTo(StatementPlaces', next')) /\ statements' \in Seq(Statement)
        /\ seenIds' = Keys(statements')
    BY <1>1, <1>2, <2>1
  <2> QED
    BY <2>2, <2>3 DEF StatementsSound, Passed, UpTo, Lists, InPlace, Before, Keys, Key,
       Statement, IncludeRef, Place, Id
<1>4. FragmentsSound'
  <2>1. /\ fragments \in Seq(Fragment)
        /\ Lists(fragments, UpTo(FragmentPlaces, next))
        /\ \A k \in DOMAIN fragments : FragmentFaithful(fragments[k])
        /\ seenFragmentIds = {fragments[k].id : k \in DOMAIN fragments}
    BY DEF FragmentsSound, Passed
  <2>2. (\A k \in DOMAIN fragments : FragmentFaithful(fragments[k]))'
    BY <1>1, <1>2, <2>1, FragmentStill
  <2>3. Lists(fragments', UpTo(FragmentPlaces', next')) /\ fragments' \in Seq(Fragment)
        /\ seenFragmentIds' = {fragments'[k].id : k \in DOMAIN fragments'}
    BY <1>1, <1>2, <2>1
  <2> QED
    BY <2>2, <2>3 DEF FragmentsSound, FragmentFaithful, Passed, UpTo, Lists, InPlace, Before,
       Fragment, IncludeRef, Place, Id
<1>5. ResultMapsSound'
  BY <1>1 DEF ResultMapsSound, Place, Id
<1> QED
  BY <1>3, <1>4, <1>5

(* AtEnd keeps the invariant.                                              *)
LEMMA EndStep ==
  ASSUME IInv, AtEnd
  PROVE  IInv'
<1> DEFINE owners == statements \o fragments
           T == Together([i \in DOMAIN owners |-> Dangling(owners[i].includes)])
           E == IF dialect = "Mybatis" THEN T ELSE << >>
           Y == Unnamed
           c == Cardinality(Capped)
           X == Reported("DuplicateStatementId")
<1>1. /\ ~ finished /\ next > Len(document) /\ finished' = TRUE
      /\ diagnostics' = Dedup(diagnostics \o E)
      /\ UNCHANGED <<input, next, statements, fragments, resultMaps,
                     seenIds, seenFragmentIds, seenResultMapIds>>
  BY DEF AtEnd
<1>2. Reading /\ StatementsSound /\ FragmentsSound /\ ResultMapsSound /\ DiagnosticsSound
  BY DEF IInv
<1>3. Typed /\ next = Len(document) + 1
  <2>1. document \in Seq(Child) /\ next \in 1 .. Len(document) + 1
    BY <1>2, DocumentsAssumption DEF Reading
  <2> QED
    BY <1>1, <2>1 DEF Typed
<1>4. Reading'
  BY <1>1, <1>2, <1>3 DEF Reading, input, Dialect
<1>5. /\ StatementPlaces' = StatementPlaces /\ FragmentPlaces' = FragmentPlaces
      /\ Unnamed' = Unnamed /\ Capped' = Capped /\ DanglingPlaces' = DanglingPlaces
      /\ \A s : Faithful(s)' <=> Faithful(s)
      /\ \A inc, o : IncludesSound(inc, o)' <=> IncludesSound(inc, o)
  BY <1>1, Still
<1>6. StatementsSound' /\ FragmentsSound' /\ ResultMapsSound'
  BY <1>1, <1>2, ResultStill
<1>9. Says(diagnostics, X, Y, c)
  BY <1>1, <1>2, <1>3, SaidSoFar, AtTheEnd
<1>10. Says(E, {}, DanglingPlaces, 0)
  <2>1. CASE dialect = "Mybatis"
    <3>1. E = T
      BY <2>1
    <3>2. DanglingPlaces =
            {p \in Judged : /\ Target(MarkerAt(p).refid) = "Local"
                            /\ \A f \in FragmentPlaces : document[f[1]].id # MarkerAt(p).refid}
      BY <2>1 DEF DanglingPlaces
    <3> QED
      BY <1>2, <1>3, <3>1, <3>2, AllDangling
  <2>2. CASE dialect # "Mybatis"
    <3>1. E = << >> /\ DanglingPlaces = {}
      BY <2>2, Zenon DEF DanglingPlaces
    <3> QED
      BY <3>1, NothingSaid
  <2> QED
    BY <2>1, <2>2
<1> HIDE DEF E, X, Y, c
<1>11. c \in Nat
  <2>1. diagnostics \in Seq(Diag) /\ Cardinality(Unlocated(diagnostics)) = c
    BY <1>9 DEF Says
  <2> QED
    BY <2>1, UnlocatedFinite
<1>12. Says(diagnostics', X, Y \cup DanglingPlaces, c) /\ LocatedOnce(diagnostics')
  <2>1. Says(diagnostics \o E, X \cup {}, Y \cup DanglingPlaces, c + 0)
    BY <1>9, <1>10, SaysJoined
  <2>2. X \cup {} = X /\ c + 0 = c
    BY <1>11
  <2>3. Says(diagnostics \o E, X, Y \cup DanglingPlaces, c)
    BY <2>1, <2>2
  <2> QED
    BY <1>1, <2>3, DedupSaid
<1>13. DuplicatesReported'
  <2>1. \A j \in DOMAIN statements : IsRepeated(statements, j)
           <=> Diagnostic("DuplicateStatementId", statements[j].at) \in ToSet(diagnostics)
    BY <1>2 DEF DiagnosticsSound, DuplicatesReported
  <2>2. diagnostics \in Seq(Diag) /\ diagnostics' \in Seq(Diag)
        /\ AtCode(diagnostics, "DuplicateStatementId") = X
        /\ AtCode(diagnostics', "DuplicateStatementId") = X
    BY <1>9, <1>12 DEF Says
  <2>3. \A at : Diagnostic("DuplicateStatementId", at) \in ToSet(diagnostics)
                  <=> Diagnostic("DuplicateStatementId", at) \in ToSet(diagnostics')
    BY <2>2, InAtCode
  <2>4. \A j \in DOMAIN statements' : IsRepeated(statements', j)
           <=> Diagnostic("DuplicateStatementId", statements'[j].at) \in ToSet(diagnostics')
    BY <1>1, <2>1, <2>3
  <2> QED
    BY <2>4 DEF DuplicatesReported, IsRepeated, Key, Diagnostic, ToSet
<1>14. DiagnosticsSound'
  <2>1. diagnostics' \in Seq(Diag)
    BY <1>12 DEF Says
  <2>2. Diag' = Diag
    BY DEF Diag, Code, Place
  <2>3. \A code : Reported(code)' = AtCode(diagnostics', code)
    BY DEF Reported, AtCode
  <2>4. Reported("DuplicateStatementId")' = X
    BY <1>12, <2>3 DEF Says
  <2>5. Reported("DanglingRefid")' = Unnamed' \cup DanglingPlaces'
    BY <1>5, <1>12, <2>3 DEF Says, Y
  <2>6. \A p \in Reported("DuplicateStatementId")' : p \in Place /\ p # << >> /\ p[1] < next'
    BY <1>1, <1>2, <2>4 DEF X, DiagnosticsSound
  <2>7. Cardinality(Unlocated(diagnostics')) = Cardinality({b \in Capped' : b < next'})
    <3>1. CappedUpTo(next) = Capped
      BY <1>3, AtTheEnd
    <3>2. {b \in Capped' : b < next'} = CappedUpTo(next)
      BY <1>1, <1>5 DEF CappedUpTo
    <3> QED
      BY <1>12, <3>1, <3>2 DEF Says, c
  <2>8. (Unlocated(diagnostics))' = Unlocated(diagnostics')
    BY DEF Unlocated
  <2>9. \A i, j \in DOMAIN diagnostics' \ Unlocated(diagnostics') :
          diagnostics'[i] = diagnostics'[j] => i = j
    BY <1>12 DEF LocatedOnce
  <2> QED
    BY <1>1, <1>13, <2>1, <2>5, <2>6, <2>7, <2>8, <2>9
       DEF DiagnosticsSound, Diag, Code, Place
<1> QED
  BY <1>4, <1>6, <1>14 DEF IInv

(* So does a step that changes nothing.                                    *)
LEMMA StutterStep ==
  ASSUME IInv, UNCHANGED vars
  PROVE  IInv'
<1>1. /\ UNCHANGED <<input, next, statements, fragments, resultMaps,
                     seenIds, seenFragmentIds, seenResultMapIds>>
      /\ diagnostics' = diagnostics /\ finished' = finished /\ next' = next
  BY DEF vars
<1>2. StatementsSound' /\ FragmentsSound' /\ ResultMapsSound'
  BY <1>1, ResultStill DEF IInv
<1>3. Reading'
  BY <1>1 DEF IInv, Reading, input, Dialect
<1>4. Unnamed' = Unnamed /\ Capped' = Capped /\ DanglingPlaces' = DanglingPlaces
  BY <1>1, Still
<1>5. DiagnosticsSound'
  <2>1. Diag' = Diag /\ DiagnosticsSound
    BY DEF Diag, Code, Place, IInv
  <2>2. DuplicatesReported'
    BY <1>1, <2>1 DEF DiagnosticsSound, DuplicatesReported, IsRepeated, Key, Diagnostic, ToSet
  <2>3. \A code : Reported(code)' = Reported(code)
    BY <1>1 DEF Reported, ToSet
  <2>4. (Unlocated(diagnostics))' = Unlocated(diagnostics)
    BY <1>1 DEF Unlocated
  <2>5. /\ diagnostics' \in Seq(Diag)
        /\ \A p \in Reported("DuplicateStatementId")' : p \in Place /\ p # << >> /\ p[1] < next'
    BY <1>1, <2>1, <2>3 DEF DiagnosticsSound
  <2>6. Reported("DanglingRefid")' =
          IF finished' THEN Unnamed' \cup DanglingPlaces' ELSE UpTo(Unnamed', next')
    BY <1>1, <1>4, <2>1, <2>3 DEF DiagnosticsSound, Passed
  <2>7. Cardinality((Unlocated(diagnostics))') = Cardinality({c \in Capped' : c < next'})
    BY <1>1, <1>4, <2>1, <2>4 DEF DiagnosticsSound
  <2>8. finished' => \A i, j \in DOMAIN diagnostics' \ (Unlocated(diagnostics))' :
                       diagnostics'[i] = diagnostics'[j] => i = j
    BY <1>1, <2>1, <2>4 DEF DiagnosticsSound
  <2> QED
    BY <2>2, <2>5, <2>6, <2>7, <2>8 DEF DiagnosticsSound, Diag, Code, Place, Passed, UpTo
<1> QED
  BY <1>2, <1>3, <1>5 DEF IInv

(* The invariant holds at the start.                                       *)
LEMMA InitSound ==
  ASSUME Init
  PROVE  IInv
<1>1. Reading
  <2>1. document \in Seq(Child)
    BY DocumentsAssumption DEF Init
  <2>2. 1 \in 1 .. Len(document) + 1
    BY <2>1
  <2> QED
    BY <2>2 DEF Init, Reading
<1>2. Typed
  BY DocumentsAssumption DEF Init, Typed
<1>3. next = 1 /\ finished = FALSE
  BY DEF Init
<1>4. \A n \in DOMAIN document : n >= 1 /\ n \in Nat
  BY <1>2 DEF Typed
<1>5. \A S : << >> \in Seq(S) /\ DOMAIN << >> = {}
  OBVIOUS
<1>6. Lists(<< >>, {})
  BY <1>5, Zenon DEF Lists, InPlace
<1>7. StatementsSound
  <2>1. UpTo(StatementPlaces, 1) = {}
    <3> SUFFICES ASSUME NEW p \in StatementPlaces, p[1] < 1 PROVE FALSE
      BY DEF UpTo
    <3>1. PICK n \in DOMAIN document : p \in StatementsAt(n)
      BY StatementPlacesAre
    <3>2. p[1] = n
      BY <1>2, <3>1, StatementAt
    <3> QED
      BY <1>4, <3>2
  <2>2. Keys(<< >>) = {}
    BY <1>5, Zenon DEF Keys
  <2>3. statements = << >> /\ seenIds = {}
    BY DEF Init
  <2> QED
    BY <1>3, <1>5, <1>6, <2>1, <2>2, <2>3, Zenon DEF StatementsSound, Passed
<1>8. FragmentsSound
  <2>1. UpTo(FragmentPlaces, 1) = {}
    <3> SUFFICES ASSUME NEW p \in FragmentPlaces, p[1] < 1 PROVE FALSE
      BY DEF UpTo
    <3>1. p[1] \in DOMAIN document
      BY <1>2, FragmentPlace
    <3> QED
      BY <1>4, <3>1
  <2>2. fragments = << >> /\ seenFragmentIds = {}
    BY DEF Init
  <2> QED
    BY <1>3, <1>5, <1>6, <2>1, <2>2, Zenon DEF FragmentsSound, Passed
<1>9. ResultMapsSound
  <2>1. resultMaps = << >> /\ seenResultMapIds = {}
    BY DEF Init
  <2> QED
    BY <1>5, <2>1, Zenon DEF ResultMapsSound
<1>10. DiagnosticsSound
  <2>1. diagnostics = << >> /\ statements = << >>
    BY DEF Init
  <2>2. ToSet(<< >>) = {} /\ Unlocated(<< >>) = {}
    BY <1>5, Zenon DEF ToSet, Unlocated
  <2>3. \A code : Reported(code) = {}
    BY <2>1, <2>2 DEF Reported
  <2>4. DuplicatesReported
    BY <1>5, <2>1, Zenon DEF DuplicatesReported
  <2>5. UpTo(Unnamed, 1) = {}
    <3> SUFFICES ASSUME NEW p \in Unnamed, p[1] < 1 PROVE FALSE
      BY DEF UpTo
    <3>1. PICK n \in DOMAIN document : p \in UnnamedAt(n)
      BY <1>2, UnnamedAre
    <3>2. p[1] = n
      BY <1>2, <3>1, UnnamedAre
    <3> QED
      BY <1>4, <3>2
  <2>6. {c \in Capped : c < 1} = {}
    BY <1>4 DEF Capped
  <2>7. diagnostics \in Seq(Diag)
    BY <1>5, <2>1, Zenon
  <2>8. Reported("DanglingRefid") = Passed(Unnamed)
    BY <1>3, <2>3, <2>5 DEF Passed
  <2>9. Cardinality(Unlocated(diagnostics)) = Cardinality({c \in Capped : c < next})
    BY <1>3, <2>1, <2>2, <2>6
  <2> QED
    BY <1>3, <2>3, <2>4, <2>7, <2>8, <2>9 DEF DiagnosticsSound
<1> QED
  BY <1>1, <1>7, <1>8, <1>9, <1>10 DEF IInv

(* The invariant, of every behaviour: the result so far is what the        *)
(* document has of the children passed, and the diagnostics so far say     *)
(* what those children give cause for.                                     *)
THEOREM Invariance == Spec => []IInv
<1>1. Init => IInv
  BY InitSound
<1>2. IInv /\ [Next]_vars => IInv'
  <2> SUFFICES ASSUME IInv, [Next]_vars PROVE IInv'
    OBVIOUS
  <2>1. CASE AtStatement
    BY <2>1, StatementStep
  <2>2. CASE AtFragment
    BY <2>2, FragmentStep
  <2>3. CASE AtResultMap
    BY <2>3, ResultMapStep
  <2>4. CASE AtEnd
    BY <2>4, EndStep
  <2>5. CASE UNCHANGED vars
    BY <2>5, StutterStep
  <2> QED
    BY <2>1, <2>2, <2>3, <2>4, <2>5 DEF Next
<1> QED
  BY <1>1, <1>2, PTL DEF Spec

-------------------------------------------------------------------------------
(* The properties.                                                         *)

(* What is listed has places.                                              *)
LEMMA PlacesAreTyped ==
  /\ \A s \in Seq(Statement) : \A k \in DOMAIN s : s[k].at \in Place
  /\ \A s \in Seq(Fragment) : \A k \in DOMAIN s : s[k].at \in Place
  /\ \A s \in Seq(IncludeRef) : \A k \in DOMAIN s : s[k].at \in Place
<1>1. \A S : (\A x \in S : x.at \in Place) => \A s \in Seq(S) : \A k \in DOMAIN s : s[k].at \in Place
  OBVIOUS
<1>2. \A x \in Statement : x.at \in Place
  BY DEF Statement
<1>3. \A x \in Fragment : x.at \in Place
  BY DEF Fragment
<1>4. \A x \in IncludeRef : x.at \in Place
  BY DEF IncludeRef
<1> QED
  BY <1>1, <1>2, <1>3, <1>4

(* Type correctness: nothing without an id is registered anywhere, and no  *)
(* fragment or resultMap without one is in the result.                     *)
THEOREM ResultWellTyped == Spec => []TypeOK
<1>1. IInv => TypeOK
  <2> SUFFICES ASSUME IInv PROVE TypeOK
    OBVIOUS
  <2>1. document \in Seq(Child) /\ dialect \in Dialect
        /\ next \in 1 .. Len(document) + 1 /\ finished \in BOOLEAN
    BY DocumentsAssumption DEF IInv, Reading
  <2>2. statements \in Seq(Statement) /\ seenIds = Keys(statements)
    BY DEF IInv, StatementsSound
  <2>3. \A k \in seenIds : k[1] \in Id /\ k[2] \in DatabaseId \cup {None}
    <3> TAKE k \in seenIds
    <3>1. PICK i \in DOMAIN statements : statements[i].id # None /\ k = Key(statements[i])
      BY <2>2 DEF Keys
    <3>2. statements[i] \in Statement
      BY <2>2
    <3>3. k = <<statements[i].id, statements[i].db>>
      BY <3>1 DEF Key
    <3> QED
      BY <3>1, <3>2, <3>3 DEF Statement
  <2>4. /\ fragments \in Seq(Fragment) /\ seenFragmentIds = {fragments[k].id : k \in DOMAIN fragments}
    BY DEF IInv, FragmentsSound, Passed
  <2>5. seenFragmentIds \subseteq Id
    <3>1. \A f \in Fragment : f.id \in Id
      BY DEF Fragment
    <3>2. \A k \in DOMAIN fragments : fragments[k] \in Fragment
      BY <2>4
    <3> QED
      BY <2>4, <3>1, <3>2
  <2>6. resultMaps \in Seq([at : Place, id : Id]) /\ seenResultMapIds \subseteq Id
    BY DEF IInv, ResultMapsSound
  <2>7. \A i \in DOMAIN diagnostics :
          diagnostics[i].code \in Code /\ diagnostics[i].at \in Place \cup {None}
    <3>1. diagnostics \in Seq(Diag)
      BY DEF IInv, DiagnosticsSound
    <3>2. \A i \in DOMAIN diagnostics : diagnostics[i] \in Diag
      BY <3>1
    <3> QED
      BY <3>2 DEF Diag
  <2> QED
    BY <2>1, <2>2, <2>3, <2>4, <2>5, <2>6, <2>7 DEF TypeOK, Fragment
<1> QED
  BY <1>1, Invariance, PTL

(* At every point of the loop, the statements reported as duplicates are   *)
(* those whose id and databaseId one before them has, selectKeys included. *)
THEOREM DuplicatesAsTheyAre == Spec => []DuplicatesReported
<1>1. IInv => DuplicatesReported
  BY DEF IInv, DiagnosticsSound
<1> QED
  BY <1>1, Invariance, PTL

(* The result has all statements, selectKeys and fragments of the document *)
(* in document order, and each has all of its own includes, once and in    *)
(* document order.                                                         *)
THEOREM DocumentOrder == Spec => []ResultInDocumentOrder
<1>1. IInv => ResultInDocumentOrder
  <2> SUFFICES ASSUME IInv, finished PROVE ResultInDocumentOrder
    BY DEF ResultInDocumentOrder
  <2>1. Typed /\ next = Len(document) + 1
    BY DocumentsAssumption DEF IInv, Reading, Typed
  <2>2. /\ statements \in Seq(Statement) /\ Lists(statements, StatementPlaces)
        /\ \A k \in DOMAIN statements : Faithful(statements[k])
    BY <2>1, AtTheEnd DEF IInv, StatementsSound, Passed
  <2>3. /\ fragments \in Seq(Fragment) /\ Lists(fragments, FragmentPlaces)
        /\ \A k \in DOMAIN fragments : FragmentFaithful(fragments[k])
    BY <2>1, AtTheEnd DEF IInv, FragmentsSound, Passed
  <2>4. Places(statements) = InOrder(StatementPlaces)
    <3>1. \A k \in DOMAIN statements : statements[k].at \in Place
      BY <2>2, PlacesAreTyped
    <3> QED
      BY <2>2, <3>1, ListedInOrder
  <2>5. Places(fragments) = InOrder(FragmentPlaces)
    <3>1. \A k \in DOMAIN fragments : fragments[k].at \in Place
      BY <2>3, PlacesAreTyped
    <3> QED
      BY <2>3, <3>1, ListedInOrder
  <2>6. ASSUME NEW includes, NEW o, IncludesSound(includes, o)
        PROVE  Places(includes) = InOrder(Owned(o))
    <3>1. includes \in Seq(IncludeRef) /\ Lists(includes, Owned(o))
      BY <2>6 DEF IncludesSound
    <3>2. \A k \in DOMAIN includes : includes[k].at \in Place
      BY <3>1, PlacesAreTyped
    <3> QED
      BY <3>1, <3>2, ListedInOrder
  <2>7. \A i \in DOMAIN statements :
          Places(statements[i].includes) = InOrder(Owned(statements[i].at))
    BY <2>2, <2>6 DEF Faithful
  <2>8. \A i \in DOMAIN fragments :
          Places(fragments[i].includes) = InOrder(Owned(fragments[i].at))
    BY <2>3, <2>6 DEF FragmentFaithful
  <2> QED
    BY <2>4, <2>5, <2>7, <2>8 DEF ResultInDocumentOrder
<1> QED
  BY <1>1, Invariance, PTL

(* In MyBatis the refids reported as dangling are those that no fragment   *)
(* of the file has, wherever it stands, and those that are missing,        *)
(* whatever the document.  In iBatis no refid is reported.                 *)
THEOREM DanglingAsTheyAre == Spec => []DanglingExact
<1>1. IInv => DanglingExact
  <2> SUFFICES ASSUME IInv, finished PROVE DanglingExact
    BY DEF DanglingExact
  <2> DEFINE ids == {document[p[1]].id : p \in FragmentPlaces}
             judged == UNION {Owned(o) : o \in StatementPlaces \cup FragmentPlaces}
             plain(p) == {".", "${"} \cap ToSet(MarkerAt(p).refid) = {}
             named == {p \in judged : plain(p) /\ MarkerAt(p).refid \notin ids}
  <2>1. Reported("DanglingRefid") = Unnamed \cup DanglingPlaces
    BY DEF IInv, DiagnosticsSound
  <2>2. dialect = "Mybatis" => DanglingPlaces = named
    <3> SUFFICES ASSUME dialect = "Mybatis" PROVE DanglingPlaces = named
      OBVIOUS
    <3>1. \A refid : Target(refid) = "Local" <=> {".", "${"} \cap ToSet(refid) = {}
      BY DEF Target
    <3>2. \A x : x \notin ids <=> \A f \in FragmentPlaces : document[f[1]].id # x
      OBVIOUS
    <3>3. judged = Judged
      BY DEF Judged
    <3> QED
      BY <3>1, <3>2, <3>3 DEF DanglingPlaces
  <2>3. dialect # "Mybatis" => DanglingPlaces = {}
    BY Zenon DEF DanglingPlaces
  <2>4. dialect = "Mybatis" => Reported("DanglingRefid") = Unnamed \cup named
    BY <2>1, <2>2
  <2>5. dialect # "Mybatis" => Reported("DanglingRefid") \subseteq Unnamed
    BY <2>1, <2>3
  <2> QED
    BY <2>4, <2>5 DEF DanglingExact, Unnamed
<1> QED
  BY <1>1, Invariance, PTL

(* One anomaly with a span is one diagnostic, and there are as many        *)
(* without one as there are bodies over the branch limit.                  *)
THEOREM AnomaliesOnce == Spec => []EachAnomalyOnce
<1>1. IInv => EachAnomalyOnce
  <2> SUFFICES ASSUME IInv, finished PROVE EachAnomalyOnce
    BY DEF EachAnomalyOnce
  <2>1. \A i, j \in DOMAIN diagnostics \ Unlocated(diagnostics) :
          diagnostics[i] = diagnostics[j] => i = j
    BY DEF IInv, DiagnosticsSound
  <2>2. Cardinality(Unlocated(diagnostics)) = Cardinality(Capped)
    <3>1. Typed /\ next = Len(document) + 1
      BY DocumentsAssumption DEF IInv, Reading, Typed
    <3>2. {c \in Capped : c < next} = Capped
      BY <3>1, AtTheEnd DEF CappedUpTo
    <3> QED
      BY <3>2 DEF IInv, DiagnosticsSound
  <2> QED
    BY <2>1, <2>2 DEF EachAnomalyOnce, Unlocated, Capped
<1> QED
  BY <1>1, Invariance, PTL

(* An appended word can be told from the rest.                             *)
LEMMA AppendedIds ==
  \A S : \A x, y \in Seq(S), a \in S :
    /\ Append(x, a) = Append(y, a) => x = y
    /\ Append(x, a) \in Seq(S) /\ a \in ToSet(Append(x, a))
<1> TAKE S
<1> TAKE x, y \in Seq(S), a \in S
<1>1. /\ Len(Append(x, a)) = Len(x) + 1 /\ \A k \in 1 .. Len(x) : Append(x, a)[k] = x[k]
      /\ Append(x, a)[Len(x) + 1] = a /\ Append(x, a) \in Seq(S)
  BY OneMore
<1>2. /\ Len(Append(y, a)) = Len(y) + 1 /\ \A k \in 1 .. Len(y) : Append(y, a)[k] = y[k]
  BY OneMore
<1>3. ASSUME Append(x, a) = Append(y, a) PROVE x = y
  <2>1. Len(x) = Len(y) /\ Len(x) \in Nat
    BY <1>1, <1>2, <1>3
  <2>2. \A k \in 1 .. Len(x) : x[k] = y[k]
    BY <1>1, <1>2, <1>3, <2>1
  <2> QED
    BY <2>1, <2>2
<1>4. a \in ToSet(Append(x, a))
  <2>1. Len(x) + 1 \in DOMAIN Append(x, a)
    BY <1>1
  <2> QED
    BY <1>1, <2>1 DEF ToSet
<1> QED
  BY <1>1, <1>3, <1>4

(* The document of DialectsApart: statements that differ in their          *)
(* databaseId, each with at most one selectKey that names none or the      *)
(* same.                                                                   *)
DualDialect ==
  LET S == ChildrenOf({"statement"})
      keys(c) == {p \in SelectKeyPlaces : p[1] = c}
      key(c) == <<document[c].id, document[c].db>>
  IN  /\ \A c, d \in S : c # d => key(c) # key(d)
      /\ \A c \in S : /\ Cardinality(keys(c)) <= 1
                      /\ document[c].id # None => "!selectKey" \notin ToSet(document[c].id)
                      /\ \A p \in keys(c) : MarkerAt(p).db \in {None, document[c].db}

(* Two members of a set of at most one are the same.                       *)
LEMMA OneKey ==
  ASSUME NEW P, IsFiniteSet(P), Cardinality(P) <= 1, NEW p \in P, NEW q \in P
  PROVE  p = q
<1> SUFFICES ASSUME p # q PROVE FALSE
  OBVIOUS
<1>1. IsFiniteSet({p}) /\ Cardinality({p}) = 1
  BY FS_Singleton
<1>2. IsFiniteSet({p} \cup {q}) /\ Cardinality({p} \cup {q}) = 2
  <2> DEFINE A == {p}
  <2>1. q \notin A /\ IsFiniteSet(A) /\ Cardinality(A) = 1
    BY <1>1
  <2> HIDE DEF A
  <2>2. IsFiniteSet(A \cup {q}) /\ Cardinality(A \cup {q}) = Cardinality(A) + 1
    BY <2>1, FS_AddElement
  <2> QED
    BY <2>1, <2>2 DEF A
<1>3. {p} \cup {q} \subseteq P
  OBVIOUS
<1>4. Cardinality({p} \cup {q}) <= Cardinality(P)
  BY <1>3, FS_Subset
<1> QED
  BY <1>2, <1>4, FS_CardinalityType

(* The selectKeys of a child are finitely many.                            *)
LEMMA KeysFinite ==
  ASSUME Typed, NEW c \in DOMAIN document
  PROVE  IsFiniteSet({p \in SelectKeyPlaces : p[1] = c})
<1> DEFINE K == {p \in SelectKeyPlaces : p[1] = c}
           D == DOMAIN document[c].body
           T == {<<c, m>> : m \in D}
           f == [m \in D |-> <<c, m>>]
<1>1. D = 1 .. Len(document[c].body) /\ Len(document[c].body) \in Nat
  BY ChildAt
<1>2. IsFiniteSet(D)
  BY <1>1, FS_Interval
<1>3. K \subseteq T
  <2> SUFFICES ASSUME NEW p \in K PROVE p \in T
    OBVIOUS
  <2>1. p \in SelectKeyPlaces /\ p[1] = c
    OBVIOUS
  <2>2. PICK d \in DOMAIN document : \E m \in DOMAIN document[d].body : p = <<d, m>>
    BY <2>1 DEF SelectKeyPlaces, ChildrenOf
  <2>3. PICK m \in DOMAIN document[d].body : p = <<d, m>>
    BY <2>2
  <2>4. d = c
    BY <2>1, <2>3
  <2> QED
    BY <2>3, <2>4
<1>4. f \in Surjection(D, T)
  BY DEF Surjection
<1> HIDE DEF D, T, f, K
<1>5. IsFiniteSet(T)
  BY <1>2, <1>4, FS_Surjection
<1>6. IsFiniteSet(K)
  BY <1>3, <1>5, FS_Subset
<1> QED
  BY <1>6 DEF K

(* What a statement's or selectKey's key is made of in such a document.    *)
LEMMA KeyOfPlace ==
  ASSUME Typed, DualDialect, NEW p \in StatementPlaces
  PROVE  \E c \in ChildrenOf({"statement"}) :
           /\ c \in DOMAIN document /\ DbAt(p) = document[c].db
           /\ \/ p = <<c>> /\ IdAt(p) = document[c].id
              \/ p \in {q \in SelectKeyPlaces : q[1] = c} /\ IdAt(p) = Derived(document[c].id)
<1>1. CASE \E c \in ChildrenOf({"statement"}) : p = <<c>>
  <2>1. PICK c \in ChildrenOf({"statement"}) : p = <<c>>
    BY <1>1
  <2>2. c \in DOMAIN document
    BY DEF ChildrenOf
  <2>3. Len(p) = 1 /\ p[1] = c
    BY <2>1, <2>2, HereOnly
  <2> QED
    BY <2>1, <2>2, <2>3, Zenon DEF IdAt, DbAt
<1>2. CASE p \in SelectKeyPlaces
  <2>1. PICK c \in ChildrenOf({"statement"}) :
          \E m \in DOMAIN document[c].body : p = <<c, m>>
    BY <1>2 DEF SelectKeyPlaces
  <2>2. PICK m \in DOMAIN document[c].body : p = <<c, m>>
    BY <2>1
  <2>3. c \in DOMAIN document
    BY DEF ChildrenOf
  <2>4. c \in Nat /\ m \in Nat
    BY <2>3, ChildAt
  <2>5. Len(p) = 2 /\ p[1] = c
    BY <2>2, <2>4, Paths
  <2>6. p \in {q \in SelectKeyPlaces : q[1] = c}
    BY <1>2, <2>5
  <2>7. MarkerAt(p).db \in {None, document[c].db}
    BY <2>6, Zenon DEF DualDialect
  <2>8. Len(p) # 1
    BY <2>5
  <2>9. IdAt(p) = Derived(document[c].id)
    BY <2>5, <2>8, Zenon DEF IdAt
  <2>10. DbAt(p) = document[c].db
    BY <2>5, <2>7, <2>8 DEF DbAt
  <2> QED
    BY <2>3, <2>6, <2>9, <2>10
<1> QED
  BY <1>1, <1>2 DEF StatementPlaces

(* In such a document no two places have the same key.                     *)
LEMMA PlacesTold ==
  ASSUME Typed, DualDialect, NEW p \in StatementPlaces, NEW q \in StatementPlaces,
         IdAt(p) = IdAt(q), DbAt(p) = DbAt(q), IdAt(p) # None
  PROVE  p = q
<1> DEFINE S == ChildrenOf({"statement"})
           K(c) == {r \in SelectKeyPlaces : r[1] = c}
           id(c) == document[c].id
           db(c) == document[c].db
<1>1. PICK c \in S : /\ c \in DOMAIN document /\ DbAt(p) = db(c)
                     /\ \/ p = <<c>> /\ IdAt(p) = id(c)
                        \/ p \in K(c) /\ IdAt(p) = Derived(id(c))
  BY KeyOfPlace
<1>2. PICK d \in S : /\ d \in DOMAIN document /\ DbAt(q) = db(d)
                     /\ \/ q = <<d>> /\ IdAt(q) = id(d)
                        \/ q \in K(d) /\ IdAt(q) = Derived(id(d))
  BY KeyOfPlace
<1>3. id(c) = id(d) /\ db(c) = db(d) => c = d
  BY DEF DualDialect
<1>4. /\ id(c) # None => "!selectKey" \notin ToSet(id(c))
      /\ id(d) # None => "!selectKey" \notin ToSet(id(d))
  BY DEF DualDialect
<1>5. Cardinality(K(c)) <= 1 /\ IsFiniteSet(K(c))
  BY <1>1, KeysFinite DEF DualDialect
<1>6. id(c) \in Id \cup {None} /\ id(d) \in Id \cup {None}
  <2>1. document[c] \in Child /\ document[d] \in Child
    BY <1>1, <1>2, ChildAt
  <2> QED
    BY <2>1 DEF Child
<1> HIDE DEF S, K, id, db
<1> DEFINE suffix == "!selectKey"
<1>7. /\ \A x \in Id : suffix \in ToSet(Append(x, suffix))
      /\ \A x, y \in Id : Append(x, suffix) = Append(y, suffix) => x = y
  <2> DEFINE W == Name \cup {"!selectKey", ".", "${"}
  <2>1. suffix \in W /\ Id = Seq(W)
    BY DEF Id
  <2> HIDE DEF W, suffix
  <2> QED
    BY <2>1, AppendedIds
<1>9. \A x : x # None => Derived(x) = Append(x, "!selectKey")
  BY Zenon DEF Derived
<1>10. Derived(None) = None
  BY Zenon DEF Derived
<1>11. CASE p = <<c>> /\ IdAt(p) = id(c) /\ q = <<d>> /\ IdAt(q) = id(d)
  BY <1>1, <1>2, <1>3, <1>11
<1>12. CASE p \in K(c) /\ IdAt(p) = Derived(id(c)) /\ q \in K(d) /\ IdAt(q) = Derived(id(d))
  <2>1. id(c) # None /\ id(d) # None
    BY <1>10, <1>12
  <2>2. id(c) = id(d)
    BY <1>6, <1>7, <1>9, <1>12, <2>1
  <2>3. c = d
    BY <1>1, <1>2, <1>3, <2>2
  <2> QED
    BY <1>5, <1>12, <2>3, OneKey
<1>13. CASE p = <<c>> /\ IdAt(p) = id(c) /\ q \in K(d) /\ IdAt(q) = Derived(id(d))
  BY <1>4, <1>6, <1>7, <1>9, <1>10, <1>13
<1>14. CASE p \in K(c) /\ IdAt(p) = Derived(id(c)) /\ q = <<d>> /\ IdAt(q) = id(d)
  BY <1>4, <1>6, <1>7, <1>9, <1>10, <1>14
<1> QED
  BY <1>1, <1>2, <1>11, <1>12, <1>13, <1>14

(* The canonical dual-dialect mapper gets no DuplicateStatementId for any  *)
(* of its statements and selectKeys.                                       *)
THEOREM DialectsKeptApart == Spec => []DialectsApart
<1>1. IInv => DialectsApart
  <2> SUFFICES ASSUME IInv, DualDialect, NEW p \in StatementPlaces,
                      p \in Reported("DuplicateStatementId")
               PROVE  FALSE
    BY DEF DialectsApart, DualDialect
  <2>1. Typed
    BY DocumentsAssumption DEF IInv, Reading, Typed
  <2>2. /\ statements \in Seq(Statement) /\ Lists(statements, UpTo(StatementPlaces, next))
        /\ \A k \in DOMAIN statements : Faithful(statements[k])
    BY DEF IInv, StatementsSound, Passed
  <2>3. p[1] < next /\ DuplicatesReported /\ diagnostics \in Seq(Diag)
    BY DEF IInv, DiagnosticsSound
  <2>4. PICK j \in DOMAIN statements : statements[j].at = p
    BY <2>2, <2>3 DEF Lists, UpTo
  <2>5. Diagnostic("DuplicateStatementId", statements[j].at) \in ToSet(diagnostics)
    BY <2>3, <2>4, InAtCode, ReportedIs
  <2>6. IsRepeated(statements, j)
    BY <2>3, <2>5 DEF DuplicatesReported
  <2>7. PICK i \in 1 .. j - 1 : Key(statements[i]) = Key(statements[j])
    BY <2>6 DEF IsRepeated
  <2>8. i \in DOMAIN statements /\ i # j
    <3>1. DOMAIN statements = 1 .. Len(statements) /\ Len(statements) \in Nat
      BY <2>2
    <3> QED
      BY <2>4, <2>7, <3>1
  <2>9. statements[i].id = statements[j].id /\ statements[i].db = statements[j].db
        /\ statements[j].id # None
    <3>1. statements[j].id # None
      BY <2>6 DEF IsRepeated
    <3>2. \A x, y, u, v : <<x, y>> = <<u, v>> => x = u /\ y = v
      OBVIOUS
    <3> QED
      BY <2>7, <3>1, <3>2, Zenon DEF Key
  <2>10. \A k \in DOMAIN statements : /\ statements[k].id = IdAt(statements[k].at)
                                      /\ statements[k].db = DbAt(statements[k].at)
                                      /\ statements[k].at \in StatementPlaces
    BY <2>2 DEF Faithful, Lists, UpTo
  <2>11. statements[i].at = statements[j].at
    BY <2>1, <2>8, <2>9, <2>10, PlacesTold
  <2>12. InPlace(statements) /\ \A k \in DOMAIN statements : statements[k].at \in Place
    BY <2>2, PlacesAreTyped DEF Lists
  <2> QED
    BY <2>2, <2>8, <2>11, <2>12, PlacesApart
<1> QED
  BY <1>1, Invariance, PTL
===============================================================================
