------------------------------ MODULE TextProofs ------------------------------
(***************************************************************************)
(* That every SQL text keeps a sound span map, for every set of bodies.    *)
(*                                                                         *)
(* What a wrapper makes of a sound text is sound, by what the operators of *)
(* SqlText return; what the scan makes is sound because of its invariant.  *)
(* Why a text that is wrapped is one: a tag that closes has its own frame, *)
(* because there are as many frames as tags that opened and did not close. *)
(***************************************************************************)
EXTENDS TextReference, CommonLemmas, FiniteSets, FiniteSetTheorems

-------------------------------------------------------------------------------
(* Least and greatest.                                                     *)

(* The least member of a set of naturals is what Min returns.              *)
LEMMA MinIsLeast ==
  ASSUME NEW S, S \subseteq Nat, S # {}
  PROVE  Min(S) \in S /\ \A x \in S : Min(S) <= x
<1>1. \E m \in S : \A x \in S : m <= x
  BY NatLeast
<1> QED
  BY <1>1 DEF Min

(* What Max returns of naturals that stay within a bound.                  *)
LEMMA MaxIsGreatest ==
  ASSUME NEW n \in Nat, NEW S, S \subseteq 0 .. n, S # {}
  PROVE  Max(S) \in S /\ \A x \in S : x <= Max(S)
<1> DEFINE T == {n - x : x \in S}
<1>1. T \subseteq Nat /\ T # {}
  <2>1. \A x \in S : x \in 0 .. n
    OBVIOUS
  <2>2. \A x \in 0 .. n : n - x \in Nat
    OBVIOUS
  <2> QED
    BY <2>1, <2>2
<1>2. PICK m \in T : \A y \in T : m <= y
  BY <1>1, NatLeast
<1>3. PICK x \in S : m = n - x
  BY <1>2
<1>4. \A y \in S : y <= x
  <2> TAKE y \in S
  <2>1. n - y \in T
    OBVIOUS
  <2>2. n - x <= n - y
    BY <1>2, <1>3, <2>1
  <2> QED
    BY <2>2
<1>5. \E z \in S : \A y \in S : z >= y
  BY <1>4
<1>6. Max(S) \in S /\ \A y \in S : Max(S) >= y
  BY <1>5 DEF Max
<1> QED
  BY <1>6

-------------------------------------------------------------------------------
(* Span maps.                                                              *)

(* The offsets of a map in the text grow.                                  *)
Increasing(m) == \A j, k \in DOMAIN m : j < k => m[j][1] < m[k][1]

(* An entry of a span map is two offsets.                                  *)
LEMMA EntryNats ==
  ASSUME NEW m \in SpanMap, NEW k \in DOMAIN m
  PROVE  m[k] \in Entry /\ m[k][1] \in Nat /\ m[k][2] \in Nat
BY DEF SpanMap, Entry

(* One increasing map behind another is increasing if the first ends       *)
(* before the second begins.                                               *)
LEMMA IncreasingJoined ==
  ASSUME NEW a \in SpanMap, NEW b \in SpanMap, Increasing(a), Increasing(b),
         \A j \in DOMAIN a, k \in DOMAIN b : a[j][1] < b[k][1]
  PROVE  Increasing(a \o b)
<1> DEFINE r == a \o b
<1>1. /\ Len(r) = Len(a) + Len(b) /\ DOMAIN r = 1 .. Len(r)
      /\ \A k \in 1 .. Len(r) :
              \/ k \in 1 .. Len(a) /\ r[k] = a[k]
              \/ k - Len(a) \in 1 .. Len(b) /\ r[k] = b[k - Len(a)]
  BY Joined DEF SpanMap
<1>2. DOMAIN a = 1 .. Len(a) /\ DOMAIN b = 1 .. Len(b) /\ Len(a) \in Nat /\ Len(b) \in Nat
  BY DEF SpanMap
<1> HIDE DEF r
<1> SUFFICES ASSUME NEW j \in 1 .. Len(r), NEW k \in 1 .. Len(r), j < k PROVE r[j][1] < r[k][1]
  BY <1>1 DEF Increasing, r
<1>3. CASE k \in 1 .. Len(a) /\ r[k] = a[k]
  <2>1. j \in 1 .. Len(a) /\ r[j] = a[j]
    BY <1>1, <1>2, <1>3
  <2> QED
    BY <1>2, <1>3, <2>1 DEF Increasing
<1>4. CASE k - Len(a) \in 1 .. Len(b) /\ r[k] = b[k - Len(a)]
  <2>1. CASE j \in 1 .. Len(a) /\ r[j] = a[j]
    BY <1>2, <1>4, <2>1
  <2>2. CASE j - Len(a) \in 1 .. Len(b) /\ r[j] = b[j - Len(a)]
    <3>1. j - Len(a) < k - Len(a)
      BY <1>2
    <3> QED
      BY <1>2, <1>4, <2>2, <3>1 DEF Increasing
  <2> QED
    BY <1>1, <2>1, <2>2
<1> QED
  BY <1>1, <1>3, <1>4

(* What a retain leaves of an increasing map is increasing, holds only     *)
(* entries that passed, and keeps the first entry if that one passed.      *)
LEMMA Retained ==
  ASSUME NEW m \in SpanMap, Increasing(m), NEW K
  PROVE  /\ Only(m, K) \in SpanMap /\ Increasing(Only(m, K))
         /\ \A k \in DOMAIN Only(m, K) : \E j \in K \cap DOMAIN m : Only(m, K)[k] = m[j]
         /\ 1 \in K \cap DOMAIN m => Only(m, K) # << >> /\ Only(m, K)[1] = m[1]
<1> DEFINE r == Only(m, K)
<1>1. PICK w : r \in SpanMap /\ Picks(r, w, m, K, Len(m))
  BY OnlyPicks DEF SpanMap
<1>2. DOMAIN m = 1 .. Len(m) /\ DOMAIN r = 1 .. Len(r) /\ Len(r) \in Nat
  BY <1>1 DEF SpanMap
<1> HIDE DEF r
<1>3. \A k \in 1 .. Len(r) : w[k] \in K \cap DOMAIN m /\ r[k] = m[w[k]]
  BY <1>1, <1>2 DEF Picks
<1>4. Increasing(r)
  <2> SUFFICES ASSUME NEW j \in 1 .. Len(r), NEW k \in 1 .. Len(r), j < k
               PROVE  r[j][1] < r[k][1]
    BY <1>2 DEF Increasing
  <2>1. w[j] < w[k]
    BY <1>1 DEF Picks
  <2> QED
    BY <1>3, <2>1 DEF Increasing
<1>5. ASSUME 1 \in K \cap DOMAIN m PROVE r # << >> /\ r[1] = m[1]
  <2>1. PICK k \in 1 .. Len(r) : w[k] = 1
    BY <1>1, <1>2, <1>5 DEF Picks
  <2>2. ~ 1 < k
    <3> SUFFICES ASSUME 1 < k PROVE FALSE
      OBVIOUS
    <3>1. 1 \in 1 .. Len(r) /\ w[1] < w[k]
      BY <1>1, <1>2 DEF Picks
    <3>2. w[1] \in 1 .. Len(m)
      BY <1>2, <1>3, <3>1
    <3> QED
      BY <2>1, <3>1, <3>2
  <2>3. k = 1
    BY <2>2
  <2> QED
    BY <1>3, <2>1, <2>3
<1> QED
  BY <1>1, <1>2, <1>3, <1>4, <1>5 DEF r

(* Moving all entries by the same distance keeps their order.              *)
LEMMA ShiftedMap ==
  ASSUME NEW m \in SpanMap, NEW by \in Int, Increasing(m), \A k \in DOMAIN m : m[k][1] + by \in Nat
  PROVE  /\ Shifted(m, by) \in SpanMap /\ Increasing(Shifted(m, by))
         /\ DOMAIN Shifted(m, by) = DOMAIN m
         /\ \A k \in DOMAIN m : Shifted(m, by)[k] = <<m[k][1] + by, m[k][2]>>
<1>1. DOMAIN m = 1 .. Len(m) /\ \A k \in DOMAIN m : m[k][1] \in Nat /\ m[k][2] \in Nat
  BY EntryNats DEF SpanMap
<1>2. Len(m) \in Nat
  BY DEF SpanMap
<1>3. \A k \in DOMAIN m : <<m[k][1] + by, m[k][2]>> \in Entry
  BY <1>1 DEF Entry
<1>4. Shifted(m, by) \in SpanMap
  BY <1>1, <1>2, <1>3 DEF Shifted, SpanMap
<1>5. DOMAIN Shifted(m, by) = DOMAIN m
  BY DEF Shifted
<1>6. \A k \in DOMAIN m : /\ Shifted(m, by)[k] = <<m[k][1] + by, m[k][2]>>
                          /\ Shifted(m, by)[k][1] = m[k][1] + by
  BY DEF Shifted
<1>7. Increasing(Shifted(m, by))
  <2> SUFFICES ASSUME NEW j \in DOMAIN m, NEW k \in DOMAIN m, j < k
               PROVE  Shifted(m, by)[j][1] < Shifted(m, by)[k][1]
    BY <1>5 DEF Increasing
  <2>1. m[j][1] < m[k][1]
    BY DEF Increasing
  <2> QED
    BY <1>1, <1>6, <2>1
<1> QED
  BY <1>4, <1>5, <1>6, <1>7

(* An entry past all others is added at the end.                           *)
LEMMA PushedLater ==
  ASSUME NEW m \in SpanMap, NEW e \in Entry, \A k \in DOMAIN m : m[k][1] < e[1]
  PROVE  PushEntry(m, e) = Append(m, e)
<1>1. CASE m = << >>
  BY <1>1 DEF PushEntry
<1>2. CASE m # << >>
  <2>1. Len(m) \in DOMAIN m
    BY <1>2 DEF SpanMap
  <2>2. m[Len(m)][1] < e[1] /\ m[Len(m)][1] \in Nat /\ e[1] \in Nat
    BY <2>1, EntryNats DEF Entry
  <2>3. Last(m)[1] # e[1]
    BY <2>2 DEF Last
  <2> QED
    BY <2>3 DEF PushEntry
<1> QED
  BY <1>1, <1>2

(* push_span_entry returns a span map.                                     *)
LEMMA PushedEntry ==
  ASSUME NEW m \in SpanMap, NEW e \in Entry
  PROVE  PushEntry(m, e) \in SpanMap
<1>1. Front(m) \in SpanMap \/ m = << >>
  BY FirstOnes DEF Front, SpanMap
<1> QED
  BY <1>1 DEF PushEntry, SpanMap

(* push_span_entry for one entry after the other.                          *)
LEMMA PushedOneByOne ==
  ASSUME NEW m \in SpanMap, NEW es \in SpanMap
  PROVE  \E f \in [0 .. Len(es) -> SpanMap] :
           /\ PushEntries(m, es) = f[Len(es)] /\ f[0] = m
           /\ \A k \in 1 .. Len(es) : f[k] = PushEntry(f[k - 1], es[k])
<1> DEFINE step == [k \in 1 .. Len(es) |-> [x \in SpanMap |-> PushEntry(x, es[k])]]
           UpTo(f) == f = [k \in 0 .. Len(es) |->
                             IF k = 0 THEN m ELSE PushEntry(f[k - 1], es[k])]
           f == CHOOSE g : UpTo(g)
<1>0. Len(es) \in Nat /\ \A k \in 1 .. Len(es) : es[k] \in Entry
  BY DEF SpanMap
<1>1. \A k \in 1 .. Len(es), x \in SpanMap :
        step[k][x] = PushEntry(x, es[k]) /\ step[k][x] \in SpanMap
  BY <1>0, PushedEntry
<1> HIDE DEF step
<1>2. PICK h \in [0 .. Len(es) -> SpanMap] : Becomes(h, m, step, Len(es))
  BY <1>0, <1>1, StepsExist
<1>3. \A k \in 0 .. Len(es) : k # 0 => k \in 1 .. Len(es) /\ h[k - 1] \in SpanMap
  BY <1>0
<1>4. \A k \in 0 .. Len(es) : h[k] = IF k = 0 THEN m ELSE step[k][h[k - 1]]
  BY <1>2 DEF Becomes
<1>5. \A k \in 0 .. Len(es) : h[k] = IF k = 0 THEN m ELSE PushEntry(h[k - 1], es[k])
  BY <1>1, <1>3, <1>4
<1>6. UpTo(h)
  BY <1>5
<1>7. UpTo(f)
  BY <1>6, Zenon
<1>8. PushEntries(m, es) = f[Len(es)]
  BY DEF PushEntries
<1> HIDE DEF f
<1>9. \A k \in 0 .. Len(es) : f[k] = IF k = 0 THEN m ELSE PushEntry(f[k - 1], es[k])
  BY <1>7
<1>10. f[0] = m /\ \A k \in 1 .. Len(es) : f[k] = PushEntry(f[k - 1], es[k])
  <2>1. 0 \in 0 .. Len(es) /\ \A k \in 1 .. Len(es) : k \in 0 .. Len(es) /\ k # 0
    BY <1>0
  <2> QED
    BY <1>9, <2>1
<1> DEFINE P == {k \in 0 .. Len(es) : f[k] \in SpanMap}
<1>11. 0 \in P
  BY <1>0, <1>10
<1>12. \A k \in 1 .. Len(es) : k - 1 \in P => k \in P
  BY <1>0, <1>10, PushedEntry
<1> HIDE DEF P
<1>13. \A k \in 0 .. Len(es) : k \in P
  BY <1>0, <1>11, <1>12, StepByStep, Zenon
<1>14. DOMAIN f = 0 .. Len(es) /\ f = [k \in 0 .. Len(es) |-> f[k]]
  BY <1>7
<1>15. f \in [0 .. Len(es) -> SpanMap]
  BY <1>13, <1>14 DEF P
<1> QED
  BY <1>8, <1>10, <1>15

(* Entries past all others follow them.                                    *)
LEMMA PushedAllLater ==
  ASSUME NEW m \in SpanMap, NEW es \in SpanMap, Increasing(es),
         \A j \in DOMAIN m, k \in DOMAIN es : m[j][1] < es[k][1]
  PROVE  PushEntries(m, es) = m \o es
<1>1. PICK f \in [0 .. Len(es) -> SpanMap] :
           /\ PushEntries(m, es) = f[Len(es)] /\ f[0] = m
           /\ \A k \in 1 .. Len(es) : f[k] = PushEntry(f[k - 1], es[k])
  BY PushedOneByOne
<1>2. /\ DOMAIN m = 1 .. Len(m) /\ DOMAIN es = 1 .. Len(es) /\ Len(m) \in Nat /\ Len(es) \in Nat
      /\ \A k \in 1 .. Len(es) : es[k] \in Entry
  BY DEF SpanMap
<1> DEFINE Follow(r, n) == /\ Len(r) = Len(m) + n
                           /\ \A k \in 1 .. Len(m) : r[k] = m[k]
                           /\ \A k \in 1 .. n : r[Len(m) + k] = es[k]
           P == {k \in 0 .. Len(es) : Follow(f[k], k)}
<1>3. 0 \in P
  BY <1>1, <1>2
<1>4. ASSUME NEW n \in 1 .. Len(es), n - 1 \in P PROVE n \in P
  <2>1. f[n - 1] \in SpanMap /\ f[n] = PushEntry(f[n - 1], es[n]) /\ n - 1 \in Nat
    BY <1>1, <1>2
  <2> DEFINE q == f[n - 1]
             r == f[n]
  <2>2. Follow(q, n - 1)
    BY <1>4
  <2>3. q \in SpanMap /\ r = PushEntry(q, es[n]) /\ DOMAIN q = 1 .. Len(q)
    BY <2>1 DEF SpanMap
  <2> HIDE DEF q, r
  <2>4. \A k \in DOMAIN q : q[k][1] < es[n][1]
    <3> SUFFICES ASSUME NEW k \in DOMAIN q PROVE q[k][1] < es[n][1]
      OBVIOUS
    <3>1. CASE k \in 1 .. Len(m)
      BY <1>2, <2>2, <3>1
    <3>2. CASE k \notin 1 .. Len(m)
      <4>1. k - Len(m) \in 1 .. n - 1 /\ Len(m) + (k - Len(m)) = k /\ k - Len(m) < n
        BY <1>2, <2>2, <2>3, <3>2
      <4>2. q[k] = es[k - Len(m)] /\ k - Len(m) \in 1 .. Len(es)
        BY <2>2, <4>1
      <4> QED
        BY <1>2, <4>1, <4>2 DEF Increasing
    <3> QED
      BY <3>1, <3>2
  <2>5. r = Append(q, es[n])
    BY <1>2, <2>3, <2>4, PushedLater
  <2>6. /\ Len(r) = Len(q) + 1 /\ r[Len(q) + 1] = es[n]
        /\ \A k \in 1 .. Len(q) : r[k] = q[k]
    BY <1>2, <2>3, <2>5, OneMore DEF SpanMap
  <2>7. \A k \in 1 .. Len(m) : k \in 1 .. Len(q)
    BY <1>2, <2>2
  <2>8. \A k \in 1 .. n : k = n \/ k \in 1 .. n - 1
    OBVIOUS
  <2>9. \A k \in 1 .. n - 1 : Len(m) + k \in 1 .. Len(q)
    BY <1>2, <2>2
  <2>10. Len(q) + 1 = Len(m) + n
    BY <1>2, <2>1, <2>2
  <2>11. Follow(r, n)
    BY <2>2, <2>6, <2>7, <2>8, <2>9, <2>10
  <2> QED
    BY <2>11 DEF r
<1> HIDE DEF P
<1>5. \A k \in 0 .. Len(es) : k \in P
  <2>1. \A n \in 1 .. Len(es) : n - 1 \in P => n \in P
    BY <1>4
  <2> QED
    BY <1>2, <1>3, <2>1, StepByStep, Zenon
<1> DEFINE r == f[Len(es)]
<1>6. Follow(r, Len(es)) /\ r \in SpanMap /\ PushEntries(m, es) = r
  <2>1. Len(es) \in 0 .. Len(es)
    BY <1>2
  <2>2. Len(es) \in P
    BY <1>5, <2>1
  <2>3. Follow(f[Len(es)], Len(es))
    BY <2>2 DEF P
  <2> QED
    BY <1>1, <2>1, <2>3
<1>7. /\ m \o es \in SpanMap /\ Len(m \o es) = Len(r)
      /\ \A k \in 1 .. Len(m) : (m \o es)[k] = m[k]
      /\ \A k \in 1 .. Len(es) : (m \o es)[Len(m) + k] = es[k]
  BY <1>6, Joined DEF SpanMap
<1> HIDE DEF r
<1> DEFINE q == m \o es
<1> HIDE DEF q
<1>8. \A k \in 1 .. Len(r) : r[k] = q[k]
  <2> SUFFICES ASSUME NEW k \in 1 .. Len(r) PROVE r[k] = q[k]
    OBVIOUS
  <2>1. CASE k \in 1 .. Len(m)
    BY <1>6, <1>7, <2>1 DEF q
  <2>2. CASE k \notin 1 .. Len(m)
    <3>1. k - Len(m) \in 1 .. Len(es) /\ Len(m) + (k - Len(m)) = k
      BY <1>2, <1>6, <2>2
    <3>2. r[k] = es[k - Len(m)] /\ q[k] = es[k - Len(m)]
      BY <1>6, <1>7, <3>1 DEF q
    <3> QED
      BY <3>2
  <2> QED
    BY <2>1, <2>2
<1>9. r = q
  BY <1>6, <1>7, <1>8 DEF SpanMap, q
<1> QED
  BY <1>6, <1>9 DEF q

-------------------------------------------------------------------------------
(* Assembling.                                                             *)

(* A text with the map SpanMapsSound asks for.                             *)
Sound(s) ==
  /\ s \in Sql /\ Increasing(s.map)
  /\ s.text # << >> => s.map # << >> /\ s.map[1][1] = 0
  /\ \A k \in DOMAIN s.map : s.map[k][1] < Len(s.text)

(* What assemble puts together.                                            *)
Piece ==
  [type : {"Normalized"}, sql : Sql] \cup [type : {"Include"}, start : Nat]
    \cup [type : {"Prepend"}, value : Chars, start : Nat]

SoundPiece(p) == p \in Piece /\ (p.type = "Normalized" => Sound(p.sql))

(* What a sound text is made of; an empty one has an empty map.            *)
LEMMA SqlParts ==
  ASSUME NEW s, Sound(s)
  PROVE  /\ s = [text |-> s.text, map |-> s.map] /\ s.text \in Seq(Char) /\ s.map \in SpanMap
         /\ Len(s.text) \in Nat /\ DOMAIN s.map = 1 .. Len(s.map) /\ Len(s.map) \in Nat
         /\ \A k \in DOMAIN s.map : s.map[k][1] \in Nat
         /\ s.text = << >> => s.map = << >>
<1>1. s.text \in Seq(Char) /\ s.map \in SpanMap /\ s = [text |-> s.text, map |-> s.map]
  BY DEF Sound, Sql
<1>2. \A k \in DOMAIN s.map : s.map[k][1] \in Nat
  BY <1>1, EntryNats
<1>3. Len(s.text) \in Nat /\ DOMAIN s.map = 1 .. Len(s.map) /\ Len(s.map) \in Nat
  BY <1>1 DEF SpanMap
<1>4. ASSUME s.text = << >>, s.map # << >> PROVE FALSE
  <2>1. Len(s.text) = 0 /\ 1 \in DOMAIN s.map
    BY <1>1, <1>3, <1>4 DEF SpanMap
  <2> QED
    BY <1>2, <2>1 DEF Sound
<1> QED
  BY <1>1, <1>2, <1>3, <1>4

(* Text made up for a tag is as long as what it spells.                    *)
LEMMA SyntheticText ==
  ASSUME NEW chars \in Chars, NEW start \in Nat
  PROVE  Synthetic(chars, start) \in Seq(Char) /\ Len(Synthetic(chars, start)) = Len(chars)
<1>1. \A k \in DOMAIN chars : [ch |-> chars[k], at |-> start, kind |-> "tag"] \in Char
  BY DEF Chars, Char
<1>2. DOMAIN chars = 1 .. Len(chars) /\ Len(chars) \in Nat
  BY DEF Chars
<1> QED
  BY <1>1, <1>2 DEF Synthetic

(* The separator behind a prepend makes it something.                      *)
LEMMA WithOneMore ==
  ASSUME NEW v \in Chars, NEW c \in Alphabet
  PROVE  Append(v, c) \in Chars /\ Len(Append(v, c)) >= 1
BY DEF Chars

(* Characters of a tag behind a text, and an entry for them.               *)
WithTagText(s, token, start) ==
  [text |-> s.text \o Synthetic(token, start),
   map |-> PushEntry(s.map, <<Len(s.text), start>>)]

(* Such an addition keeps a text sound: the entry is past all others, or   *)
(* the first of an empty text.                                             *)
LEMMA TagTextSound ==
  ASSUME NEW s, Sound(s), NEW token \in Chars, Len(token) >= 1, NEW start \in Nat
  PROVE  Sound(WithTagText(s, token, start))
<1> DEFINE n == Len(s.text)
           e == <<n, start>>
           r == WithTagText(s, token, start)
<1>0. /\ s.text \in Seq(Char) /\ s.map \in SpanMap /\ n \in Nat
      /\ DOMAIN s.map = 1 .. Len(s.map) /\ Len(s.map) \in Nat
      /\ \A k \in DOMAIN s.map : s.map[k][1] \in Nat /\ s.map[k][1] < n
      /\ Increasing(s.map)
      /\ s.text = << >> => s.map = << >>
      /\ s.text # << >> => s.map # << >> /\ s.map[1][1] = 0
  BY SqlParts DEF Sound
<1>1. start \in Nat
  OBVIOUS
<1>2. token \in Chars /\ Len(token) >= 1
  OBVIOUS
<1>3. r = [text |-> s.text \o Synthetic(token, start), map |-> PushEntry(s.map, e)]
  BY DEF WithTagText
<1> HIDE DEF n, r
<1>4. Synthetic(token, start) \in Seq(Char) /\ Len(Synthetic(token, start)) = Len(token)
  BY <1>1, <1>2, SyntheticText
<1> DEFINE t == s.text \o Synthetic(token, start)
           m == Append(s.map, e)
<1>5. t \in Seq(Char) /\ Len(t) = n + Len(token)
  <2>1. s.text \in Seq(Char) /\ Len(s.text) = n
    BY <1>0 DEF n
  <2> DEFINE u == Synthetic(token, start)
  <2>2. u \in Seq(Char) /\ Len(u) = Len(token)
    BY <1>4
  <2> HIDE DEF u
  <2> DEFINE a == s.text
  <2>3. a \in Seq(Char)
    BY <2>1
  <2> HIDE DEF a
  <2>4. a \o u \in Seq(Char) /\ Len(a \o u) = Len(a) + Len(u)
    BY <2>2, <2>3
  <2> QED
    BY <2>1, <2>2, <2>4 DEF u, a
<1>6. e \in Entry /\ e[1] = n
  BY <1>0, <1>1 DEF Entry
<1>7. PushEntry(s.map, e) = m
  BY <1>0, <1>6, PushedLater
<1>8. /\ m \in SpanMap /\ Len(m) = Len(s.map) + 1 /\ m[Len(s.map) + 1] = e
      /\ \A k \in 1 .. Len(s.map) : m[k] = s.map[k]
  BY <1>0, <1>6, OneMore DEF SpanMap
<1> HIDE DEF m, t, e
<1>9. Len(token) \in Nat
  BY <1>2 DEF Chars
<1>10. DOMAIN m = 1 .. Len(m)
       /\ \A k \in 1 .. Len(m) : k \in 1 .. Len(s.map) \/ k = Len(s.map) + 1
  BY <1>0, <1>8 DEF SpanMap
<1>11. \A k \in DOMAIN m : m[k][1] < Len(t)
  BY <1>0, <1>2, <1>5, <1>6, <1>8, <1>9, <1>10, SMTT(30)
<1>12. Increasing(m)
  <2> SUFFICES ASSUME NEW j \in 1 .. Len(m), NEW k \in 1 .. Len(m), j < k
               PROVE  m[j][1] < m[k][1]
    BY <1>10 DEF Increasing
  <2>1. j \in 1 .. Len(s.map)
    BY <1>0, <1>10
  <2>2. CASE k \in 1 .. Len(s.map)
    <3>1. s.map[j][1] < s.map[k][1]
      BY <1>0, <2>1, <2>2 DEF Increasing
    <3> QED
      BY <1>8, <2>1, <2>2, <3>1
  <2>3. CASE k = Len(s.map) + 1
    BY <1>0, <1>6, <1>8, <2>1, <2>3
  <2> QED
    BY <1>10, <2>2, <2>3
<1>13. m # << >> /\ m[1][1] = 0
  <2>1. CASE s.map = << >>
    <3>1. Len(s.map) = 0 /\ m[1] = e /\ Len(m) = 1
      BY <1>8, <2>1
    <3>2. s.text = << >>
      BY <1>0, <2>1
    <3>3. n = 0
      BY <3>2 DEF n
    <3>4. m # << >>
      <4>1. Len(<< >>) = 0 /\ Len(m) # 0
        BY <3>1
      <4> QED
        BY <4>1, Zenon
    <3>5. m[1][1] = 0
      BY <1>6, <3>1, <3>3
    <3> QED
      BY <3>4, <3>5
  <2>2. CASE s.map # << >>
    <3>1. 1 \in 1 .. Len(s.map)
      BY <1>0, <2>2
    <3>2. m[1] = s.map[1] /\ Len(m) > 0
      BY <1>0, <1>8, <3>1
    <3>3. s.text # << >>
      BY <1>0, <2>2
    <3> QED
      BY <1>0, <1>8, <3>2, <3>3 DEF SpanMap
  <2> QED
    BY <2>1, <2>2
<1>14. r = [text |-> t, map |-> m]
  BY <1>3, <1>7 DEF t
<1>15. Sound(r)
  BY <1>5, <1>8, <1>11, <1>12, <1>13, <1>14 DEF Sound, Sql
<1> QED
  BY <1>15 DEF r

(* assemble, piece by piece.                                               *)
LEMMA AppendedSound ==
  ASSUME NEW s, Sound(s), NEW p, SoundPiece(p)
  PROVE  Sound(Appended(s, p))
<1> DEFINE n == Len(s.text)
<1>0. /\ s.text \in Seq(Char) /\ s.map \in SpanMap /\ n \in Nat
      /\ DOMAIN s.map = 1 .. Len(s.map) /\ Len(s.map) \in Nat
      /\ \A k \in DOMAIN s.map : s.map[k][1] \in Nat /\ s.map[k][1] < n
      /\ Increasing(s.map)
      /\ s.text = << >> => s.map = << >>
      /\ s.text # << >> => s.map # << >> /\ s.map[1][1] = 0
  BY SqlParts DEF Sound
<1> HIDE DEF n
<1>1. CASE p.type = "Normalized"
  <2> DEFINE q == p.sql
             later == Shifted(q.map, n)
             r == Appended(s, p)
  <2>1. Sound(q)
    BY <1>1 DEF SoundPiece
  <2>2. /\ q.text \in Seq(Char) /\ q.map \in SpanMap /\ Len(q.text) \in Nat
        /\ DOMAIN q.map = 1 .. Len(q.map) /\ Len(q.map) \in Nat
        /\ \A k \in DOMAIN q.map : q.map[k][1] \in Nat /\ q.map[k][1] < Len(q.text)
        /\ Increasing(q.map)
        /\ q.text = << >> => q.map = << >>
        /\ q.text # << >> => q.map # << >> /\ q.map[1][1] = 0
    BY <2>1, SqlParts DEF Sound
  <2>3. r = [text |-> s.text \o q.text, map |-> PushEntries(s.map, later)]
    BY <1>1 DEF Appended, n
  <2> HIDE DEF q, r
  <2>4. \A k \in DOMAIN q.map : q.map[k][1] + n \in Nat
    BY <1>0, <2>2
  <2>5. /\ later \in SpanMap /\ Increasing(later) /\ DOMAIN later = DOMAIN q.map
        /\ \A k \in DOMAIN q.map : later[k] = <<q.map[k][1] + n, q.map[k][2]>>
    <3>1. n \in Int /\ q.map \in SpanMap /\ Increasing(q.map)
      BY <1>0, <2>2
    <3> QED
      BY <3>1, <2>4, ShiftedMap
  <2>6. \A k \in DOMAIN q.map : later[k][1] = q.map[k][1] + n
    BY <2>5
  <2> HIDE DEF later
  <2>7. \A j \in DOMAIN s.map, k \in DOMAIN later : s.map[j][1] < later[k][1]
    BY <1>0, <2>2, <2>5, <2>6, SMTT(30)
  <2>8. PushEntries(s.map, later) = s.map \o later
    BY <1>0, <2>5, <2>7, PushedAllLater
  <2>9. Increasing(s.map \o later)
    <3>1. s.map \in SpanMap /\ Increasing(s.map) /\ later \in SpanMap /\ Increasing(later)
      BY <1>0, <2>5
    <3> QED
      BY <3>1, <2>7, IncreasingJoined
  <2> DEFINE m == s.map \o later
             t == s.text \o q.text
  <2>10. /\ m \in SpanMap /\ Len(m) = Len(s.map) + Len(later) /\ DOMAIN m = 1 .. Len(m)
         /\ \A k \in 1 .. Len(s.map) : m[k] = s.map[k]
         /\ \A k \in 1 .. Len(later) : m[Len(s.map) + k] = later[k]
         /\ \A k \in 1 .. Len(m) :
              \/ k \in 1 .. Len(s.map) /\ m[k] = s.map[k]
              \/ k - Len(s.map) \in 1 .. Len(later) /\ m[k] = later[k - Len(s.map)]
    BY <1>0, <2>5, Joined DEF SpanMap
  <2>11. t \in Seq(Char) /\ Len(t) = n + Len(q.text)
    BY <1>0, <2>2, Joined DEF n
  <2>12. DOMAIN later = 1 .. Len(later) /\ Len(later) \in Nat
    BY <2>5 DEF SpanMap
  <2>13. r = [text |-> t, map |-> m]
    BY <2>3, <2>8
  <2> HIDE DEF m, t
  <2>14. \A k \in DOMAIN m : m[k][1] < Len(t)
    <3> SUFFICES ASSUME NEW k \in 1 .. Len(m) PROVE m[k][1] < Len(t)
      BY <2>10
    <3>1. CASE k \in 1 .. Len(s.map) /\ m[k] = s.map[k]
      <4>1. s.map[k][1] < n /\ s.map[k][1] \in Nat
        BY <1>0, <3>1 DEF Sound, n
      <4>2. n \in Nat /\ Len(q.text) \in Nat
        BY <1>0, <2>2 DEF n
      <4> QED
        BY <2>11, <3>1, <4>1, <4>2
    <3>2. CASE k - Len(s.map) \in 1 .. Len(later) /\ m[k] = later[k - Len(s.map)]
      <4> DEFINE j == k - Len(s.map)
      <4>1. j \in DOMAIN q.map /\ m[k] = later[j]
        BY <2>5, <2>12, <3>2
      <4> HIDE DEF j
      <4>2. later[j][1] = q.map[j][1] + n /\ q.map[j][1] < Len(q.text) /\ q.map[j][1] \in Nat
        BY <2>2, <2>6, <4>1
      <4> QED
        BY <1>0, <2>2, <2>11, <4>1, <4>2
    <3> QED
      BY <2>10, <3>1, <3>2
  <2>15. ASSUME t # << >> PROVE m # << >> /\ m[1][1] = 0
    <3>1. CASE s.text # << >>
      <4>1. 1 \in 1 .. Len(s.map) /\ s.map[1][1] = 0
        BY <1>0, <3>1
      <4>2. m[1] = s.map[1] /\ 1 <= Len(m)
        BY <1>0, <2>10, <2>12, <4>1
      <4> QED
        BY <2>10, <4>1, <4>2
    <3>2. CASE s.text = << >>
      <4>1. s.map = << >> /\ n = 0 /\ Len(s.map) = 0
        BY <1>0, <3>2 DEF n
      <4>2. q.text # << >>
        BY <2>2, <2>11, <2>15, <4>1
      <4>3. 1 \in DOMAIN q.map /\ q.map[1][1] = 0
        BY <2>2, <4>2
      <4>4. 1 \in 1 .. Len(later) /\ later[1][1] = 0
        BY <2>5, <2>6, <2>12, <4>1, <4>3
      <4>5. m[1] = later[1] /\ 1 <= Len(m)
        BY <2>10, <2>12, <4>1, <4>4
      <4> QED
        BY <2>10, <4>4, <4>5
    <3> QED
      BY <3>1, <3>2
  <2>16. Sound(r)
    BY <2>9, <2>10, <2>11, <2>13, <2>14, <2>15 DEF Sound, Sql, m
  <2> QED
    BY <2>16 DEF r
<1>2. CASE p.type # "Normalized"
  <2> DEFINE token == IF p.type = "Include" THEN IncludeToken ELSE Append(p.value, " ")
             e == <<n, p.start>>
             r == Appended(s, p)
  <2>1. /\ p.start \in Nat /\ p.type \in {"Include", "Prepend"}
        /\ p.type = "Prepend" => p.value \in Chars
    BY <1>2 DEF SoundPiece, Piece
  <2>2. token \in Chars /\ Len(token) >= 1
    <3>1. CASE p.type = "Include"
      <4>1. token = <<"/*", "*/">>
        BY <3>1 DEF IncludeToken
      <4>2. "/*" \in Alphabet /\ "*/" \in Alphabet
        BY AlphabetAssumption
      <4>3. \A a, b \in Alphabet : <<a, b>> \in Seq(Alphabet) /\ Len(<<a, b>>) = 2
        OBVIOUS
      <4> HIDE DEF token
      <4>4. <<"/*", "*/">> \in Seq(Alphabet) /\ Len(<<"/*", "*/">>) = 2
        BY <4>2, <4>3, Zenon
      <4> QED
        BY <4>1, <4>4 DEF Chars
    <3>2. CASE p.type = "Prepend"
      <4>1. p.value \in Chars /\ " " \in Alphabet
        BY <2>1, <3>2, AlphabetAssumption
      <4>2. Append(p.value, " ") \in Chars /\ Len(Append(p.value, " ")) >= 1
        BY <4>1, WithOneMore, Zenon
      <4>3. token = Append(p.value, " ")
        BY <3>2
      <4> HIDE DEF token
      <4> QED
        BY <4>2, <4>3, Zenon
    <3> QED
      BY <2>1, <3>1, <3>2
  <2>3. r = [text |-> s.text \o Synthetic(token, p.start), map |-> PushEntry(s.map, e)]
    BY <1>2 DEF Appended, n
  <2> HIDE DEF token, r
  <2>4. r = WithTagText(s, token, p.start)
    BY <2>3 DEF WithTagText, e, n
  <2> QED
    BY <2>1, <2>2, <2>4, TagTextSound DEF r
<1> QED
  BY <1>1, <1>2

(* The texts, and the pieces, that are sound.                              *)
SoundSqls == {s \in Sql : Sound(s)}
SoundPieces == {p \in Piece : SoundPiece(p)}

(* The text that assemble begins with is sound.                            *)
LEMMA NothingSound == Sound(NoSql)
<1>1. << >> \in Seq(Char) /\ << >> \in SpanMap /\ DOMAIN << >> = {}
  BY DEF SpanMap
<1> QED
  BY <1>1 DEF NoSql, Sound, Sql, Increasing

(* assemble.                                                               *)
LEMMA AssembledSound ==
  ASSUME NEW pieces \in Seq(SoundPieces)
  PROVE  Assembled(pieces) \in SoundSqls
<1> DEFINE n == Len(pieces)
           step == [k \in 1 .. n |-> [x \in SoundSqls |-> Appended(x, pieces[k])]]
           UpTo(f) == f = [k \in 0 .. n |->
                             IF k = 0 THEN NoSql ELSE Appended(f[k - 1], pieces[k])]
           f == CHOOSE g : UpTo(g)
<1>0. n \in Nat /\ (\A k \in 1 .. n : pieces[k] \in SoundPieces) /\ NoSql \in SoundSqls
  BY NothingSound DEF SoundSqls, Sound
<1> HIDE DEF n
<1>1. \A k \in 1 .. n, x \in SoundSqls :
        step[k][x] = Appended(x, pieces[k]) /\ step[k][x] \in SoundSqls
  <2> SUFFICES ASSUME NEW k \in 1 .. n, NEW x \in SoundSqls
               PROVE  /\ step[k][x] = Appended(x, pieces[k])
                      /\ Appended(x, pieces[k]) \in SoundSqls
    OBVIOUS
  <2>1. SoundPiece(pieces[k]) /\ Sound(x)
    BY <1>0 DEF SoundPieces, SoundSqls
  <2>2. Sound(Appended(x, pieces[k]))
    BY <2>1, AppendedSound
  <2> QED
    BY <2>2 DEF SoundSqls, Sound
<1> HIDE DEF step
<1>2. PICK h \in [0 .. n -> SoundSqls] : Becomes(h, NoSql, step, n)
  BY <1>0, <1>1, StepsExist
<1>3. \A k \in 0 .. n : k # 0 => k \in 1 .. n /\ h[k - 1] \in SoundSqls
  BY <1>0
<1>4. \A k \in 0 .. n : h[k] = IF k = 0 THEN NoSql ELSE step[k][h[k - 1]]
  BY <1>2 DEF Becomes
<1>5. \A k \in 0 .. n : h[k] = IF k = 0 THEN NoSql ELSE Appended(h[k - 1], pieces[k])
  BY <1>1, <1>3, <1>4
<1>6. UpTo(h)
  BY <1>5
<1>7. UpTo(f)
  BY <1>6, Zenon
<1>8. Assembled(pieces) = f[n]
  BY DEF Assembled, n, NoSql
<1> HIDE DEF f
<1>9. \A k \in 0 .. n : f[k] = IF k = 0 THEN NoSql ELSE Appended(f[k - 1], pieces[k])
  BY <1>7
<1>10. f[0] = NoSql /\ \A k \in 1 .. n : f[k] = Appended(f[k - 1], pieces[k])
  <2>1. 0 \in 0 .. n /\ \A k \in 1 .. n : k \in 0 .. n /\ k # 0
    BY <1>0
  <2> QED
    BY <1>9, <2>1
<1> DEFINE P == {k \in 0 .. n : f[k] \in SoundSqls}
<1>11. 0 \in P
  BY <1>0, <1>10
<1>12. \A k \in 1 .. n : k - 1 \in P => k \in P
  BY <1>0, <1>1, <1>10
<1> HIDE DEF P
<1>13. \A k \in 0 .. n : k \in P
  BY <1>0, <1>11, <1>12, StepByStep, Zenon
<1>14. n \in P
  BY <1>0, <1>13
<1> QED
  BY <1>8, <1>14 DEF P

(* What is in force at an offset.                                          *)
LEMMA InForce ==
  ASSUME NEW m \in SpanMap, Increasing(m), NEW offset \in Nat, NEW default \in Nat
  PROVE  /\ EntryAt(m, offset, default) \in Entry
         /\ EntryAt(m, offset, default)[1] <= offset
<1> DEFINE K == {k \in DOMAIN m : m[k][1] <= offset}
           before == Only(m, K)
<1>1. before \in SpanMap /\ \A k \in DOMAIN before : \E j \in K \cap DOMAIN m : before[k] = m[j]
  <2> HIDE DEF K
  <2> QED
    BY Retained
<1>2. EntryAt(m, offset, default)
        = IF before # << >> THEN Last(before) ELSE <<0, IF m = << >> THEN default ELSE m[1][2]>>
  BY DEF EntryAt
<1>3. CASE before # << >>
  <2>1. Len(before) \in DOMAIN before
    BY <1>1, <1>3 DEF SpanMap
  <2>2. PICK j \in K : j \in DOMAIN m /\ before[Len(before)] = m[j]
    BY <1>1, <2>1
  <2>3. m[j] \in Entry /\ m[j][1] <= offset
    BY <2>2, EntryNats
  <2> HIDE DEF K, before
  <2>4. EntryAt(m, offset, default) = m[j]
    BY <1>2, <1>3, <2>2 DEF Last
  <2> QED
    BY <2>3, <2>4
<1>4. CASE before = << >>
  <2>1. ASSUME m # << >> PROVE m[1][2] \in Nat
    <3>1. 1 \in DOMAIN m
      BY <2>1 DEF SpanMap
    <3> QED
      BY <3>1, EntryNats
  <2> DEFINE d == IF m = << >> THEN default ELSE m[1][2]
  <2>2. d \in Nat
    BY <2>1
  <2>3. EntryAt(m, offset, default) = <<0, d>>
    BY <1>2, <1>4
  <2> HIDE DEF d
  <2> QED
    BY <2>2, <2>3 DEF Entry
<1> QED
  BY <1>3, <1>4

(* The offset with_prefix gives the rest of the text is one, verified or   *)
(* not.                                                                    *)
LEMMA SplitPointNat ==
  ASSUME NEW source, NEW s, Sound(s), NEW start \in Nat, NEW strip \in Nat
  PROVE  SplitPoint(source, s, start, strip) \in Nat
<1> DEFINE base == EntryAt(s.map, strip, start)
<1>1. base \in Entry /\ base[1] <= strip
  BY SqlParts, InForce DEF Sound
<1>2. base[1] \in Nat /\ base[2] \in Nat
  BY <1>1 DEF Entry
<1>3. base[2] + (strip - base[1]) \in Nat
  BY <1>1, <1>2
<1>4. \/ SplitPoint(source, s, start, strip) = base[2] + (strip - base[1])
      \/ SplitPoint(source, s, start, strip) = base[2]
  <2> HIDE DEF base
  <2> QED
    BY Zenon DEF SplitPoint, base
<1> HIDE DEF base
<1> QED
  BY <1>2, <1>3, <1>4

-------------------------------------------------------------------------------
(* Wrapping.                                                               *)

(* with_prefix.                                                            *)
LEMMA WithPrefixSound ==
  ASSUME NEW source, NEW s, Sound(s), NEW start \in Nat, NEW strip \in 0 .. Len(s.text),
         NEW prefix \in Chars
  PROVE  Sound(WithPrefix(source, s, start, strip, prefix))
<1> DEFINE p == Len(prefix)
           split == <<p, SplitPoint(source, s, start, strip)>>
           K == {k \in DOMAIN s.map : s.map[k][1] > strip}
           kept == SubSeq(s.text, strip + 1, Len(s.text))
           t == Synthetic(prefix, start) \o kept
           first == PushEntry(<<<<0, start>>>>, split)
           later == Shifted(Only(s.map, K), p - strip)
           entries == PushEntries(first, later)
           L == {k \in DOMAIN entries : entries[k][1] < Len(t)}
<1>1. /\ s.text \in Seq(Char) /\ s.map \in SpanMap /\ Increasing(s.map) /\ Len(s.text) \in Nat
      /\ \A k \in DOMAIN s.map : s.map[k][1] \in Nat
      /\ p \in Nat /\ strip \in Nat /\ start \in Nat
  BY SqlParts DEF Sound, Chars
<1>2. split \in Entry /\ split[1] = p
  BY <1>1, SplitPointNat DEF Entry
<1>3. CASE prefix = << >> /\ strip = 0
  BY <1>3 DEF WithPrefix
<1>4. CASE ~ (prefix = << >> /\ strip = 0)
  <2>1. WithPrefix(source, s, start, strip, prefix) = [text |-> t, map |-> Only(entries, L)]
    BY <1>4 DEF WithPrefix, LaterEntries
  <2>2. t \in Seq(Char)
    <3>1. kept \in Seq(Char)
      BY <1>1, TheRest
    <3>2. Synthetic(prefix, start) \in Seq(Char)
      BY SyntheticText
    <3> HIDE DEF kept
    <3> QED
      BY <3>1, <3>2
  <2>3. /\ first \in SpanMap /\ Increasing(first) /\ first # << >> /\ first[1][1] = 0
        /\ \A k \in DOMAIN first : first[k][1] <= p
    <3> DEFINE one == <<<<0, start>>>>
    <3>1. one \in SpanMap /\ Len(one) = 1 /\ DOMAIN one = {1} /\ one[1] = <<0, start>>
      BY <1>1 DEF SpanMap, Entry
    <3>2. CASE p = 0
      <4>1. Last(one)[1] = 0 /\ Front(one) = << >>
        BY <3>1 DEF Last, Front
      <4>2. first = <<split>>
        <5>1. first = Append(Front(one), split)
          BY <1>2, <3>1, <3>2, <4>1 DEF PushEntry
        <5> QED
          BY <4>1, <5>1
      <4>3. <<split>> \in SpanMap /\ Len(<<split>>) = 1 /\ DOMAIN <<split>> = {1}
            /\ <<split>>[1] = split
        BY <1>2 DEF SpanMap
      <4> HIDE DEF split
      <4>4. Increasing(<<split>>)
        BY <4>3 DEF Increasing
      <4> QED
        BY <1>2, <3>2, <4>2, <4>3, <4>4
    <3>3. CASE p > 0
      <4>1. \A k \in DOMAIN one : one[k][1] < split[1]
        BY <1>2, <3>1, <3>3
      <4> HIDE DEF one, split
      <4>2. PushEntry(one, split) = Append(one, split)
        BY <1>2, <3>1, <4>1, PushedLater
      <4>3. first = Append(one, split)
        BY <4>2 DEF one
      <4> HIDE DEF first
      <4>4. /\ first \in SpanMap /\ Len(first) = 2 /\ first[1] = one[1] /\ first[2] = split
            /\ DOMAIN first = 1 .. 2
        <5>1. one \in Seq(Entry) /\ split \in Entry
          BY <1>2, <3>1 DEF SpanMap
        <5>2. /\ Append(one, split) \in Seq(Entry) /\ Len(Append(one, split)) = 2
              /\ Append(one, split)[1] = one[1] /\ Append(one, split)[2] = split
          <6> DEFINE q == Append(one, split)
          <6>1. /\ q \in Seq(Entry) /\ Len(q) = Len(one) + 1
                /\ (\A k \in 1 .. Len(one) : q[k] = one[k]) /\ q[Len(one) + 1] = split
            BY <5>1, OneMore
          <6> HIDE DEF q
          <6>2. Len(one) + 1 = 2 /\ 1 \in 1 .. Len(one)
            BY <3>1
          <6> QED
            BY <6>1, <6>2 DEF q
        <5> QED
          BY <4>3, <5>2 DEF SpanMap
      <4>5. first[1][1] = 0 /\ first[2][1] = p
        BY <1>2, <3>1, <4>4
      <4>6. \A j \in 1 .. 2 : j = 1 \/ j = 2
        OBVIOUS
      <4>7. Increasing(first)
        BY <3>3, <4>4, <4>5, <4>6 DEF Increasing
      <4>8. first # << >>
        BY <4>4
      <4> QED
        BY <1>1, <4>4, <4>5, <4>6, <4>7, <4>8
    <3>4. p = 0 \/ p > 0
      BY <1>1
    <3> QED
      BY <3>2, <3>3, <3>4, Zenon
  <2>4. /\ later \in SpanMap /\ Increasing(later)
        /\ \A k \in DOMAIN later : later[k][1] > p
    <3> DEFINE o == Only(s.map, K)
    <3>1. /\ o \in SpanMap /\ Increasing(o)
          /\ \A k \in DOMAIN o : \E j \in K \cap DOMAIN s.map : o[k] = s.map[j]
      <4> HIDE DEF K
      <4> QED
        BY <1>1, Retained
    <3>2. \A k \in DOMAIN o : o[k][1] \in Nat /\ o[k][1] > strip
      <4> HIDE DEF o
      <4> QED
        BY <1>1, <3>1
    <3> HIDE DEF o, K
    <3>3. p - strip \in Int /\ \A k \in DOMAIN o : o[k][1] + (p - strip) \in Nat
      BY <1>1, <3>2
    <3> DEFINE d == p - strip
    <3>4. d \in Int /\ \A k \in DOMAIN o : o[k][1] + d \in Nat
      BY <3>3
    <3> HIDE DEF d
    <3>5. /\ Shifted(o, d) \in SpanMap /\ Increasing(Shifted(o, d))
          /\ DOMAIN Shifted(o, d) = DOMAIN o
          /\ \A k \in DOMAIN o : Shifted(o, d)[k] = <<o[k][1] + d, o[k][2]>>
      BY <3>1, <3>4, ShiftedMap
    <3>6. \A k \in DOMAIN o : o[k][1] + d > p
      BY <1>1, <3>2 DEF d
    <3>7. \A k \in DOMAIN o : Shifted(o, d)[k][1] > p
      BY <3>5, <3>6
    <3>8. later = Shifted(o, d)
      BY DEF o, d
    <3> HIDE DEF later
    <3> QED
      BY <3>5, <3>7, <3>8
  <2> HIDE DEF t, first, later, split
  <2>5. \A j \in DOMAIN first, k \in DOMAIN later : first[j][1] < later[k][1]
    <3> TAKE j \in DOMAIN first, k \in DOMAIN later
    <3>1. first[j][1] \in Nat /\ later[k][1] \in Nat
      BY <2>3, <2>4, EntryNats
    <3> QED
      BY <1>1, <2>3, <2>4, <3>1
  <2>6. entries = first \o later
    BY <2>3, <2>4, <2>5, PushedAllLater
  <2>7. Increasing(first \o later)
    BY <2>3, <2>4, <2>5, IncreasingJoined
  <2>8. /\ first \o later \in SpanMap /\ Len(first \o later) = Len(first) + Len(later)
        /\ \A k \in 1 .. Len(first) : (first \o later)[k] = first[k]
    BY <2>3, <2>4, Joined DEF SpanMap
  <2>9. entries \in SpanMap /\ Increasing(entries) /\ 1 \in DOMAIN entries /\ entries[1][1] = 0
    <3>1. 1 \in 1 .. Len(first) /\ Len(first) \in Nat /\ Len(later) \in Nat
      BY <2>3, <2>4 DEF SpanMap
    <3>2. (first \o later)[1][1] = 0 /\ 1 \in 1 .. Len(first \o later)
      BY <2>3, <2>8, <3>1
    <3> QED
      BY <2>6, <2>7, <2>8, <3>2 DEF SpanMap
  <2> HIDE DEF entries
  <2> DEFINE r == Only(entries, L)
  <2>10. /\ r \in SpanMap /\ Increasing(r)
         /\ \A k \in DOMAIN r : \E j \in L \cap DOMAIN entries : r[k] = entries[j]
         /\ 1 \in L \cap DOMAIN entries => r # << >> /\ r[1] = entries[1]
    <3> HIDE DEF L
    <3> QED
      BY <2>9, Retained
  <2> HIDE DEF r
  <2>11. \A k \in DOMAIN r : r[k][1] < Len(t)
    BY <2>10
  <2>12. t # << >> => r # << >> /\ r[1][1] = 0
    <3> HAVE t # << >>
    <3>1. 0 < Len(t)
      BY <2>2
    <3>2. 1 \in L \cap DOMAIN entries
      BY <2>9, <3>1
    <3> QED
      BY <2>9, <2>10, <3>2
  <2>13. Sound([text |-> t, map |-> r])
    BY <2>2, <2>10, <2>11, <2>12 DEF Sound, Sql
  <2> QED
    BY <2>1, <2>13 DEF r
<1> QED
  BY <1>3, <1>4

(* with_suffix.                                                            *)
LEMMA WithSuffixSound ==
  ASSUME NEW s, Sound(s), NEW start \in Nat, NEW suffix \in Chars
  PROVE  Sound(WithSuffix(s, start, suffix))
<1>1. CASE suffix = << >>
  <2> DEFINE t == s.text \o Synthetic(suffix, start)
  <2>1. WithSuffix(s, start, suffix) = [text |-> t, map |-> s.map]
    BY <1>1 DEF WithSuffix
  <2>2. t \in Seq(Char) /\ Len(t) = Len(s.text) /\ Len(s.text) \in Nat
    <3> DEFINE u == Synthetic(suffix, start)
               a == s.text
    <3>1. u \in Seq(Char) /\ Len(u) = 0 /\ a \in Seq(Char) /\ Len(a) \in Nat
      BY <1>1, SyntheticText, SqlParts
    <3> HIDE DEF u, a
    <3>2. a \o u \in Seq(Char) /\ Len(a \o u) = Len(a)
      BY <3>1
    <3> QED
      BY <3>1, <3>2 DEF u, a
  <2> HIDE DEF t
  <2>3. s.map \in SpanMap /\ (t # << >> => s.text # << >>)
    <3>1. t # << >> => Len(t) > 0
      BY <2>2
    <3> QED
      BY <2>2, <3>1, SqlParts
  <2> QED
    BY <2>1, <2>2, <2>3 DEF Sound, Sql
<1>2. CASE suffix # << >>
  <2>1. Len(suffix) >= 1
    BY <1>2 DEF Chars
  <2>2. WithSuffix(s, start, suffix) = WithTagText(s, suffix, start)
    BY <1>2 DEF WithSuffix, WithTagText
  <2> QED
    BY <2>1, <2>2, TagTextSound
<1> QED
  BY <1>1, <1>2

(* The lesser of two numbers is what Min returns of them.                  *)
LEMMA LesserOfTwo ==
  ASSUME NEW a \in Nat, NEW b \in Nat
  PROVE  Min({a, b}) \in {a, b} /\ Min({a, b}) <= a /\ Min({a, b}) <= b
<1>1. {a, b} \subseteq Nat /\ {a, b} # {}
  OBVIOUS
<1>2. Min({a, b}) \in {a, b} /\ \A x \in {a, b} : Min({a, b}) <= x
  BY <1>1, MinIsLeast
<1> QED
  BY <1>2

(* with_suffix_strip.                                                      *)
LEMMA WithoutSuffixSound ==
  ASSUME NEW s, Sound(s), NEW strip \in Nat
  PROVE  Sound(WithoutSuffix(s, strip))
<1> DEFINE keep == Len(s.text) - Min({strip, Len(s.text)})
           K == {k \in DOMAIN s.map : s.map[k][1] < keep}
           t == SubSeq(s.text, 1, keep)
           m == Only(s.map, K)
<1>1. /\ s.text \in Seq(Char) /\ s.map \in SpanMap /\ Increasing(s.map) /\ Len(s.text) \in Nat
      /\ \A k \in DOMAIN s.map : s.map[k][1] \in Nat
  BY SqlParts DEF Sound
<1>2. keep \in Nat /\ keep <= Len(s.text)
  <2>1. Min({strip, Len(s.text)}) \in Nat /\ Min({strip, Len(s.text)}) <= Len(s.text)
    BY <1>1, LesserOfTwo
  <2> QED
    BY <1>1, <2>1
<1>3. WithoutSuffix(s, strip) = IF keep = Len(s.text) THEN s ELSE [text |-> t, map |-> m]
  BY DEF WithoutSuffix
<1> HIDE DEF keep
<1>4. t \in Seq(Char) /\ Len(t) = keep
  BY <1>1, <1>2, FirstOnes
<1>5. /\ m \in SpanMap /\ Increasing(m)
      /\ \A k \in DOMAIN m : \E j \in K \cap DOMAIN s.map : m[k] = s.map[j]
      /\ 1 \in K \cap DOMAIN s.map => m # << >> /\ m[1] = s.map[1]
  <2> HIDE DEF K
  <2> QED
    BY <1>1, Retained
<1> HIDE DEF t, m
<1>6. \A k \in DOMAIN m : m[k][1] < Len(t)
  BY <1>4, <1>5
<1>7. t # << >> => m # << >> /\ m[1][1] = 0
  <2> HAVE t # << >>
  <2>1. 0 < keep /\ s.text # << >>
    BY <1>1, <1>2, <1>4
  <2>2. s.map # << >> /\ s.map[1][1] = 0
    BY <2>1 DEF Sound
  <2>3. 1 \in DOMAIN s.map
    BY <1>1, <2>2 DEF SpanMap
  <2> QED
    BY <1>5, <2>1, <2>2, <2>3
<1>8. Sound([text |-> t, map |-> m])
  BY <1>4, <1>5, <1>6, <1>7 DEF Sound, Sql
<1> QED
  BY <1>3, <1>8

(* The blanks from a position on stay within the text.                     *)
LEMMA BlanksWithin ==
  ASSUME NEW t, Len(t) \in Nat, NEW from \in 0 .. Len(t)
  PROVE  BlanksAt(t, from) \in Nat /\ from + BlanksAt(t, from) <= Len(t)
<1> DEFINE solid == {k \in from + 1 .. Len(t) : ~ IsBlankChar(t[k].ch)}
<1>1. CASE solid = {}
  BY <1>1 DEF BlanksAt
<1>2. CASE solid # {}
  <2>1. solid \subseteq Nat /\ solid \subseteq from + 1 .. Len(t)
    OBVIOUS
  <2>2. Min(solid) \in from + 1 .. Len(t)
    <3> HIDE DEF solid
    <3> QED
      BY <1>2, <2>1, MinIsLeast
  <2>3. BlanksAt(t, from) = Min(solid) - 1 - from
    BY <1>2 DEF BlanksAt
  <2> HIDE DEF solid
  <2> QED
    BY <2>2, <2>3
<1> QED
  BY <1>1, <1>2

(* Nor are there more blanks at the end than there is text.                *)
LEMMA TrailingWithin ==
  ASSUME NEW S, NEW t \in Seq(S)
  PROVE  TrailingBlanks(t) \in Nat /\ TrailingBlanks(t) <= Len(t)
<1>1. Len(Reverse(t)) = Len(t) /\ Len(t) \in Nat
  BY DEF Reverse
<1>2. 0 \in 0 .. Len(Reverse(t)) /\ Len(Reverse(t)) \in Nat
  BY <1>1
<1> DEFINE u == Reverse(t)
<1> HIDE DEF u
<1>3. 0 \in 0 .. Len(u) /\ Len(u) \in Nat /\ Len(u) = Len(t)
  BY <1>1, <1>2 DEF u
<1>4. BlanksAt(u, 0) \in Nat /\ 0 + BlanksAt(u, 0) <= Len(u)
  BY <1>3, BlanksWithin
<1> QED
  BY <1>3, <1>4 DEF TrailingBlanks, u

(* What a wrapper strips in front is no more than there is.                *)
LEMMA LeadingAndOrWithin ==
  ASSUME NEW t, Len(t) \in Nat
  PROVE  LeadingAndOr(t) \in 0 .. Len(t)
<1> DEFINE b == BlanksAt(t, 0)
           found == {w \in AndOr : ReadsAt(t, b, w) /\ BlanksAt(t, b + Len(w)) > 0}
           w == CHOOSE w \in found : TRUE
           n == b + Len(w)
<1>1. b \in Nat
  <2>1. 0 \in 0 .. Len(t)
    OBVIOUS
  <2> QED
    BY <2>1, BlanksWithin
<1>2. LeadingAndOr(t) = IF found = {} THEN 0 ELSE n + BlanksAt(t, n)
  BY DEF LeadingAndOr
<1>3. CASE found = {}
  BY <1>2, <1>3
<1>4. CASE found # {}
  <2> HIDE DEF b
  <2>1. w \in found
    BY <1>4
  <2>2. w \in Chars /\ ReadsAt(t, b, w)
    BY <2>1, AndOrAssumption
  <2> HIDE DEF w
  <2>3. Len(w) \in Nat /\ b + Len(w) <= Len(t)
    BY <2>2 DEF Chars, ReadsAt
  <2>4. n \in 0 .. Len(t)
    BY <1>1, <2>3
  <2> HIDE DEF n
  <2>5. BlanksAt(t, n) \in Nat /\ n + BlanksAt(t, n) <= Len(t)
    BY <2>4, BlanksWithin
  <2> QED
    BY <1>2, <1>4, <2>4, <2>5
<1> QED
  BY <1>3, <1>4

(* The same of leading_comma_strip_len.                                    *)
LEMMA LeadingCommaWithin ==
  ASSUME NEW t, Len(t) \in Nat
  PROVE  LeadingComma(t) \in 0 .. Len(t)
<1> DEFINE b == BlanksAt(t, 0)
           n == b + 1
           reads == ReadsAt(t, n - 1, <<",">>)
<1>1. b \in Nat
  <2>1. 0 \in 0 .. Len(t)
    OBVIOUS
  <2> QED
    BY <2>1, BlanksWithin
<1>2. LeadingComma(t) = IF reads THEN n + BlanksAt(t, n) ELSE 0
  BY DEF LeadingComma
<1>3. reads => n - 1 + 1 <= Len(t)
  <2>1. \A c : Len(<<c>>) = 1
    OBVIOUS
  <2>2. Len(<<",">>) = 1
    BY <2>1, Zenon
  <2> HIDE DEF n
  <2> QED
    BY <2>2, Zenon DEF ReadsAt
<1> HIDE DEF b, reads
<1>4. CASE reads
  <2>1. n \in 0 .. Len(t)
    BY <1>1, <1>3, <1>4
  <2> HIDE DEF n
  <2>2. BlanksAt(t, n) \in Nat /\ n + BlanksAt(t, n) <= Len(t)
    BY <2>1, BlanksWithin
  <2> QED
    BY <1>2, <1>4, <2>1, <2>2
<1>5. CASE ~ reads
  BY <1>2, <1>5
<1> QED
  BY <1>4, <1>5

(* trailing_comma_strip_len returns a length; with_suffix_strip caps it.   *)
LEMMA TrailingCommaWithin ==
  ASSUME NEW S, NEW t \in Seq(S)
  PROVE  TrailingComma(t) \in Nat
<1> DEFINE b == TrailingBlanks(t)
<1>1. b \in Nat
  BY TrailingWithin
<1>2. TrailingComma(t) = b + 1 \/ TrailingComma(t) = 0
  BY Zenon DEF TrailingComma
<1> HIDE DEF b
<1> QED
  BY <1>1, <1>2

(* leading_override_strip_len stays within the text, whatever the          *)
(* overrides.                                                              *)
LEMMA LeadingOverrideWithin ==
  ASSUME NEW t, Len(t) \in Nat, NEW overrides \in Seq(Chars)
  PROVE  LeadingOverride(t, overrides) \in 0 .. Len(t)
<1> DEFINE b == BlanksAt(t, 0)
           ks == {k \in DOMAIN overrides : ReadsAt(t, b, overrides[k])}
           m == IF ks = {} THEN {} ELSE {overrides[Min(ks)]}
<1>1. b \in Nat
  <2>1. 0 \in 0 .. Len(t)
    OBVIOUS
  <2> QED
    BY <2>1, BlanksWithin
<1>2. LeadingOverride(t, overrides) = IF m = {} THEN 0 ELSE b + Len(CHOOSE o \in m : TRUE)
  BY Zenon DEF LeadingOverride, FirstMatching
<1>3. CASE ks = {}
  BY <1>2, <1>3
<1>4. CASE ks # {}
  <2>1. ks \subseteq Nat
    OBVIOUS
  <2>2. Min(ks) \in ks
    <3> HIDE DEF ks
    <3> QED
      BY <1>4, <2>1, MinIsLeast
  <2> DEFINE o == overrides[Min(ks)]
  <2>3. ReadsAt(t, b, o) /\ o \in Chars
    BY <2>2
  <2>4. m = {o}
    BY <1>4
  <2>5. LeadingOverride(t, overrides) = b + Len(o)
    <3> HIDE DEF m, o, b
    <3>1. (CHOOSE x \in m : TRUE) = o /\ m # {}
      BY <2>4
    <3> QED
      BY <1>2, <3>1, Zenon
  <2> HIDE DEF o, b
  <2>6. Len(o) \in Nat /\ b + Len(o) <= Len(t)
    BY <2>3 DEF Chars, ReadsAt
  <2> QED
    BY <1>1, <2>5, <2>6
<1> QED
  BY <1>3, <1>4

(* trailing_override_strip_len returns a length.                           *)
LEMMA TrailingOverrideWithin ==
  ASSUME NEW S, NEW t \in Seq(S), NEW overrides \in Seq(Chars)
  PROVE  TrailingOverride(t, overrides) \in Nat
<1> DEFINE b == TrailingBlanks(t)
           ks == {k \in DOMAIN overrides :
                    /\ Len(overrides[k]) <= Len(t) - b
                    /\ ReadsAt(t, Len(t) - b - Len(overrides[k]), overrides[k])}
           m == IF ks = {} THEN {} ELSE {overrides[Min(ks)]}
<1>1. b \in Nat
  BY TrailingWithin
<1>2. TrailingOverride(t, overrides) = IF m = {} THEN 0 ELSE b + Len(CHOOSE o \in m : TRUE)
  BY Zenon DEF TrailingOverride, FirstMatching
<1> HIDE DEF b
<1>3. CASE ks = {}
  BY <1>2, <1>3
<1>4. CASE ks # {}
  <2>1. ks \subseteq Nat
    OBVIOUS
  <2>2. Min(ks) \in DOMAIN overrides
    <3>1. Min(ks) \in ks
      <4> HIDE DEF ks
      <4> QED
        BY <1>4, <2>1, MinIsLeast
    <3> QED
      BY <3>1
  <2> DEFINE o == overrides[Min(ks)]
  <2>3. o \in Chars
    BY <2>2
  <2>4. m = {o}
    BY <1>4
  <2>5. TrailingOverride(t, overrides) = b + Len(o)
    <3> HIDE DEF m, o
    <3>1. (CHOOSE x \in m : TRUE) = o /\ m # {}
      BY <2>4
    <3> QED
      BY <1>2, <3>1, Zenon
  <2> HIDE DEF o
  <2> QED
    BY <1>1, <2>3, <2>5 DEF Chars
<1> QED
  BY <1>3, <1>4

(* Set and Trim.                                                           *)
LEMMA AtBothEndsSound ==
  ASSUME NEW source, NEW s, Sound(s), NEW start \in Nat, NEW lead \in 0 .. Len(s.text),
         NEW trail \in Nat, NEW prefix \in Chars, NEW suffix \in Chars
  PROVE  Sound(AtBothEnds(source, s, start, lead, trail, prefix, suffix))
<1> DEFINE rest == Min({trail, Len(s.text) - lead})
           a == WithPrefix(source, s, start, lead, prefix)
           c == WithoutSuffix(a, rest)
<1>1. Sound(a)
  BY WithPrefixSound
<1>2. rest \in Nat
  <2>1. Len(s.text) \in Nat
    BY SqlParts
  <2>2. Len(s.text) - lead \in Nat
    BY <2>1
  <2>3. rest \in {trail, Len(s.text) - lead}
    BY <2>2, LesserOfTwo
  <2> HIDE DEF rest
  <2> QED
    BY <2>2, <2>3
<1> HIDE DEF a, rest
<1>3. Sound(c)
  BY <1>1, <1>2, WithoutSuffixSound
<1> HIDE DEF c
<1>4. Sound(WithSuffix(c, start, suffix))
  BY <1>3, WithSuffixSound
<1> QED
  BY <1>4 DEF AtBothEnds, a, c, rest

(* What a wrapper has to offer, by its kind.                               *)
LEMMA WrapperParts ==
  ASSUME NEW w \in Wrapper
  PROVE  /\ w.kind \in {"where", "set", "foreach", "dynamic", "trim", "is"}
         /\ w.prefix \in Chars
         /\ w.kind # "is" => w.suffix \in Chars
         /\ w.kind = "trim" => w.leading \in Seq(Chars) /\ w.trailing \in Seq(Chars)
BY DEF Wrapper

(* finish_pending's wrappers.                                              *)
LEMMA WrapTextSound ==
  ASSUME NEW source, NEW w \in Wrapper, w.kind # "is", NEW s, Sound(s), NEW start \in Nat
  PROVE  Sound(WrapText(source, w, s, start))
<1> DEFINE r == WrapText(source, w, s, start)
<1>1. s.text \in Seq(Char) /\ Len(s.text) \in Nat
  BY SqlParts
<1>2. /\ w.kind \in {"where", "set", "foreach", "dynamic", "trim"}
      /\ w.prefix \in Chars /\ w.suffix \in Chars
  BY WrapperParts
<1>3. 0 \in 0 .. Len(s.text)
  BY <1>1
<1>4. << >> \in Chars
  BY DEF Chars
<1>5. CASE w.kind = "where"
  <2>1. r = WithPrefix(source, s, start, LeadingAndOr(s.text), w.prefix)
    BY <1>5, Zenon DEF WrapText
  <2>2. LeadingAndOr(s.text) \in 0 .. Len(s.text)
    BY <1>1, LeadingAndOrWithin
  <2> QED
    BY <1>2, <2>1, <2>2, WithPrefixSound
<1>6. CASE w.kind = "set"
  <2> DEFINE lead == LeadingComma(s.text)
             trail == TrailingComma(s.text)
  <2>1. r = AtBothEnds(source, s, start, lead, trail, w.prefix, << >>)
    BY <1>6, Zenon DEF WrapText
  <2>2. lead \in 0 .. Len(s.text) /\ trail \in Nat
    BY <1>1, LeadingCommaWithin, TrailingCommaWithin
  <2> HIDE DEF lead, trail
  <2> QED
    BY <1>2, <1>4, <2>1, <2>2, AtBothEndsSound
<1>7. CASE w.kind = "trim"
  <2> DEFINE lead == LeadingOverride(s.text, w.leading)
             trail == TrailingOverride(s.text, w.trailing)
  <2>1. r = AtBothEnds(source, s, start, lead, trail, w.prefix, w.suffix)
    BY <1>7, Zenon DEF WrapText
  <2>2. lead \in 0 .. Len(s.text) /\ trail \in Nat
    <3>1. w.leading \in Seq(Chars) /\ w.trailing \in Seq(Chars)
      BY <1>7, WrapperParts
    <3> QED
      BY <1>1, <3>1, LeadingOverrideWithin, TrailingOverrideWithin
  <2> HIDE DEF lead, trail
  <2> QED
    BY <1>2, <2>1, <2>2, AtBothEndsSound
<1>8. CASE w.kind = "dynamic"
  <2>1. r = WithPrefix(source, s, start, 0, w.prefix)
    BY <1>8, Zenon DEF WrapText
  <2> QED
    BY <1>2, <1>3, <2>1, WithPrefixSound
<1>9. CASE w.kind = "foreach"
  <2> DEFINE a == WithPrefix(source, s, start, 0, w.prefix)
  <2>1. r = WithSuffix(a, start, w.suffix)
    BY <1>9, Zenon DEF WrapText
  <2>2. Sound(a)
    BY <1>2, <1>3, WithPrefixSound
  <2> HIDE DEF a
  <2> QED
    BY <1>2, <2>1, <2>2, WithSuffixSound
<1> QED
  BY <1>2, <1>5, <1>6, <1>7, <1>8, <1>9

(* The first of a kind is left out.                                        *)
LEMMA WithoutFirstPrependSound ==
  ASSUME NEW pieces \in Seq(SoundPieces)
  PROVE  WithoutFirstPrepend(pieces) \in Seq(SoundPieces)
<1> DEFINE at == {k \in DOMAIN pieces : pieces[k].type = "Prepend"}
           n == Min(at)
<1>1. CASE at = {}
  BY <1>1 DEF WithoutFirstPrepend
<1>2. CASE at # {}
  <2>1. n \in 1 .. Len(pieces) /\ Len(pieces) \in Nat
    <3>1. at \subseteq Nat /\ at \subseteq 1 .. Len(pieces)
      OBVIOUS
    <3> HIDE DEF at
    <3>2. n \in at
      BY <1>2, <3>1, MinIsLeast
    <3> HIDE DEF n
    <3> QED
      BY <3>1, <3>2
  <2>2. WithoutFirstPrepend(pieces)
          = SubSeq(pieces, 1, n - 1) \o SubSeq(pieces, n + 1, Len(pieces))
    BY <1>2 DEF WithoutFirstPrepend, RemoveAt
  <2> HIDE DEF n
  <2>3. SubSeq(pieces, 1, n - 1) \in Seq(SoundPieces)
    <3>1. n - 1 \in Nat /\ n - 1 <= Len(pieces)
      BY <2>1
    <3> QED
      BY <3>1, FirstOnes
  <2>4. SubSeq(pieces, n + 1, Len(pieces)) \in Seq(SoundPieces)
    BY <2>1, TheRest
  <2> QED
    BY <2>2, <2>3, <2>4
<1> QED
  BY <1>1, <1>2

(* What a closed tag leaves to its parent.                                 *)
LEMMA ClosedPiecesSound ==
  ASSUME NEW source, NEW w \in Wrapper, NEW pieces \in Seq(SoundPieces), NEW start \in Nat
  PROVE  ClosedPieces(source, w, pieces, start) \in Seq(SoundPieces)
<1> DEFINE inner == IF w.kind = "dynamic" THEN WithoutFirstPrepend(pieces) ELSE pieces
           s == Assembled(inner)
           wrapped == NormalizedPiece(WrapText(source, w, s, start))
           before == IF w.prepends THEN <<PrependPiece(w.prefix, start)>> ELSE << >>
           r == ClosedPieces(source, w, pieces, start)
<1>1. CASE w.kind = "is"
  <2>1. r = before \o pieces
    BY <1>1, Zenon DEF ClosedPieces
  <2>2. PrependPiece(w.prefix, start) \in SoundPieces
    BY WrapperParts DEF PrependPiece, SoundPieces, SoundPiece, Piece
  <2>3. before \in Seq(SoundPieces)
    BY <2>2
  <2> HIDE DEF before, r
  <2> QED
    BY <2>1, <2>3 DEF r
<1>2. CASE w.kind # "is"
  <2>1. r = << >> \/ r = <<wrapped>>
    <3> HIDE DEF inner, wrapped
    <3>1. r = IF w.kind # "foreach" /\ AllBlank(s.text) THEN << >> ELSE <<wrapped>>
      BY <1>2, Zenon DEF ClosedPieces, inner, wrapped
    <3> QED
      BY <3>1, Zenon
  <2>2. inner \in Seq(SoundPieces)
    BY WithoutFirstPrependSound
  <2> HIDE DEF inner
  <2>3. s \in Sql /\ Sound(s)
    BY <2>2, AssembledSound DEF SoundSqls
  <2> HIDE DEF s
  <2> DEFINE t == WrapText(source, w, s, start)
  <2>4. Sound(t)
    BY <1>2, <2>3, WrapTextSound
  <2>5. wrapped = NormalizedPiece(t)
    OBVIOUS
  <2> HIDE DEF t, wrapped
  <2>6. wrapped \in SoundPieces
    BY <2>4, <2>5 DEF NormalizedPiece, SoundPieces, SoundPiece, Piece, Sound
  <2> HIDE DEF r
  <2>7. r \in Seq(SoundPieces)
    <3>1. << >> \in Seq(SoundPieces) /\ <<wrapped>> \in Seq(SoundPieces)
      BY <2>6
    <3> QED
      BY <2>1, <3>1, Zenon
  <2> QED
    BY <2>7 DEF r
<1> QED
  BY <1>1, <1>2

-------------------------------------------------------------------------------
(* The source and its runs.                                                *)

(* What events are spelled with.                                           *)
SourceChar == Alphabet \cup {"<", ">", "&", "r", ";"}

(* What an event of a body has to offer, by its type.                      *)
LEMMA EventTypes ==
  ASSUME NEW e \in BodyEvent
  PROVE  /\ e.type \in TextType \cup {"comment", "include", "close", "open"}
         /\ e.type \in TextType => e.chars \in Chars
         /\ e.type = "open" => e.wrapper \in Wrapper
BY DEF BodyEvent, TextType

(* How an event is spelled; a CDATA section has its two delimiters besides *)
(* its content.                                                            *)
LEMMA RawSpelled ==
  ASSUME NEW e \in BodyEvent
  PROVE  /\ Raw(e) \in Seq(SourceChar)
         /\ e.type = "cdata" => Len(Raw(e)) = Len(e.chars) + 2
<1> DEFINE r == Raw(e)
<1>1. /\ "<" \in SourceChar /\ ">" \in SourceChar /\ "&" \in SourceChar
      /\ "r" \in SourceChar /\ ";" \in SourceChar
  BY DEF SourceChar
<1>2. \A c \in SourceChar : <<c>> \in Seq(SourceChar) /\ Len(<<c>>) = 1
  OBVIOUS
<1>3. \A a, b, c \in SourceChar : <<a, b, c>> \in Seq(SourceChar)
  OBVIOUS
<1>4. \A s, t, u \in Seq(SourceChar) :
        s \o t \o u \in Seq(SourceChar) /\ Len(s \o t \o u) = Len(s) + Len(t) + Len(u)
  OBVIOUS
<1>5. e.type \in TextType => e.chars \in Seq(SourceChar) /\ Len(e.chars) \in Nat
  <2>1. Alphabet \subseteq SourceChar
    BY Zenon DEF SourceChar
  <2>2. \A s \in Seq(Alphabet) : s \in Seq(SourceChar) /\ Len(s) \in Nat
    BY <2>1
  <2> QED
    BY <2>2, EventTypes DEF Chars
<1>6. CASE e.type = "text"
  <2>1. r = e.chars
    BY <1>6, Zenon DEF Raw
  <2>2. e.type # "cdata" /\ e.type \in TextType
    BY <1>6 DEF TextType
  <2> QED
    BY <1>5, <2>1, <2>2, Zenon
<1>7. CASE e.type = "cdata"
  <2> DEFINE s == <<"<">>
             u == <<">">>
  <2>1. r = s \o e.chars \o u
    BY <1>7, Zenon DEF Raw
  <2>2. s \in Seq(SourceChar) /\ Len(s) = 1 /\ u \in Seq(SourceChar) /\ Len(u) = 1
    BY <1>1, <1>2, Zenon
  <2> HIDE DEF s, u
  <2>3. e.chars \in Seq(SourceChar) /\ Len(e.chars) \in Nat
    BY <1>5, <1>7 DEF TextType
  <2>4. s \o e.chars \o u \in Seq(SourceChar)
        /\ Len(s \o e.chars \o u) = Len(s) + Len(e.chars) + Len(u)
    BY <1>4, <2>2, <2>3
  <2>5. Len(s) + Len(e.chars) + Len(u) = Len(e.chars) + 2
    BY <2>2, <2>3
  <2> QED
    BY <2>1, <2>4, <2>5, Zenon
<1>8. CASE e.type = "ref"
  <2>1. r = <<"&", "r", ";">>
    BY <1>8, Zenon DEF Raw
  <2>2. e.type # "cdata"
    BY <1>8
  <2> QED
    BY <1>1, <1>3, <2>1, <2>2, Zenon
<1>9. CASE e.type \notin TextType
  <2>1. e.type # "text" /\ e.type # "cdata" /\ e.type # "ref"
    BY <1>9 DEF TextType
  <2>2. r = <<"<">>
    BY <2>1, Zenon DEF Raw
  <2> QED
    BY <1>1, <1>2, <2>1, <2>2, Zenon
<1> QED
  BY <1>6, <1>7, <1>8, <1>9 DEF TextType

(* Where events stand in the source.                                       *)
LEMMA SourceLaidOut ==
  ASSUME body \in Seq(BodyEvent)
  PROVE  /\ Len(Source) \in Nat
         /\ \A k \in 1 .. Len(body) :
              /\ StartOf(k) \in Nat /\ Len(Raw(body[k])) \in Nat
              /\ StartOf(k) + Len(Raw(body[k])) <= Len(Source)
<1> DEFINE raws == [k \in DOMAIN body |-> Raw(body[k])]
           f == Joins(raws)
           n == Len(body)
<1>1. n \in Nat /\ DOMAIN body = 1 .. n /\ \A k \in 1 .. n : Raw(body[k]) \in Seq(SourceChar)
  BY RawSpelled
<1>2. raws \in Seq(Seq(SourceChar)) /\ Len(raws) = n /\ \A k \in 1 .. n : raws[k] = Raw(body[k])
  BY <1>1
<1>3. SourceUpTo = f
  BY DEF SourceUpTo
<1> HIDE DEF raws, n
<1>4. /\ f \in [0 .. n -> Seq(SourceChar)]
      /\ \A k \in 1 .. n : f[k] = f[k - 1] \o raws[k]
      /\ \A k \in 0 .. n : \A j \in 0 .. k : Len(f[j]) <= Len(f[k])
  BY <1>2, JoinsGrow
<1> HIDE DEF f
<1>5. n \in 0 .. n /\ Source = f[n]
  BY <1>1, <1>3 DEF Source, n
<1>6. Source \in Seq(SourceChar)
  BY <1>4, <1>5
<1>7. ASSUME NEW k \in 1 .. n
      PROVE  /\ StartOf(k) \in Nat /\ Len(Raw(body[k])) \in Nat
             /\ StartOf(k) + Len(Raw(body[k])) <= Len(Source)
  <2>1. StartOf(k) = Len(f[k - 1])
    BY <1>3 DEF StartOf
  <2> DEFINE a == f[k - 1]
             c == Raw(body[k])
             d == f[k]
  <2>2. a \in Seq(SourceChar) /\ c \in Seq(SourceChar) /\ d = a \o c /\ k \in 0 .. n
    <3>1. k \in 0 .. n /\ k - 1 \in 0 .. n
      BY <1>1
    <3>2. d = f[k - 1] \o raws[k] /\ raws[k] = c
      BY <1>2, <1>4
    <3>3. c \in Seq(SourceChar) /\ f[k - 1] \in Seq(SourceChar)
      BY <1>1, <1>4, <3>1
    <3> QED
      BY <3>1, <3>2, <3>3, Zenon
  <2> HIDE DEF a, c
  <2>3. Len(d) = Len(a) + Len(c) /\ Len(a) \in Nat /\ Len(c) \in Nat
    BY <2>2
  <2>4. Len(d) <= Len(Source)
    BY <1>4, <1>5, <2>2
  <2> HIDE DEF d
  <2> QED
    BY <2>1, <2>3, <2>4 DEF a, c
<1> QED
  BY <1>6, <1>7 DEF n

(* The runs given to the scan.                                             *)
LEMMA SegmentRun ==
  ASSUME body \in Seq(BodyEvent), NEW k \in 1 .. Len(body), body[k].type \in TextType
  PROVE  Segment(k) \in TextRun /\ Segment(k).end <= Len(Source)
<1> DEFINE e == body[k]
           delimiter == IF e.type = "cdata" THEN 1 ELSE 0
           from == StartOf(k)
           wide == Len(Raw(e))
<1>1. e \in BodyEvent /\ e.chars \in Chars
  <2>1. e \in BodyEvent
    OBVIOUS
  <2> QED
    BY <2>1, EventTypes
<1>2. from \in Nat /\ wide \in Nat /\ from + wide <= Len(Source) /\ Len(Source) \in Nat
  BY SourceLaidOut
<1>3. delimiter \in Nat /\ delimiter <= wide
  <2>1. CASE e.type = "cdata"
    <3>1. wide = Len(e.chars) + 2 /\ Len(e.chars) \in Nat
      BY <1>1, <2>1, RawSpelled DEF Chars
    <3> QED
      BY <2>1, <3>1
  <2>2. CASE e.type # "cdata"
    BY <1>2, <2>2
  <2> QED
    BY <2>1, <2>2
<1>4. Segment(k) = [decoded |-> e.chars, start |-> from + delimiter,
                    end |-> from + wide - delimiter]
  BY DEF Segment
<1> HIDE DEF e, delimiter, from, wide
<1>5. from + delimiter \in Nat /\ from + wide - delimiter \in Nat
      /\ from + wide - delimiter <= Len(Source)
  BY <1>2, <1>3
<1> QED
  BY <1>1, <1>4, <1>5 DEF TextRun

(* BeginRun: the texts up to the next tag, at least the one it stands at.  *)
LEMMA RunFound ==
  ASSUME body \in Seq(BodyEvent), next \in 0 .. Len(body) - 1, Here.type \in TextType
  PROVE  /\ RunEnd \in next + 1 .. Len(body)
         /\ \A k \in next + 1 .. RunEnd : body[k].type \in TextType \cup {"comment"}
<1> DEFINE n == Len(body)
           others == {k \in next .. n - 1 : body[k + 1].type \notin TextType \cup {"comment"}}
           S == {n} \cup others
<1>1. n \in Nat /\ next \in Nat /\ next < n
  OBVIOUS
<1>2. RunEnd = Min(S)
  BY DEF RunEnd
<1>3. S \subseteq Nat /\ S # {} /\ S \subseteq next .. n
  BY <1>1
<1>4. next \notin S
  BY <1>1 DEF Here
<1>5. \A k \in next + 1 .. n : k - 1 \notin S => body[k].type \in TextType \cup {"comment"}
  <2> TAKE k \in next + 1 .. n
  <2> HAVE k - 1 \notin S
  <2>1. k - 1 \in next .. n - 1 /\ (k - 1) + 1 = k
    BY <1>1
  <2> QED
    BY <2>1
<1> HIDE DEF S
<1>6. RunEnd \in S /\ \A x \in S : RunEnd <= x
  BY <1>2, <1>3, MinIsLeast
<1>7. RunEnd \in next .. n /\ RunEnd # next
  BY <1>3, <1>4, <1>6
<1>8. ASSUME NEW k \in next + 1 .. RunEnd PROVE body[k].type \in TextType \cup {"comment"}
  <2>1. k \in next + 1 .. n /\ ~ (RunEnd <= k - 1)
    BY <1>1, <1>7
  <2>2. k - 1 \notin S
    BY <1>6, <2>1
  <2> QED
    BY <1>5, <2>1, <2>2
<1> QED
  BY <1>1, <1>7, <1>8

(* The runs BeginRun gives to the scan: at least one, each within the      *)
(* source.                                                                 *)
LEMMA RunsOfTexts ==
  ASSUME body \in Seq(BodyEvent), next \in 0 .. Len(body) - 1, Here.type \in TextType
  PROVE  LET ks == TextsIn(next, RunEnd)
             rs == [m \in DOMAIN ks |-> Segment(ks[m])]
         IN  /\ rs \in Seq(TextRun) /\ rs # << >>
             /\ \A k \in DOMAIN rs : rs[k].end <= Len(Source)
<1> DEFINE n == RunEnd
           all == [k \in 1 .. n |-> k]
           K == {k \in next + 1 .. n : body[k].type \in TextType}
           ks == Only(all, K)
           rs == [m \in DOMAIN ks |-> Segment(ks[m])]
<1>1. n \in next + 1 .. Len(body) /\ n \in Nat /\ next \in Nat
  BY RunFound
<1> HIDE DEF n
<1>2. all \in Seq(1 .. n) /\ Len(all) = n /\ \A k \in 1 .. n : all[k] = k
  BY <1>1
<1>3. next + 1 \in K /\ K \subseteq 1 .. n
  BY <1>1 DEF Here
<1>4. \A k \in K : k \in 1 .. Len(body) /\ body[k].type \in TextType
  BY <1>1
<1>5. TextsIn(next, n) = ks
  BY DEF TextsIn
<1> HIDE DEF all, K
<1>6. PICK w : ks \in Seq(1 .. n) /\ Picks(ks, w, all, K, n)
  BY <1>2, OnlyPicks
<1> HIDE DEF ks
<1>7. /\ Len(ks) \in Nat /\ DOMAIN ks = 1 .. Len(ks)
      /\ \A m \in 1 .. Len(ks) : ks[m] \in K
  <2>1. \A m \in 1 .. Len(ks) : w[m] \in K \cap (1 .. n) /\ ks[m] = all[w[m]]
    BY <1>6 DEF Picks
  <2>2. \A m \in 1 .. Len(ks) : all[w[m]] = w[m]
    BY <1>2, <2>1
  <2>3. \A m \in 1 .. Len(ks) : ks[m] \in K
    BY <2>1, <2>2
  <2> QED
    BY <1>6, <2>3
<1>8. 1 \in 1 .. Len(ks)
  <2>1. \E m \in 1 .. Len(ks) : w[m] = next + 1
    BY <1>3, <1>6 DEF Picks
  <2> QED
    BY <1>7, <2>1
<1>9. \A m \in 1 .. Len(ks) : Segment(ks[m]) \in TextRun /\ Segment(ks[m]).end <= Len(Source)
  BY <1>4, <1>7, SegmentRun
<1>10. rs \in Seq(TextRun) /\ Len(rs) = Len(ks) /\ \A m \in DOMAIN rs : rs[m].end <= Len(Source)
  BY <1>7, <1>9
<1>11. rs # << >>
  BY <1>8, <1>10
<1> QED
  BY <1>5, <1>10, <1>11 DEF n

-------------------------------------------------------------------------------
(* The merged text.                                                        *)

(* What a run of text has to offer.                                        *)
LEMMA RunParts ==
  ASSUME NEW r \in TextRun
  PROVE  r.decoded \in Chars /\ r.start \in Nat /\ r.end \in Nat
BY DEF TextRun

(* What a character has to offer.                                          *)
LEMMA CharParts ==
  ASSUME NEW c \in Char
  PROVE  c.ch \in Alphabet /\ c.at \in Nat
BY DEF Char

(* The characters of a run.                                                *)
LEMMA RunCharsTyped ==
  ASSUME NEW r \in TextRun
  PROVE  RunChars(r) \in Seq(Char)
<1>1. r.decoded \in Seq(Alphabet) /\ r.start \in Nat
  BY RunParts DEF Chars
<1>2. /\ DOMAIN r.decoded = 1 .. Len(r.decoded) /\ Len(r.decoded) \in Nat
      /\ \A k \in DOMAIN r.decoded : r.decoded[k] \in Alphabet /\ r.start + k - 1 \in Nat
  BY <1>1
<1>3. ASSUME NEW k \in DOMAIN r.decoded
      PROVE  /\ [ch |-> r.decoded[k], at |-> r.start + k - 1, kind |-> "exact"] \in Char
             /\ [ch |-> r.decoded[k], at |-> r.start, kind |-> "coarse"] \in Char
  BY <1>1, <1>2 DEF Char
<1> DEFINE g == RunChars(r)
           n == Len(r.decoded)
<1>4. \A k \in 1 .. n : g[k] \in Char
  BY <1>2, <1>3 DEF RunChars
<1>5. g = [k \in 1 .. n |-> g[k]] /\ n \in Nat
  BY <1>2 DEF RunChars
<1> HIDE DEF g, n
<1>6. g \in Seq(Char)
  BY <1>4, <1>5
<1> QED
  BY <1>6 DEF g

(* The merged text and where its runs start.                               *)
LEMMA MergedLaidOut ==
  ASSUME runs \in Seq(TextRun)
  PROVE  /\ Merged \in Seq(Char) /\ Len(Merged) \in Nat
         /\ \A k \in DOMAIN runs : MergedStart(k) \in Nat
         /\ \A j, k \in DOMAIN runs : j <= k => MergedStart(j) <= MergedStart(k)
         /\ runs # << >> => 1 \in DOMAIN runs /\ MergedStart(1) = 0
<1> DEFINE parts == [k \in DOMAIN runs |-> RunChars(runs[k])]
           n == Len(runs)
           f == Joins(parts)
<1>1. n \in Nat /\ DOMAIN runs = 1 .. n /\ \A k \in 1 .. n : RunChars(runs[k]) \in Seq(Char)
  BY RunCharsTyped
<1>2. parts \in Seq(Seq(Char)) /\ Len(parts) = n
  BY <1>1
<1>3. MergedUpTo = f
  BY DEF MergedUpTo
<1>4. n = 0 => runs = << >>
  OBVIOUS
<1> HIDE DEF parts, n
<1>5. /\ f \in [0 .. n -> Seq(Char)] /\ f[0] = << >>
      /\ \A k \in 0 .. n : \A j \in 0 .. k : Len(f[j]) <= Len(f[k])
  BY <1>2, JoinsGrow
<1> HIDE DEF f
<1>6. Merged = f[n] /\ \A k \in 1 .. n : MergedStart(k) = Len(f[k - 1]) /\ k - 1 \in 0 .. n
  BY <1>1, <1>3 DEF Merged, MergedStart, n
<1>7. \A k \in 0 .. n : Len(f[k]) \in Nat
  BY <1>5
<1>8. Merged \in Seq(Char) /\ Len(Merged) \in Nat
  <2>1. n \in 0 .. n
    BY <1>1
  <2> QED
    BY <1>5, <1>6, <1>7, <2>1
<1>9. \A k \in 1 .. n : MergedStart(k) \in Nat
  BY <1>6, <1>7
<1>10. \A j, k \in 1 .. n : j <= k => MergedStart(j) <= MergedStart(k)
  <2> TAKE j, k \in 1 .. n
  <2> HAVE j <= k
  <2>1. k - 1 \in 0 .. n /\ j - 1 \in 0 .. k - 1
    BY <1>1
  <2> QED
    BY <1>5, <1>6, <2>1
<1>11. ASSUME runs # << >> PROVE 1 \in 1 .. n /\ MergedStart(1) = 0
  <2>1. 1 \in 1 .. n
    BY <1>1, <1>4, <1>11
  <2>2. MergedStart(1) = Len(f[1 - 1]) /\ 1 - 1 = 0
    BY <1>6, <2>1
  <2>3. Len(<< >>) = 0
    OBVIOUS
  <2> QED
    BY <1>5, <2>1, <2>2, <2>3
<1> QED
  BY <1>1, <1>8, <1>9, <1>10, <1>11

(* Which run an offset belongs to, and what it is in the source.           *)
LEMMA LayoutFound ==
  ASSUME runs \in Seq(TextRun), runs # << >>, NEW o \in Nat
  PROVE  LayoutFor(o) \in DOMAIN runs /\ MergedStart(LayoutFor(o)) <= o
<1> DEFINE K == {k \in DOMAIN runs : MergedStart(k) <= o}
<1>1. 1 \in K /\ K \subseteq DOMAIN runs
  BY MergedLaidOut
<1>2. {1} \cup K = K
  BY <1>1
<1>3. LayoutFor(o) = Max(K)
  BY <1>2 DEF LayoutFor
<1>4. Len(runs) \in Nat /\ K \subseteq 0 .. Len(runs) /\ K # {}
  BY <1>1
<1>5. Max(K) \in K
  <2> HIDE DEF K
  <2> QED
    BY <1>4, MaxIsGreatest
<1> QED
  BY <1>3, <1>5

(* An offset at or behind the one its run was looked up for has a place in *)
(* the source.                                                             *)
LEMMA RawOffsetNat ==
  ASSUME runs \in Seq(TextRun), runs # << >>, NEW o \in Nat, NEW p \in Nat, o <= p
  PROVE  RawOffset(LayoutFor(o), p) \in Nat
<1> DEFINE k == LayoutFor(o)
<1>1. k \in DOMAIN runs /\ MergedStart(k) <= o /\ MergedStart(k) \in Nat
  BY LayoutFound, MergedLaidOut
<1>2. runs[k].start \in Nat
  <2>1. runs[k] \in TextRun
    BY <1>1
  <2> QED
    BY <2>1, RunParts
<1> HIDE DEF k
<1>3. runs[k].start + (p - MergedStart(k)) \in Nat
  BY <1>1, <1>2
<1>4. RawOffset(k, p) \in Nat
  BY <1>2, <1>3 DEF RawOffset
<1> QED
  BY <1>4 DEF k

(* The entries for run boundaries lie strictly inside, in their order.     *)
LEMMA JunctionsSound ==
  ASSUME runs \in Seq(TextRun), NEW from \in Nat, NEW to \in Nat, NEW base \in Nat
  PROVE  LET J == JunctionEntries(from, to, base)
         IN  /\ J \in SpanMap /\ Increasing(J)
             /\ \A k \in DOMAIN J : base < J[k][1] /\ J[k][1] < base + (to - from)
<1> DEFINE n == Len(runs)
           all == [k \in DOMAIN runs |-> k]
           K == {k \in DOMAIN runs :
                   /\ from < MergedStart(k) /\ MergedStart(k) < to
                   /\ \A j \in 1 .. k - 1 : MergedStart(j) # MergedStart(k)}
           ks == Only(all, K)
           J == [m \in DOMAIN ks |-> <<base + MergedStart(ks[m]) - from, runs[ks[m]].start>>]
<1>0. JunctionEntries(from, to, base) = J
  BY DEF JunctionEntries
<1>1. n \in Nat /\ DOMAIN runs = 1 .. n
  OBVIOUS
<1>2. all \in Seq(1 .. n) /\ Len(all) = n /\ \A k \in 1 .. n : all[k] = k
  BY <1>1
<1>3. \A k \in K : k \in 1 .. n /\ from < MergedStart(k) /\ MergedStart(k) < to
  BY <1>1
<1>4. \A k \in 1 .. n : MergedStart(k) \in Nat
  BY <1>1, MergedLaidOut
<1>5. \A j, k \in K : j < k => MergedStart(j) < MergedStart(k)
  <2> TAKE j, k \in K
  <2> HAVE j < k
  <2>1. j \in 1 .. k - 1 /\ j \in 1 .. n /\ k \in 1 .. n
    BY <1>3
  <2>2. MergedStart(j) # MergedStart(k) /\ MergedStart(j) <= MergedStart(k)
    BY <1>1, <2>1, MergedLaidOut
  <2> HIDE DEF K
  <2> QED
    BY <1>4, <2>1, <2>2
<1> HIDE DEF all, K
<1>6. PICK w : ks \in Seq(1 .. n) /\ Picks(ks, w, all, K, n)
  BY <1>2, OnlyPicks
<1> HIDE DEF ks
<1>7. Len(ks) \in Nat /\ DOMAIN ks = 1 .. Len(ks)
  BY <1>6
<1>8. \A m \in 1 .. Len(ks) : w[m] \in K /\ w[m] \in 1 .. n /\ ks[m] = all[w[m]]
  BY <1>6 DEF Picks
<1>9. \A m \in 1 .. Len(ks) : ks[m] = w[m] /\ ks[m] \in K /\ ks[m] \in 1 .. n
  BY <1>2, <1>8
<1>10. \A l, m \in 1 .. Len(ks) : l < m => ks[l] < ks[m]
  <2>1. \A l, m \in 1 .. Len(ks) : l < m => w[l] < w[m]
    BY <1>6 DEF Picks
  <2> QED
    BY <1>9, <2>1
<1> HIDE DEF n
<1>11. ASSUME NEW m \in 1 .. Len(ks)
       PROVE  /\ J[m] \in Entry /\ J[m][1] = base + MergedStart(ks[m]) - from
              /\ base < J[m][1] /\ J[m][1] < base + (to - from)
  <2> DEFINE k == ks[m]
  <2>1. J[m] = <<base + MergedStart(k) - from, runs[k].start>>
    BY <1>7
  <2>2. k \in 1 .. n /\ from < MergedStart(k) /\ MergedStart(k) < to /\ MergedStart(k) \in Nat
    BY <1>3, <1>4, <1>9
  <2>3. runs[k].start \in Nat
    <3>1. runs[k] \in TextRun
      BY <1>1, <2>2
    <3> QED
      BY <3>1, RunParts
  <2> HIDE DEF k, J
  <2>4. base + MergedStart(k) - from \in Nat
        /\ base < base + MergedStart(k) - from
        /\ base + MergedStart(k) - from < base + (to - from)
    BY <2>2
  <2>5. J[m] \in Entry /\ J[m][1] = base + MergedStart(k) - from
    BY <2>1, <2>3, <2>4 DEF Entry
  <2> QED
    BY <2>4, <2>5 DEF k
<1>12. J \in SpanMap /\ DOMAIN J = 1 .. Len(ks)
  BY <1>7, <1>11 DEF SpanMap
<1>13. Increasing(J)
  <2> SUFFICES ASSUME NEW l \in 1 .. Len(ks), NEW m \in 1 .. Len(ks), l < m
               PROVE  J[l][1] < J[m][1]
    BY <1>12 DEF Increasing
  <2>1. ks[l] \in K /\ ks[m] \in K /\ ks[l] < ks[m]
    BY <1>9, <1>10
  <2>2. MergedStart(ks[l]) < MergedStart(ks[m])
    BY <1>5, <2>1
  <2>3. /\ J[l][1] = base + MergedStart(ks[l]) - from
        /\ J[m][1] = base + MergedStart(ks[m]) - from
    BY <1>11
  <2>4. MergedStart(ks[l]) \in Nat /\ MergedStart(ks[m]) \in Nat
    BY <1>4, <1>9
  <2> HIDE DEF J
  <2> QED
    BY <2>2, <2>3, <2>4
<1> QED
  BY <1>0, <1>11, <1>12, <1>13

-------------------------------------------------------------------------------
(* The scan.                                                               *)

(* The scan between two turns: the copied part ends at or before the       *)
(* position, and the map covers the copied part from its first character   *)
(* on and ends with it.                                                    *)
ScanSound ==
  /\ runs \in Seq(TextRun) /\ runs # << >>
  /\ copyStart \in 0 .. i /\ i \in 0 .. Len(Merged)
  /\ text \in Seq(Char) /\ map \in SpanMap
  /\ Increasing(map) /\ map # << >> /\ map[1][1] = 0
  /\ \A k \in DOMAIN map : map[k][1] <= Len(text)

(* flush_literal.                                                          *)
LEMMA Flushed ==
  ASSUME ScanSound, NEW to \in i .. Len(Merged)
  PROVE  /\ FlushedText(to) \in Seq(Char) /\ Len(FlushedText(to)) = Len(text) + (to - copyStart)
         /\ FlushedMap(to) \in SpanMap /\ Increasing(FlushedMap(to))
         /\ FlushedMap(to) # << >> /\ FlushedMap(to)[1][1] = 0
         /\ \A k \in DOMAIN FlushedMap(to) : FlushedMap(to)[k][1] <= Len(FlushedText(to))
<1> DEFINE J == JunctionEntries(copyStart, to, Len(text))
           m == map \o J
           slice == Slice(copyStart, to)
           t == text \o slice
           n == Len(text)
<1>1. /\ Merged \in Seq(Char) /\ Len(Merged) \in Nat /\ copyStart \in Nat /\ to \in Nat
      /\ copyStart <= to /\ to <= Len(Merged) /\ n \in Nat /\ text \in Seq(Char)
      /\ map \in SpanMap /\ Increasing(map) /\ map # << >> /\ map[1][1] = 0
      /\ runs \in Seq(TextRun)
  BY MergedLaidOut DEF ScanSound
<1>2. FlushedText(to) = t /\ FlushedMap(to) = m
  BY DEF FlushedText, FlushedMap
<1>3. slice \in Seq(Char) /\ Len(slice) = to - copyStart
  <2>1. copyStart \in 0 .. Len(Merged) /\ to \in copyStart .. Len(Merged)
    BY <1>1
  <2> QED
    BY <1>1, <2>1, Stretch DEF Slice
<1> HIDE DEF slice
<1>4. t \in Seq(Char) /\ Len(t) = n + (to - copyStart)
  <2>1. \A a, c \in Seq(Char) : a \o c \in Seq(Char) /\ Len(a \o c) = Len(a) + Len(c)
    OBVIOUS
  <2>2. t \in Seq(Char) /\ Len(t) = n + Len(slice)
    BY <1>1, <1>3, <2>1
  <2> QED
    BY <1>3, <2>2
<1>5. /\ J \in SpanMap /\ Increasing(J)
      /\ \A k \in DOMAIN J : n < J[k][1] /\ J[k][1] < n + (to - copyStart)
  BY <1>1, JunctionsSound
<1>6. \A k \in DOMAIN map : map[k][1] \in Nat /\ map[k][1] <= n
  BY <1>1, EntryNats DEF ScanSound
<1>7. \A k \in DOMAIN J : J[k][1] \in Nat
  BY <1>5, EntryNats
<1> HIDE DEF J, t, n
<1>8. \A j \in DOMAIN map, k \in DOMAIN J : map[j][1] < J[k][1]
  BY <1>1, <1>5, <1>6, <1>7
<1>9. Increasing(m)
  BY <1>1, <1>5, <1>8, IncreasingJoined
<1>10. /\ m \in SpanMap /\ Len(m) = Len(map) + Len(J)
       /\ \A k \in 1 .. Len(map) : m[k] = map[k]
       /\ \A k \in 1 .. Len(m) :
            \/ k \in 1 .. Len(map) /\ m[k] = map[k]
            \/ k - Len(map) \in 1 .. Len(J) /\ m[k] = J[k - Len(map)]
  BY <1>1, <1>5, Joined DEF SpanMap
<1>11. /\ DOMAIN map = 1 .. Len(map) /\ Len(map) \in Nat /\ 1 \in 1 .. Len(map)
       /\ DOMAIN J = 1 .. Len(J) /\ Len(J) \in Nat
  BY <1>1, <1>5 DEF SpanMap
<1> HIDE DEF m
<1>12. m # << >> /\ m[1][1] = 0
  <2>1. m[1] = map[1] /\ Len(m) # 0
    BY <1>10, <1>11
  <2>2. Len(<< >>) = 0
    OBVIOUS
  <2>3. m # << >>
    BY <2>1, <2>2, Zenon
  <2> QED
    BY <1>1, <2>1, <2>3
<1>13. \A k \in DOMAIN m : m[k][1] <= Len(t)
  <2> SUFFICES ASSUME NEW k \in 1 .. Len(m) PROVE m[k][1] <= Len(t)
    BY <1>10 DEF SpanMap
  <2>1. CASE k \in 1 .. Len(map) /\ m[k] = map[k]
    BY <1>1, <1>4, <1>6, <1>11, <2>1
  <2>2. CASE k - Len(map) \in 1 .. Len(J) /\ m[k] = J[k - Len(map)]
    <3> DEFINE j == k - Len(map)
    <3>1. j \in DOMAIN J /\ m[k] = J[j]
      BY <1>11, <2>2
    <3> HIDE DEF j
    <3> QED
      BY <1>1, <1>4, <1>5, <1>7, <3>1
  <2> QED
    BY <1>10, <2>1, <2>2
<1> QED
  BY <1>2, <1>4, <1>9, <1>10, <1>12, <1>13 DEF n

(* What replaces a placeholder.                                            *)
LEMMA MarkerText ==
  ASSUME ScanSound, i < Len(Merged), NEW chars \in Chars
  PROVE  Marker(chars) \in Seq(Char) /\ Len(Marker(chars)) = Len(chars)
<1> DEFINE at == Merged[i + 1].at
           n == Len(chars)
           g == Marker(chars)
<1>1. at \in Nat
  <2>1. Merged \in Seq(Char) /\ i + 1 \in 1 .. Len(Merged)
    BY MergedLaidOut DEF ScanSound
  <2>2. Merged[i + 1] \in Char
    BY <2>1
  <2> QED
    BY <2>2, CharParts
<1>2. DOMAIN chars = 1 .. n /\ n \in Nat /\ \A k \in 1 .. n : chars[k] \in Alphabet
  BY DEF Chars
<1>3. g = [k \in 1 .. n |-> [ch |-> chars[k], at |-> at, kind |-> IF k = 1 THEN "mark" ELSE "inner"]]
  BY <1>2 DEF Marker
<1> HIDE DEF at, n, g
<1>4. \A k \in 1 .. n :
        [ch |-> chars[k], at |-> at, kind |-> IF k = 1 THEN "mark" ELSE "inner"] \in Char
  BY <1>1, <1>2 DEF Char
<1>5. g \in Seq(Char) /\ Len(g) = n
  BY <1>2, <1>3, <1>4
<1> QED
  BY <1>5 DEF g, n

(* Replace: the state after it.                                            *)
LEMMA Replaced ==
  ASSUME ScanSound, NEW new \in Seq(Char), Len(new) >= 1, NEW end \in i .. Len(Merged),
         Replace(new, end)
  PROVE  ScanSound'
<1> DEFINE a == FlushedText(i)
           t == a \o new
           m == FlushedMap(i)
           e == <<Len(t), RawAt(end)>>
           r == Append(m, e)
<1>1. i \in i .. Len(Merged) /\ i \in Nat /\ Len(Merged) \in Nat
  BY MergedLaidOut DEF ScanSound
<1>2. /\ a \in Seq(Char)
      /\ m \in SpanMap /\ Increasing(m) /\ m # << >> /\ m[1][1] = 0
      /\ \A k \in DOMAIN m : m[k][1] <= Len(a)
  BY <1>1, Flushed
<1>3. text' = t /\ map' = r /\ i' = end /\ copyStart' = end /\ runs' = runs
  BY DEF Replace
<1>4. end \in Nat /\ end <= Len(Merged)
  BY <1>1
<1>5. RawAt(end) \in Nat
  BY <1>4, RawOffsetNat DEF RawAt, ScanSound
<1> HIDE DEF a, m
<1>6. t \in Seq(Char) /\ Len(t) = Len(a) + Len(new) /\ Len(a) \in Nat /\ Len(new) \in Nat
  BY <1>2
<1>7. e \in Entry /\ e[1] = Len(t)
  BY <1>5, <1>6 DEF Entry
<1> HIDE DEF t, e
<1>8. /\ r \in SpanMap /\ Len(r) = Len(m) + 1 /\ r[Len(m) + 1] = e
      /\ \A k \in 1 .. Len(m) : r[k] = m[k]
  BY <1>2, <1>7, OneMore DEF SpanMap
<1>9. DOMAIN m = 1 .. Len(m) /\ Len(m) \in Nat /\ 1 \in 1 .. Len(m)
  BY <1>2 DEF SpanMap
<1> HIDE DEF r
<1>10. \A k \in DOMAIN m : m[k][1] \in Nat
  BY <1>2, EntryNats
<1>11. DOMAIN r = 1 .. Len(r) /\ \A k \in 1 .. Len(r) : k \in 1 .. Len(m) \/ k = Len(m) + 1
  BY <1>8, <1>9 DEF SpanMap
<1>12. Increasing(r)
  <2> SUFFICES ASSUME NEW j \in 1 .. Len(r), NEW k \in 1 .. Len(r), j < k
               PROVE  r[j][1] < r[k][1]
    BY <1>11 DEF Increasing
  <2>1. j \in 1 .. Len(m)
    BY <1>9, <1>11
  <2>2. CASE k \in 1 .. Len(m)
    <3>1. m[j][1] < m[k][1]
      BY <1>2, <1>9, <2>1, <2>2 DEF Increasing
    <3> QED
      BY <1>8, <2>1, <2>2, <3>1
  <2>3. CASE k = Len(m) + 1
    BY <1>2, <1>6, <1>7, <1>8, <1>9, <1>10, <2>1, <2>3
  <2> QED
    BY <1>11, <2>2, <2>3
<1>13. r # << >> /\ r[1][1] = 0
  <2>1. r[1] = m[1] /\ Len(r) # 0
    BY <1>8, <1>9
  <2>2. Len(<< >>) = 0
    OBVIOUS
  <2>3. r # << >>
    BY <2>1, <2>2, Zenon
  <2> QED
    BY <1>2, <2>1, <2>3
<1>14. \A k \in DOMAIN r : r[k][1] <= Len(t)
  BY <1>2, <1>6, <1>7, <1>8, <1>9, <1>10, <1>11
<1>15. end \in 0 .. end /\ end \in 0 .. Len(Merged)
  BY <1>4
<1>16. Merged' = Merged
  BY <1>3 DEF Merged, MergedUpTo
<1> QED
  BY <1>3, <1>6, <1>8, <1>12, <1>13, <1>14, <1>15, <1>16 DEF ScanSound

(* The final retain.                                                       *)
LEMMA NormalizedSound ==
  ASSUME ScanSound, i = Len(Merged)
  PROVE  Normalized \in SoundSqls
<1> DEFINE n == Len(Merged)
           t == FlushedText(n)
           m == FlushedMap(n)
           K == {k \in DOMAIN m : m[k][1] < Len(t)}
           r == Only(m, K)
<1>1. n \in i .. Len(Merged)
  BY MergedLaidOut
<1>2. /\ t \in Seq(Char) /\ m \in SpanMap /\ Increasing(m) /\ m # << >> /\ m[1][1] = 0
      /\ \A k \in DOMAIN m : m[k][1] <= Len(t)
  BY <1>1, Flushed
<1>3. Normalized = [text |-> t, map |-> r]
  BY DEF Normalized, Within
<1> HIDE DEF t, m
<1>4. /\ r \in SpanMap /\ Increasing(r)
      /\ \A k \in DOMAIN r : \E j \in K \cap DOMAIN m : r[k] = m[j]
      /\ 1 \in K \cap DOMAIN m => r # << >> /\ r[1] = m[1]
  <2> HIDE DEF K
  <2> QED
    BY <1>2, Retained
<1> HIDE DEF r
<1>5. \A k \in DOMAIN r : r[k][1] < Len(t)
  BY <1>4
<1>6. t # << >> => r # << >> /\ r[1][1] = 0
  <2> HAVE t # << >>
  <2>1. 0 < Len(t)
    BY <1>2
  <2>2. 1 \in DOMAIN m
    BY <1>2 DEF SpanMap
  <2> QED
    BY <1>2, <1>4, <2>1, <2>2
<1> QED
  BY <1>2, <1>3, <1>4, <1>5, <1>6 DEF SoundSqls, Sound, Sql

(* A property path as the scan reports it.                                 *)
Path == [value : Seq(Char), span : Span]

(* A path lies between the delimiters.                                     *)
LEMMA PathWithin ==
  ASSUME NEW from \in Nat, NEW to \in Nat, NEW separator, NEW r \in PathIn(from, to, separator)
  PROVE  r[1] \in Nat /\ r[2] \in Nat /\ r[1] < r[2] /\ r[2] <= to
<1> DEFINE C == {to} \cup {k \in from .. to - 1 : CharAt(k) = separator}
           cut == Min(C)
           solid == {k \in from .. cut - 1 : ~ Blank(CharAt(k))}
<1>1. cut \in Nat /\ cut <= to
  <2>1. C \subseteq Nat /\ to \in C
    OBVIOUS
  <2> HIDE DEF C
  <2> QED
    BY <2>1, MinIsLeast
<1>2. solid # {} /\ r = <<Min(solid), Max(solid) + 1>>
  BY Zenon DEF PathIn
<1> HIDE DEF cut
<1>3. solid \subseteq Nat /\ solid \subseteq 0 .. cut /\ \A k \in solid : k < cut
  BY <1>1
<1> HIDE DEF solid
<1>4. Min(solid) \in solid
  BY <1>2, <1>3, MinIsLeast
<1>5. Max(solid) \in solid /\ Min(solid) <= Max(solid)
  BY <1>1, <1>2, <1>3, <1>4, MaxIsGreatest
<1>6. Min(solid) \in Nat /\ Max(solid) + 1 \in Nat /\ Min(solid) < Max(solid) + 1
      /\ Max(solid) + 1 <= to
  <2>1. Min(solid) \in Nat /\ Max(solid) \in Nat /\ Max(solid) < cut
    BY <1>3, <1>4, <1>5
  <2>2. Min(solid) <= Max(solid)
    BY <1>5
  <2> DEFINE least == Min(solid)
             last == Max(solid)
  <2> HIDE DEF least, last
  <2>3. least \in Nat /\ last \in Nat /\ last < cut /\ least <= last
    BY <2>1, <2>2 DEF least, last
  <2>4. least \in Nat /\ last + 1 \in Nat /\ least < last + 1 /\ last + 1 <= to
    BY <1>1, <2>3
  <2> QED
    BY <2>4 DEF least, last
<1> QED
  BY <1>2, <1>6

(* push_path.                                                              *)
LEMMA PathSpanTyped ==
  ASSUME runs \in Seq(TextRun), runs # << >>, NEW from \in Nat, NEW to \in Nat, from < to
  PROVE  PathSpan(from, to) \in Span
<1> DEFINE k == LayoutFor(from)
<1>1. RawOffset(k, from) \in Nat /\ RawOffset(k, to) \in Nat
  <2>1. from <= from /\ from <= to
    OBVIOUS
  <2> QED
    BY <2>1, RawOffsetNat
<1>2. \/ PathSpan(from, to) = <<RawOffset(k, from), RawOffset(k, to)>>
      \/ PathSpan(from, to) = <<RawOffset(k, from), RawOffset(k, from)>>
  BY Zenon DEF PathSpan
<1> HIDE DEF k
<1> QED
  BY <1>1, <1>2 DEF Span

(* The paths found so far and one more are still paths.                    *)
LEMMA PathsPushed ==
  ASSUME ScanSound, paths \in Seq(Path), NEW from \in Nat, NEW to \in Nat, to <= Len(Merged),
         NEW separator, PushPaths(PathIn(from, to, separator))
  PROVE  paths' \in Seq(Path)
<1> DEFINE ranges == PathIn(from, to, separator)
           r == CHOOSE p \in ranges : TRUE
           new == [value |-> Slice(r[1], r[2]), span |-> PathSpan(r[1], r[2])]
<1>1. paths' = IF ranges = {} THEN paths ELSE Append(paths, new)
  BY DEF PushPaths
<1>2. CASE ranges = {}
  BY <1>1, <1>2
<1>3. CASE ranges # {}
  <2>1. r \in ranges
    BY <1>3
  <2> HIDE DEF r
  <2>2. r[1] \in Nat /\ r[2] \in Nat /\ r[1] < r[2] /\ r[2] <= to
    BY <2>1, PathWithin
  <2>3. PathSpan(r[1], r[2]) \in Span
    BY <2>2, PathSpanTyped DEF ScanSound
  <2>4. Slice(r[1], r[2]) \in Seq(Char)
    <3>1. Merged \in Seq(Char) /\ Len(Merged) \in Nat
      BY MergedLaidOut DEF ScanSound
    <3>2. r[1] \in 0 .. Len(Merged) /\ r[2] \in r[1] .. Len(Merged)
      BY <2>2, <3>1
    <3> QED
      BY <3>1, <3>2, Stretch DEF Slice
  <2>5. new \in Path
    BY <2>3, <2>4 DEF Path
  <2> HIDE DEF new, ranges
  <2> QED
    BY <1>1, <1>3, <2>5
<1> QED
  BY <1>2, <1>3

(* A turn of the loop.                                                     *)
ScanKept ==
  /\ ScanSound' /\ paths' \in Seq(Path) /\ diags' \in Seq(Span)
  /\ UNCHANGED <<dialect, scanning, runs>>

(* A marker is not empty.                                                  *)
LEMMA MarkerOfText ==
  ASSUME ScanSound, i < Len(Merged), NEW delimiter
  PROVE  MarkerOf(delimiter) \in Seq(Char) /\ Len(MarkerOf(delimiter)) >= 1
<1> DEFINE chars == IF delimiter = "#" THEN <<"?">> ELSE DynMarker
<1>1. chars \in Chars /\ Len(chars) >= 1
  <2>1. DynMarker \in Chars /\ Len(DynMarker) >= 1
    BY DynMarkerAssumption DEF Chars
  <2>2. \A c \in Alphabet : <<c>> \in Chars /\ Len(<<c>>) >= 1
    BY DEF Chars
  <2>3. <<"?">> \in Chars /\ Len(<<"?">>) >= 1
    BY <2>2, DynMarkerAssumption, Zenon
  <2> QED
    BY <2>1, <2>3, Zenon
<1>2. MarkerOf(delimiter) = Marker(chars)
  BY DEF MarkerOf
<1> HIDE DEF chars
<1> QED
  BY <1>1, <1>2, MarkerText

(* A braced placeholder gives way to its marker.                           *)
LEMMA BracedPlaceholderKept ==
  ASSUME ScanSound, paths \in Seq(Path), diags \in Seq(Span), BracedPlaceholder
  PROVE  ScanKept
<1> DEFINE S == ClosingBraces(i)
           close == Min(S)
           new == MarkerOf(CharAt(i))
<1>1. i < Len(Merged) /\ S # {} /\ Replace(new, close + 1) /\ PushPaths(PathIn(i + 2, close, ","))
  BY DEF BracedPlaceholder, AtText
<1>2. i \in Nat /\ Len(Merged) \in Nat
  BY MergedLaidOut DEF ScanSound
<1>3. S \subseteq i + 2 .. Len(Merged) - 1
  BY Zenon DEF ClosingBraces
<1>4. S \subseteq Nat
  BY <1>2, <1>3
<1> HIDE DEF S
<1>5. close \in i + 2 .. Len(Merged) - 1
  BY <1>1, <1>3, <1>4, MinIsLeast
<1>6. new \in Seq(Char) /\ Len(new) >= 1
  BY <1>1, MarkerOfText
<1> HIDE DEF new, close
<1>7. close + 1 \in i .. Len(Merged) /\ i + 2 \in Nat /\ close \in Nat /\ close <= Len(Merged)
  BY <1>2, <1>5
<1>8. ScanSound'
  BY <1>1, <1>6, <1>7, Replaced
<1>9. paths' \in Seq(Path)
  BY <1>1, <1>7, PathsPushed
<1> QED
  BY <1>1, <1>8, <1>9 DEF ScanKept, Replace

(* A placeholder of iBatis gives way to its marker.                        *)
LEMMA LegacyPlaceholderKept ==
  ASSUME ScanSound, paths \in Seq(Path), diags \in Seq(Span), LegacyPlaceholder
  PROVE  ScanKept
<1> DEFINE S == LegacyClose(i)
           close == CHOOSE j \in S : TRUE
           new == MarkerOf(CharAt(i))
<1>1. i < Len(Merged) /\ S # {} /\ Replace(new, close + 1) /\ PushPaths(PathIn(i + 1, close, ":"))
  BY DEF LegacyPlaceholder, Legacy, AtText
<1>2. i \in Nat /\ Len(Merged) \in Nat
  BY MergedLaidOut DEF ScanSound
<1>3. S \subseteq i + 1 .. Len(Merged) - 1
  BY Zenon DEF LegacyClose
<1>4. close \in S
  BY <1>1
<1> HIDE DEF S, close
<1>5. close \in i + 1 .. Len(Merged) - 1
  BY <1>3, <1>4
<1>6. new \in Seq(Char) /\ Len(new) >= 1
  BY <1>1, MarkerOfText
<1> HIDE DEF new
<1>7. close + 1 \in i .. Len(Merged) /\ i + 1 \in Nat /\ close \in Nat /\ close <= Len(Merged)
  BY <1>2, <1>5
<1>8. ScanSound'
  BY <1>1, <1>6, <1>7, Replaced
<1>9. paths' \in Seq(Path)
  BY <1>1, <1>7, PathsPushed
<1> QED
  BY <1>1, <1>8, <1>9 DEF ScanKept, Replace

(* What stands at an offset within the text.                               *)
LEMMA CharWithin ==
  ASSUME ScanSound, i < Len(Merged)
  PROVE  CharAt(i) \in Alphabet
<1>1. Merged \in Seq(Char) /\ Len(Merged) \in Nat /\ i \in Nat /\ i + 1 \in 1 .. Len(Merged)
  BY MergedLaidOut DEF ScanSound
<1>2. Merged[i + 1] \in Char
  BY <1>1
<1>3. CharAt(i) = Merged[i + 1].ch
  BY Zenon DEF CharAt
<1> QED
  BY <1>2, <1>3, CharParts

(* A doubled delimiter gives way to one.                                   *)
LEMMA EscapedDelimiterKept ==
  ASSUME ScanSound, paths \in Seq(Path), diags \in Seq(Span), EscapedDelimiter
  PROVE  ScanKept
<1> DEFINE c == CharAt(i)
           new == Marker(<<c>>)
<1>1. /\ i < Len(Merged) /\ Replace(new, i + 2) /\ UNCHANGED paths
      /\ Delimiter(c) /\ CharAt(i + 1) = c
  BY DEF EscapedDelimiter, Escaped, AtText
<1>2. i \in Nat /\ Len(Merged) \in Nat
  BY MergedLaidOut DEF ScanSound
<1>3. i + 1 < Len(Merged)
  <2>1. CASE i + 1 < Len(Merged)
    BY <2>1
  <2>2. CASE ~ (i + 1 < Len(Merged))
    <3>1. CharAt(i + 1) = "none"
      BY <2>2, Zenon DEF CharAt
    <3>2. CharAt(i + 1) = "#" \/ CharAt(i + 1) = "$"
      BY <1>1 DEF Delimiter
    <3> QED
      BY <3>1, <3>2
  <2> QED
    BY <2>1, <2>2
<1>4. new \in Seq(Char) /\ Len(new) >= 1
  <2>1. c \in Alphabet
    BY <1>1, CharWithin
  <2> HIDE DEF c
  <2>2. <<c>> \in Chars /\ Len(<<c>>) >= 1
    BY <2>1 DEF Chars
  <2> QED
    BY <1>1, <2>2, MarkerText
<1> HIDE DEF new
<1>5. i + 2 \in i .. Len(Merged)
  BY <1>2, <1>3
<1>6. ScanSound'
  BY <1>1, <1>4, <1>5, Replaced
<1> QED
  BY <1>1, <1>6 DEF ScanKept, Replace

(* The rest behind a placeholder that never ends is copied.                *)
LEMMA UnterminatedKept ==
  ASSUME ScanSound, paths \in Seq(Path), diags \in Seq(Span), Unterminated
  PROVE  ScanKept
<1> DEFINE n == Len(Merged)
<1>1. /\ text' = FlushedText(n) /\ map' = FlushedMap(n) /\ i' = n /\ copyStart' = n
      /\ diags' = Append(diags, <<runs[1].start, runs[Len(runs)].end>>)
      /\ UNCHANGED <<dialect, scanning, runs, paths>>
  BY DEF Unterminated
<1>2. n \in Nat /\ n \in i .. Len(Merged)
  BY MergedLaidOut DEF ScanSound
<1>3. Merged' = Merged
  BY <1>1 DEF Merged, MergedUpTo
<1>4. ScanSound'
  <2>1. /\ FlushedText(n) \in Seq(Char) /\ FlushedMap(n) \in SpanMap /\ Increasing(FlushedMap(n))
        /\ FlushedMap(n) # << >> /\ FlushedMap(n)[1][1] = 0
        /\ \A k \in DOMAIN FlushedMap(n) : FlushedMap(n)[k][1] <= Len(FlushedText(n))
    BY <1>2, Flushed
  <2>2. n \in 0 .. n
    BY <1>2
  <2> QED
    BY <1>1, <1>3, <2>1, <2>2 DEF ScanSound
<1>5. diags' \in Seq(Span)
  <2>1. 1 \in DOMAIN runs /\ Len(runs) \in DOMAIN runs /\ \A k \in DOMAIN runs : runs[k] \in TextRun
    BY DEF ScanSound
  <2>2. runs[1].start \in Nat /\ runs[Len(runs)].end \in Nat
    BY <2>1, RunParts
  <2> DEFINE new == <<runs[1].start, runs[Len(runs)].end>>
  <2>3. new \in Span
    BY <2>2 DEF Span
  <2> HIDE DEF new
  <2> QED
    BY <1>1, <2>3 DEF new
<1> QED
  BY <1>1, <1>4, <1>5 DEF ScanKept

(* A plain character is only passed.                                       *)
LEMMA PlainCharacterKept ==
  ASSUME ScanSound, paths \in Seq(Path), diags \in Seq(Span), PlainCharacter
  PROVE  ScanKept
<1>1. /\ i < Len(Merged) /\ i' = i + 1
      /\ UNCHANGED <<dialect, scanning, runs, copyStart, text, map, paths, diags>>
  BY DEF PlainCharacter, AtText
<1>2. Merged' = Merged
  BY <1>1 DEF Merged, MergedUpTo
<1>3. copyStart \in 0 .. i + 1 /\ i + 1 \in 0 .. Len(Merged)
  BY <1>1, MergedLaidOut DEF ScanSound
<1>4. ScanSound'
  BY <1>1, <1>2, <1>3 DEF ScanSound
<1> QED
  BY <1>1, <1>4 DEF ScanKept

(* Whatever the turn, the scan stays sound.                                *)
LEMMA ScanStepKept ==
  ASSUME ScanSound, paths \in Seq(Path), diags \in Seq(Span), ScanStep
  PROVE  ScanKept
BY BracedPlaceholderKept, UnterminatedKept, EscapedDelimiterKept, LegacyPlaceholderKept,
   PlainCharacterKept, Zenon DEF ScanStep

-------------------------------------------------------------------------------
(* The invariant.                                                          *)

(* The open tags: only the outermost is none.                              *)
Frame == [wrapper : Wrapper \cup {[kind |-> "body"]}, start : Nat, pieces : Seq(SoundPieces)]

Opened(n) == {k \in 1 .. n : body[k].type = "open"}
Closed(n) == {k \in 1 .. n : body[k].type = "close"}

FramesSound ==
  /\ frames \in Seq(Frame) /\ sql \in SoundSqls
  /\ \A f \in 2 .. Len(frames) : frames[f].wrapper \in Wrapper

(* As many tags are open as opened and have not closed.                    *)
Depth ==
  /\ frames = << >> => ~ scanning /\ next = Len(body)
  /\ frames # << >> =>
       Len(frames) + Cardinality(Closed(next)) = 1 + Cardinality(Opened(next))

(* The state of a scan, and of none.                                       *)
ScanTyped ==
  /\ scanning \in BOOLEAN
  /\ scanning => ScanSound /\ \A k \in DOMAIN runs : runs[k].end <= Len(Source)
  /\ ~ scanning => runs = << >> /\ i = 0 /\ copyStart = 0 /\ text = << >> /\ map = << >>

(* Everything else that is read or reported.                               *)
Reading ==
  /\ dialect \in Dialect /\ body \in Bodies /\ next \in 0 .. Len(body)
  /\ paths \in Seq(Path) /\ diags \in Seq(Span)

IInv == Reading /\ ScanTyped /\ FramesSound /\ Depth

(* A body under consideration is one, and its tags nest.                   *)
LEMMA BodyTyped ==
  ASSUME body \in Bodies
  PROVE  body \in Seq(BodyEvent) /\ Nests(body) /\ Len(body) \in Nat
BY BodiesAssumption

(* One event more is one more tag of its kind.                             *)
LEMMA TagsCounted ==
  ASSUME NEW n \in Nat
  PROVE  /\ Cardinality(Opened(n)) \in Nat /\ Cardinality(Closed(n)) \in Nat
         /\ Cardinality(Opened(n + 1))
              = Cardinality(Opened(n)) + (IF body[n + 1].type = "open" THEN 1 ELSE 0)
         /\ Cardinality(Closed(n + 1))
              = Cardinality(Closed(n)) + (IF body[n + 1].type = "close" THEN 1 ELSE 0)
<1>1. IsFiniteSet(1 .. n)
  BY FS_Interval
<1>2. Opened(n) \in SUBSET (1 .. n) /\ Closed(n) \in SUBSET (1 .. n)
  BY DEF Opened, Closed
<1>3. IsFiniteSet(Opened(n)) /\ IsFiniteSet(Closed(n))
  BY <1>1, <1>2, FS_Subset
<1>4. Cardinality(Opened(n)) \in Nat /\ Cardinality(Closed(n)) \in Nat
  BY <1>3, FS_CardinalityType
<1>5. n + 1 \notin Opened(n) /\ n + 1 \notin Closed(n)
  BY DEF Opened, Closed
<1>6. \A k \in 1 .. n + 1 : k = n + 1 \/ k \in 1 .. n
  OBVIOUS
<1>7. \A k \in 1 .. n : k \in 1 .. n + 1 /\ n + 1 \in 1 .. n + 1
  OBVIOUS
<1>8. n + 1 \in 1 .. n + 1
  OBVIOUS
<1>9. Opened(n + 1) = IF body[n + 1].type = "open" THEN Opened(n) \cup {n + 1} ELSE Opened(n)
  BY <1>6, <1>7, <1>8 DEF Opened
<1>10. Closed(n + 1) = IF body[n + 1].type = "close" THEN Closed(n) \cup {n + 1} ELSE Closed(n)
  BY <1>6, <1>7, <1>8 DEF Closed
<1>11. /\ Cardinality(Opened(n) \cup {n + 1}) = Cardinality(Opened(n)) + 1
       /\ Cardinality(Closed(n) \cup {n + 1}) = Cardinality(Closed(n)) + 1
  BY <1>3, <1>5, FS_AddElement
<1> QED
  BY <1>4, <1>9, <1>10, <1>11

(* What is no tag counts for none.                                         *)
LEMMA NoTagCounted ==
  ASSUME NEW n \in Nat, body[n + 1].type # "open", body[n + 1].type # "close"
  PROVE  /\ Cardinality(Opened(n + 1)) = Cardinality(Opened(n))
         /\ Cardinality(Closed(n + 1)) = Cardinality(Closed(n))
<1> DEFINE e == body[n + 1]
<1>1. /\ Cardinality(Opened(n)) \in Nat /\ Cardinality(Closed(n)) \in Nat
      /\ Cardinality(Opened(n + 1))
           = Cardinality(Opened(n)) + (IF e.type = "open" THEN 1 ELSE 0)
      /\ Cardinality(Closed(n + 1))
           = Cardinality(Closed(n)) + (IF e.type = "close" THEN 1 ELSE 0)
  BY TagsCounted
<1>2. e.type # "open" /\ e.type # "close"
  OBVIOUS
<1> HIDE DEF e
<1> QED
  BY <1>1, <1>2

(* A tag that opens counts, and is none that closes.                       *)
LEMMA OpenCounted ==
  ASSUME NEW n \in Nat, body[n + 1].type = "open"
  PROVE  /\ Cardinality(Opened(n + 1)) = Cardinality(Opened(n)) + 1
         /\ Cardinality(Closed(n + 1)) = Cardinality(Closed(n))
<1> DEFINE e == body[n + 1]
<1>1. /\ Cardinality(Opened(n)) \in Nat /\ Cardinality(Closed(n)) \in Nat
      /\ Cardinality(Opened(n + 1))
           = Cardinality(Opened(n)) + (IF e.type = "open" THEN 1 ELSE 0)
      /\ Cardinality(Closed(n + 1))
           = Cardinality(Closed(n)) + (IF e.type = "close" THEN 1 ELSE 0)
  BY TagsCounted
<1>2. e.type = "open" /\ e.type # "close"
  OBVIOUS
<1> HIDE DEF e
<1> QED
  BY <1>1, <1>2

(* A tag that closes counts, and is none that opens.                       *)
LEMMA CloseCounted ==
  ASSUME NEW n \in Nat, body[n + 1].type = "close"
  PROVE  /\ Cardinality(Opened(n + 1)) = Cardinality(Opened(n))
         /\ Cardinality(Closed(n + 1)) = Cardinality(Closed(n)) + 1
<1> DEFINE e == body[n + 1]
<1>1. /\ Cardinality(Opened(n)) \in Nat /\ Cardinality(Closed(n)) \in Nat
      /\ Cardinality(Opened(n + 1))
           = Cardinality(Opened(n)) + (IF e.type = "open" THEN 1 ELSE 0)
      /\ Cardinality(Closed(n + 1))
           = Cardinality(Closed(n)) + (IF e.type = "close" THEN 1 ELSE 0)
  BY TagsCounted
<1>2. e.type = "close" /\ e.type # "open"
  OBVIOUS
<1> HIDE DEF e
<1> QED
  BY <1>1, <1>2

(* A tag that closes has opened.                                           *)
LEMMA SomethingOpen ==
  ASSUME Reading, FramesSound, Depth, AtEvent("close")
  PROVE  Len(frames) >= 2
<1>1. next \in Nat /\ next < Len(body) /\ body[next + 1].type = "close"
      /\ next + 1 \in 0 .. Len(body)
  BY BodyTyped DEF AtEvent, Here, Reading
<1>2. frames # << >>
  BY <1>1 DEF Depth
<1>3. Len(frames) + Cardinality(Closed(next)) = 1 + Cardinality(Opened(next))
  BY <1>2 DEF Depth
<1>4. Cardinality(Closed(next + 1)) <= Cardinality(Opened(next + 1))
  BY <1>1, BodyTyped DEF Nests, Opened, Closed, Reading
<1>5. /\ Cardinality(Opened(next)) \in Nat /\ Cardinality(Closed(next)) \in Nat
      /\ Cardinality(Opened(next + 1)) = Cardinality(Opened(next))
      /\ Cardinality(Closed(next + 1)) = Cardinality(Closed(next)) + 1
  BY <1>1, TagsCounted, CloseCounted
<1>6. Len(frames) \in Nat
  BY DEF FramesSound
<1> QED
  BY <1>3, <1>4, <1>5, <1>6

(* The invariant holds before anything is read.                            *)
LEMMA Initially == Init => IInv
<1> SUFFICES ASSUME Init PROVE IInv
  OBVIOUS
<1>1. Reading
  <2>1. 0 \in 0 .. Len(body)
    BY BodyTyped DEF Init
  <2>2. << >> \in Seq(Path) /\ << >> \in Seq(Span)
    OBVIOUS
  <2> QED
    BY <2>1, <2>2 DEF Init, Reading
<1>2. ScanTyped
  BY DEF Init, ScanTyped
<1> DEFINE f == [wrapper |-> [kind |-> "body"], start |-> 0, pieces |-> << >>]
<1>3. frames = <<f>>
  BY DEF Init
<1>4. f \in Frame
  <2>1. << >> \in Seq(SoundPieces)
    OBVIOUS
  <2> QED
    BY <2>1 DEF Frame
<1> HIDE DEF f
<1>5. <<f>> \in Seq(Frame) /\ Len(<<f>>) = 1 /\ <<f>> # << >>
  BY <1>4
<1>6. FramesSound
  <2>1. sql \in SoundSqls
    BY NothingSound DEF Init, SoundSqls, Sound
  <2>2. 2 .. 1 = {}
    OBVIOUS
  <2> QED
    BY <1>3, <1>5, <2>1, <2>2 DEF FramesSound
<1>7. Depth
  <2>1. next = 0 /\ 1 .. 0 = {}
    BY DEF Init
  <2>2. Opened(next) = {} /\ Closed(next) = {}
    BY <2>1 DEF Opened, Closed
  <2>3. Cardinality({}) = 0
    BY FS_EmptySet
  <2> QED
    BY <1>3, <1>5, <2>2, <2>3 DEF Depth
<1> QED
  BY <1>1, <1>2, <1>6, <1>7 DEF IInv

(* A piece more on top.                                                    *)
LEMMA Pushed ==
  ASSUME FramesSound, frames # << >>, NEW piece \in SoundPieces, frames' = Push(piece),
         UNCHANGED sql
  PROVE  FramesSound' /\ frames' # << >> /\ Len(frames') = Len(frames)
<1> DEFINE n == Len(frames)
           top == [frames[n] EXCEPT !.pieces = Append(@, piece)]
<1>1. n \in Nat /\ n \in DOMAIN frames /\ DOMAIN frames = 1 .. n /\ frames \in Seq(Frame)
  BY DEF FramesSound
<1>2. frames' = [frames EXCEPT ![n] = top]
  BY DEF Push
<1>3. frames[n] \in Frame
  BY <1>1
<1>4. top \in Frame /\ top.wrapper = frames[n].wrapper
  <2>1. Append(frames[n].pieces, piece) \in Seq(SoundPieces)
    BY <1>3 DEF Frame
  <2> QED
    BY <1>3, <2>1 DEF Frame
<1> HIDE DEF top, n
<1>5. frames' \in Seq(Frame) /\ Len(frames') = n
  BY <1>1, <1>2, <1>4 DEF n
<1>6. \A f \in 2 .. n : frames'[f].wrapper = frames[f].wrapper
  BY <1>1, <1>2, <1>4
<1>7. \A f \in 2 .. Len(frames') : frames'[f].wrapper \in Wrapper
  BY <1>5, <1>6 DEF FramesSound, n
<1>8. frames' # << >>
  <2>1. Len(frames') # 0 /\ Len(<< >>) = 0
    BY <1>1, <1>5
  <2> QED
    BY <2>1, Zenon
<1> QED
  BY <1>5, <1>7, <1>8 DEF FramesSound, n

-------------------------------------------------------------------------------
(* The steps.                                                              *)

(* The source depends on the body alone.                                   *)
LEMMA SourceKept == body' = body => Source' = Source
BY DEF Source, SourceUpTo

(* What leaves the open tags and the position alone.                       *)
LEMMA FramesKept ==
  ASSUME FramesSound, UNCHANGED <<frames, sql>>
  PROVE  FramesSound'
BY DEF FramesSound

(* A turn of the scan loop keeps the invariant.                            *)
LEMMA ScanKeepsInv ==
  ASSUME IInv, Scan
  PROVE  IInv'
<1>1. ScanStep /\ UNCHANGED <<body, next, frames, sql>>
  BY DEF Scan
<1>2. scanning
  BY <1>1 DEF ScanStep, BracedPlaceholder, Unterminated, EscapedDelimiter, LegacyPlaceholder,
              PlainCharacter, AtText
<1>3. ScanSound /\ \A k \in DOMAIN runs : runs[k].end <= Len(Source)
  BY <1>2 DEF IInv, ScanTyped
<1>4. ScanKept
  BY <1>1, <1>3, ScanStepKept DEF IInv, Reading
<1>5. Reading'
  BY <1>1, <1>4 DEF ScanKept, IInv, Reading
<1>6. ScanTyped'
  <2>1. scanning' = scanning /\ runs' = runs /\ ScanSound'
    BY <1>4 DEF ScanKept
  <2>2. Source' = Source
    BY <1>1, SourceKept
  <2>3. scanning' \in BOOLEAN /\ scanning'
    BY <1>2, <2>1 DEF IInv, ScanTyped
  <2> QED
    BY <1>3, <2>1, <2>2, <2>3 DEF ScanTyped
<1>7. FramesSound'
  BY <1>1, FramesKept DEF IInv
<1>8. Depth'
  BY <1>1, <1>4 DEF ScanKept, IInv, Depth, Opened, Closed
<1> QED
  BY <1>5, <1>6, <1>7, <1>8 DEF IInv

(* So does the beginning of a scan: one entry, at the start of the run.    *)
LEMMA BeginRunKeepsInv ==
  ASSUME IInv, BeginRun
  PROVE  IInv'
<1> DEFINE ks == TextsIn(next, RunEnd)
           rs == [n \in DOMAIN ks |-> Segment(ks[n])]
<1>1. /\ ~ scanning /\ next < Len(body) /\ Here.type \in TextType
      /\ BeginScan(rs) /\ next' = RunEnd
      /\ UNCHANGED <<dialect, paths, diags, body, frames, sql>>
  BY DEF BeginRun, AtEvent
<1>2. body \in Seq(BodyEvent) /\ next \in 0 .. Len(body) - 1 /\ Len(body) \in Nat /\ next \in Nat
  BY <1>1, BodyTyped DEF IInv, Reading
<1>3. rs \in Seq(TextRun) /\ rs # << >> /\ \A k \in DOMAIN rs : rs[k].end <= Len(Source)
  BY <1>1, <1>2, RunsOfTexts
<1>4. /\ RunEnd \in next + 1 .. Len(body)
      /\ \A k \in next + 1 .. RunEnd : body[k].type \in TextType \cup {"comment"}
  BY <1>1, <1>2, RunFound
<1> HIDE DEF ks, rs
<1>5. Reading'
  BY <1>1, <1>2, <1>4 DEF IInv, Reading
<1>6. ScanTyped'
  <2>1. /\ scanning' = TRUE /\ runs' = rs /\ i' = 0 /\ copyStart' = 0
        /\ text' = << >> /\ map' = <<<<0, rs[1].start>>>>
    BY <1>1 DEF BeginScan
  <2>2. rs[1].start \in Nat
    <3>1. rs[1] \in TextRun
      <4>1. 1 \in DOMAIN rs
        BY <1>3
      <4> QED
        BY <1>3, <4>1
    <3> QED
      BY <3>1, RunParts
  <2> DEFINE e == <<0, rs[1].start>>
  <2>3. e \in Entry /\ e[1] = 0
    BY <2>2 DEF Entry
  <2>4. map' = <<e>>
    BY <2>1
  <2> HIDE DEF e
  <2>5. /\ <<e>> \in SpanMap /\ Len(<<e>>) = 1 /\ DOMAIN <<e>> = {1} /\ <<e>>[1] = e
        /\ <<e>> # << >>
    BY <2>3 DEF SpanMap
  <2>6. Increasing(<<e>>)
    BY <2>5 DEF Increasing
  <2>7. << >> \in Seq(Char) /\ Len(<< >>) = 0
    OBVIOUS
  <2>8. Len(Merged') \in Nat
    <3>1. runs' \in Seq(TextRun)
      BY <1>3, <2>1
    <3>2. (runs \in Seq(TextRun) => Len(Merged) \in Nat)'
      BY MergedLaidOut, PTL
    <3> QED
      BY <3>1, <3>2
  <2>9. 0 \in 0 .. Len(Merged') /\ 0 \in 0 .. 0
    BY <2>8
  <2>10. ScanSound'
    <3>1. runs' \in Seq(TextRun) /\ runs' # << >>
      BY <1>3, <2>1
    <3>2. copyStart' \in 0 .. i' /\ i' \in 0 .. Len(Merged')
      BY <2>1, <2>9
    <3>3. text' \in Seq(Char) /\ map' \in SpanMap /\ Increasing(map')
      BY <2>1, <2>4, <2>5, <2>6, <2>7
    <3>4. map' # << >> /\ map'[1][1] = 0
      BY <2>3, <2>4, <2>5
    <3>5. \A k \in DOMAIN map' : map'[k][1] <= Len(text')
      BY <2>1, <2>3, <2>4, <2>5, <2>7
    <3> QED
      BY <3>1, <3>2, <3>3, <3>4, <3>5 DEF ScanSound
  <2>11. Source' = Source
    BY <1>1, SourceKept
  <2> QED
    BY <1>3, <2>1, <2>10, <2>11 DEF ScanTyped
<1>7. FramesSound'
  BY <1>1, FramesKept DEF IInv
<1>8. Depth'
  <2>1. frames # << >>
    BY <1>1 DEF IInv, Depth
  <2>2. \A k \in 1 .. RunEnd : k \in 1 .. next \/ k \in next + 1 .. RunEnd
    BY <1>2, <1>4
  <2>3. \A k \in 1 .. next : k \in 1 .. RunEnd
    BY <1>2, <1>4
  <2>4. \A k \in next + 1 .. RunEnd : body[k].type # "open" /\ body[k].type # "close"
    BY <1>4 DEF TextType
  <2>5. Opened(RunEnd) = Opened(next) /\ Closed(RunEnd) = Closed(next)
    BY <2>2, <2>3, <2>4 DEF Opened, Closed
  <2>6. Opened(next)' = Opened(RunEnd) /\ Closed(next)' = Closed(RunEnd)
    BY <1>1 DEF Opened, Closed
  <2> QED
    BY <1>1, <2>1, <2>5, <2>6 DEF IInv, Depth
<1> QED
  BY <1>5, <1>6, <1>7, <1>8 DEF IInv

(* So does its end, which pushes what the scan has made.                   *)
LEMMA EndRunKeepsInv ==
  ASSUME IInv, EndRun
  PROVE  IInv'
<1>1. /\ scanning /\ i = Len(Merged) /\ frames' = Push(NormalizedPiece(Normalized)) /\ EndScan
      /\ UNCHANGED <<dialect, paths, diags, body, next, sql>>
  BY DEF EndRun
<1>2. Normalized \in SoundSqls
  BY <1>1, NormalizedSound DEF IInv, ScanTyped
<1>3. NormalizedPiece(Normalized) \in SoundPieces
  <2> DEFINE s == Normalized
  <2> HIDE DEF s
  <2>1. s \in Sql /\ Sound(s)
    BY <1>2 DEF SoundSqls, s
  <2>2. NormalizedPiece(s) \in SoundPieces
    BY <2>1 DEF NormalizedPiece, SoundPieces, SoundPiece, Piece
  <2> QED
    BY <2>2 DEF s
<1>4. frames # << >>
  BY <1>1 DEF IInv, Depth
<1>5. FramesSound' /\ frames' # << >> /\ Len(frames') = Len(frames)
  BY <1>1, <1>3, <1>4, Pushed DEF IInv
<1>6. Reading'
  BY <1>1 DEF IInv, Reading
<1>7. ScanTyped'
  BY <1>1 DEF EndScan, ScanTyped
<1>8. Depth'
  BY <1>1, <1>4, <1>5 DEF IInv, Depth, Opened, Closed
<1> QED
  BY <1>5, <1>6, <1>7, <1>8 DEF IInv

(* Reading on without a scan.                                              *)
LEMMA ScanLeftAlone ==
  ASSUME IInv, UNCHANGED scanVars, ~ scanning
  PROVE  ScanTyped'
BY DEF IInv, ScanTyped, scanVars

(* The position moves on by one event.                                     *)
LEMMA ReadOn ==
  ASSUME IInv, next < Len(body), next' = next + 1, UNCHANGED <<dialect, paths, diags, body>>
  PROVE  Reading'
<1>1. next + 1 \in 0 .. Len(body)
  BY BodyTyped DEF IInv, Reading
<1> QED
  BY <1>1 DEF IInv, Reading

(* A comment keeps the invariant.                                          *)
LEMMA CommentKeepsInv ==
  ASSUME IInv, Comment
  PROVE  IInv'
<1>1. /\ ~ scanning /\ next < Len(body) /\ Here.type = "comment" /\ next' = next + 1
      /\ UNCHANGED <<dialect, scanVars, paths, diags, body, frames, sql>>
  BY DEF Comment, AtEvent
<1>2. Reading' /\ ScanTyped' /\ FramesSound'
  BY <1>1, ReadOn, ScanLeftAlone, FramesKept DEF IInv
<1>3. Depth'
  <2>1. frames # << >>
    BY <1>1 DEF IInv, Depth
  <2>2. next \in Nat
    BY BodyTyped DEF IInv, Reading
  <2>3. Here.type # "open" /\ Here.type # "close"
    BY <1>1
  <2>4. Cardinality(Opened(next + 1)) = Cardinality(Opened(next))
        /\ Cardinality(Closed(next + 1)) = Cardinality(Closed(next))
    BY <2>2, <2>3, NoTagCounted DEF Here
  <2>5. Opened(next)' = Opened(next + 1) /\ Closed(next)' = Closed(next + 1)
    BY <1>1 DEF Opened, Closed
  <2> QED
    BY <1>1, <2>1, <2>4, <2>5 DEF IInv, Depth
<1> QED
  BY <1>2, <1>3 DEF IInv

(* An include keeps the invariant.                                         *)
LEMMA IncludeKeepsInv ==
  ASSUME IInv, Include
  PROVE  IInv'
<1>1. /\ ~ scanning /\ next < Len(body) /\ Here.type = "include" /\ next' = next + 1
      /\ frames' = Push(IncludePiece(StartOf(next + 1)))
      /\ UNCHANGED <<dialect, scanVars, paths, diags, body, sql>>
  BY DEF Include, AtEvent
<1>2. next \in Nat /\ body \in Seq(BodyEvent) /\ next + 1 \in 1 .. Len(body)
  BY <1>1, BodyTyped DEF IInv, Reading
<1>3. IncludePiece(StartOf(next + 1)) \in SoundPieces
  <2>1. StartOf(next + 1) \in Nat
    BY <1>2, SourceLaidOut
  <2> QED
    BY <2>1 DEF IncludePiece, SoundPieces, SoundPiece, Piece
<1>4. frames # << >>
  BY <1>1 DEF IInv, Depth
<1>5. FramesSound' /\ frames' # << >> /\ Len(frames') = Len(frames)
  BY <1>1, <1>3, <1>4, Pushed DEF IInv
<1>6. Reading' /\ ScanTyped'
  BY <1>1, ReadOn, ScanLeftAlone
<1>7. Depth'
  <2>1. Here.type # "open" /\ Here.type # "close"
    BY <1>1
  <2>2. Cardinality(Opened(next + 1)) = Cardinality(Opened(next))
        /\ Cardinality(Closed(next + 1)) = Cardinality(Closed(next))
    BY <1>2, <2>1, NoTagCounted DEF Here
  <2>3. Opened(next)' = Opened(next + 1) /\ Closed(next)' = Closed(next + 1)
    BY <1>1 DEF Opened, Closed
  <2> QED
    BY <1>1, <1>4, <1>5, <2>2, <2>3 DEF IInv, Depth
<1> QED
  BY <1>5, <1>6, <1>7 DEF IInv

(* A tag that opens keeps the invariant: its frame is empty.               *)
LEMMA OpenKeepsInv ==
  ASSUME IInv, Open
  PROVE  IInv'
<1> DEFINE f == [wrapper |-> Here.wrapper, start |-> StartOf(next + 1), pieces |-> << >>]
<1>1. /\ ~ scanning /\ next < Len(body) /\ Here.type = "open" /\ next' = next + 1
      /\ frames' = Append(frames, f)
      /\ UNCHANGED <<dialect, scanVars, paths, diags, body, sql>>
  BY DEF Open, AtEvent
<1>2. next \in Nat /\ body \in Seq(BodyEvent) /\ next + 1 \in 1 .. Len(body)
  BY <1>1, BodyTyped DEF IInv, Reading
<1>3. f \in Frame /\ f.wrapper \in Wrapper
  <2>1. Here \in BodyEvent
    BY <1>2 DEF Here
  <2>2. Here.wrapper \in Wrapper
    BY <1>1, <2>1, EventTypes
  <2>3. StartOf(next + 1) \in Nat
    BY <1>2, SourceLaidOut
  <2>4. << >> \in Seq(SoundPieces)
    OBVIOUS
  <2> QED
    BY <2>2, <2>3, <2>4 DEF Frame
<1>4. frames # << >> /\ frames \in Seq(Frame)
  BY <1>1 DEF IInv, Depth, FramesSound
<1> HIDE DEF f
<1>5. /\ frames' \in Seq(Frame) /\ Len(frames') = Len(frames) + 1
      /\ frames'[Len(frames) + 1] = f
      /\ \A k \in 1 .. Len(frames) : frames'[k] = frames[k]
  BY <1>1, <1>3, <1>4, OneMore
<1>6. FramesSound'
  <2>1. \A k \in 2 .. Len(frames) + 1 : k = Len(frames) + 1 \/ k \in 2 .. Len(frames)
    BY <1>4
  <2>2. \A k \in 2 .. Len(frames) : k \in 1 .. Len(frames)
    BY <1>4
  <2>3. \A k \in 2 .. Len(frames') : frames'[k].wrapper \in Wrapper
    BY <1>3, <1>5, <2>1, <2>2 DEF IInv, FramesSound
  <2> QED
    BY <1>1, <1>5, <2>3 DEF IInv, FramesSound
<1>7. Reading' /\ ScanTyped'
  BY <1>1, ReadOn, ScanLeftAlone
<1>8. Depth'
  <2>1. Here.type = "open" /\ Here.type # "close"
    BY <1>1
  <2>2. /\ Cardinality(Opened(next + 1)) = Cardinality(Opened(next)) + 1
        /\ Cardinality(Closed(next + 1)) = Cardinality(Closed(next))
        /\ Cardinality(Opened(next)) \in Nat /\ Cardinality(Closed(next)) \in Nat
    BY <1>2, <2>1, TagsCounted, OpenCounted DEF Here
  <2>3. Opened(next)' = Opened(next + 1) /\ Closed(next)' = Closed(next + 1)
    BY <1>1 DEF Opened, Closed
  <2>4. frames' # << >>
    <3>1. Len(frames') # 0 /\ Len(<< >>) = 0
      BY <1>4, <1>5
    <3> QED
      BY <3>1, Zenon
  <2>5. Len(frames) \in Nat /\ Len(frames) + Cardinality(Closed(next)) = 1 + Cardinality(Opened(next))
    BY <1>4 DEF IInv, Depth
  <2>6. Len(frames') + Cardinality(Closed(next + 1)) = 1 + Cardinality(Opened(next + 1))
    BY <1>5, <2>2, <2>5
  <2> QED
    BY <1>1, <2>3, <2>4, <2>6 DEF Depth
<1> QED
  BY <1>6, <1>7, <1>8 DEF IInv

(* What the frame of an open tag has to offer.                             *)
LEMMA FrameParts ==
  ASSUME NEW f \in Frame
  PROVE  f.start \in Nat /\ f.pieces \in Seq(SoundPieces)
BY DEF Frame

(* A tag that closes keeps the invariant: another is open below it, and    *)
(* what it leaves there is sound.                                          *)
LEMMA CloseKeepsInv ==
  ASSUME IInv, Close
  PROVE  IInv'
<1> DEFINE n == Len(frames)
           outer == Front(frames)
           closed == ClosedPieces(Source, Top.wrapper, Top.pieces, Top.start)
           below == [outer[n - 1] EXCEPT !.pieces = @ \o closed]
<1>1. /\ AtEvent("close") /\ ~ scanning /\ next < Len(body) /\ Here.type = "close"
      /\ next' = next + 1
      /\ frames' = [outer EXCEPT ![Len(outer)].pieces = @ \o closed]
      /\ UNCHANGED <<dialect, scanVars, paths, diags, body, sql>>
  BY DEF Close, AtEvent
<1>2. n >= 2 /\ n \in Nat /\ frames \in Seq(Frame) /\ DOMAIN frames = 1 .. n
  BY <1>1, SomethingOpen DEF IInv, FramesSound
<1>3. Top \in Frame /\ Top.wrapper \in Wrapper
  BY <1>2 DEF IInv, FramesSound, Top
<1>4. closed \in Seq(SoundPieces)
  BY <1>3, FrameParts, ClosedPiecesSound
<1>5. /\ outer \in Seq(Frame) /\ Len(outer) = n - 1 /\ DOMAIN outer = 1 .. n - 1
      /\ \A k \in 1 .. n - 1 : outer[k] = frames[k]
  <2>1. n - 1 \in Nat /\ n - 1 <= Len(frames)
    BY <1>2
  <2>2. /\ SubSeq(frames, 1, n - 1) \in Seq(Frame) /\ Len(SubSeq(frames, 1, n - 1)) = n - 1
        /\ \A k \in 1 .. n - 1 : SubSeq(frames, 1, n - 1)[k] = frames[k]
    BY <1>2, <2>1, FirstOnes
  <2>3. outer = SubSeq(frames, 1, n - 1)
    BY DEF Front
  <2> HIDE DEF outer, n
  <2> QED
    BY <2>1, <2>2, <2>3
<1> HIDE DEF closed, outer
<1>6. below \in Frame /\ below.wrapper = outer[n - 1].wrapper
  <2>1. outer[n - 1] \in Frame
    BY <1>2, <1>5
  <2>2. outer[n - 1].pieces \o closed \in Seq(SoundPieces)
    BY <1>4, <2>1, FrameParts
  <2> DEFINE f == outer[n - 1]
             ps == f.pieces \o closed
  <2>3. f \in Frame /\ ps \in Seq(SoundPieces) /\ below = [f EXCEPT !.pieces = ps]
    BY <2>1, <2>2
  <2> HIDE DEF f, ps
  <2>4. [f EXCEPT !.pieces = ps] \in Frame /\ [f EXCEPT !.pieces = ps].wrapper = f.wrapper
    BY <2>3 DEF Frame
  <2> QED
    BY <2>3, <2>4 DEF f
<1>7. frames' = [outer EXCEPT ![n - 1] = below]
  BY <1>1, <1>5
<1> HIDE DEF below
<1>8. /\ frames' \in Seq(Frame) /\ Len(frames') = n - 1
      /\ \A f \in 1 .. n - 1 : frames'[f].wrapper = frames[f].wrapper
  <2>1. n - 1 \in 1 .. n - 1
    BY <1>2
  <2>2. frames' \in Seq(Frame) /\ Len(frames') = n - 1
    BY <1>5, <1>6, <1>7, <2>1
  <2>3. \A f \in 1 .. n - 1 : frames'[f].wrapper = frames[f].wrapper
    BY <1>5, <1>6, <1>7
  <2> QED
    BY <2>2, <2>3
<1>9. FramesSound'
  <2>1. \A f \in 2 .. n - 1 : f \in 1 .. n - 1 /\ f \in 2 .. Len(frames)
    BY <1>2
  <2>2. \A f \in 2 .. Len(frames') : frames'[f].wrapper \in Wrapper
    BY <1>8, <2>1 DEF IInv, FramesSound
  <2> QED
    BY <1>1, <1>8, <2>2 DEF IInv, FramesSound
<1>10. Reading' /\ ScanTyped'
  BY <1>1, ReadOn, ScanLeftAlone
<1>11. Depth'
  <2>1. frames # << >>
    BY <1>1 DEF IInv, Depth
  <2>2. next \in Nat
    BY BodyTyped DEF IInv, Reading
  <2>3. /\ Cardinality(Opened(next + 1)) = Cardinality(Opened(next))
        /\ Cardinality(Closed(next + 1)) = Cardinality(Closed(next)) + 1
        /\ Cardinality(Opened(next)) \in Nat /\ Cardinality(Closed(next)) \in Nat
    BY <1>1, <2>2, TagsCounted, CloseCounted DEF Here
  <2>4. Opened(next)' = Opened(next + 1) /\ Closed(next)' = Closed(next + 1)
    BY <1>1 DEF Opened, Closed
  <2>5. n + Cardinality(Closed(next)) = 1 + Cardinality(Opened(next))
    BY <2>1 DEF IInv, Depth
  <2>6. frames' # << >>
    <3>1. Len(frames') # 0 /\ Len(<< >>) = 0
      BY <1>2, <1>8
    <3> QED
      BY <3>1, Zenon
  <2>7. Len(frames') + Cardinality(Closed(next + 1)) = 1 + Cardinality(Opened(next + 1))
    <3> HIDE DEF n
    <3> QED
      BY <1>2, <1>8, <2>3, <2>5
  <2> QED
    BY <1>1, <2>4, <2>6, <2>7 DEF Depth
<1> QED
  BY <1>9, <1>10, <1>11 DEF IInv

(* The assembly of the whole body keeps the invariant.                     *)
LEMMA FinishKeepsInv ==
  ASSUME IInv, Finish
  PROVE  IInv'
<1>1. /\ ~ scanning /\ next = Len(body) /\ frames # << >>
      /\ sql' = Assembled(Top.pieces) /\ frames' = << >>
      /\ UNCHANGED <<dialect, scanVars, paths, diags, body, next>>
  BY DEF Finish
<1>2. Top \in Frame
  BY <1>1 DEF IInv, FramesSound, Top
<1>3. sql' \in SoundSqls
  BY <1>1, <1>2, FrameParts, AssembledSound
<1>4. FramesSound'
  <2>1. << >> \in Seq(Frame) /\ 2 .. 0 = {} /\ Len(<< >>) = 0
    OBVIOUS
  <2> QED
    BY <1>1, <1>3, <2>1 DEF FramesSound
<1>5. Reading' /\ ScanTyped'
  BY <1>1, ScanLeftAlone DEF IInv, Reading
<1>6. Depth'
  BY <1>1 DEF Depth, scanVars
<1> QED
  BY <1>4, <1>5, <1>6 DEF IInv

(* So does doing nothing.                                                  *)
LEMMA StutterKeepsInv ==
  ASSUME IInv, UNCHANGED vars
  PROVE  IInv'
<1>1. UNCHANGED <<dialect, scanVars, paths, diags, body, next, frames, sql>>
  BY DEF vars
<1>2. /\ UNCHANGED <<scanning, runs, i, copyStart, text, map>>
  BY <1>1 DEF scanVars
<1>3. Merged' = Merged /\ Source' = Source
  BY <1>1, <1>2, SourceKept DEF Merged, MergedUpTo
<1>4. ScanSound' = ScanSound
  BY <1>2, <1>3 DEF ScanSound
<1>5. ScanTyped'
  BY <1>2, <1>3, <1>4 DEF IInv, ScanTyped
<1>6. Reading'
  BY <1>1 DEF IInv, Reading
<1>7. FramesSound'
  BY <1>1, FramesKept DEF IInv
<1>8. Depth'
  BY <1>1, <1>2 DEF IInv, Depth, Opened, Closed
<1> QED
  BY <1>5, <1>6, <1>7, <1>8 DEF IInv

-------------------------------------------------------------------------------
(* The theorems.                                                           *)

(* The invariant holds throughout, for every set of bodies, alphabet and   *)
(* dynamic marker.                                                         *)
THEOREM Invariance == Spec => []IInv
<1>1. Init => IInv
  BY Initially
<1>2. IInv /\ [Next]_vars => IInv'
  BY ScanKeepsInv, BeginRunKeepsInv, EndRunKeepsInv, CommentKeepsInv, IncludeKeepsInv,
     OpenKeepsInv, CloseKeepsInv, FinishKeepsInv, StutterKeepsInv, Zenon DEF Next
<1> QED
  BY <1>1, <1>2, PTL DEF Spec

(* Every text there is, one of three.                                      *)
LEMMA TextThere ==
  ASSUME NEW s \in Sqls
  PROVE  \/ s = sql
         \/ \E f \in DOMAIN frames : s \in SqlPieces(frames[f].pieces)
         \/ scanning /\ i = Len(Merged) /\ s = Normalized
<1> DEFINE S == {SqlPieces(frames[f].pieces) : f \in DOMAIN frames}
           N == IF scanning /\ i = Len(Merged) THEN {Normalized} ELSE {}
<1>1. s = sql \/ s \in UNION S \/ s \in N
  <2>1. s \in {sql} \cup (UNION S) \cup N
    BY Zenon DEF Sqls
  <2> HIDE DEF S, N
  <2> QED
    BY <2>1
<1>2. s \in N => scanning /\ i = Len(Merged) /\ s = Normalized
  BY Zenon
<1>3. s \in UNION S => \E f \in DOMAIN frames : s \in SqlPieces(frames[f].pieces)
  BY Zenon
<1> HIDE DEF S, N
<1> QED
  BY <1>1, <1>2, <1>3, Zenon

(* Every text there is.                                                    *)
LEMMA SqlsSound ==
  ASSUME IInv, NEW s \in Sqls
  PROVE  s \in Sql /\ Sound(s)
<1>1. CASE s = sql
  BY <1>1 DEF IInv, FramesSound, SoundSqls
<1>2. CASE \E f \in DOMAIN frames : s \in SqlPieces(frames[f].pieces)
  <2>1. PICK f \in DOMAIN frames : s \in SqlPieces(frames[f].pieces)
    BY <1>2
  <2>2. frames[f].pieces \in Seq(SoundPieces)
    <3>1. frames[f] \in Frame
      BY DEF IInv, FramesSound
    <3> QED
      BY <3>1, FrameParts
  <2> DEFINE ps == frames[f].pieces
  <2>3. PICK k \in DOMAIN ps : ps[k].type = "Normalized" /\ s = ps[k].sql
    BY <2>1 DEF SqlPieces
  <2>4. ps[k] \in SoundPieces
    BY <2>2
  <2> QED
    BY <2>3, <2>4 DEF SoundPieces, SoundPiece, Sound
<1>3. CASE scanning /\ i = Len(Merged) /\ s = Normalized
  BY <1>3, NormalizedSound DEF IInv, ScanTyped, SoundSqls
<1>4. \/ s = sql
      \/ \E f \in DOMAIN frames : s \in SqlPieces(frames[f].pieces)
      \/ scanning /\ i = Len(Merged) /\ s = Normalized
  BY TextThere
<1> QED
  BY <1>1, <1>2, <1>3, <1>4, Zenon

(* A sound text is what SpanMapsSound asks for.                            *)
LEMMA SoundMaps == IInv => SpanMapsSound
<1> SUFFICES ASSUME IInv, NEW s \in Sqls
             PROVE  /\ \A j, k \in DOMAIN s.map : j < k => s.map[j][1] < s.map[k][1]
                    /\ s.text # << >> => s.map # << >> /\ s.map[1][1] = 0
                    /\ \A k \in DOMAIN s.map : s.map[k][1] < Len(s.text)
  BY DEF SpanMapsSound
<1>1. Sound(s)
  BY SqlsSound
<1> QED
  BY <1>1 DEF Sound, Increasing

(* The invariant implies the types TextReference states.                   *)
LEMMA Types == IInv => TypeOK
<1> SUFFICES ASSUME IInv PROVE TypeOK
  OBVIOUS
<1>1. runs \in Seq(TextRun) /\ (scanning <=> runs # << >>)
  <2>1. << >> \in Seq(TextRun)
    OBVIOUS
  <2> QED
    BY <2>1 DEF IInv, ScanTyped, ScanSound
<1>2. \A k \in DOMAIN runs : runs[k].end <= Len(Source)
  BY DEF IInv, ScanTyped
<1>3. copyStart \in 0 .. i /\ i \in 0 .. Len(Merged)
  <2>1. CASE scanning
    BY <2>1 DEF IInv, ScanTyped, ScanSound
  <2>2. CASE ~ scanning
    <3>1. i = 0 /\ copyStart = 0 /\ Len(Merged) \in Nat
      BY <1>1, <2>2, MergedLaidOut DEF IInv, ScanTyped
    <3> QED
      BY <3>1
  <2> QED
    BY <2>1, <2>2
<1>4. text \in Seq(Char) /\ map \in SpanMap
  <2>1. << >> \in Seq(Char) /\ << >> \in SpanMap
    BY DEF SpanMap
  <2> QED
    BY <2>1 DEF IInv, ScanTyped, ScanSound
<1>5. \A s \in Sqls : s \in Sql
  BY SqlsSound
<1>6. /\ dialect \in Dialect /\ scanning \in BOOLEAN /\ next \in 0 .. Len(body)
      /\ paths \in Seq([value : Seq(Char), span : Span]) /\ diags \in Seq(Span)
  BY DEF IInv, Reading, ScanTyped, Path
<1> QED
  BY <1>1, <1>2, <1>3, <1>4, <1>5, <1>6 DEF TypeOK

(* The scan position stays within the merged text, what is copied never    *)
(* passes it, the spans of runs stay within the source, and every text     *)
(* there is has its type, for every set of bodies.                         *)
THEOREM TextTyped == Spec => []TypeOK
BY Invariance, Types, PTL

(* Through scanning, assembling, stripping and adding, every span map      *)
(* there is stays strictly increasing, covers the first character of its   *)
(* text, and has no entry at or past its end, for every set of bodies and  *)
(* through any nesting of wrappers.                                        *)
THEOREM SpanMapsAlwaysSound == Spec => []SpanMapsSound
BY Invariance, SoundMaps, PTL

(* Whatever stands in the whole stands in one of them.                     *)
LEMMA JoinsFound ==
  ASSUME NEW S, NEW ss \in Seq(Seq(S)), NEW o \in 1 .. Len(Joins(ss)[Len(ss)])
  PROVE  \E k \in 1 .. Len(ss) : Len(Joins(ss)[k - 1]) < o /\ o <= Len(Joins(ss)[k])
<1> DEFINE f == Joins(ss)
           n == Len(ss)
           K == {k \in 0 .. n : o <= Len(f[k])}
<1>1. n \in Nat /\ (\A k \in 0 .. n : f[k] \in Seq(S)) /\ f[0] = << >>
  <2>1. f \in [0 .. n -> Seq(S)] /\ f[0] = << >>
    BY JoinsGrow, Zenon
  <2>2. n \in Nat
    OBVIOUS
  <2> HIDE DEF f, n
  <2> QED
    BY <2>1, <2>2
<1>2. \A k \in 0 .. n : Len(f[k]) \in Nat
  BY <1>1
<1> HIDE DEF f, n
<1>3. K \subseteq Nat /\ n \in K /\ o \in Nat /\ 0 \notin K
  <2>1. Len(f[n]) \in Nat /\ o \in 1 .. Len(f[n]) /\ Len(f[0]) = 0
    BY <1>1, <1>2 DEF f, n
  <2> QED
    BY <1>1, <2>1
<1>4. PICK k \in K : \A j \in K : k <= j
  <2> HIDE DEF K
  <2> QED
    BY <1>3, NatLeast
<1>5. k \in 1 .. n /\ k - 1 \in 0 .. n
  BY <1>1, <1>3, <1>4
<1>6. k - 1 \notin K
  BY <1>4, <1>5
<1> QED
  BY <1>2, <1>3, <1>4, <1>5, <1>6 DEF f, n

-------------------------------------------------------------------------------
(* The source is a sequence of characters.                                 *)
LEMMA SourceTyped ==
  ASSUME body \in Seq(BodyEvent)
  PROVE  Source \in Seq(SourceChar)
<1> DEFINE raws == [k \in DOMAIN body |-> Raw(body[k])]
<1>1. raws \in Seq(Seq(SourceChar)) /\ Len(raws) = Len(body) /\ Len(body) \in Nat
  BY RawSpelled
<1>2. SourceUpTo = Joins(raws)
  BY DEF SourceUpTo
<1> HIDE DEF raws
<1>3. Joins(raws) \in [0 .. Len(raws) -> Seq(SourceChar)]
  BY <1>1, JoinsGrow
<1>4. Len(raws) \in 0 .. Len(raws)
  BY <1>1
<1> QED
  BY <1>1, <1>2, <1>3, <1>4 DEF Source

(* Where the bytes of the source are from.                                 *)

(* Where an event stands, what stands there, and what is before it.        *)
LEMMA EventLaidOut ==
  ASSUME body \in Seq(BodyEvent), NEW k \in 1 .. Len(body)
  PROVE  /\ StartOf(k) \in Nat /\ Len(Raw(body[k])) \in Nat /\ Len(Source) \in Nat
         /\ StartOf(k) + Len(Raw(body[k])) <= Len(Source)
         /\ \A m \in 1 .. Len(Raw(body[k])) : Source[StartOf(k) + m] = Raw(body[k])[m]
         /\ \A j \in 1 .. Len(body) : j < k => StartOf(j) + Len(Raw(body[j])) <= StartOf(k)
         /\ \A j \in 1 .. Len(body) : j + 1 = k => StartOf(j) + Len(Raw(body[j])) = StartOf(k)
<1> DEFINE raws == [j \in DOMAIN body |-> Raw(body[j])]
           f == Joins(raws)
           n == Len(body)
<1>1. n \in Nat /\ DOMAIN body = 1 .. n /\ \A j \in 1 .. n : Raw(body[j]) \in Seq(SourceChar)
  BY RawSpelled
<1>2. raws \in Seq(Seq(SourceChar)) /\ Len(raws) = n /\ \A j \in 1 .. n : raws[j] = Raw(body[j])
  BY <1>1
<1>3. SourceUpTo = f
  BY DEF SourceUpTo
<1> HIDE DEF raws
<1>4. \A j \in 1 .. n : StartOf(j) = Len(f[j - 1])
  BY <1>3 DEF StartOf
<1>5. Source = f[n]
  BY <1>3 DEF Source
<1>6. \A j \in 1 .. n :
        /\ Len(f[j - 1]) \in Nat /\ Len(raws[j]) \in Nat
        /\ Len(f[j]) = Len(f[j - 1]) + Len(raws[j])
        /\ Len(f[j]) <= Len(f[n])
        /\ \A m \in 1 .. Len(raws[j]) : f[n][Len(f[j - 1]) + m] = raws[j][m]
  <2> TAKE j \in 1 .. n
  <2>1. j \in 1 .. Len(raws) /\ n = Len(raws)
    BY <1>2
  <2> HIDE DEF n
  <2>2. /\ Len(f[j - 1]) \in Nat /\ Len(raws[j]) \in Nat /\ raws[j] \in Seq(SourceChar)
        /\ Len(f[j]) = Len(f[j - 1]) + Len(raws[j])
        /\ Len(f[j]) <= Len(f[Len(raws)])
        /\ \A m \in 1 .. Len(raws[j]) : f[Len(raws)][Len(f[j - 1]) + m] = raws[j][m]
    BY <1>2, <2>1, JoinsHold, Zenon
  <2> QED
    BY <2>1, <2>2, Zenon
<1>7. \A j \in 0 .. n : \A l \in 0 .. j : Len(f[l]) <= Len(f[j])
  BY <1>2, JoinsGrow
<1>8. Len(Source) \in Nat
  BY SourceLaidOut
<1> HIDE DEF f, n
<1>9. k \in 1 .. n
  BY DEF n
<1>10. ASSUME NEW j \in 1 .. n, j < k
       PROVE  StartOf(j) + Len(Raw(body[j])) <= StartOf(k)
  <2>1. k - 1 \in 0 .. n /\ j \in 0 .. k - 1
    BY <1>1, <1>9, <1>10
  <2>2. Len(f[j]) <= Len(f[k - 1])
    BY <1>7, <2>1
  <2> QED
    BY <1>2, <1>4, <1>6, <1>9, <2>2
<1>11. ASSUME NEW j \in 1 .. n, j + 1 = k
       PROVE  StartOf(j) + Len(Raw(body[j])) = StartOf(k)
  <2>1. j = k - 1
    BY <1>1, <1>9, <1>11
  <2> QED
    BY <1>2, <1>4, <1>6, <1>9, <2>1
<1>12. /\ StartOf(k) = Len(f[k - 1]) /\ raws[k] = Raw(body[k]) /\ Source = f[n]
       /\ Len(f[k - 1]) \in Nat /\ Len(raws[k]) \in Nat
       /\ Len(f[k]) = Len(f[k - 1]) + Len(raws[k]) /\ Len(f[k]) <= Len(f[n])
       /\ \A m \in 1 .. Len(raws[k]) : f[n][Len(f[k - 1]) + m] = raws[k][m]
  BY <1>2, <1>4, <1>5, <1>6, <1>9, Zenon
<1>13. /\ StartOf(k) \in Nat /\ Len(Raw(body[k])) \in Nat
       /\ StartOf(k) + Len(Raw(body[k])) <= Len(Source)
       /\ \A m \in 1 .. Len(Raw(body[k])) : Source[StartOf(k) + m] = Raw(body[k])[m]
  BY <1>12, Zenon
<1> QED
  BY <1>8, <1>10, <1>11, <1>13, Zenon DEF n

(* What an event that is text has in the source.                           *)
LEMMA RawOfText ==
  ASSUME NEW e \in BodyEvent
  PROVE  /\ e.type = "text" => Raw(e) = e.chars
         /\ e.type = "ref" => Len(Raw(e)) = 3
         /\ e.type = "cdata" => /\ Len(Raw(e)) = Len(e.chars) + 2
                                /\ \A m \in 1 .. Len(e.chars) : Raw(e)[m + 1] = e.chars[m]
         /\ e.type \notin TextType => Raw(e) = <<"<">>
<1>1. e.type = "text" => Raw(e) = e.chars
  BY Zenon DEF Raw
<1>2. e.type = "ref" => Len(Raw(e)) = 3
  <2> HAVE e.type = "ref"
  <2>1. Raw(e) = <<"&", "r", ";">>
    BY Zenon DEF Raw
  <2>2. Len(<<"&", "r", ";">>) = 3
    OBVIOUS
  <2> QED
    BY <2>1, <2>2, Zenon
<1>3. ASSUME e.type = "cdata"
      PROVE  /\ Len(Raw(e)) = Len(e.chars) + 2
             /\ \A m \in 1 .. Len(e.chars) : Raw(e)[m + 1] = e.chars[m]
  <2> DEFINE s == <<"<">>
             u == <<">">>
             c == e.chars
  <2>1. Raw(e) = s \o c \o u
    BY <1>3, Zenon DEF Raw
  <2>2. s \in Seq(SourceChar) /\ Len(s) = 1 /\ u \in Seq(SourceChar)
    BY DEF SourceChar
  <2>3. c \in Seq(SourceChar)
    <3>1. c \in Seq(Alphabet)
      BY <1>3, EventTypes DEF TextType, Chars
    <3>2. Alphabet \subseteq SourceChar
      BY Zenon DEF SourceChar
    <3>3. \A q \in Seq(Alphabet) : q \in Seq(SourceChar)
      BY <3>2
    <3> QED
      BY <3>1, <3>3, Zenon
  <2> HIDE DEF s, u, c
  <2>4. /\ s \o c \in Seq(SourceChar) /\ Len(s \o c) = 1 + Len(c) /\ Len(c) \in Nat
        /\ \A m \in 1 .. Len(c) : (s \o c)[1 + m] = c[m]
    <3>1. /\ s \o c \in Seq(SourceChar) /\ Len(s \o c) = Len(s) + Len(c)
          /\ \A m \in 1 .. Len(c) : (s \o c)[Len(s) + m] = c[m]
      <4>1. \A a, b \in Seq(SourceChar) :
              /\ a \o b \in Seq(SourceChar) /\ Len(a \o b) = Len(a) + Len(b)
              /\ \A m \in 1 .. Len(b) : (a \o b)[Len(a) + m] = b[m]
        OBVIOUS
      <4> QED
        BY <2>2, <2>3, <4>1, Zenon
    <3>2. Len(c) \in Nat
      BY <2>3
    <3> QED
      BY <2>2, <3>1, <3>2, Zenon
  <2> DEFINE v == s \o c
  <2> HIDE DEF v
  <2>5. \A m \in 1 .. Len(v) : (v \o u)[m] = v[m]
    BY <2>2, <2>4, Joined DEF v
  <2>6. \A m \in 1 .. Len(c) : m + 1 \in 1 .. Len(v) /\ v[m + 1] = c[m]
    <3> TAKE m \in 1 .. Len(c)
    <3>1. 1 + m = m + 1 /\ m + 1 \in 1 .. Len(v)
      BY <2>4 DEF v
    <3> QED
      BY <2>4, <3>1 DEF v
  <2>7. \A m \in 1 .. Len(c) : (v \o u)[m + 1] = c[m]
    BY <2>5, <2>6
  <2>8. Len(Raw(e)) = Len(e.chars) + 2
    BY <1>3, RawSpelled
  <2> QED
    BY <2>1, <2>7, <2>8 DEF v, c
<1>4. e.type \notin TextType => Raw(e) = <<"<">>
  <2> HAVE e.type \notin TextType
  <2>1. e.type # "text" /\ e.type # "cdata" /\ e.type # "ref"
    BY DEF TextType
  <2> QED
    BY <2>1, Zenon DEF Raw
<1> QED
  BY <1>1, <1>2, <1>3, <1>4

(* Every event takes up room in the source.                                *)
LEMMA RawNotEmpty ==
  ASSUME body \in Seq(BodyEvent), Captured(body), NEW k \in 1 .. Len(body)
  PROVE  Len(Raw(body[k])) >= 1
<1> DEFINE e == body[k]
<1>1. e \in BodyEvent /\ k \in DOMAIN body
  OBVIOUS
<1>2. e.type = "text" => e.chars # << >>
  BY <1>1 DEF Captured
<1>3. e.type \in TextType => e.chars \in Seq(Alphabet)
  BY <1>1, EventTypes DEF Chars
<1> HIDE DEF e
<1>4. CASE e.type = "text"
  <2>1. Raw(e) = e.chars /\ e.chars \in Seq(Alphabet) /\ e.chars # << >>
    BY <1>1, <1>2, <1>3, <1>4, RawOfText DEF TextType
  <2> DEFINE c == e.chars
  <2> HIDE DEF c
  <2>2. Len(c) >= 1
    BY <2>1 DEF c
  <2> QED
    BY <2>1, <2>2 DEF c, e
<1>5. CASE e.type = "cdata"
  <2>1. Len(Raw(e)) = Len(e.chars) + 2 /\ Len(e.chars) \in Nat
    BY <1>1, <1>3, <1>5, RawOfText DEF TextType
  <2> QED
    BY <2>1 DEF e
<1>6. CASE e.type = "ref"
  BY <1>1, <1>6, RawOfText, SMTT(30) DEF e
<1>7. CASE e.type \notin TextType
  <2>1. Raw(e) = <<"<">>
    BY <1>1, <1>7, RawOfText
  <2>2. Len(<<"<">>) = 1
    OBVIOUS
  <2> QED
    BY <2>1, <2>2 DEF e
<1> QED
  BY <1>4, <1>5, <1>6, <1>7 DEF TextType

(* Where the segment of a text event lies, and that a verbatim one reads   *)
(* as the source does there.                                               *)
LEMMA SegmentLaidOut ==
  ASSUME body \in Seq(BodyEvent), Captured(body), NEW k \in 1 .. Len(body),
         body[k].type \in TextType
  PROVE  /\ Segment(k).start \in Nat /\ Segment(k).end \in Nat
         /\ Segment(k).decoded \in Seq(Alphabet)
         /\ StartOf(k) <= Segment(k).start
         /\ Segment(k).end <= StartOf(k) + Len(Raw(body[k]))
         /\ body[k].type # "cdata" => Segment(k).start = StartOf(k)
         /\ body[k].type = "cdata" => Segment(k).start = StartOf(k) + 1
         /\ ~ Verbatim(Segment(k)) => Len(Segment(k).decoded) = 1
         /\ Verbatim(Segment(k)) =>
              /\ Segment(k).end = Segment(k).start + Len(Segment(k).decoded)
              /\ \A m \in 1 .. Len(Segment(k).decoded) :
                   Source[Segment(k).start + m] = Segment(k).decoded[m]
<1> DEFINE e == body[k]
           c == e.chars
           d == IF e.type = "cdata" THEN 1 ELSE 0
           from == StartOf(k)
           wide == Len(Raw(e))
           s == Segment(k)
<1>1. e \in BodyEvent /\ c \in Seq(Alphabet) /\ k \in DOMAIN body
  <2>1. e \in BodyEvent
    OBVIOUS
  <2> QED
    BY <2>1, EventTypes DEF Chars
<1>2. from \in Nat /\ wide \in Nat /\ \A m \in 1 .. wide : Source[from + m] = Raw(e)[m]
  BY EventLaidOut
<1>3. s = [decoded |-> c, start |-> from + d, end |-> from + wide - d]
  BY DEF Segment
<1>4. e.type = "ref" => Len(c) = 1 \/ c = Raw(e)
  BY <1>1 DEF Captured
<1>5. e.type \in {"text", "cdata", "ref"}
  BY DEF TextType
<1>6. /\ e.type = "text" => Raw(e) = c
      /\ e.type = "ref" => wide = 3
      /\ e.type = "cdata" => wide = Len(c) + 2 /\ \A m \in 1 .. Len(c) : Raw(e)[m + 1] = c[m]
  BY <1>1, RawOfText
<1>7. Len(c) \in Nat
  BY <1>1
<1>8. s.decoded = c /\ s.start = from + d /\ s.end = from + wide - d
  BY <1>3
<1>9. Verbatim(s) <=> Len(c) = s.end - s.start
  BY <1>8, Zenon DEF Verbatim
<1>10. CASE e.type = "text"
  <2>1. d = 0 /\ wide = Len(c) /\ Raw(e) = c
    BY <1>6, <1>10
  <2> HIDE DEF d, c, from, wide, s
  <2>2. s.start = from /\ s.end = from + Len(c) /\ Verbatim(s)
    BY <1>2, <1>7, <1>8, <1>9, <2>1
  <2>3. \A m \in 1 .. Len(c) : Source[from + m] = c[m]
    BY <1>2, <2>1
  <2> QED
    BY <1>1, <1>2, <1>7, <1>8, <1>10, <2>1, <2>2, <2>3 DEF s, from, e, wide
<1>11. CASE e.type = "cdata"
  <2>1. d = 1 /\ wide = Len(c) + 2 /\ \A m \in 1 .. Len(c) : Raw(e)[m + 1] = c[m]
    BY <1>6, <1>11
  <2> HIDE DEF d, c, from, wide, s
  <2>2. s.start = from + 1 /\ s.end = from + 1 + Len(c) /\ Verbatim(s)
    BY <1>2, <1>7, <1>8, <1>9, <2>1
  <2>3. \A m \in 1 .. Len(c) : Source[from + 1 + m] = c[m]
    <3> TAKE m \in 1 .. Len(c)
    <3>1. m + 1 \in 1 .. wide /\ from + 1 + m = from + (m + 1)
      BY <1>2, <1>7, <2>1
    <3> QED
      BY <1>2, <2>1, <3>1
  <2> QED
    BY <1>1, <1>2, <1>7, <1>8, <1>11, <2>1, <2>2, <2>3 DEF s, from, e, wide
<1>12. CASE e.type = "ref"
  <2>1. d = 0 /\ wide = 3
    BY <1>6, <1>12
  <2> HIDE DEF d, c, from, wide, s
  <2>2. s.start = from /\ s.end = from + 3
    BY <1>2, <1>8, <2>1
  <2>3. CASE Len(c) = 1
    <3>1. ~ Verbatim(s)
      BY <1>2, <1>9, <2>2, <2>3
    <3> QED
      BY <1>1, <1>2, <1>7, <1>8, <1>12, <2>1, <2>2, <2>3, <3>1 DEF s, from, e, wide
  <2>4. CASE c = Raw(e)
    <3>1. Len(c) = 3
      BY <2>1, <2>4 DEF wide
    <3>2. Verbatim(s) /\ s.end = s.start + Len(c)
      BY <1>2, <1>9, <2>2, <3>1
    <3>3. \A m \in 1 .. Len(c) : Source[from + m] = c[m]
      BY <1>2, <2>1, <2>4, <3>1
    <3> QED
      BY <1>1, <1>2, <1>7, <1>8, <1>12, <2>1, <2>2, <3>2, <3>3 DEF s, from, e, wide
  <2> QED
    BY <1>4, <1>12, <2>3, <2>4 DEF c
<1> QED
  BY <1>5, <1>10, <1>11, <1>12

(* A byte belongs to one event.                                            *)
LEMMA OneEvent ==
  ASSUME body \in Seq(BodyEvent), NEW j \in 1 .. Len(body), NEW k \in 1 .. Len(body),
         NEW p \in Int,
         StartOf(j) <= p, p < StartOf(j) + Len(Raw(body[j])),
         StartOf(k) <= p, p < StartOf(k) + Len(Raw(body[k]))
  PROVE  j = k
<1>1. StartOf(j) \in Nat /\ Len(Raw(body[j])) \in Nat
      /\ (k < j => StartOf(k) + Len(Raw(body[k])) <= StartOf(j))
  BY EventLaidOut
<1>2. StartOf(k) \in Nat /\ Len(Raw(body[k])) \in Nat
      /\ (j < k => StartOf(j) + Len(Raw(body[j])) <= StartOf(k))
  BY EventLaidOut
<1> QED
  BY <1>1, <1>2

(* A byte of a verbatim segment: characters that come from it are its own. *)
ExactByte(p) ==
  \E k \in DOMAIN body :
    /\ body[k].type \in TextType /\ Verbatim(Segment(k))
    /\ Segment(k).start <= p /\ p < Segment(k).end

(* The byte in front of a segment is one only if the event before is a     *)
(* verbatim segment that ends there.                                       *)
LEMMA ByteBefore ==
  ASSUME body \in Seq(BodyEvent), Captured(body), NEW k \in 1 .. Len(body),
         body[k].type \in TextType, ExactByte(Segment(k).start - 1)
  PROVE  \E j \in 1 .. Len(body) :
           /\ j + 1 = k /\ body[j].type \in TextType /\ Verbatim(Segment(j))
           /\ Segment(j).end = Segment(k).start /\ Segment(j).start < Segment(j).end
<1> DEFINE p == Segment(k).start - 1
           n == Len(body)
<1>1. PICK j \in 1 .. n : /\ body[j].type \in TextType /\ Verbatim(Segment(j))
                          /\ Segment(j).start <= p /\ p < Segment(j).end
  BY DEF ExactByte
<1>2. /\ Segment(k).start \in Nat
      /\ body[k].type # "cdata" => Segment(k).start = StartOf(k)
      /\ body[k].type = "cdata" => Segment(k).start = StartOf(k) + 1
  BY SegmentLaidOut
<1>3. /\ Segment(j).start \in Nat /\ Segment(j).end \in Nat /\ StartOf(j) <= Segment(j).start
      /\ Segment(j).end <= StartOf(j) + Len(Raw(body[j]))
  BY <1>1, SegmentLaidOut
<1>4. StartOf(k) \in Nat /\ Len(Raw(body[k])) \in Nat /\ Len(Raw(body[k])) >= 1
  BY EventLaidOut, RawNotEmpty
<1>5. StartOf(j) \in Nat /\ Len(Raw(body[j])) \in Nat
      /\ (k < j => StartOf(k) + Len(Raw(body[k])) <= StartOf(j))
  BY EventLaidOut
<1>6. j < k => StartOf(j) + Len(Raw(body[j])) <= StartOf(k)
  BY EventLaidOut
<1>7. p \in Int /\ j # k
  BY <1>1, <1>2
<1>8. body[k].type # "cdata"
  <2> SUFFICES ASSUME body[k].type = "cdata" PROVE FALSE
    OBVIOUS
  <2>1. p = StartOf(k)
    BY <1>2, <1>4
  <2>2. StartOf(j) <= p /\ p < StartOf(j) + Len(Raw(body[j]))
    BY <1>1, <1>3, <1>5, <1>7
  <2>3. StartOf(k) <= p /\ p < StartOf(k) + Len(Raw(body[k]))
    BY <1>4, <2>1
  <2> HIDE DEF p
  <2> QED
    BY <1>7, <2>2, <2>3, OneEvent
<1>9. j < k /\ Segment(j).end = StartOf(k) /\ StartOf(j) + Len(Raw(body[j])) = StartOf(k)
  <2> DEFINE a == StartOf(k)
             b == StartOf(j)
             w == Len(Raw(body[j]))
             v == Len(Raw(body[k]))
             e == Segment(j).end
             f == Segment(j).start
  <2>1. /\ a \in Nat /\ b \in Nat /\ w \in Nat /\ v \in Nat /\ v >= 1
        /\ e \in Nat /\ f \in Nat /\ b <= f /\ e <= b + w
    BY <1>3, <1>4, <1>5
  <2>2. k < j => a + v <= b
    BY <1>5
  <2>3. j < k => b + w <= a
    BY <1>6
  <2>4. p = a - 1 /\ f <= p /\ p < e
    BY <1>1, <1>2, <1>8
  <2>5. j \in Int /\ k \in Int /\ j # k /\ p \in Int
    BY <1>7
  <2> HIDE DEF a, b, w, v, e, f, p
  <2>6. ~ k < j
    BY <2>1, <2>2, <2>4, <2>5
  <2>7. j < k
    BY <2>5, <2>6
  <2>8. e = a /\ b + w = a
    BY <2>1, <2>3, <2>4, <2>5, <2>7
  <2> QED
    BY <2>7, <2>8 DEF a, b, w, e
<1>10. j + 1 = k
  <2> SUFFICES ASSUME j + 1 # k PROVE FALSE
    OBVIOUS
  <2>1. j + 1 \in 1 .. n /\ j + 1 < k
    BY <1>9
  <2> DEFINE l == j + 1
  <2>2. l \in 1 .. Len(body) /\ j + 1 = l
    BY <2>1
  <2> HIDE DEF l
  <2>3. StartOf(j) + Len(Raw(body[j])) = StartOf(l)
    BY <2>2, EventLaidOut
  <2>4. l < k => StartOf(l) + Len(Raw(body[l])) <= StartOf(k)
    BY <2>2, EventLaidOut
  <2>5. Len(Raw(body[l])) >= 1 /\ Len(Raw(body[l])) \in Nat /\ StartOf(l) \in Nat
    BY <2>2, EventLaidOut, RawNotEmpty
  <2> QED
    BY <1>4, <1>9, <2>1, <2>3, <2>4, <2>5 DEF l
<1> QED
  BY <1>1, <1>2, <1>3, <1>7, <1>8, <1>9, <1>10

(* The characters of the merged text, by the run they are from.            *)
LEMMA CharOfRun ==
  ASSUME runs \in Seq(TextRun), NEW o \in 0 .. Len(Merged) - 1
  PROVE  LET k == LayoutFor(o)
             m == o - MergedStart(k) + 1
         IN  /\ k \in DOMAIN runs /\ MergedStart(k) \in Nat /\ MergedStart(k) <= o
             /\ m \in 1 .. Len(runs[k].decoded)
             /\ Merged[o + 1].ch = runs[k].decoded[m]
             /\ Merged[o + 1].at = RawOffset(k, o)
             /\ Merged[o + 1].kind = IF Verbatim(runs[k]) THEN "exact" ELSE "coarse"
<1> DEFINE parts == [k \in DOMAIN runs |-> RunChars(runs[k])]
           n == Len(runs)
           f == Joins(parts)
<1>1. n \in Nat /\ DOMAIN runs = 1 .. n /\ \A k \in 1 .. n : RunChars(runs[k]) \in Seq(Char)
  BY RunCharsTyped
<1>2. parts \in Seq(Seq(Char)) /\ Len(parts) = n /\ \A k \in 1 .. n : parts[k] = RunChars(runs[k])
  BY <1>1
<1>3. MergedUpTo = f
  BY DEF MergedUpTo
<1>4. Merged = f[n] /\ \A k \in 1 .. n : MergedStart(k) = Len(f[k - 1])
  BY <1>1, <1>3 DEF Merged, MergedStart
<1> HIDE DEF parts
<1>5. o \in Nat /\ o + 1 \in 1 .. Len(f[n]) /\ Len(Merged) \in Nat
  <2>1. Len(Merged) \in Nat
    BY MergedLaidOut
  <2> HIDE DEF f, n
  <2> QED
    BY <1>4, <2>1
<1>6. PICK k \in 1 .. n : Len(f[k - 1]) < o + 1 /\ o + 1 <= Len(f[k])
  <2>1. o + 1 \in 1 .. Len(Joins(parts)[Len(parts)])
    BY <1>2, <1>5
  <2>2. \E k \in 1 .. Len(parts) : Len(f[k - 1]) < o + 1 /\ o + 1 <= Len(f[k])
    BY <1>2, <2>1, JoinsFound, Zenon
  <2> QED
    BY <1>2, <2>2
<1>7. /\ Len(f[k - 1]) \in Nat /\ Len(parts[k]) \in Nat
      /\ Len(f[k]) = Len(f[k - 1]) + Len(parts[k])
      /\ \A m \in 1 .. Len(parts[k]) : f[n][Len(f[k - 1]) + m] = parts[k][m]
  <2>1. k \in 1 .. Len(parts) /\ n = Len(parts)
    BY <1>2
  <2>2. /\ Len(f[k - 1]) \in Nat /\ Len(parts[k]) \in Nat /\ parts[k] \in Seq(Char)
        /\ Len(f[k]) = Len(f[k - 1]) + Len(parts[k])
        /\ Len(f[k]) <= Len(f[Len(parts)])
        /\ \A m \in 1 .. Len(parts[k]) : f[Len(parts)][Len(f[k - 1]) + m] = parts[k][m]
    BY <1>2, <2>1, JoinsHold, Zenon
  <2> QED
    BY <2>1, <2>2, Zenon
<1>8. \A l \in 1 .. n : k < l => Len(f[k]) <= MergedStart(l)
  <2> TAKE l \in 1 .. n
  <2> HAVE k < l
  <2>1. l - 1 \in 0 .. Len(parts) /\ k \in 0 .. l - 1
    BY <1>1, <1>2
  <2>2. \A p \in 0 .. Len(parts) : \A q \in 0 .. p : Len(f[q]) <= Len(f[p])
    BY <1>2, JoinsGrow, Zenon
  <2> HIDE DEF f
  <2> QED
    BY <1>4, <2>1, <2>2
<1> DEFINE r == runs[k]
           m == o - MergedStart(k) + 1
<1>9. MergedStart(k) = Len(f[k - 1]) /\ MergedStart(k) \in Nat /\ MergedStart(k) <= o
      /\ m \in 1 .. Len(parts[k]) /\ Len(f[k - 1]) + m = o + 1
  <2> DEFINE a == Len(f[k - 1])
             b == Len(f[k])
             c == Len(parts[k])
  <2>1. a \in Nat /\ c \in Nat /\ b = a + c /\ a < o + 1 /\ o + 1 <= b
    BY <1>6, <1>7
  <2>2. MergedStart(k) = a
    BY <1>4
  <2> HIDE DEF a, b, c
  <2>3. a <= o /\ o - a + 1 \in 1 .. c /\ a + (o - a + 1) = o + 1
    BY <1>5, <2>1
  <2> QED
    BY <2>1, <2>2, <2>3 DEF a, c
<1>10. LayoutFor(o) = k
  <2> DEFINE K == {1} \cup {l \in DOMAIN runs : MergedStart(l) <= o}
  <2>1. k \in K /\ K \subseteq 1 .. n
    <3>1. 1 \in 1 .. n
      BY <1>1, <1>6
    <3> QED
      BY <1>1, <1>9, <3>1
  <2>2. \A l \in K : l <= k
    <3> TAKE l \in K
    <3>1. l \in 1 .. n /\ (l = 1 \/ MergedStart(l) <= o)
      BY <2>1
    <3>2. CASE k < l
      <4>1. Len(f[k]) <= MergedStart(l) /\ MergedStart(l) \in Nat /\ Len(f[k]) \in Nat
        <5>1. MergedStart(l) \in Nat
          BY <1>1, <3>1, MergedLaidOut
        <5>2. Len(f[k]) \in Nat
          <6> DEFINE a == Len(f[k - 1])
                     c == Len(parts[k])
          <6>1. a \in Nat /\ c \in Nat /\ Len(f[k]) = a + c
            BY <1>7
          <6> HIDE DEF a, c, f
          <6> QED
            BY <6>1
        <5> QED
          BY <1>8, <3>1, <3>2, <5>1, <5>2
      <4>2. l # 1
        BY <1>6, <3>2
      <4> HIDE DEF f
      <4> QED
        BY <1>5, <1>6, <3>1, <4>1, <4>2
    <3> QED
      BY <1>1, <3>1, <3>2
  <2>3. LayoutFor(o) = Max(K)
    BY DEF LayoutFor
  <2> HIDE DEF K
  <2>4. K \subseteq 0 .. n /\ K # {}
    BY <1>1, <2>1
  <2>5. Max(K) \in K /\ \A l \in K : l <= Max(K)
    BY <1>1, <2>4, MaxIsGreatest
  <2>6. Max(K) <= k /\ k <= Max(K) /\ Max(K) \in 1 .. n
    BY <2>1, <2>2, <2>5
  <2> QED
    BY <1>1, <2>3, <2>6
<1>11. Merged[o + 1] = RunChars(r)[m] /\ DOMAIN r.decoded = 1 .. Len(r.decoded)
       /\ Len(parts[k]) = Len(r.decoded)
  <2>1. Merged[o + 1] = parts[k][m]
    <3> HIDE DEF f, m
    <3> QED
      BY <1>4, <1>7, <1>9
  <2>2. parts[k] = RunChars(r)
    BY <1>2
  <2>3. r.decoded \in Seq(Alphabet)
    <3>1. r \in TextRun
      BY <1>1
    <3> QED
      BY <3>1, RunParts DEF Chars
  <2>4. DOMAIN r.decoded = 1 .. Len(r.decoded) /\ Len(r.decoded) \in Nat
    BY <2>3
  <2>5. DOMAIN RunChars(r) = DOMAIN r.decoded
    BY DEF RunChars
  <2>6. RunChars(r) \in Seq(Char)
    BY <1>1
  <2> DEFINE g == RunChars(r)
             c == r.decoded
  <2> HIDE DEF g, c
  <2>7. Len(g) = Len(c)
    <3>1. DOMAIN g = 1 .. Len(c) /\ Len(c) \in Nat /\ g \in Seq(Char)
      BY <2>4, <2>5, <2>6 DEF g, c
    <3> QED
      BY <3>1
  <2> QED
    BY <2>1, <2>2, <2>4, <2>7 DEF g, c
<1>12. r.start + m - 1 = r.start + (o - MergedStart(k))
  <2>1. r \in TextRun
    BY <1>1
  <2>2. r.start \in Nat
    BY <2>1, RunParts
  <2> DEFINE a == r.start
             b == MergedStart(k)
  <2>3. a \in Nat /\ b \in Nat
    BY <1>9, <2>2
  <2> HIDE DEF a, b, r
  <2>4. a + (o - b + 1) - 1 = a + (o - b)
    BY <1>5, <2>3
  <2> QED
    BY <2>4 DEF a, b
<1>13. /\ Merged[o + 1].ch = r.decoded[m]
       /\ Merged[o + 1].at = RawOffset(k, o)
       /\ Merged[o + 1].kind = IF Verbatim(r) THEN "exact" ELSE "coarse"
  <2> HIDE DEF m
  <2>1. m \in DOMAIN r.decoded
    BY <1>9, <1>11
  <2>2. RunChars(r)[m] = IF Verbatim(r)
                         THEN [ch |-> r.decoded[m], at |-> r.start + m - 1, kind |-> "exact"]
                         ELSE [ch |-> r.decoded[m], at |-> r.start, kind |-> "coarse"]
    BY <2>1 DEF RunChars
  <2> HIDE DEF r
  <2>3. CASE Verbatim(r)
    <3>1. Merged[o + 1] = [ch |-> r.decoded[m], at |-> r.start + m - 1, kind |-> "exact"]
      BY <1>11, <2>2, <2>3, Zenon
    <3>2. RawOffset(k, o) = r.start + (o - MergedStart(k))
      BY <2>3, Zenon DEF RawOffset, r
    <3> QED
      BY <1>12, <2>3, <3>1, <3>2
  <2>4. CASE ~ Verbatim(r)
    <3>1. Merged[o + 1] = [ch |-> r.decoded[m], at |-> r.start, kind |-> "coarse"]
      BY <1>11, <2>2, <2>4, Zenon
    <3>2. RawOffset(k, o) = r.start
      BY <2>4, Zenon DEF RawOffset, r
    <3> QED
      BY <2>4, <3>1, <3>2
  <2> QED
    BY <2>3, <2>4
<1> QED
  BY <1>1, <1>9, <1>10, <1>11, <1>13

(* The runs of a scan are the segments of texts that follow each other.    *)
CutFrom(ks) ==
  /\ ks \in Seq(1 .. Len(body)) /\ Len(ks) = Len(runs)
  /\ \A m \in 1 .. Len(ks) : runs[m] = Segment(ks[m]) /\ body[ks[m]].type \in TextType
  /\ \A l, m \in 1 .. Len(ks) : l < m => ks[l] < ks[m]
  /\ \A m \in 2 .. Len(ks), j \in 1 .. Len(body) :
       j + 1 = ks[m] /\ body[j].type \in TextType => ks[m - 1] = j

(* BeginRun cuts the text so.                                              *)
LEMMA RunsAreCut ==
  ASSUME body \in Seq(BodyEvent), next \in 0 .. Len(body) - 1, Here.type \in TextType
  PROVE  LET ks == TextsIn(next, RunEnd)
         IN  /\ ks \in Seq(1 .. Len(body))
             /\ \A m \in 1 .. Len(ks) : body[ks[m]].type \in TextType
             /\ \A l, m \in 1 .. Len(ks) : l < m => ks[l] < ks[m]
             /\ \A m \in 2 .. Len(ks), j \in 1 .. Len(body) :
                  j + 1 = ks[m] /\ body[j].type \in TextType => ks[m - 1] = j
<1> DEFINE n == RunEnd
           all == [k \in 1 .. n |-> k]
           K == {k \in next + 1 .. n : body[k].type \in TextType}
           ks == Only(all, K)
<1>1. n \in next + 1 .. Len(body) /\ n \in Nat /\ next \in Nat /\ Len(body) \in Nat
  BY RunFound
<1> HIDE DEF n
<1>2. all \in Seq(1 .. n) /\ Len(all) = n /\ \A k \in 1 .. n : all[k] = k
  BY <1>1
<1>3. K \subseteq 1 .. n
  BY <1>1
<1>4. \A k \in K : k \in 1 .. Len(body) /\ body[k].type \in TextType /\ next < k
  BY <1>1
<1>5. \A k \in next + 1 .. n : body[k].type \in TextType => k \in K
  OBVIOUS
<1>6. TextsIn(next, n) = ks
  BY DEF TextsIn
<1> HIDE DEF all, K
<1>7. PICK w : ks \in Seq(1 .. n) /\ Picks(ks, w, all, K, n)
  BY <1>2, OnlyPicks
<1> HIDE DEF ks
<1>8. Len(ks) \in Nat /\ DOMAIN ks = 1 .. Len(ks)
  BY <1>7
<1>9. \A m \in 1 .. Len(ks) : w[m] \in K /\ w[m] \in 1 .. n /\ ks[m] = all[w[m]]
  BY <1>7 DEF Picks
<1>10. \A m \in 1 .. Len(ks) : ks[m] = w[m] /\ ks[m] \in K /\ ks[m] \in 1 .. n
  BY <1>2, <1>9
<1>11. \A l, m \in 1 .. Len(ks) : l < m => ks[l] < ks[m]
  <2>1. \A l, m \in 1 .. Len(ks) : l < m => w[l] < w[m]
    BY <1>7 DEF Picks
  <2> QED
    BY <1>10, <2>1
<1>12. \A k \in K : \E m \in 1 .. Len(ks) : ks[m] = k
  <2>1. \A k \in K : \E m \in 1 .. Len(ks) : w[m] = k
    BY <1>3, <1>7 DEF Picks
  <2> QED
    BY <1>10, <2>1
<1>13. ASSUME NEW m \in 2 .. Len(ks), NEW j \in 1 .. Len(body),
              j + 1 = ks[m], body[j].type \in TextType
       PROVE  ks[m - 1] = j
  <2>1. m \in 1 .. Len(ks) /\ m - 1 \in 1 .. Len(ks) /\ m - 1 < m
    BY <1>8
  <2>2. ks[m - 1] < ks[m] /\ next < ks[m - 1] /\ ks[m] \in 1 .. n /\ ks[m - 1] \in 1 .. n
    BY <1>4, <1>10, <1>11, <2>1
  <2>3. j \in next + 1 .. n /\ ks[m - 1] <= j
    BY <1>1, <1>13, <2>2
  <2>4. PICK l \in 1 .. Len(ks) : ks[l] = j
    BY <1>5, <1>12, <1>13, <2>3
  <2>5. ~ m <= l
    <3> SUFFICES ASSUME m <= l PROVE FALSE
      OBVIOUS
    <3>1. ks[m] <= ks[l]
      <4>1. CASE m = l
        BY <2>2, <4>1
      <4>2. CASE m # l
        BY <1>8, <1>10, <1>11, <2>1, <4>2
      <4> QED
        BY <4>1, <4>2
    <3> QED
      BY <1>13, <2>2, <2>3, <2>4, <3>1
  <2>6. ~ l < m - 1
    <3> SUFFICES ASSUME l < m - 1 PROVE FALSE
      OBVIOUS
    <3>1. ks[l] < ks[m - 1]
      BY <1>11, <2>1
    <3> QED
      BY <1>1, <2>2, <2>3, <2>4, <3>1
  <2>7. l = m - 1
    BY <1>8, <2>1, <2>5, <2>6
  <2> QED
    BY <2>4, <2>7
<1>14. ks \in Seq(1 .. Len(body))
  BY <1>1, <1>7
<1>15. \A m \in 1 .. Len(ks) : body[ks[m]].type \in TextType
  BY <1>4, <1>10
<1> QED
  BY <1>6, <1>11, <1>13, <1>14, <1>15 DEF n

(* Runs follow each other in the merged text.                              *)
LEMMA RunsApart ==
  ASSUME runs \in Seq(TextRun), NEW j \in DOMAIN runs, NEW k \in DOMAIN runs, j < k
  PROVE  MergedStart(j) + Len(runs[j].decoded) <= MergedStart(k)
<1> DEFINE parts == [l \in DOMAIN runs |-> RunChars(runs[l])]
           n == Len(runs)
           f == Joins(parts)
<1>1. n \in Nat /\ DOMAIN runs = 1 .. n /\ \A l \in 1 .. n : RunChars(runs[l]) \in Seq(Char)
  BY RunCharsTyped
<1>2. parts \in Seq(Seq(Char)) /\ Len(parts) = n /\ parts[j] = RunChars(runs[j])
  BY <1>1
<1>3. MergedUpTo = f
  BY DEF MergedUpTo
<1> HIDE DEF parts
<1>4. MergedStart(j) = Len(f[j - 1]) /\ MergedStart(k) = Len(f[k - 1])
  BY <1>3 DEF MergedStart
<1>5. Len(f[j - 1]) \in Nat /\ Len(f[j]) = Len(f[j - 1]) + Len(parts[j])
  <2>1. j \in 1 .. Len(parts)
    BY <1>1, <1>2
  <2>2. /\ Len(f[j - 1]) \in Nat /\ Len(parts[j]) \in Nat /\ parts[j] \in Seq(Char)
        /\ Len(f[j]) = Len(f[j - 1]) + Len(parts[j])
        /\ Len(f[j]) <= Len(f[Len(parts)])
        /\ \A m \in 1 .. Len(parts[j]) : f[Len(parts)][Len(f[j - 1]) + m] = parts[j][m]
    BY <1>2, <2>1, JoinsHold, Zenon
  <2> QED
    BY <2>2
<1>6. Len(f[j]) <= Len(f[k - 1])
  <2>1. k - 1 \in 0 .. Len(parts) /\ j \in 0 .. k - 1
    BY <1>1, <1>2
  <2>2. \A p \in 0 .. Len(parts) : \A q \in 0 .. p : Len(f[q]) <= Len(f[p])
    BY <1>2, JoinsGrow, Zenon
  <2> HIDE DEF f
  <2> QED
    BY <2>1, <2>2
<1>7. Len(parts[j]) = Len(runs[j].decoded)
  <2> DEFINE g == RunChars(runs[j])
             c == runs[j].decoded
  <2>1. c \in Seq(Alphabet)
    <3>1. runs[j] \in TextRun
      OBVIOUS
    <3> QED
      BY <3>1, RunParts DEF Chars
  <2>2. DOMAIN g = DOMAIN c
    BY DEF RunChars
  <2>3. g \in Seq(Char)
    BY <1>1
  <2> HIDE DEF g, c
  <2>4. Len(g) = Len(c)
    BY <2>1, <2>2, <2>3
  <2> QED
    BY <1>2, <2>4 DEF g, c
<1> HIDE DEF f
<1> QED
  BY <1>4, <1>5, <1>6, <1>7

(* An offset within a run belongs to it.                                   *)
LEMMA WithinRun ==
  ASSUME runs \in Seq(TextRun), NEW k \in DOMAIN runs, NEW o \in 0 .. Len(Merged) - 1,
         MergedStart(k) <= o, o < MergedStart(k) + Len(runs[k].decoded)
  PROVE  LayoutFor(o) = k
<1> DEFINE l == LayoutFor(o)
           m == o - MergedStart(l) + 1
<1>1. /\ l \in DOMAIN runs /\ MergedStart(l) \in Nat /\ MergedStart(l) <= o
      /\ m \in 1 .. Len(runs[l].decoded)
  BY CharOfRun
<1>2. MergedStart(k) \in Nat /\ o \in Nat
  BY MergedLaidOut
<1>3. runs[l].decoded \in Chars /\ runs[k].decoded \in Chars
  BY <1>1, RunParts
<1>4. Len(runs[l].decoded) \in Nat /\ Len(runs[k].decoded) \in Nat
  BY <1>3 DEF Chars
<1> HIDE DEF l
<1>5. o < MergedStart(l) + Len(runs[l].decoded)
  BY <1>1, <1>2, <1>4
<1>6. ~ l < k
  <2> SUFFICES ASSUME l < k PROVE FALSE
    OBVIOUS
  <2>1. MergedStart(l) + Len(runs[l].decoded) <= MergedStart(k)
    BY <1>1, RunsApart
  <2> QED
    BY <1>1, <1>2, <1>4, <1>5, <2>1
<1>7. ~ k < l
  <2> SUFFICES ASSUME k < l PROVE FALSE
    OBVIOUS
  <2>1. MergedStart(k) + Len(runs[k].decoded) <= MergedStart(l)
    BY <1>1, RunsApart
  <2> QED
    BY <1>1, <1>2, <1>4, <2>1
<1>8. l = k
  BY <1>1, <1>6, <1>7
<1> QED
  BY <1>8 DEF l

(* A character of a verbatim run is a byte of the source, and comes from   *)
(* the segment its run is.                                                 *)
LEMMA OwnByte ==
  ASSUME body \in Seq(BodyEvent), Captured(body), runs \in Seq(TextRun), NEW ks, CutFrom(ks),
         NEW o \in 0 .. Len(Merged) - 1, Verbatim(runs[LayoutFor(o)])
  PROVE  LET j == ks[LayoutFor(o)]
             c == Merged[o + 1]
         IN  /\ j \in 1 .. Len(body) /\ body[j].type \in TextType /\ Verbatim(Segment(j))
             /\ Segment(j).start <= c.at /\ c.at < Segment(j).end
             /\ c.at \in Nat /\ c.at < Len(Source) /\ Source[c.at + 1] = c.ch
<1> DEFINE k == LayoutFor(o)
           j == ks[k]
           m == o - MergedStart(k) + 1
           s == Segment(j)
<1>1. /\ k \in DOMAIN runs /\ MergedStart(k) \in Nat /\ MergedStart(k) <= o
      /\ m \in 1 .. Len(runs[k].decoded)
      /\ Merged[o + 1].ch = runs[k].decoded[m]
      /\ Merged[o + 1].at = RawOffset(k, o)
  BY CharOfRun
<1> HIDE DEF k
<1>2. j \in 1 .. Len(body) /\ body[j].type \in TextType /\ runs[k] = s
  <2>1. k \in 1 .. Len(ks)
    BY <1>1 DEF CutFrom
  <2> QED
    BY <2>1 DEF CutFrom
<1>3. Verbatim(s) /\ RawOffset(k, o) = s.start + (o - MergedStart(k))
  <2>1. Verbatim(runs[k])
    BY DEF k
  <2> QED
    BY <1>2, <2>1, Zenon DEF RawOffset
<1> HIDE DEF j
<1>4. /\ s.start \in Nat /\ s.end = s.start + Len(s.decoded)
      /\ StartOf(j) <= s.start /\ s.end <= StartOf(j) + Len(Raw(body[j]))
      /\ s.decoded \in Seq(Alphabet)
      /\ \A l \in 1 .. Len(s.decoded) : Source[s.start + l] = s.decoded[l]
  BY <1>2, <1>3, SegmentLaidOut
<1>5. /\ StartOf(j) \in Nat /\ Len(Raw(body[j])) \in Nat /\ Len(Source) \in Nat
      /\ StartOf(j) + Len(Raw(body[j])) <= Len(Source)
  BY <1>2, EventLaidOut
<1> HIDE DEF s
<1>6. o \in Nat /\ Len(s.decoded) \in Nat
  BY <1>4, MergedLaidOut
<1> DEFINE at == s.start + (o - MergedStart(k))
<1>7. at \in Nat /\ s.start <= at /\ at < s.end /\ at < Len(Source) /\ at + 1 = s.start + m
      /\ m \in 1 .. Len(s.decoded)
  <2> DEFINE b == MergedStart(k)
             n == Len(s.decoded)
             x == s.start
             y == s.end
             u == StartOf(j)
             w == Len(Raw(body[j]))
             z == Len(Source)
  <2>1. b \in Nat /\ b <= o /\ o - b + 1 \in 1 .. n /\ n \in Nat
    BY <1>1, <1>2, <1>6
  <2>2. x \in Nat /\ y = x + n /\ y <= u + w
    BY <1>4
  <2>3. u \in Nat /\ w \in Nat /\ z \in Nat /\ u + w <= z
    BY <1>5
  <2>4. at = x + (o - b) /\ m = o - b + 1
    OBVIOUS
  <2> HIDE DEF b, n, x, y, u, w, z, at, m
  <2>5. at \in Nat /\ x <= at /\ at < y /\ at < z /\ at + 1 = x + m /\ m \in 1 .. n
    BY <1>6, <2>1, <2>2, <2>3, <2>4
  <2> QED
    BY <2>5 DEF x, y, z, n
<1>8. Source[at + 1] = s.decoded[m]
  <2> HIDE DEF at, m
  <2>1. m \in 1 .. Len(s.decoded) /\ at + 1 = s.start + m
    BY <1>7
  <2>2. Source[s.start + m] = s.decoded[m]
    BY <1>4, <2>1
  <2> QED
    BY <2>1, <2>2, Zenon
<1>9. Merged[o + 1].at = at /\ Merged[o + 1].ch = s.decoded[m]
  BY <1>1, <1>2, <1>3
<1> HIDE DEF at
<1> QED
  BY <1>2, <1>3, <1>7, <1>8, <1>9 DEF k, j, s

(* A byte belongs to one segment.                                          *)
LEMMA OneSegment ==
  ASSUME body \in Seq(BodyEvent), Captured(body),
         NEW j \in 1 .. Len(body), NEW k \in 1 .. Len(body), NEW p \in Nat,
         body[j].type \in TextType, Segment(j).start <= p, p < Segment(j).end,
         body[k].type \in TextType, Segment(k).start <= p, p < Segment(k).end
  PROVE  k = j
<1>1. StartOf(j) <= p /\ p < StartOf(j) + Len(Raw(body[j]))
  <2>1. /\ StartOf(j) <= Segment(j).start /\ Segment(j).end <= StartOf(j) + Len(Raw(body[j]))
        /\ Segment(j).start \in Nat /\ Segment(j).end \in Nat
    BY SegmentLaidOut
  <2>2. StartOf(j) \in Nat /\ Len(Raw(body[j])) \in Nat
    BY EventLaidOut
  <2> QED
    BY <2>1, <2>2
<1>2. StartOf(k) <= p /\ p < StartOf(k) + Len(Raw(body[k]))
  <2>1. /\ StartOf(k) <= Segment(k).start /\ Segment(k).end <= StartOf(k) + Len(Raw(body[k]))
        /\ Segment(k).start \in Nat /\ Segment(k).end \in Nat
    BY SegmentLaidOut
  <2>2. StartOf(k) \in Nat /\ Len(Raw(body[k])) \in Nat
    BY EventLaidOut
  <2> QED
    BY <2>1, <2>2
<1>3. p \in Int
  OBVIOUS
<1> QED
  BY <1>1, <1>2, <1>3, OneEvent

(* A path that is as PathSpansExact says.                                  *)
PathTrue(v, s) ==
  /\ s[1] = v[1].at
  /\ IF \E k \in DOMAIN body : InSegment(k, v)
     THEN SubSeq(Source, s[1] + 1, s[2]) = Spelling(v)
     ELSE s[2] = s[1]

(* push_path.                                                              *)
LEMMA PathSpanTrue ==
  ASSUME body \in Seq(BodyEvent), Captured(body), runs \in Seq(TextRun), NEW ks, CutFrom(ks),
         NEW from \in Nat, NEW to \in Nat, from < to, to <= Len(Merged)
  PROVE  PathTrue(Slice(from, to), PathSpan(from, to))
<1> DEFINE v == Slice(from, to)
           s == PathSpan(from, to)
           n == to - from
           k == LayoutFor(from)
           l == LayoutFor(to - 1)
<1>1. Merged \in Seq(Char) /\ Len(Merged) \in Nat /\ n \in Nat /\ 1 \in 1 .. n /\ n \in 1 .. n
  BY MergedLaidOut
<1>2. v \in Seq(Char) /\ Len(v) = n /\ \A m \in 1 .. n : v[m] = Merged[from + m]
  <2>1. from \in 0 .. Len(Merged) /\ to \in from .. Len(Merged)
    BY <1>1
  <2>2. v \in Seq(Char) /\ Len(v) = n
    BY <1>1, <2>1, Stretch DEF Slice
  <2>3. \A m \in 1 .. n : v[m] = Merged[from + 1 + m - 1] /\ from + 1 + m - 1 = from + m
    BY <1>1, <2>1 DEF Slice
  <2> QED
    BY <2>2, <2>3
<1>3. from \in 0 .. Len(Merged) - 1 /\ to - 1 \in 0 .. Len(Merged) - 1 /\ to - 1 = from + n - 1
  BY <1>1
<1>4. /\ k \in DOMAIN runs /\ MergedStart(k) \in Nat /\ MergedStart(k) <= from
      /\ from - MergedStart(k) + 1 \in 1 .. Len(runs[k].decoded)
      /\ Merged[from + 1].at = RawOffset(k, from)
      /\ Merged[from + 1].kind = IF Verbatim(runs[k]) THEN "exact" ELSE "coarse"
  BY <1>3, CharOfRun
<1>5. /\ l \in DOMAIN runs /\ MergedStart(l) \in Nat /\ MergedStart(l) <= to - 1
      /\ (to - 1) - MergedStart(l) + 1 \in 1 .. Len(runs[l].decoded)
      /\ Merged[(to - 1) + 1].kind = IF Verbatim(runs[l]) THEN "exact" ELSE "coarse"
  BY <1>3, CharOfRun
<1>6. v[1] = Merged[from + 1] /\ v[n] = Merged[(to - 1) + 1]
  <2>1. from + n = (to - 1) + 1
    OBVIOUS
  <2> HIDE DEF v, n
  <2> QED
    BY <1>1, <1>2, <2>1
<1>7. s = IF MergedStart(k) = MergedStart(l) /\ Verbatim(runs[k])
          THEN <<RawOffset(k, from), RawOffset(k, to)>>
          ELSE <<RawOffset(k, from), RawOffset(k, from)>>
  BY DEF PathSpan
<1>8. s[1] = v[1].at
  BY <1>4, <1>6, <1>7
<1>9. Len(runs[k].decoded) \in Nat /\ Len(runs[l].decoded) \in Nat
  <2>1. runs[k] \in TextRun /\ runs[l] \in TextRun
    BY <1>4, <1>5, SMTT(30)
  <2>2. runs[k].decoded \in Chars /\ runs[l].decoded \in Chars
    BY <2>1, RunParts
  <2> QED
    BY <2>2 DEF Chars
<1>10. MergedStart(k) = MergedStart(l) => k = l
  <2> HIDE DEF k, l
  <2> SUFFICES ASSUME MergedStart(k) = MergedStart(l), k # l PROVE FALSE
    OBVIOUS
  <2>1. k \in Nat /\ l \in Nat
    <3>1. DOMAIN runs = 1 .. Len(runs) /\ Len(runs) \in Nat
      OBVIOUS
    <3>2. k \in DOMAIN runs /\ l \in DOMAIN runs
      BY <1>4, <1>5
    <3> QED
      BY <3>1, <3>2
  <2> DEFINE b == MergedStart(k)
             c == MergedStart(l)
             p == Len(runs[k].decoded)
             q == Len(runs[l].decoded)
  <2>2. CASE k < l
    <3>1. b + p <= c
      BY <1>4, <1>5, <2>2, RunsApart
    <3>2. b \in Nat /\ p \in Nat /\ p >= 1 /\ b = c
      <4>1. from - b + 1 \in 1 .. p /\ b <= from
        BY <1>4
      <4>2. b \in Nat /\ p \in Nat /\ b = c
        BY <1>4, <1>9
      <4> HIDE DEF b, c, p
      <4> QED
        BY <4>1, <4>2
    <3> HIDE DEF b, c, p
    <3> QED
      BY <3>1, <3>2
  <2>3. CASE l < k
    <3>1. c + q <= b
      BY <1>4, <1>5, <2>3, RunsApart
    <3>2. c \in Nat /\ q \in Nat /\ q >= 1 /\ b = c
      <4>1. (to - 1) - c + 1 \in 1 .. q /\ c <= to - 1
        BY <1>5
      <4>2. c \in Nat /\ q \in Nat /\ b = c
        BY <1>5, <1>9
      <4> HIDE DEF b, c, q
      <4> QED
        BY <4>1, <4>2
    <3> HIDE DEF b, c, q
    <3> QED
      BY <3>1, <3>2
  <2> QED
    BY <2>1, <2>2, <2>3
<1>11. k \in 1 .. Len(ks) /\ l \in 1 .. Len(ks) /\ ks[k] \in 1 .. Len(body) /\ ks[l] \in 1 .. Len(body)
       /\ runs[k] = Segment(ks[k]) /\ body[ks[k]].type \in TextType
  <2>1. k \in 1 .. Len(ks) /\ l \in 1 .. Len(ks)
    BY <1>4, <1>5 DEF CutFrom
  <2> HIDE DEF k, l
  <2> QED
    BY <2>1 DEF CutFrom
<1> HIDE DEF v, s, k, l
<1>12. CASE k = l /\ Verbatim(runs[k])
  <2>1. s = <<RawOffset(k, from), RawOffset(k, to)>>
    BY <1>7, <1>12
  <2> DEFINE b == MergedStart(k)
             st == runs[k].start
  <2>2. st \in Nat /\ b \in Nat
    <3>1. runs[k] \in TextRun
      BY <1>4
    <3> QED
      BY <1>4, <3>1, RunParts
  <2>3. RawOffset(k, from) = st + (from - b) /\ RawOffset(k, to) = st + (to - b)
    BY <1>12, Zenon DEF RawOffset
  <2> DEFINE p == Len(runs[k].decoded)
  <2>4. b <= from /\ to <= b + p /\ p \in Nat
    <3>1. b <= from /\ b <= to - 1 /\ (to - 1) - b + 1 \in 1 .. p /\ p \in Nat
      BY <1>4, <1>5, <1>9, <1>12
    <3> HIDE DEF b, p
    <3> QED
      BY <2>2, <3>1
  <2>5. ASSUME NEW m \in 1 .. n
        PROVE  /\ LayoutFor(from + m - 1) = k /\ from + m - 1 \in 0 .. Len(Merged) - 1
               /\ v[m] = Merged[(from + m - 1) + 1]
               /\ v[m].kind = "exact" /\ v[m].at = st + (from + m - 1 - b)
    <3> DEFINE o == from + m - 1
    <3>1. o \in 0 .. Len(Merged) - 1 /\ b <= o /\ o < b + p /\ o + 1 = from + m
      <4> DEFINE z == Len(Merged)
      <4>1. z \in Nat /\ to <= z /\ b \in Nat
        BY <1>1, <2>2
      <4>2. m \in 1 .. to - from
        OBVIOUS
      <4> HIDE DEF b, p, z
      <4>3. o \in 0 .. z - 1 /\ b <= o /\ o < b + p /\ o + 1 = from + m
        BY <2>4, <4>1, <4>2
      <4> QED
        BY <4>3 DEF z
    <3> HIDE DEF o
    <3>2. LayoutFor(o) = k
      BY <1>4, <3>1, WithinRun DEF b, p
    <3>3. v[m] = Merged[o + 1]
      BY <1>2, <3>1
    <3>4. Merged[o + 1].at = RawOffset(k, o) /\ Merged[o + 1].kind = "exact"
      BY <1>12, <3>1, <3>2, CharOfRun
    <3>5. RawOffset(k, o) = st + (o - b)
      BY <1>12, Zenon DEF RawOffset
    <3>6. v[m].kind = "exact" /\ v[m].at = st + (o - b) /\ v[m] = Merged[o + 1]
      BY <3>2, <3>3, <3>4, <3>5
    <3>7. o = from + m - 1
      BY DEF o
    <3> HIDE DEF b, st, n, p
    <3> QED
      <4>1. LayoutFor(from + m - 1) = k
        BY <3>2, <3>7
      <4>2. from + m - 1 \in 0 .. Len(Merged) - 1
        BY <3>1, <3>7
      <4>3. v[m] = Merged[(from + m - 1) + 1]
        BY <3>6, <3>7
      <4>4. v[m].kind = "exact"
        BY <3>6
      <4>5. v[m].at = st + (from + m - 1 - b)
        <5>1. m \in Nat /\ from \in Nat /\ b \in Nat /\ st \in Nat
          BY <1>1, <2>2
        <5> QED
          BY <3>6, <3>7, <5>1
      <4> QED
        BY <4>1, <4>2, <4>3, <4>4, <4>5
  <2>6. ASSUME NEW m \in 1 .. n
        PROVE  /\ Verbatim(Segment(ks[k]))
               /\ Segment(ks[k]).start <= v[m].at /\ v[m].at < Segment(ks[k]).end
               /\ v[m].at \in Nat /\ v[m].at < Len(Source) /\ Source[v[m].at + 1] = v[m].ch
    <3> DEFINE o == from + m - 1
    <3>1. o \in 0 .. Len(Merged) - 1 /\ LayoutFor(o) = k /\ v[m] = Merged[o + 1]
      BY <2>5
    <3> HIDE DEF o
    <3>2. Verbatim(runs[LayoutFor(o)])
      BY <1>12, <3>1
    <3> QED
      BY <3>1, <3>2, OwnByte
  <2>7. InSegment(ks[k], v)
    <3>1. DOMAIN v = 1 .. n
      BY <1>2
    <3>2. Verbatim(Segment(ks[k]))
      BY <1>1, <2>6
    <3> HIDE DEF n
    <3> QED
      BY <1>11, <2>5, <2>6, <3>1, <3>2 DEF InSegment
  <2>8. \E j \in DOMAIN body : InSegment(j, v)
    BY <1>11, <2>7
  <2> DEFINE x == s[1]
             y == s[2]
             sub == SubSeq(Source, x + 1, y)
  <2>9. x = st + (from - b) /\ y = st + (to - b) /\ x \in Nat /\ y \in Nat /\ y = x + n
    <3>1. x = st + (from - b) /\ y = st + (to - b)
      BY <2>1, <2>3
    <3> HIDE DEF x, y, b, st
    <3>2. x \in Nat /\ y \in Nat /\ y = x + n
      BY <2>2, <2>4, <3>1
    <3> QED
      BY <3>1, <3>2
  <2>10. Source \in Seq(SourceChar) /\ y <= Len(Source) /\ Len(Source) \in Nat
    <3>1. v[n].at < Len(Source) /\ v[n].at = st + (from + n - 1 - b) /\ v[n].at \in Nat
      BY <1>1, <2>5, <2>6
    <3>2. Len(Source) \in Nat
      BY SourceLaidOut
    <3> DEFINE z == Len(Source)
               a == v[n].at
    <3>3. y <= z
      <4>1. a < z /\ a = st + (from + n - 1 - b) /\ a \in Nat /\ z \in Nat
        BY <3>1, <3>2
      <4>2. y = st + (to - b) /\ st \in Nat /\ b \in Nat
        BY <2>2, <2>9
      <4> HIDE DEF z, a, y, st, b
      <4> QED
        BY <4>1, <4>2
    <3> QED
      BY <3>2, <3>3, SourceTyped
  <2> HIDE DEF x, y
  <2>11. sub \in Seq(SourceChar) /\ Len(sub) = n /\ \A m \in 1 .. n : sub[m] = Source[x + m]
    <3>1. x \in 0 .. Len(Source) /\ y \in x .. Len(Source) /\ y - x = n
      BY <1>1, <2>9, <2>10
    <3>2. sub \in Seq(SourceChar) /\ Len(sub) = y - x
      BY <2>10, <3>1, Stretch
    <3>3. \A m \in 1 .. n : sub[m] = Source[x + m]
      <4>1. Source \in Seq(SourceChar)
        BY SourceTyped
      <4> DEFINE q == Source
      <4> HIDE DEF q, n
      <4>2. \A m \in 1 .. y - x : SubSeq(q, x + 1, y)[m] = q[x + m]
        <5>1. q \in Seq(SourceChar) /\ x \in Nat /\ y \in Nat /\ x + 1 \in Nat /\ x <= y
              /\ y \in 0 .. Len(q)
          BY <2>9, <2>10, <3>1, <4>1 DEF q
        <5>2. \A m \in 1 .. y - x : SubSeq(q, x + 1, y)[m] = q[x + 1 + m - 1]
          BY <5>1
        <5>3. \A m \in 1 .. y - x : x + 1 + m - 1 = x + m
          BY <5>1
        <5> QED
          BY <5>2, <5>3
      <4> QED
        BY <3>1, <4>2 DEF q
    <3> QED
      BY <3>1, <3>2, <3>3
  <2> HIDE DEF sub
  <2>12. \A m \in 1 .. n : sub[m] = v[m].ch
    <3> TAKE m \in 1 .. n
    <3>1. v[m].at + 1 = x + m
      <4> DEFINE a == v[m].at
      <4>1. a = st + (from + m - 1 - b) /\ x = st + (from - b)
        BY <2>5, <2>9
      <4> HIDE DEF a, st, b
      <4> QED
        BY <2>2, <4>1 DEF a
    <3> QED
      BY <2>6, <2>11, <3>1
  <2>13. sub = Spelling(v)
    <3>1. DOMAIN v = 1 .. n /\ DOMAIN sub = 1 .. n
      BY <1>2, <2>11
    <3>2. Spelling(v) = [m \in 1 .. n |-> v[m].ch]
      BY <3>1 DEF Spelling
    <3>3. sub = [m \in 1 .. n |-> sub[m]]
      BY <2>11, <3>1
    <3> HIDE DEF n
    <3> QED
      BY <2>12, <3>2, <3>3
  <2> QED
    BY <1>8, <2>8, <2>13 DEF PathTrue, sub, x, y, v, s
<1>13. CASE ~ (k = l /\ Verbatim(runs[k]))
  <2>1. s[2] = s[1]
    BY <1>7, <1>10, <1>13
  <2>2. ASSUME NEW j \in DOMAIN body, InSegment(j, v) PROVE FALSE
    <3>0. DOMAIN v = 1 .. n /\ j \in 1 .. Len(body)
      BY <1>2
    <3>1. /\ body[j].type \in TextType /\ Verbatim(Segment(j))
          /\ v[1].kind = "exact" /\ Segment(j).start <= v[1].at /\ v[1].at < Segment(j).end
          /\ v[n].kind = "exact" /\ Segment(j).start <= v[n].at /\ v[n].at < Segment(j).end
      BY <1>1, <2>2, <3>0 DEF InSegment
    <3>2. Verbatim(runs[k]) /\ Verbatim(runs[l])
      BY <1>4, <1>5, <1>6, <3>1
    <3>3. ks[k] = j
      <4>1. /\ ks[k] \in 1 .. Len(body) /\ body[ks[k]].type \in TextType
            /\ Verbatim(Segment(ks[k]))
            /\ Segment(ks[k]).start <= v[1].at /\ v[1].at < Segment(ks[k]).end
            /\ v[1].at \in Nat
        BY <1>3, <1>6, <3>2, OwnByte DEF k
      <4> QED
        BY <3>0, <3>1, <4>1, OneSegment
    <3>4. ks[l] = j
      <4>1. /\ ks[l] \in 1 .. Len(body) /\ body[ks[l]].type \in TextType
            /\ Verbatim(Segment(ks[l]))
            /\ Segment(ks[l]).start <= v[n].at /\ v[n].at < Segment(ks[l]).end
            /\ v[n].at \in Nat
        <5> DEFINE o == to - 1
        <5>1. o \in 0 .. Len(Merged) - 1 /\ v[n] = Merged[o + 1] /\ l = LayoutFor(o)
          BY <1>3, <1>6 DEF l
        <5> HIDE DEF o
        <5> QED
          BY <3>2, <5>1, OwnByte
      <4> QED
        BY <3>0, <3>1, <4>1, OneSegment
    <3>5. k = l
      <4>1. k < l => ks[k] < ks[l]
        BY <1>11 DEF CutFrom
      <4>2. l < k => ks[l] < ks[k]
        BY <1>11 DEF CutFrom
      <4> QED
        BY <1>11, <3>3, <3>4, <4>1, <4>2
    <3> QED
      BY <1>13, <3>2, <3>5
  <2> QED
    BY <1>8, <2>1, <2>2 DEF PathTrue, v, s
<1> QED
  BY <1>12, <1>13

(* The paths found are so, and while a scan is under way its runs are cut  *)
(* from the body.                                                          *)
AllTrue(ps) == \A n \in DOMAIN ps : PathTrue(ps[n].value, ps[n].span)
IsCut == scanning => \E ks : CutFrom(ks)
PathInv == IInv /\ AllTrue(paths) /\ IsCut

(* Where text is from depends on the body alone.                           *)
LEMMA SegmentsKept ==
  ASSUME body' = body
  PROVE  /\ Source' = Source
         /\ \A k : Segment(k)' = Segment(k)
         /\ \A v, s : PathTrue(v, s)' = PathTrue(v, s)
<1>1. SourceUpTo' = SourceUpTo
  BY DEF SourceUpTo
<1>2. Source' = Source
  BY <1>1 DEF Source
<1>3. \A k : Segment(k)' = Segment(k)
  BY <1>1 DEF Segment, StartOf
<1>4. \A k, v : InSegment(k, v)' = InSegment(k, v)
  BY <1>3 DEF InSegment
<1>5. \A v, s : PathTrue(v, s)' = PathTrue(v, s)
  BY <1>2, <1>4 DEF PathTrue
<1> QED
  BY <1>2, <1>3, <1>5

(* So paths that are so stay so.                                           *)
LEMMA TruthKept ==
  ASSUME body' = body, AllTrue(paths')
  PROVE  AllTrue(paths)'
BY SegmentsKept DEF AllTrue

(* And runs cut from the body stay so.                                     *)
LEMMA CutKept ==
  ASSUME body' = body, runs' = runs, NEW ks, CutFrom(ks)
  PROVE  CutFrom(ks)'
BY SegmentsKept DEF CutFrom

(* push_path adds a path that is so.                                       *)
LEMMA PushedTrue ==
  ASSUME body \in Seq(BodyEvent), Captured(body), ScanSound, NEW ks, CutFrom(ks),
         paths \in Seq(Path), AllTrue(paths),
         NEW from \in Nat, NEW to \in Nat, to <= Len(Merged), NEW separator,
         PushPaths(PathIn(from, to, separator))
  PROVE  AllTrue(paths')
<1> DEFINE ranges == PathIn(from, to, separator)
           r == CHOOSE p \in ranges : TRUE
           new == [value |-> Slice(r[1], r[2]), span |-> PathSpan(r[1], r[2])]
<1>1. paths' = IF ranges = {} THEN paths ELSE Append(paths, new)
  BY DEF PushPaths
<1>2. CASE ranges = {}
  BY <1>1, <1>2
<1>3. CASE ranges # {}
  <2>1. r \in ranges
    BY <1>3
  <2> HIDE DEF r
  <2>2. r[1] \in Nat /\ r[2] \in Nat /\ r[1] < r[2] /\ r[2] <= to
    BY <2>1, PathWithin
  <2>3. runs \in Seq(TextRun) /\ Len(Merged) \in Nat
    BY MergedLaidOut DEF ScanSound
  <2>4. r[2] <= Len(Merged)
    BY <2>2, <2>3
  <2>5. PathTrue(new.value, new.span)
    BY <2>2, <2>3, <2>4, PathSpanTrue
  <2>6. paths' = Append(paths, new)
    BY <1>1, <1>3
  <2> HIDE DEF new, ranges
  <2>7. /\ DOMAIN paths' = 1 .. Len(paths) + 1 /\ DOMAIN paths = 1 .. Len(paths)
        /\ Len(paths) \in Nat /\ paths'[Len(paths) + 1] = new
        /\ \A n \in 1 .. Len(paths) : paths'[n] = paths[n]
    BY <2>6
  <2>8. \A n \in 1 .. Len(paths) + 1 : n \in 1 .. Len(paths) \/ n = Len(paths) + 1
    BY <2>7
  <2> QED
    BY <2>5, <2>7, <2>8 DEF AllTrue
<1> QED
  BY <1>2, <1>3

(* A turn of the loop.                                                     *)
LEMMA ScanKeepsTruth ==
  ASSUME PathInv, Scan
  PROVE  AllTrue(paths)' /\ IsCut'
<1>1. ScanStep /\ UNCHANGED <<body, next, frames, sql>>
  BY DEF Scan
<1>2. scanning
  BY <1>1 DEF ScanStep, BracedPlaceholder, Unterminated, EscapedDelimiter, LegacyPlaceholder,
              PlainCharacter, AtText
<1>3. ScanSound /\ body \in Seq(BodyEvent) /\ Captured(body) /\ paths \in Seq(Path)
      /\ diags \in Seq(Span)
  BY <1>2, BodiesAssumption DEF PathInv, IInv, Reading, ScanTyped
<1>4. PICK ks : CutFrom(ks)
  BY <1>2 DEF PathInv, IsCut
<1>5. UNCHANGED runs
  BY <1>1, <1>3, ScanStepKept DEF ScanKept
<1>6. CutFrom(ks)'
  BY <1>1, <1>4, <1>5, CutKept
<1>7. AllTrue(paths)
  BY DEF PathInv
<1>8. i \in Nat /\ Len(Merged) \in Nat
  BY <1>3, MergedLaidOut DEF ScanSound
<1>9. AllTrue(paths')
  <2>1. CASE BracedPlaceholder
    <3> DEFINE S == ClosingBraces(i)
               close == Min(S)
    <3>1. S # {} /\ PushPaths(PathIn(i + 2, close, ","))
      BY <2>1 DEF BracedPlaceholder
    <3>2. S \subseteq i + 2 .. Len(Merged) - 1
      BY Zenon DEF ClosingBraces
    <3>3. S \subseteq Nat
      BY <1>8, <3>2
    <3> HIDE DEF S
    <3>4. close \in i + 2 .. Len(Merged) - 1
      BY <3>1, <3>2, <3>3, MinIsLeast
    <3> HIDE DEF close
    <3>5. i + 2 \in Nat /\ close \in Nat /\ close <= Len(Merged)
      BY <1>8, <3>4
    <3> QED
      BY <1>3, <1>4, <1>7, <3>1, <3>5, PushedTrue
  <2>2. CASE LegacyPlaceholder
    <3> DEFINE S == LegacyClose(i)
               close == CHOOSE j \in S : TRUE
    <3>1. S # {} /\ PushPaths(PathIn(i + 1, close, ":"))
      BY <2>2 DEF LegacyPlaceholder, Legacy
    <3>2. S \subseteq i + 1 .. Len(Merged) - 1
      BY Zenon DEF LegacyClose
    <3>3. close \in S
      BY <3>1
    <3> HIDE DEF S, close
    <3>4. i + 1 \in Nat /\ close \in Nat /\ close <= Len(Merged)
      BY <1>8, <3>2, <3>3
    <3> QED
      BY <1>3, <1>4, <1>7, <3>1, <3>4, PushedTrue
  <2>3. CASE Unterminated \/ EscapedDelimiter \/ PlainCharacter
    BY <1>7, <2>3 DEF Unterminated, EscapedDelimiter, PlainCharacter
  <2> QED
    BY <1>1, <2>1, <2>2, <2>3 DEF ScanStep
<1> QED
  BY <1>1, <1>6, <1>9, TruthKept DEF IsCut

(* The beginning of a scan.                                                *)
LEMMA BeginRunKeepsTruth ==
  ASSUME PathInv, BeginRun
  PROVE  AllTrue(paths)' /\ IsCut'
<1> DEFINE ks == TextsIn(next, RunEnd)
           rs == [n \in DOMAIN ks |-> Segment(ks[n])]
<1>1. /\ next < Len(body) /\ Here.type \in TextType
      /\ BeginScan(rs) /\ UNCHANGED <<paths, body>>
  BY DEF BeginRun, AtEvent
<1>2. body \in Seq(BodyEvent) /\ next \in 0 .. Len(body) - 1
  BY <1>1, BodyTyped DEF PathInv, IInv, Reading
<1>3. /\ ks \in Seq(1 .. Len(body))
      /\ \A m \in 1 .. Len(ks) : body[ks[m]].type \in TextType
      /\ \A l, m \in 1 .. Len(ks) : l < m => ks[l] < ks[m]
      /\ \A m \in 2 .. Len(ks), j \in 1 .. Len(body) :
           j + 1 = ks[m] /\ body[j].type \in TextType => ks[m - 1] = j
  BY <1>1, <1>2, RunsAreCut
<1>4. runs' = rs
  BY <1>1 DEF BeginScan
<1> HIDE DEF ks
<1>5. Len(rs) = Len(ks) /\ \A m \in 1 .. Len(ks) : rs[m] = Segment(ks[m])
  BY <1>3
<1>6. Source' = Source /\ \A k : Segment(k)' = Segment(k)
  BY <1>1, SegmentsKept
<1> HIDE DEF rs
<1>7. PICK js : js = ks
  OBVIOUS
<1>8. CutFrom(js)'
  <2>1. \A m \in 1 .. Len(js) : Segment(js[m])' = Segment(js[m])
    BY <1>1, SegmentsKept
  <2>2. Len(runs') = Len(js) /\ \A m \in 1 .. Len(js) : runs'[m] = Segment(js[m])
    BY <1>4, <1>5, <1>7
  <2>3. /\ js \in Seq(1 .. Len(body))
        /\ \A m \in 1 .. Len(js) : body[js[m]].type \in TextType
        /\ \A l, m \in 1 .. Len(js) : l < m => js[l] < js[m]
        /\ \A m \in 2 .. Len(js), j \in 1 .. Len(body) :
             j + 1 = js[m] /\ body[j].type \in TextType => js[m - 1] = j
    BY <1>3, <1>7
  <2> QED
    BY <1>1, <2>1, <2>2, <2>3 DEF CutFrom
<1>9. AllTrue(paths')
  BY <1>1 DEF PathInv
<1> QED
  BY <1>1, <1>8, <1>9, TruthKept DEF IsCut

(* Every other step leaves the paths alone, and ends the scan if there is  *)
(* one.                                                                    *)
LEMMA OthersKeepTruth ==
  ASSUME PathInv,
         EndRun \/ Comment \/ Include \/ Open \/ Close \/ Finish \/ UNCHANGED vars
  PROVE  AllTrue(paths)' /\ IsCut'
<1>1. UNCHANGED <<body, paths>>
  BY DEF EndRun, Comment, Include, Open, Close, Finish, vars
<1>2. AllTrue(paths)'
  BY <1>1, TruthKept DEF PathInv
<1>3. scanning' = FALSE \/ (scanning' = scanning /\ runs' = runs)
  BY DEF EndRun, EndScan, Comment, Include, Open, Close, Finish, vars, scanVars
<1>4. IsCut'
  <2>1. CASE scanning' = FALSE
    BY <2>1 DEF IsCut
  <2>2. CASE scanning' = scanning /\ runs' = runs /\ scanning
    <3>1. PICK ks : CutFrom(ks)
      BY <2>2 DEF PathInv, IsCut
    <3>2. CutFrom(ks)'
      BY <1>1, <2>2, <3>1, CutKept
    <3> QED
      BY <3>2 DEF IsCut
  <2>3. CASE scanning' = scanning /\ ~ scanning
    BY <2>3 DEF IsCut
  <2> QED
    BY <1>3, <2>1, <2>2, <2>3
<1> QED
  BY <1>2, <1>4

(* The invariant holds throughout.                                         *)
THEOREM PathInvariance == Spec => []PathInv
<1>1. Init => PathInv
  <2>1. Init => IInv
    BY Initially
  <2>2. Init => AllTrue(paths) /\ IsCut
    BY DEF Init, AllTrue, IsCut
  <2> QED
    BY <2>1, <2>2 DEF PathInv
<1>2. PathInv /\ [Next]_vars => PathInv'
  <2> SUFFICES ASSUME PathInv, [Next]_vars PROVE PathInv'
    OBVIOUS
  <2>1. IInv
    BY DEF PathInv
  <2>2. IInv'
    BY <2>1, ScanKeepsInv, BeginRunKeepsInv, EndRunKeepsInv, CommentKeepsInv, IncludeKeepsInv,
       OpenKeepsInv, CloseKeepsInv, FinishKeepsInv, StutterKeepsInv, Zenon DEF Next
  <2>3. AllTrue(paths)' /\ IsCut'
    BY ScanKeepsTruth, BeginRunKeepsTruth, OthersKeepTruth, Zenon DEF Next
  <2> QED
    BY <2>2, <2>3 DEF PathInv
<1> QED
  BY <1>1, <1>2, PTL DEF Spec

(* A path's span slices the source to exactly the path when the path lies  *)
(* in one verbatim segment, and is a point when not, for every set of      *)
(* bodies, however the text is cut into runs.                              *)
THEOREM PathSpansAlwaysExact == Spec => []PathSpansExact
<1>1. PathInv => PathSpansExact
  BY DEF PathInv, AllTrue, PathTrue, PathSpansExact
<1> QED
  BY <1>1, PathInvariance, PTL

(* The entries of a map, in no order.                                      *)
Entries(m) == {m[k] : k \in DOMAIN m}

(* Where a tag begins.                                                     *)
TagByte(p) == p \in Nat /\ p < Len(Source) /\ Source[p + 1] = "<"

(* A character of a verbatim segment is a byte of its own; one a wrapper   *)
(* made up never reads as the byte it is said to be from.                  *)
Own(c) ==
  /\ c.kind = "exact" => ExactByte(c.at) /\ c.at < Len(Source) /\ Source[c.at + 1] = c.ch
  /\ c.kind = "tag" => c.at < Len(Source) /\ Source[c.at + 1] = "<" /\ c.ch # "<"

RightBehind(p, c) == p.kind = "exact" /\ p.at + 1 = c.at

(* What an entry at a character may say, and when a character may do       *)
(* without.                                                                *)
Entered(c, x) ==
  /\ c.kind \in {"exact", "coarse", "tag"} => x = c.at
  /\ c.kind = "mark" => x = c.at \/ ~ ExactByte(c.at - 1)

Continues(p, c) ==
  /\ c.kind # "coarse"
  /\ c.kind = "exact" => RightBehind(p, c)
  /\ c.kind = "tag" => p.kind = "tag" /\ p.at = c.at
  /\ c.kind = "mark" => RightBehind(p, c) \/ ~ ExactByte(c.at - 1)

(* Entries tell of every character of a text where it is from.             *)
Fits(t, E) ==
  \A n \in 1 .. Len(t) :
    /\ Own(t[n])
    /\ \A e \in E : e[1] = n - 1 => Entered(t[n], e[2])
    /\ n > 1 /\ (\A e \in E : e[1] # n - 1) => Continues(t[n - 1], t[n])

(* Entries past the end of a text say nothing of it.                       *)
LEMMA FitsAlike ==
  ASSUME NEW t \in Seq(Char), NEW E, NEW F, Fits(t, E),
         \A f \in F : f[1] \in 0 .. Len(t) - 1 => f \in E,
         \A e \in E : e[1] \in 0 .. Len(t) - 1 => e \in F
  PROVE  Fits(t, F)
<1> SUFFICES ASSUME NEW n \in 1 .. Len(t)
             PROVE  /\ Own(t[n])
                    /\ \A f \in F : f[1] = n - 1 => Entered(t[n], f[2])
                    /\ n > 1 /\ (\A f \in F : f[1] # n - 1) => Continues(t[n - 1], t[n])
  BY DEF Fits
<1>1. Len(t) \in Nat /\ n - 1 \in 0 .. Len(t) - 1
  OBVIOUS
<1>2. /\ Own(t[n])
      /\ \A e \in E : e[1] = n - 1 => Entered(t[n], e[2])
      /\ n > 1 /\ (\A e \in E : e[1] # n - 1) => Continues(t[n - 1], t[n])
  BY DEF Fits
<1>3. \A f \in F : f[1] = n - 1 => f \in E
  BY <1>1
<1>4. \A e \in E : e[1] = n - 1 => e \in F
  BY <1>1
<1> QED
  BY <1>2, <1>3, <1>4

(* One text behind another.                                                *)
LEMMA FitsTogether ==
  ASSUME NEW a \in Seq(Char), NEW c \in Seq(Char), NEW E, NEW F, NEW G,
         Fits(a, E), Fits(c, F),
         \A g \in G : g[1] \in 0 .. Len(a) - 1 => g \in E,
         \A e \in E : e[1] \in 0 .. Len(a) - 1 => e \in G,
         \A g \in G : g[1] \in Len(a) .. Len(a) + Len(c) - 1 => <<g[1] - Len(a), g[2]>> \in F,
         \A f \in F : f[1] \in 0 .. Len(c) - 1 => <<Len(a) + f[1], f[2]>> \in G,
         c # << >> /\ a # << >> =>
           (\E f \in F : f[1] = 0) \/ Continues(a[Len(a)], c[1])
  PROVE  Fits(a \o c, G)
<1> DEFINE t == a \o c
<1>1. /\ t \in Seq(Char) /\ Len(t) = Len(a) + Len(c) /\ Len(a) \in Nat /\ Len(c) \in Nat
      /\ \A k \in 1 .. Len(a) : t[k] = a[k]
      /\ \A k \in 1 .. Len(c) : t[Len(a) + k] = c[k]
  BY Joined
<1> HIDE DEF t
<1> SUFFICES ASSUME NEW n \in 1 .. Len(t)
             PROVE  /\ Own(t[n])
                    /\ \A g \in G : g[1] = n - 1 => Entered(t[n], g[2])
                    /\ n > 1 /\ (\A g \in G : g[1] # n - 1) => Continues(t[n - 1], t[n])
  BY DEF Fits, t
<1>2. CASE n <= Len(a)
  <2>1. n \in 1 .. Len(a) /\ n - 1 \in 0 .. Len(a) - 1 /\ t[n] = a[n]
        /\ (n > 1 => n - 1 \in 1 .. Len(a) /\ t[n - 1] = a[n - 1])
    BY <1>1, <1>2
  <2>2. /\ Own(a[n])
        /\ \A e \in E : e[1] = n - 1 => Entered(a[n], e[2])
        /\ n > 1 /\ (\A e \in E : e[1] # n - 1) => Continues(a[n - 1], a[n])
    BY <2>1 DEF Fits
  <2>3. \A g \in G : g[1] = n - 1 => g \in E
    BY <2>1
  <2>4. \A e \in E : e[1] = n - 1 => e \in G
    BY <2>1
  <2> QED
    BY <2>1, <2>2, <2>3, <2>4
<1>3. CASE n > Len(a)
  <2> DEFINE m == n - Len(a)
  <2>1. m \in 1 .. Len(c) /\ m - 1 \in 0 .. Len(c) - 1 /\ t[n] = c[m] /\ n = Len(a) + m
        /\ (m > 1 => m - 1 \in 1 .. Len(c) /\ n - 1 = Len(a) + (m - 1) /\ t[n - 1] = c[m - 1])
        /\ n - 1 \in Len(a) .. Len(a) + Len(c) - 1
    <3>1. m \in 1 .. Len(c) /\ n = Len(a) + m
      BY <1>1, <1>3
    <3> HIDE DEF m
    <3>2. t[n] = c[m]
      BY <1>1, <3>1
    <3>3. m > 1 => m - 1 \in 1 .. Len(c) /\ n - 1 = Len(a) + (m - 1)
      BY <1>1, <3>1
    <3>4. m > 1 => t[n - 1] = c[m - 1]
      BY <1>1, <3>3
    <3>5. m - 1 \in 0 .. Len(c) - 1 /\ n - 1 \in Len(a) .. Len(a) + Len(c) - 1
      BY <1>1, <3>1
    <3> QED
      BY <3>1, <3>2, <3>3, <3>4, <3>5
  <2> HIDE DEF m
  <2>2. /\ Own(c[m])
        /\ \A f \in F : f[1] = m - 1 => Entered(c[m], f[2])
        /\ m > 1 /\ (\A f \in F : f[1] # m - 1) => Continues(c[m - 1], c[m])
    BY <2>1 DEF Fits
  <2>3. ASSUME NEW g \in G, g[1] = n - 1 PROVE Entered(t[n], g[2])
    <3> DEFINE f == <<g[1] - Len(a), g[2]>>
    <3>1. f \in F
      BY <2>1, <2>3
    <3>2. f[1] = m - 1 /\ f[2] = g[2]
      BY <1>1, <2>1, <2>3
    <3> HIDE DEF f
    <3> QED
      BY <2>1, <2>2, <3>1, <3>2
  <2>4. ASSUME NEW f \in F, f[1] = m - 1, \A g \in G : g[1] # n - 1 PROVE FALSE
    <3> DEFINE g == <<Len(a) + f[1], f[2]>>
    <3>1. g \in G
      BY <2>1, <2>4
    <3>2. g[1] = n - 1
      BY <1>1, <2>1, <2>4
    <3> HIDE DEF g
    <3> QED
      BY <2>4, <3>1, <3>2
  <2>5. ASSUME n > 1, \A g \in G : g[1] # n - 1 PROVE Continues(t[n - 1], t[n])
    <3>1. CASE m > 1
      BY <2>1, <2>2, <2>4, <2>5, <3>1
    <3>2. CASE m = 1
      <4>1. \A f \in F : f[1] # 0
        BY <2>4, <2>5, <3>2
      <4>2. c # << >> /\ a # << >> /\ Len(a) = n - 1 /\ Len(a) \in 1 .. Len(a)
        BY <1>1, <2>1, <2>5, <3>2
      <4>3. Continues(a[Len(a)], c[1])
        BY <4>1, <4>2
      <4> QED
        BY <1>1, <2>1, <3>2, <4>2, <4>3
    <3> QED
      BY <2>1, <3>1, <3>2
  <2> QED
    BY <2>1, <2>2, <2>3, <2>5
<1> QED
  BY <1>1, <1>2, <1>3

(* The beginning of a text.                                                *)
LEMMA FitsFirst ==
  ASSUME NEW t \in Seq(Char), NEW E, Fits(t, E), NEW n \in Nat, n <= Len(t)
  PROVE  Fits(SubSeq(t, 1, n), E)
<1> DEFINE u == SubSeq(t, 1, n)
<1>1. u \in Seq(Char) /\ Len(u) = n /\ \A k \in 1 .. n : u[k] = t[k]
  BY FirstOnes
<1> HIDE DEF u
<1>2. \A k \in 1 .. n : k \in 1 .. Len(t) /\ (k > 1 => k - 1 \in 1 .. n)
  OBVIOUS
<1>3. Fits(u, E)
  BY <1>1, <1>2 DEF Fits
<1> QED
  BY <1>3 DEF u

(* The rest of one, with an entry of its own at its beginning.             *)
LEMMA FitsRest ==
  ASSUME NEW t \in Seq(Char), NEW E, Fits(t, E), NEW n \in 0 .. Len(t), NEW x,
         n < Len(t) => Entered(t[n + 1], x), NEW F,
         \A f \in F : f = <<0, x>> \/ (f[1] \in Nat \ {0} /\ <<n + f[1], f[2]>> \in E),
         <<0, x>> \in F,
         \A e \in E : e[1] \in n + 1 .. Len(t) => <<e[1] - n, e[2]>> \in F
  PROVE  Fits(SubSeq(t, n + 1, Len(t)), F)
<1> DEFINE u == SubSeq(t, n + 1, Len(t))
           l == Len(t)
<1>1. l \in Nat /\ n \in Nat /\ n <= l
  OBVIOUS
<1>2. u \in Seq(Char) /\ Len(u) = l - n /\ \A k \in 1 .. l - n : u[k] = t[n + k]
  <2>1. u \in Seq(Char) /\ Len(u) = l - n
    BY TheRest
  <2>2. \A k \in 1 .. l - n : u[k] = t[n + 1 + k - 1]
    BY <1>1
  <2>3. \A k \in 1 .. l - n : n + 1 + k - 1 = n + k
    BY <1>1
  <2> QED
    BY <2>1, <2>2, <2>3
<1> HIDE DEF u
<1> SUFFICES ASSUME NEW k \in 1 .. l - n
             PROVE  /\ Own(u[k])
                    /\ \A f \in F : f[1] = k - 1 => Entered(u[k], f[2])
                    /\ k > 1 /\ (\A f \in F : f[1] # k - 1) => Continues(u[k - 1], u[k])
  BY <1>2 DEF Fits, u
<1> DEFINE o == n + k
<1>3. o \in 1 .. l /\ u[k] = t[o] /\ k \in Nat
  BY <1>1, <1>2
<1>4. /\ Own(t[o])
      /\ \A e \in E : e[1] = o - 1 => Entered(t[o], e[2])
      /\ o > 1 /\ (\A e \in E : e[1] # o - 1) => Continues(t[o - 1], t[o])
  BY <1>3 DEF Fits
<1>5. ASSUME NEW f \in F, f[1] = k - 1 PROVE Entered(u[k], f[2])
  <2>1. CASE f = <<0, x>>
    <3>1. k = 1 /\ f[2] = x /\ n < l
      BY <1>1, <1>5, <2>1
    <3> QED
      BY <1>1, <1>3, <3>1
  <2>2. CASE f # <<0, x>>
    <3> DEFINE e == <<n + f[1], f[2]>>
    <3>1. e \in E
      BY <2>2
    <3>2. e[1] = o - 1 /\ e[2] = f[2]
      BY <1>1, <1>3, <1>5
    <3> HIDE DEF e, o
    <3> QED
      BY <1>3, <1>4, <3>1, <3>2
  <2> QED
    BY <2>1, <2>2
<1>6. ASSUME k > 1, \A f \in F : f[1] # k - 1 PROVE Continues(u[k - 1], u[k])
  <2>1. k - 1 \in 1 .. l - n /\ n + (k - 1) = o - 1 /\ o > 1 /\ o - 1 \in n + 1 .. l
    <3>1. k \in Nat /\ k > 1 /\ k <= l - n
      BY <1>1, <1>6
    <3> HIDE DEF l
    <3> QED
      BY <1>1, <3>1
  <2>2. u[k - 1] = t[o - 1]
    BY <1>2, <2>1
  <2>3. ASSUME NEW e \in E, e[1] = o - 1 PROVE FALSE
    <3> DEFINE f == <<e[1] - n, e[2]>>
    <3>1. f \in F
      BY <2>1, <2>3
    <3>2. f[1] = k - 1
      BY <1>1, <1>3, <2>3
    <3> HIDE DEF f
    <3> QED
      BY <1>6, <3>1, <3>2
  <2> HIDE DEF o
  <2> QED
    BY <1>3, <1>4, <2>1, <2>2, <2>3
<1> QED
  BY <1>3, <1>4, <1>5, <1>6

(* Characters among which no tag can begin.                                *)
Clean(chars) == \A n \in DOMAIN chars : chars[n] # "<"

(* Such text traces back to the tag.                                       *)
LEMMA SyntheticFits ==
  ASSUME NEW chars \in Chars, Clean(chars), NEW start, TagByte(start)
  PROVE  Fits(Synthetic(chars, start), {<<0, start>>})
<1> DEFINE u == Synthetic(chars, start)
           n == Len(chars)
<1>1. start \in Nat /\ start < Len(Source) /\ Source[start + 1] = "<"
  BY DEF TagByte
<1>2. u \in Seq(Char) /\ Len(u) = n
  BY <1>1, SyntheticText
<1>3. DOMAIN chars = 1 .. n /\ n \in Nat
  BY DEF Chars
<1>4. \A k \in 1 .. n : u[k] = [ch |-> chars[k], at |-> start, kind |-> "tag"]
  BY <1>3 DEF Synthetic
<1> HIDE DEF u
<1>5. ASSUME NEW k \in 1 .. n PROVE u[k].at = start /\ u[k].kind = "tag" /\ u[k].ch # "<"
  <2>1. u[k] = [ch |-> chars[k], at |-> start, kind |-> "tag"]
    BY <1>4
  <2>2. chars[k] # "<"
    BY <1>3 DEF Clean
  <2> QED
    BY <2>1, <2>2
<1> HIDE DEF n
<1>6. ASSUME NEW k \in 1 .. n
      PROVE  /\ Own(u[k])
             /\ \A e \in {<<0, start>>} : e[1] = k - 1 => Entered(u[k], e[2])
             /\ k > 1 /\ (\A e \in {<<0, start>>} : e[1] # k - 1) => Continues(u[k - 1], u[k])
  <2>1. u[k].at = start /\ u[k].kind = "tag" /\ u[k].ch # "<"
    BY <1>5
  <2>2. Own(u[k])
    BY <1>1, <2>1 DEF Own
  <2>3. Entered(u[k], start)
    BY <2>1 DEF Entered
  <2>4. k > 1 => u[k - 1].kind = "tag" /\ u[k - 1].at = start
    <3>1. k > 1 => k - 1 \in 1 .. n
      BY <1>3 DEF n
    <3> QED
      BY <1>5, <3>1
  <2>5. k > 1 => Continues(u[k - 1], u[k])
    BY <2>1, <2>4 DEF Continues
  <2> QED
    BY <2>2, <2>3, <2>5
<1> QED
  BY <1>2, <1>6 DEF Fits, u

-------------------------------------------------------------------------------
(* The entries of the maps that the operators of SqlText make.             *)

(* An entry of a span map, wherever it stands.                             *)
LEMMA EntryTyped ==
  ASSUME NEW m \in SpanMap, NEW e \in Entries(m)
  PROVE  e \in Entry /\ e[1] \in Nat /\ e[2] \in Nat
<1>1. PICK k \in DOMAIN m : e = m[k]
  BY DEF Entries
<1> QED
  BY <1>1, EntryNats

(* Those of one map behind another.                                        *)
LEMMA EntriesJoined ==
  ASSUME NEW a \in SpanMap, NEW b \in SpanMap
  PROVE  Entries(a \o b) = Entries(a) \cup Entries(b)
<1> DEFINE c == a \o b
<1>1. /\ c \in Seq(Entry) /\ Len(c) = Len(a) + Len(b)
      /\ \A k \in 1 .. Len(a) : c[k] = a[k]
      /\ \A k \in 1 .. Len(b) : c[Len(a) + k] = b[k]
      /\ \A k \in 1 .. Len(c) :
           \/ k \in 1 .. Len(a) /\ c[k] = a[k]
           \/ k - Len(a) \in 1 .. Len(b) /\ c[k] = b[k - Len(a)]
  BY Joined DEF SpanMap
<1>2. /\ DOMAIN a = 1 .. Len(a) /\ DOMAIN b = 1 .. Len(b) /\ DOMAIN c = 1 .. Len(c)
      /\ Len(a) \in Nat /\ Len(b) \in Nat
  BY <1>1 DEF SpanMap
<1> HIDE DEF c
<1>3. \A e \in Entries(c) : e \in Entries(a) \cup Entries(b)
  BY <1>1, <1>2 DEF Entries
<1>4. \A k \in DOMAIN a : k \in DOMAIN c /\ c[k] = a[k]
  BY <1>1, <1>2
<1>5. \A k \in DOMAIN b : Len(a) + k \in DOMAIN c /\ c[Len(a) + k] = b[k]
  BY <1>1, <1>2
<1>6. Entries(a) \subseteq Entries(c) /\ Entries(b) \subseteq Entries(c)
  BY <1>4, <1>5 DEF Entries
<1> QED
  BY <1>3, <1>6 DEF c

(* One more.                                                               *)
LEMMA EntriesAppended ==
  ASSUME NEW m \in SpanMap, NEW e \in Entry
  PROVE  Append(m, e) \in SpanMap /\ Entries(Append(m, e)) = Entries(m) \cup {e}
<1> DEFINE c == Append(m, e)
<1>1. /\ c \in Seq(Entry) /\ Len(c) = Len(m) + 1
      /\ \A k \in 1 .. Len(m) : c[k] = m[k]
      /\ c[Len(m) + 1] = e
  BY OneMore DEF SpanMap
<1>2. DOMAIN m = 1 .. Len(m) /\ DOMAIN c = 1 .. Len(c) /\ Len(m) \in Nat
  BY <1>1 DEF SpanMap
<1> HIDE DEF c
<1>3. \A k \in DOMAIN c : (k \in DOMAIN m /\ c[k] = m[k]) \/ c[k] = e
  BY <1>1, <1>2
<1>4. \A k \in DOMAIN m : k \in DOMAIN c /\ c[k] = m[k]
  BY <1>1, <1>2
<1>5. Len(m) + 1 \in DOMAIN c
  BY <1>1, <1>2
<1>6. Entries(c) = Entries(m) \cup {e}
  BY <1>1, <1>3, <1>4, <1>5 DEF Entries
<1> QED
  BY <1>1, <1>6 DEF c, SpanMap

(* What a retain leaves.                                                   *)
LEMMA EntriesRetained ==
  ASSUME NEW m \in SpanMap, NEW K
  PROVE  Only(m, K) \in SpanMap /\ Entries(Only(m, K)) = {m[k] : k \in K \cap DOMAIN m}
<1> DEFINE r == Only(m, K)
<1>1. PICK w : r \in SpanMap /\ Picks(r, w, m, K, Len(m))
  BY OnlyPicks DEF SpanMap
<1>2. DOMAIN m = 1 .. Len(m) /\ DOMAIN r = 1 .. Len(r) /\ Len(r) \in Nat
  BY <1>1 DEF SpanMap
<1> HIDE DEF r
<1>3. \A k \in 1 .. Len(r) : w[k] \in K \cap DOMAIN m /\ r[k] = m[w[k]]
  BY <1>1, <1>2 DEF Picks
<1>4. \A j \in K \cap DOMAIN m : \E k \in 1 .. Len(r) : w[k] = j
  BY <1>1, <1>2 DEF Picks
<1>5. \A e \in Entries(r) : \E j \in K \cap DOMAIN m : e = m[j]
  BY <1>2, <1>3 DEF Entries
<1>6. \A j \in K \cap DOMAIN m : m[j] \in Entries(r)
  <2> TAKE j \in K \cap DOMAIN m
  <2>1. PICK k \in 1 .. Len(r) : w[k] = j
    BY <1>4
  <2>2. r[k] = m[j]
    BY <1>3, <2>1
  <2> QED
    BY <1>2, <2>1, <2>2 DEF Entries
<1> QED
  BY <1>1, <1>5, <1>6 DEF r

(* Those of a map moved.                                                   *)
LEMMA EntriesShifted ==
  ASSUME NEW m \in SpanMap, NEW by
  PROVE  Entries(Shifted(m, by)) = {<<e[1] + by, e[2]>> : e \in Entries(m)}
<1>1. DOMAIN Shifted(m, by) = DOMAIN m
  BY DEF Shifted
<1>2. \A k \in DOMAIN m : Shifted(m, by)[k] = <<m[k][1] + by, m[k][2]>>
  BY DEF Shifted
<1>3. Entries(Shifted(m, by)) = {<<m[k][1] + by, m[k][2]>> : k \in DOMAIN m}
  BY <1>1, <1>2 DEF Entries
<1> QED
  BY <1>3 DEF Entries

(* The empty map, and a map of one entry.                                  *)
LEMMA EntriesOfFew ==
  ASSUME NEW e \in Entry
  PROVE  Entries(<< >>) = {} /\ <<e>> \in SpanMap /\ Entries(<<e>>) = {e}
<1>1. DOMAIN <<e>> = {1} /\ <<e>>[1] = e /\ DOMAIN << >> = {}
  OBVIOUS
<1>2. <<e>> \in SpanMap
  BY DEF SpanMap
<1> QED
  BY <1>1, <1>2 DEF Entries

-------------------------------------------------------------------------------
(* What is in force at an offset.                                          *)

(* The entry that governs an offset is one of the map, and none between.   *)
LEMMA InForceEntry ==
  ASSUME NEW s, Sound(s), s.text # << >>, NEW o \in Nat, NEW d
  PROVE  /\ EntryAt(s.map, o, d) \in Entries(s.map)
         /\ EntryAt(s.map, o, d)[1] <= o
         /\ \A e \in Entries(s.map) : e[1] <= o => e[1] <= EntryAt(s.map, o, d)[1]
<1> DEFINE m == s.map
           K == {k \in DOMAIN m : m[k][1] <= o}
           r == Only(m, K)
           g == EntryAt(m, o, d)
<1>1. m \in SpanMap /\ Increasing(m) /\ m # << >> /\ m[1][1] = 0
  BY SqlParts DEF Sound
<1>2. 1 \in K
  BY <1>1 DEF SpanMap
<1>3. g = IF r # << >> THEN Last(r) ELSE <<0, IF m = << >> THEN d ELSE m[1][2]>>
  BY DEF EntryAt
<1> HIDE DEF m, g
<1>4. /\ r \in SpanMap /\ Increasing(r)
      /\ 1 \in K \cap DOMAIN m => r # << >>
      /\ Entries(r) = {m[k] : k \in K \cap DOMAIN m}
  <2> HIDE DEF K
  <2> QED
    BY <1>1, Retained, EntriesRetained
<1>5. Entries(r) = {e \in Entries(m) : e[1] <= o}
  BY <1>4 DEF Entries
<1>6. r # << >>
  BY <1>2, <1>4
<1> HIDE DEF r, K
<1>7. g = r[Len(r)] /\ Len(r) \in DOMAIN r /\ DOMAIN r = 1 .. Len(r) /\ Len(r) \in Nat
  BY <1>3, <1>4, <1>6 DEF Last, SpanMap
<1>8. g \in Entries(r)
  BY <1>7 DEF Entries
<1>9. \A e \in Entries(r) : e[1] <= g[1]
  <2> TAKE e \in Entries(r)
  <2>1. PICK k \in DOMAIN r : e = r[k]
    BY DEF Entries
  <2>2. k = Len(r) \/ k < Len(r)
    BY <1>7
  <2>3. k < Len(r) => r[k][1] < r[Len(r)][1]
    BY <1>4, <1>7 DEF Increasing
  <2>4. r[k][1] \in Nat /\ r[Len(r)][1] \in Nat
    BY <1>4, <1>7, EntryNats
  <2> QED
    BY <1>7, <2>1, <2>2, <2>3, <2>4
<1> QED
  BY <1>5, <1>8, <1>9 DEF g, m

-------------------------------------------------------------------------------
(* Texts that fit their maps, and what keeps them so.                      *)

FitSql(s) == Sound(s) /\ Fits(s.text, Entries(s.map))

(* What a piece must be for the text made of it to fit.                    *)
FitPiece(p) ==
  /\ SoundPiece(p)
  /\ p.type = "Normalized" => FitSql(p.sql)
  /\ p.type # "Normalized" => TagByte(p.start)
  /\ p.type = "Prepend" => Clean(p.value)

(* The parts of such a text.                                               *)
LEMMA FitParts ==
  ASSUME NEW s, FitSql(s)
  PROVE  /\ Sound(s) /\ Fits(s.text, Entries(s.map))
         /\ s.text \in Seq(Char) /\ s.map \in SpanMap /\ Len(s.text) \in Nat
         /\ \A e \in Entries(s.map) : e \in Entry /\ e[1] \in Nat /\ e[2] \in Nat /\ e[1] < Len(s.text)
         /\ s.text # << >> => \E e \in Entries(s.map) : e[1] = 0
<1>1. /\ Sound(s) /\ Fits(s.text, Entries(s.map))
      /\ s.text \in Seq(Char) /\ s.map \in SpanMap /\ Len(s.text) \in Nat
  BY SqlParts DEF FitSql
<1>2. \A e \in Entries(s.map) : e \in Entry /\ e[1] \in Nat /\ e[2] \in Nat
  BY <1>1, EntryTyped
<1>3. \A e \in Entries(s.map) : e[1] < Len(s.text)
  BY <1>1 DEF Entries, Sound
<1>4. ASSUME s.text # << >> PROVE \E e \in Entries(s.map) : e[1] = 0
  <2>1. s.map # << >> /\ s.map[1][1] = 0
    BY <1>1, <1>4 DEF Sound
  <2>2. 1 \in DOMAIN s.map
    BY <1>1, <2>1 DEF SpanMap
  <2> QED
    BY <2>1, <2>2 DEF Entries
<1> QED
  BY <1>1, <1>2, <1>3, <1>4

(* Nothing fits an empty map.                                              *)
LEMMA NothingFits == FitSql(NoSql)
<1>1. Len(NoSql.text) = 0
  BY DEF NoSql
<1>2. Fits(NoSql.text, Entries(NoSql.map))
  BY <1>1 DEF Fits
<1> QED
  BY <1>2, NothingSound DEF FitSql

(* Characters of a tag behind a text.                                      *)
LEMMA TagTextFits ==
  ASSUME NEW s, FitSql(s), NEW token \in Chars, Len(token) >= 1, Clean(token),
         NEW start, TagByte(start)
  PROVE  FitSql(WithTagText(s, token, start))
<1> DEFINE n == Len(s.text)
           e == <<n, start>>
           u == Synthetic(token, start)
           r == WithTagText(s, token, start)
           E == Entries(s.map)
           F == {<<0, start>>}
           G == E \cup {e}
<1>1. /\ Sound(s) /\ Fits(s.text, E) /\ s.text \in Seq(Char) /\ s.map \in SpanMap /\ n \in Nat
      /\ \A x \in E : x[1] \in Nat /\ x[1] < n
  BY FitParts
<1>2. start \in Nat
  BY DEF TagByte
<1>3. Sound(r)
  BY <1>1, <1>2, TagTextSound
<1>4. u \in Seq(Char) /\ Len(u) = Len(token) /\ Len(token) \in Nat /\ Fits(u, F)
  BY <1>2, SyntheticText, SyntheticFits DEF Chars
<1>5. r.text = s.text \o u /\ r.map = PushEntry(s.map, e)
  BY DEF WithTagText
<1>6. e \in Entry /\ e[1] = n /\ e[2] = start
  BY <1>1, <1>2 DEF Entry
<1>7. \A k \in DOMAIN s.map : s.map[k][1] < n
  BY <1>1 DEF Sound
<1> HIDE DEF n, e, u, r
<1>8. PushEntry(s.map, e) = Append(s.map, e)
  BY <1>1, <1>6, <1>7, PushedLater
<1>9. Entries(r.map) = G
  BY <1>1, <1>5, <1>6, <1>8, EntriesAppended
<1>10. Fits(s.text \o u, G)
  <2>1. \A g \in G : g[1] \in 0 .. n - 1 => g \in E
    BY <1>1, <1>6
  <2>2. \A x \in E : x[1] \in 0 .. n - 1 => x \in G
    OBVIOUS
  <2>3. \A g \in G : g[1] \in n .. n + Len(u) - 1 => <<g[1] - n, g[2]>> \in F
    <3> TAKE g \in G
    <3> HAVE g[1] \in n .. n + Len(u) - 1
    <3>1. g = e
      BY <1>1
    <3>2. g[1] - n = 0 /\ g[2] = start
      BY <1>1, <1>6, <3>1
    <3> QED
      BY <3>2
  <2>4. \A f \in F : f[1] \in 0 .. Len(u) - 1 => <<n + f[1], f[2]>> \in G
    <3>1. <<n + 0, start>> = e
      BY <1>1 DEF e
    <3> QED
      BY <3>1
  <2>5. \E f \in F : f[1] = 0
    OBVIOUS
  <2> HIDE DEF E, F, G
  <2> QED
    BY <1>1, <1>4, <2>1, <2>2, <2>3, <2>4, <2>5, FitsTogether DEF n
<1> QED
  BY <1>3, <1>5, <1>9, <1>10 DEF FitSql, r

(* One more character that is no "<".                                      *)
LEMMA CleanAppended ==
  ASSUME NEW v \in Chars, Clean(v), NEW c \in Alphabet, c # "<"
  PROVE  Clean(Append(v, c))
<1>1. v \in Seq(Alphabet)
  BY DEF Chars
<1>2. DOMAIN v = 1 .. Len(v) /\ Len(v) \in Nat
  BY <1>1
<1>3. \A k \in 1 .. Len(v) : v[k] # "<"
  BY <1>2 DEF Clean
<1> DEFINE w == Append(v, c)
<1>4. /\ w \in Seq(Alphabet) /\ Len(w) = Len(v) + 1
      /\ (\A k \in 1 .. Len(v) : w[k] = v[k]) /\ w[Len(v) + 1] = c
  BY <1>1, OneMore
<1> HIDE DEF w
<1>5. DOMAIN w = 1 .. Len(w)
  BY <1>4
<1>6. \A k \in DOMAIN w : k \in 1 .. Len(v) \/ k = Len(v) + 1
  BY <1>2, <1>4, <1>5
<1>7. \A k \in DOMAIN w : w[k] # "<"
  BY <1>3, <1>4, <1>6
<1> QED
  BY <1>7 DEF Clean, w

(* assemble, piece by piece.                                               *)
LEMMA AppendedFits ==
  ASSUME NEW s, FitSql(s), NEW p, FitPiece(p)
  PROVE  FitSql(Appended(s, p))
<1> DEFINE n == Len(s.text)
           r == Appended(s, p)
           E == Entries(s.map)
<1>0. Sound(r)
  BY AppendedSound DEF FitSql, FitPiece
<1>1. CASE p.type = "Normalized"
  <2> DEFINE q == p.sql
             later == Shifted(q.map, n)
             F == Entries(q.map)
             G == E \cup {<<f[1] + n, f[2]>> : f \in F}
  <2>1. FitSql(q)
    BY <1>1 DEF FitPiece
  <2>2. /\ Sound(s) /\ Fits(s.text, E) /\ s.text \in Seq(Char) /\ s.map \in SpanMap /\ n \in Nat
        /\ \A x \in E : x[1] \in Nat /\ x[1] < n
    BY FitParts
  <2>3. /\ Sound(q) /\ Fits(q.text, F) /\ q.text \in Seq(Char) /\ q.map \in SpanMap
        /\ Len(q.text) \in Nat
        /\ \A x \in F : x[1] \in Nat /\ x[1] < Len(q.text)
        /\ q.text # << >> => \E x \in F : x[1] = 0
    BY <2>1, FitParts
  <2>4. r.text = s.text \o q.text /\ r.map = PushEntries(s.map, later)
    BY <1>1 DEF Appended
  <2>5. Increasing(s.map) /\ Increasing(q.map)
        /\ (\A k \in DOMAIN s.map : s.map[k][1] < n /\ s.map[k][1] \in Nat)
        /\ (\A k \in DOMAIN q.map : q.map[k][1] \in Nat)
    BY <2>2, <2>3, SqlParts DEF Sound
  <2> HIDE DEF q, n, r
  <2>6. \A k \in DOMAIN q.map : q.map[k][1] + n \in Nat
    BY <2>2, <2>5
  <2>7. /\ later \in SpanMap /\ Increasing(later) /\ DOMAIN later = DOMAIN q.map
        /\ \A k \in DOMAIN q.map : later[k] = <<q.map[k][1] + n, q.map[k][2]>>
    <3>1. n \in Int /\ q.map \in SpanMap
      BY <2>2, <2>3
    <3> QED
      BY <2>5, <2>6, <3>1, ShiftedMap
  <2>8. Entries(later) = {<<f[1] + n, f[2]>> : f \in F}
    BY <2>3, EntriesShifted
  <2> HIDE DEF later
  <2>9. \A j \in DOMAIN s.map, k \in DOMAIN later : s.map[j][1] < later[k][1]
    <3> TAKE j \in DOMAIN s.map, k \in DOMAIN later
    <3>1. later[k][1] = q.map[k][1] + n /\ q.map[k][1] \in Nat
      BY <2>5, <2>7
    <3> QED
      BY <2>2, <2>5, <3>1
  <2>10. PushEntries(s.map, later) = s.map \o later
    BY <2>2, <2>7, <2>9, PushedAllLater
  <2>11. Entries(r.map) = G
    BY <2>2, <2>4, <2>7, <2>8, <2>10, EntriesJoined
  <2>12. Fits(s.text \o q.text, G)
    <3>1. \A g \in G : g[1] \in 0 .. n - 1 => g \in E
      BY <2>2, <2>3
    <3>2. \A x \in E : x[1] \in 0 .. n - 1 => x \in G
      OBVIOUS
    <3>3. \A g \in G : g[1] \in n .. n + Len(q.text) - 1 => <<g[1] - n, g[2]>> \in F
      <4> TAKE g \in G
      <4> HAVE g[1] \in n .. n + Len(q.text) - 1
      <4>1. PICK f \in F : g = <<f[1] + n, f[2]>>
        BY <2>2, <2>3
      <4>2. f[1] \in Nat /\ g[1] = f[1] + n /\ g[2] = f[2]
        BY <2>3, <4>1
      <4>3. g[1] - n = f[1]
        BY <2>2, <4>2
      <4>4. f = <<f[1], f[2]>>
        BY <2>3, EntryTyped DEF Entry
      <4> QED
        BY <4>2, <4>3, <4>4
    <3>4. \A f \in F : f[1] \in 0 .. Len(q.text) - 1 => <<n + f[1], f[2]>> \in G
      <4> TAKE f \in F
      <4>1. n + f[1] = f[1] + n
        BY <2>2, <2>3
      <4> QED
        BY <4>1
    <3> HIDE DEF E, F, G
    <3> QED
      BY <2>2, <2>3, <3>1, <3>2, <3>3, <3>4, FitsTogether DEF n
  <2> QED
    BY <1>0, <2>4, <2>11, <2>12 DEF FitSql, r
<1>2. CASE p.type # "Normalized"
  <2> DEFINE token == IF p.type = "Include" THEN IncludeToken ELSE Append(p.value, " ")
  <2>1. /\ TagByte(p.start) /\ p.type \in {"Include", "Prepend"}
        /\ p.type = "Prepend" => p.value \in Chars /\ Clean(p.value)
    BY <1>2 DEF FitPiece, SoundPiece, Piece
  <2>2. token \in Chars /\ Len(token) >= 1 /\ Clean(token)
    <3>1. CASE p.type = "Include"
      <4>1. token = <<"/*", "*/">>
        BY <3>1 DEF IncludeToken
      <4>2. "/*" \in Alphabet /\ "*/" \in Alphabet
        BY AlphabetAssumption
      <4>3. \A a, b \in Alphabet : <<a, b>> \in Seq(Alphabet) /\ Len(<<a, b>>) = 2
        OBVIOUS
      <4> HIDE DEF token
      <4>4. <<"/*", "*/">> \in Seq(Alphabet) /\ Len(<<"/*", "*/">>) = 2
        BY <4>2, <4>3, Zenon
      <4>5. Clean(<<"/*", "*/">>)
        BY DEF Clean
      <4> QED
        BY <4>1, <4>4, <4>5 DEF Chars
    <3>2. CASE p.type = "Prepend"
      <4>1. p.value \in Chars /\ " " \in Alphabet /\ Clean(p.value)
        BY <2>1, <3>2, AlphabetAssumption
      <4>2. Append(p.value, " ") \in Chars /\ Len(Append(p.value, " ")) >= 1
        BY <4>1, WithOneMore, Zenon
      <4>5. Clean(Append(p.value, " "))
        BY <4>1, CleanAppended
      <4>6. token = Append(p.value, " ")
        BY <3>2
      <4> HIDE DEF token
      <4> QED
        BY <4>2, <4>5, <4>6, Zenon
    <3> QED
      BY <2>1, <3>1, <3>2
  <2>3. r = [text |-> s.text \o Synthetic(token, p.start),
             map |-> PushEntry(s.map, <<Len(s.text), p.start>>)]
    BY <1>2 DEF Appended
  <2> HIDE DEF token, r
  <2>4. r = WithTagText(s, token, p.start)
    BY <2>3 DEF WithTagText
  <2> QED
    BY <2>1, <2>2, <2>4, TagTextFits DEF r
<1> QED
  BY <1>1, <1>2

(* The texts, and the pieces, that fit.                                    *)
FitSqls == {s \in Sql : FitSql(s)}
FitPieces == {p \in Piece : FitPiece(p)}

(* assemble.                                                               *)
LEMMA AssembledFits ==
  ASSUME NEW pieces \in Seq(FitPieces)
  PROVE  Assembled(pieces) \in FitSqls
<1> DEFINE n == Len(pieces)
           step == [k \in 1 .. n |-> [x \in FitSqls |-> Appended(x, pieces[k])]]
           UpTo(f) == f = [k \in 0 .. n |->
                             IF k = 0 THEN NoSql ELSE Appended(f[k - 1], pieces[k])]
           f == CHOOSE g : UpTo(g)
<1>0. n \in Nat /\ (\A k \in 1 .. n : pieces[k] \in FitPieces) /\ NoSql \in FitSqls
  BY NothingFits DEF FitSqls, FitSql, Sound
<1> HIDE DEF n
<1>1. \A k \in 1 .. n, x \in FitSqls :
        step[k][x] = Appended(x, pieces[k]) /\ step[k][x] \in FitSqls
  <2> SUFFICES ASSUME NEW k \in 1 .. n, NEW x \in FitSqls
               PROVE  /\ step[k][x] = Appended(x, pieces[k])
                      /\ Appended(x, pieces[k]) \in FitSqls
    OBVIOUS
  <2>1. FitPiece(pieces[k]) /\ FitSql(x)
    BY <1>0 DEF FitPieces, FitSqls
  <2>2. FitSql(Appended(x, pieces[k]))
    BY <2>1, AppendedFits
  <2> QED
    BY <2>2 DEF FitSqls, FitSql, Sound
<1> HIDE DEF step
<1>2. PICK h \in [0 .. n -> FitSqls] : Becomes(h, NoSql, step, n)
  BY <1>0, <1>1, StepsExist
<1>3. \A k \in 0 .. n : k # 0 => k \in 1 .. n /\ h[k - 1] \in FitSqls
  BY <1>0
<1>4. \A k \in 0 .. n : h[k] = IF k = 0 THEN NoSql ELSE step[k][h[k - 1]]
  BY <1>2 DEF Becomes
<1>5. \A k \in 0 .. n : h[k] = IF k = 0 THEN NoSql ELSE Appended(h[k - 1], pieces[k])
  BY <1>1, <1>3, <1>4
<1>6. UpTo(h)
  BY <1>5
<1>7. UpTo(f)
  BY <1>6, Zenon
<1>8. Assembled(pieces) = f[n]
  BY DEF Assembled, n, NoSql
<1> HIDE DEF f
<1>9. \A k \in 0 .. n : f[k] = IF k = 0 THEN NoSql ELSE Appended(f[k - 1], pieces[k])
  BY <1>7
<1>10. f[0] = NoSql /\ \A k \in 1 .. n : f[k] = Appended(f[k - 1], pieces[k])
  <2>1. 0 \in 0 .. n /\ \A k \in 1 .. n : k \in 0 .. n /\ k # 0
    BY <1>0
  <2> QED
    BY <1>9, <2>1
<1> DEFINE P == {k \in 0 .. n : f[k] \in FitSqls}
<1>11. 0 \in P
  BY <1>0, <1>10
<1>12. ASSUME NEW k \in 1 .. n, k - 1 \in P PROVE k \in P
  <2>1. f[k - 1] \in FitSqls /\ k \in 0 .. n
    BY <1>0, <1>12
  <2>2. step[k][f[k - 1]] = Appended(f[k - 1], pieces[k]) /\ step[k][f[k - 1]] \in FitSqls
    BY <1>1, <2>1
  <2>3. f[k] = Appended(f[k - 1], pieces[k])
    BY <1>10
  <2> QED
    BY <2>1, <2>2, <2>3
<1> HIDE DEF P
<1>13. \A k \in 0 .. n : k \in P
  BY <1>0, <1>11, <1>12, StepByStep, Zenon
<1>14. n \in P
  BY <1>0, <1>13
<1> QED
  BY <1>8, <1>14 DEF P

(* with_suffix.                                                            *)
LEMMA WithSuffixFits ==
  ASSUME NEW s, FitSql(s), NEW start, TagByte(start), NEW suffix \in Chars, Clean(suffix)
  PROVE  FitSql(WithSuffix(s, start, suffix))
<1>0. start \in Nat /\ Sound(WithSuffix(s, start, suffix))
  BY WithSuffixSound DEF TagByte, FitSql
<1>1. CASE suffix = << >>
  <2> DEFINE u == Synthetic(suffix, start)
             t == s.text
  <2>1. u \in Seq(Char) /\ Len(u) = 0 /\ t \in Seq(Char) /\ Len(t) \in Nat
    BY <1>0, <1>1, SyntheticText, FitParts
  <2>2. WithSuffix(s, start, suffix) = [text |-> t \o u, map |-> s.map]
    BY <1>1 DEF WithSuffix
  <2>3. Fits(t, Entries(s.map))
    BY DEF FitSql
  <2> HIDE DEF u, t
  <2>4. t \o u = t
    BY <2>1
  <2> QED
    BY <1>0, <2>2, <2>3, <2>4 DEF FitSql
<1>2. CASE suffix # << >>
  <2>1. Len(suffix) >= 1
    BY <1>2 DEF Chars
  <2>2. WithSuffix(s, start, suffix) = WithTagText(s, suffix, start)
    BY <1>2 DEF WithSuffix, WithTagText
  <2> QED
    BY <2>1, <2>2, TagTextFits
<1> QED
  BY <1>1, <1>2

(* with_suffix_strip.                                                      *)
LEMMA WithoutSuffixFits ==
  ASSUME NEW s, FitSql(s), NEW strip \in Nat
  PROVE  FitSql(WithoutSuffix(s, strip))
<1> DEFINE keep == Len(s.text) - Min({strip, Len(s.text)})
           K == {k \in DOMAIN s.map : s.map[k][1] < keep}
           t == SubSeq(s.text, 1, keep)
           m == Only(s.map, K)
           r == WithoutSuffix(s, strip)
           E == Entries(s.map)
<1>1. /\ s.text \in Seq(Char) /\ s.map \in SpanMap /\ Len(s.text) \in Nat /\ Fits(s.text, E)
      /\ \A e \in E : e[1] \in Nat
  BY FitParts
<1>2. keep \in Nat /\ keep <= Len(s.text)
  <2>1. Min({strip, Len(s.text)}) \in Nat /\ Min({strip, Len(s.text)}) <= Len(s.text)
    BY <1>1, LesserOfTwo
  <2> QED
    BY <1>1, <2>1
<1>3. r = IF keep = Len(s.text) THEN s ELSE [text |-> t, map |-> m]
  BY DEF WithoutSuffix
<1>4. Sound(r)
  BY WithoutSuffixSound DEF FitSql
<1> HIDE DEF keep, r
<1>5. t \in Seq(Char) /\ Len(t) = keep /\ Fits(t, E)
  BY <1>1, <1>2, FirstOnes, FitsFirst
<1>6. Entries(m) = {s.map[k] : k \in K \cap DOMAIN s.map}
  <2> HIDE DEF K
  <2> QED
    BY <1>1, EntriesRetained
<1>7. Entries(m) = {e \in E : e[1] < keep}
  BY <1>6 DEF Entries
<1> HIDE DEF t, m
<1>8. Fits(t, Entries(m))
  <2>1. \A f \in Entries(m) : f[1] \in 0 .. Len(t) - 1 => f \in E
    BY <1>7
  <2>2. \A e \in E : e[1] \in 0 .. Len(t) - 1 => e \in Entries(m)
    BY <1>2, <1>5, <1>7
  <2> HIDE DEF E
  <2> QED
    BY <1>5, <2>1, <2>2, FitsAlike
<1>9. (r.text = t /\ r.map = m) \/ r = s
  BY <1>3
<1> QED
  BY <1>4, <1>8, <1>9 DEF FitSql, r

-------------------------------------------------------------------------------
(* Between an entry and the next.                                          *)

(* Up to a character of a verbatim segment every one since the last entry  *)
(* is of that kind, and they are bytes in a row.                           *)
LEMMA ExactStretch ==
  ASSUME NEW t \in Seq(Char), NEW E, Fits(t, E), NEW a \in Nat, NEW x \in Nat, <<a, x>> \in E,
         NEW p \in a + 1 .. Len(t), \A e \in E : e[1] \notin a + 1 .. p - 1,
         t[p].kind = "exact"
  PROVE  \A j \in a + 1 .. p : t[j].kind = "exact" /\ t[j].at = x + (j - a - 1)
<1> DEFINE n == p - a - 1
           at(j) == t[j].at
           P == {m \in 0 .. n : t[p - m].kind = "exact" /\ at(p - m) + m = at(p)}
<1>1. n \in Nat /\ p \in 1 .. Len(t) /\ Len(t) \in Nat /\ p \in Nat /\ n = p - a - 1
  OBVIOUS
<1>2. \A j \in 1 .. Len(t) : at(j) \in Nat
  BY CharParts
<1> HIDE DEF n
<1>3. 0 \in P
  <2>1. p - 0 = p /\ at(p) + 0 = at(p)
    BY <1>1, <1>2
  <2> QED
    BY <1>1, <2>1
<1>4. ASSUME NEW m \in 1 .. n, m - 1 \in P PROVE m \in P
  <2> DEFINE q == p - m
  <2>1. q \in a + 1 .. p - 1 /\ q \in 1 .. Len(t) /\ q + 1 \in 1 .. Len(t) /\ q + 1 > 1
        /\ p - (m - 1) = q + 1 /\ (q + 1) - 1 = q
    BY <1>1
  <2>2. t[q + 1].kind = "exact" /\ at(q + 1) + (m - 1) = at(p)
    BY <1>4, <2>1
  <2> HIDE DEF q
  <2>3. \A e \in E : e[1] # (q + 1) - 1
    BY <2>1
  <2>4. Continues(t[q], t[q + 1])
    BY <2>1, <2>3 DEF Fits
  <2>5. t[q].kind = "exact" /\ at(q) + 1 = at(q + 1)
    BY <2>2, <2>4 DEF Continues, RightBehind
  <2>6. at(q) + m = at(p)
    <3>1. at(q) \in Nat /\ at(q + 1) \in Nat /\ at(p) \in Nat /\ m \in Nat
      BY <1>1, <1>2, <2>1
    <3> HIDE DEF at
    <3> QED
      BY <2>2, <2>5, <3>1
  <2> QED
    BY <2>5, <2>6 DEF q
<1> HIDE DEF P
<1>5. \A m \in 0 .. n : m \in P
  BY <1>1, <1>3, <1>4, StepByStep, Zenon
<1>6. ASSUME NEW j \in a + 1 .. p PROVE t[j].kind = "exact" /\ at(j) + (p - j) = at(p)
  <2>1. p - j \in 0 .. n /\ p - (p - j) = j
    BY <1>1, SMTT(30)
  <2>2. p - j \in P
    BY <1>5, <2>1
  <2> QED
    BY <2>1, <2>2 DEF P
<1>7. x = at(a + 1)
  <2>1. a + 1 \in a + 1 .. p /\ a + 1 \in 1 .. Len(t) /\ (a + 1) - 1 = a
    BY <1>1
  <2>2. t[a + 1].kind = "exact"
    BY <1>6, <2>1
  <2>3. Entered(t[a + 1], x)
    BY <2>1 DEF Fits
  <2> QED
    BY <2>2, <2>3 DEF Entered
<1>8. ASSUME NEW j \in a + 1 .. p PROVE at(j) = x + (j - a - 1)
  <2> DEFINE f == at(a + 1)
             g == at(j)
             h == at(p)
  <2>1. a + 1 \in a + 1 .. p /\ a + 1 \in 1 .. Len(t) /\ j \in 1 .. Len(t) /\ j \in Nat
    BY <1>1
  <2>2. g + (p - j) = h /\ f + (p - (a + 1)) = h
    BY <1>6, <2>1
  <2>3. f \in Nat /\ g \in Nat /\ h \in Nat
    BY <1>1, <1>2, <2>1
  <2>4. x = f
    BY <1>7
  <2> HIDE DEF f, g, h
  <2>5. g = x + (j - a - 1)
    BY <1>1, <2>1, <2>2, <2>3, <2>4
  <2> QED
    BY <2>5 DEF g
<1> QED
  BY <1>6, <1>8

(* Up to one made up for a tag, every one is made up for that tag.         *)
LEMMA TagStretch ==
  ASSUME NEW t \in Seq(Char), NEW E, Fits(t, E), NEW a \in Nat, NEW x \in Nat, <<a, x>> \in E,
         NEW p \in a + 1 .. Len(t), \A e \in E : e[1] \notin a + 1 .. p - 1,
         t[p].kind = "tag"
  PROVE  t[a + 1].kind = "tag" /\ t[a + 1].at = x /\ t[p].at = x
<1> DEFINE n == p - a - 1
           P == {m \in 0 .. n : t[p - m].kind = "tag" /\ t[p - m].at = t[p].at}
<1>1. n \in Nat /\ p \in 1 .. Len(t) /\ Len(t) \in Nat /\ p \in Nat /\ n = p - a - 1
  OBVIOUS
<1> HIDE DEF n
<1>3. 0 \in P
  <2>1. p - 0 = p
    BY <1>1
  <2> QED
    BY <1>1, <2>1
<1>4. ASSUME NEW m \in 1 .. n, m - 1 \in P PROVE m \in P
  <2> DEFINE q == p - m
  <2>1. q \in a + 1 .. p - 1 /\ q \in 1 .. Len(t) /\ q + 1 \in 1 .. Len(t) /\ q + 1 > 1
        /\ p - (m - 1) = q + 1 /\ (q + 1) - 1 = q
    BY <1>1
  <2>2. t[q + 1].kind = "tag" /\ t[q + 1].at = t[p].at
    BY <1>4, <2>1
  <2> HIDE DEF q
  <2>3. \A e \in E : e[1] # (q + 1) - 1
    BY <2>1
  <2>4. Continues(t[q], t[q + 1])
    BY <2>1, <2>3 DEF Fits
  <2>5. t[q].kind = "tag" /\ t[q].at = t[p].at
    BY <2>2, <2>4 DEF Continues
  <2> QED
    BY <2>5 DEF q
<1> HIDE DEF P
<1>5. \A m \in 0 .. n : m \in P
  BY <1>1, <1>3, <1>4, StepByStep, Zenon
<1>6. n \in P /\ p - n = a + 1
  BY <1>1, <1>5
<1>7. t[a + 1].kind = "tag" /\ t[a + 1].at = t[p].at
  BY <1>6 DEF P
<1>8. a + 1 \in 1 .. Len(t) /\ (a + 1) - 1 = a
  BY <1>1
<1>9. Entered(t[a + 1], x)
  BY <1>8 DEF Fits
<1> QED
  BY <1>7, <1>9 DEF Entered

(* A stretch of a sequence, element by element.                            *)
LEMMA StretchItems ==
  ASSUME NEW S, NEW s \in Seq(S), NEW a \in 0 .. Len(s), NEW c \in a .. Len(s)
  PROVE  \A m \in 1 .. c - a : SubSeq(s, a + 1, c)[m] = s[a + m]
<1>1. a \in Nat /\ c \in Nat /\ c \in 0 .. Len(s)
  OBVIOUS
<1>2. \A m \in 1 .. c - a : SubSeq(s, a + 1, c)[m] = s[a + 1 + m - 1]
  BY <1>1
<1>3. \A m \in 1 .. c - a : a + 1 + m - 1 = a + m
  BY <1>1
<1> QED
  BY <1>2, <1>3

(* Such bytes in a row read as the source does.                            *)
LEMMA ReadsAsSource ==
  ASSUME body \in Seq(BodyEvent), NEW t \in Seq(Char), NEW a \in Nat, NEW x \in Nat,
         NEW p \in a + 1 .. Len(t),
         \A j \in a + 1 .. p : Own(t[j]) /\ t[j].kind = "exact" /\ t[j].at = x + (j - a - 1)
  PROVE  /\ x + (p - a) <= Len(Source)
         /\ Spelling(SubSeq(t, a + 1, p)) = SubSeq(Source, x + 1, x + (p - a))
<1> DEFINE n == p - a
           v == SubSeq(t, a + 1, p)
           z == Len(Source)
           sub == SubSeq(Source, x + 1, x + n)
<1>1. n \in Nat /\ n >= 1 /\ a + n = p /\ a \in 0 .. Len(t) /\ p \in a .. Len(t)
  OBVIOUS
<1>2. Source \in Seq(SourceChar) /\ z \in Nat
  BY SourceTyped
<1>3. x + n <= z
  <2>1. p \in a + 1 .. p /\ x + (p - a - 1) \in Nat /\ x + (p - a - 1) + 1 = x + n
    OBVIOUS
  <2>2. t[p].at < z /\ t[p].at = x + (p - a - 1)
    BY <2>1 DEF Own
  <2> HIDE DEF z, n
  <2> QED
    BY <1>1, <1>2, <2>1, <2>2
<1>4. v \in Seq(Char) /\ Len(v) = n /\ \A m \in 1 .. n : v[m] = t[a + m]
  <2>1. a \in 0 .. Len(t) /\ p \in a .. Len(t)
    BY <1>1
  <2>2. v \in Seq(Char) /\ Len(v) = p - a
    BY <2>1, Stretch, Zenon
  <2>3. \A m \in 1 .. p - a : v[m] = t[a + m]
    BY <2>1, StretchItems, Zenon
  <2> QED
    BY <2>2, <2>3, Zenon
<1>5. sub \in Seq(SourceChar) /\ Len(sub) = n /\ \A m \in 1 .. n : sub[m] = Source[x + m]
  <2>1. x \in 0 .. z /\ x + n \in x .. z /\ (x + n) - x = n
    BY <1>1, <1>2, <1>3
  <2>2. Source \in Seq(SourceChar) /\ x \in 0 .. Len(Source) /\ x + n \in x .. Len(Source)
    BY <1>2, <2>1
  <2>3. SubSeq(Source, x + 1, x + n) \in Seq(SourceChar)
        /\ Len(SubSeq(Source, x + 1, x + n)) = (x + n) - x
    BY <2>2, Stretch, Zenon
  <2>4. \A m \in 1 .. (x + n) - x : SubSeq(Source, x + 1, x + n)[m] = Source[x + m]
    BY <2>2, StretchItems, Zenon
  <2> HIDE DEF n
  <2> QED
    BY <2>1, <2>3, <2>4, Zenon
<1>6. ASSUME NEW m \in 1 .. n PROVE v[m].ch = sub[m]
  <2> DEFINE j == a + m
  <2>1. j \in a + 1 .. p /\ x + (j - a - 1) + 1 = x + m
    OBVIOUS
  <2>2. t[j].kind = "exact" /\ t[j].at = x + (j - a - 1) /\ Own(t[j])
    BY <2>1
  <2>3. Source[t[j].at + 1] = t[j].ch
    BY <2>2 DEF Own
  <2> HIDE DEF v, sub, n
  <2> QED
    BY <1>4, <1>5, <2>1, <2>2, <2>3
<1> HIDE DEF v, sub, n
<1>7. DOMAIN v = 1 .. n /\ DOMAIN sub = 1 .. n
  BY <1>1, <1>4, <1>5
<1>8. Spelling(v) = [m \in 1 .. n |-> v[m].ch]
  BY <1>7 DEF Spelling
<1>9. sub = [m \in 1 .. n |-> sub[m]]
  BY <1>5, <1>7
<1>10. Spelling(v) = sub
  BY <1>6, <1>8, <1>9
<1> QED
  BY <1>3, <1>10 DEF v, sub, n

(* Where with_prefix splits a text, the entry it puts there says the       *)
(* truth (B21): what was copied from the source reads as it does, and what *)
(* a tag made up does not.                                                 *)
LEMMA SplitEntered ==
  ASSUME body \in Seq(BodyEvent), NEW s, FitSql(s), NEW start, NEW strip \in 0 .. Len(s.text) - 1
  PROVE  Entered(s.text[strip + 1], SplitPoint(Source, s, start, strip))
<1> DEFINE t == s.text
           E == Entries(s.map)
           g == EntryAt(s.map, strip, start)
           a == g[1]
           x == g[2]
           point == SplitPoint(Source, s, start, strip)
           verified == /\ x + (strip - a) <= Len(Source)
                       /\ Spelling(SubSeq(t, a + 1, strip)) = SubSeq(Source, x + 1, x + (strip - a))
           c == t[strip + 1]
<1>1. /\ Sound(s) /\ Fits(t, E) /\ t \in Seq(Char) /\ Len(t) \in Nat /\ strip \in Nat /\ t # << >>
      /\ \A e \in E : e \in Entry /\ e[1] \in Nat /\ e[2] \in Nat
  BY FitParts
<1>2. g \in E /\ a <= strip /\ \A e \in E : e[1] <= strip => e[1] <= a
  <2> HIDE DEF t
  <2> QED
    BY <1>1, InForceEntry DEF t
<1>3. point = IF verified THEN x + (strip - a) ELSE x
  BY DEF SplitPoint
<1>4. a \in Nat /\ x \in Nat /\ g = <<a, x>>
  BY <1>1, <1>2 DEF Entry
<1> HIDE DEF point, g, E
<1>5. \A e \in E : e[1] \notin a + 1 .. strip
  BY <1>1, <1>2, <1>4
<1>6. strip + 1 \in 1 .. Len(t) /\ (strip + 1) - 1 = strip
  BY <1>1
<1> HIDE DEF a, x
<1>7. CASE a = strip
  <2>1. x + (strip - a) = x
    BY <1>1, <1>4, <1>7
  <2>2. point = x
    BY <1>3, <2>1
  <2>3. <<strip, x>> \in E
    BY <1>2, <1>4, <1>7
  <2>4. Entered(c, x)
    BY <1>1, <1>6, <2>3 DEF Fits
  <2> QED
    BY <2>2, <2>4 DEF point
<1>8. CASE a < strip
  <2> DEFINE p == t[strip]
  <2>0. <<a, x>> \in E
    BY <1>2, <1>4
  <2>1. /\ strip \in a + 1 .. Len(t) /\ strip + 1 \in a + 1 .. Len(t) /\ strip + 1 > 1
        /\ strip \in 1 .. Len(t) /\ a + 1 \in 1 .. Len(t) /\ a + 1 \in a + 1 .. strip
    BY <1>1, <1>4, <1>6, <1>8
  <2>2. \A e \in E : e[1] # (strip + 1) - 1
    BY <1>4, <1>5, <1>6, <2>1
  <2>3. Continues(p, c) /\ \A j \in 1 .. Len(t) : Own(t[j])
    BY <1>1, <1>6, <2>1, <2>2 DEF Fits
  <2>4. \A e \in E : e[1] \notin a + 1 .. strip - 1
    BY <1>1, <1>4, <1>5
  <2>11. \A e \in E : e[1] \notin a + 1 .. (strip + 1) - 1
    BY <1>1, <1>4, <1>5
  <2> HIDE DEF c, t, verified
  <2>5. ASSUME p.kind = "exact" PROVE verified /\ p.at + 1 = x + (strip - a)
    <3>1. \A j \in a + 1 .. strip : t[j].kind = "exact" /\ t[j].at = x + (j - a - 1)
      <4>1. t[strip].kind = "exact"
        BY <2>5
      <4>2. t \in Seq(Char) /\ Fits(t, E) /\ strip \in a + 1 .. Len(t)
        BY <1>1, <2>1
      <4> QED
        BY <1>4, <2>0, <2>4, <4>1, <4>2, ExactStretch, ZenonT(60)
    <3>2. \A j \in a + 1 .. strip : j \in 1 .. Len(t)
      BY <1>1, <1>4, <2>1
    <3>3. \A j \in a + 1 .. strip : Own(t[j]) /\ t[j].kind = "exact" /\ t[j].at = x + (j - a - 1)
      BY <2>3, <3>1, <3>2
    <3>4. verified
      BY <1>1, <1>4, <2>1, <3>3, ReadsAsSource DEF verified
    <3>5. strip \in a + 1 .. strip
      BY <1>4, <2>1
    <3>6. p.at = x + (strip - a - 1)
      BY <3>1, <3>5
    <3> HIDE DEF p
    <3>7. p.at + 1 = x + (strip - a)
      BY <1>1, <1>4, <3>6
    <3> QED
      BY <3>4, <3>7
  <2>6. CASE c.kind = "exact"
    <3>1. p.kind = "exact" /\ p.at + 1 = c.at
      BY <2>3, <2>6 DEF Continues, RightBehind
    <3>2. point = c.at
      BY <1>3, <2>5, <3>1
    <3> QED
      BY <2>6, <3>2 DEF Entered, c, t, point
  <2>7. CASE c.kind = "mark"
    <3>1. CASE ~ ExactByte(c.at - 1)
      BY <2>7, <3>1 DEF Entered, c, t
    <3>2. CASE RightBehind(p, c)
      <4>1. p.kind = "exact" /\ p.at + 1 = c.at
        BY <3>2 DEF RightBehind
      <4>2. point = c.at
        BY <1>3, <2>5, <4>1
      <4> QED
        BY <2>7, <4>2 DEF Entered, c, t, point
    <3> QED
      BY <2>3, <2>7, <3>1, <3>2 DEF Continues
  <2>8. CASE c.kind = "tag"
    <3>1. t[a + 1].kind = "tag" /\ t[a + 1].at = x /\ c.at = x
      <4>1. t[strip + 1].kind = "tag"
        BY <2>8 DEF c
      <4>2. t \in Seq(Char) /\ Fits(t, E) /\ strip + 1 \in a + 1 .. Len(t)
        BY <1>1, <2>1
      <4>3. t[a + 1].kind = "tag" /\ t[a + 1].at = x /\ t[strip + 1].at = x
        <5> DEFINE q == strip + 1
        <5>1. /\ t \in Seq(Char) /\ Fits(t, E) /\ q \in a + 1 .. Len(t) /\ t[q].kind = "tag"
              /\ \A e \in E : e[1] \notin a + 1 .. q - 1
          BY <2>11, <4>1, <4>2
        <5> HIDE DEF q
        <5>2. t[a + 1].kind = "tag" /\ t[a + 1].at = x /\ t[q].at = x
          BY <1>4, <2>0, <5>1, TagStretch
        <5> QED
          BY <5>2 DEF q
      <4> QED
        BY <4>3 DEF c
    <3>2. x < Len(Source) /\ Source[x + 1] = "<" /\ t[a + 1].ch # "<"
      BY <2>1, <2>3, <3>1 DEF Own
    <3>3. ~ verified
      <4> SUFFICES ASSUME verified PROVE FALSE
        OBVIOUS
      <4> DEFINE y == x + (strip - a)
                 u == SubSeq(t, a + 1, strip)
                 w == SubSeq(Source, x + 1, y)
      <4>1. y <= Len(Source) /\ Spelling(u) = w
        BY DEF verified
      <4>2. /\ a \in 0 .. Len(t) /\ strip \in a .. Len(t) /\ 1 \in 1 .. strip - a
            /\ x \in Nat /\ y \in Nat /\ x <= y /\ 1 \in 1 .. y - x
        BY <1>1, <1>4, <1>8, <2>1
      <4>3. Source \in Seq(SourceChar) /\ Len(Source) \in Nat
        BY SourceTyped
      <4>4. x \in 0 .. Len(Source) /\ y \in x .. Len(Source)
        BY <4>1, <4>2, <4>3
      <4>5. u \in Seq(Char) /\ Len(u) = strip - a /\ u[1] = t[a + 1]
        BY <1>1, <4>2, Stretch, StretchItems
      <4> HIDE DEF y
      <4>6. w[1] = Source[x + 1]
        BY <4>2, <4>3, <4>4, StretchItems
      <4>7. 1 \in DOMAIN u
        BY <4>2, <4>5
      <4> HIDE DEF u, w
      <4>8. Spelling(u)[1] = u[1].ch
        BY <4>7 DEF Spelling
      <4> QED
        BY <3>2, <4>1, <4>5, <4>6, <4>8
    <3>4. point = c.at
      BY <1>3, <3>1, <3>3
    <3> QED
      BY <2>8, <3>4 DEF Entered, c, t, point
  <2>9. CASE c.kind = "inner"
    BY <2>9 DEF Entered, c, t
  <2>10. c.kind \in {"exact", "mark", "tag", "inner"}
    <3>1. c \in Char
      BY <1>1, <1>6 DEF c
    <3>2. c.kind # "coarse"
      BY <2>3 DEF Continues
    <3> QED
      BY <3>1, <3>2 DEF Char
  <2> QED
    BY <2>6, <2>7, <2>8, <2>9, <2>10 DEF c, t, point
<1> QED
  BY <1>1, <1>2, <1>4, <1>7, <1>8

(* The entries with_prefix makes: one for the prefix, one for the split,   *)
(* and those behind it, moved.                                             *)
LEMMA PrefixEntries ==
  ASSUME NEW m \in SpanMap, Increasing(m), NEW start \in Nat, NEW split \in Entry,
         NEW strip \in Nat
  PROVE  LET p == split[1]
             first == PushEntry(<<<<0, start>>>>, split)
             later == LaterEntries(m, strip, p)
         IN  /\ PushEntries(first, later) \in SpanMap
             /\ Entries(PushEntries(first, later))
                  = (IF p = 0 THEN {} ELSE {<<0, start>>}) \cup {split}
                      \cup {<<e[1] + (p - strip), e[2]>> : e \in {x \in Entries(m) : x[1] > strip}}
<1> DEFINE p == split[1]
           one == <<<<0, start>>>>
           first == PushEntry(one, split)
           K == {k \in DOMAIN m : m[k][1] > strip}
           o == Only(m, K)
           d == p - strip
           later == Shifted(o, d)
<1>1. p \in Nat /\ split[2] \in Nat /\ d \in Int /\ <<0, start>> \in Entry
  BY DEF Entry
<1>2. one \in SpanMap /\ Len(one) = 1 /\ DOMAIN one = {1} /\ one[1] = <<0, start>>
      /\ Entries(one) = {<<0, start>>}
  BY <1>1, EntriesOfFew
<1>3. /\ first \in SpanMap /\ \A e \in Entries(first) : e[1] <= p
      /\ Entries(first) = (IF p = 0 THEN {} ELSE {<<0, start>>}) \cup {split}
  <2>1. CASE p = 0
    <3>1. Last(one)[1] = 0 /\ Front(one) = << >> /\ one # << >>
      BY <1>2 DEF Last, Front
    <3>2. first = Append(Front(one), split)
      BY <2>1, <3>1 DEF PushEntry
    <3>3. first = <<split>>
      BY <3>1, <3>2
    <3>4. first \in SpanMap /\ Entries(first) = {split}
      BY <3>3, EntriesOfFew
    <3> HIDE DEF first
    <3> QED
      BY <1>1, <2>1, <3>4
  <2>2. CASE p # 0
    <3>1. \A k \in DOMAIN one : one[k][1] < p
      BY <1>1, <1>2, <2>2
    <3>2. first = Append(one, split)
      <4> HIDE DEF one
      <4> QED
        BY <1>2, <3>1, PushedLater
    <3> HIDE DEF one, first
    <3>3. first \in SpanMap /\ Entries(first) = {<<0, start>>, split}
      BY <1>2, <3>2, EntriesAppended
    <3> QED
      BY <1>1, <2>2, <3>3
  <2> QED
    BY <2>1, <2>2
<1>4. /\ o \in SpanMap /\ Increasing(o) /\ Entries(o) = {m[k] : k \in K \cap DOMAIN m}
  <2> HIDE DEF K
  <2> QED
    BY Retained, EntriesRetained
<1>5. Entries(o) = {x \in Entries(m) : x[1] > strip}
  BY <1>4 DEF Entries
<1>6. later = LaterEntries(m, strip, p)
  BY DEF LaterEntries
<1> HIDE DEF o, K, first, one
<1>7. \A k \in DOMAIN o : o[k] \in Entries(o)
  BY DEF Entries
<1>8. \A k \in DOMAIN o : o[k][1] \in Nat /\ o[k][1] > strip
  BY <1>4, <1>5, <1>7, EntryTyped
<1>9. \A k \in DOMAIN o : o[k][1] + d \in Nat /\ o[k][1] + d > p
  BY <1>1, <1>8
<1> HIDE DEF d
<1>10. /\ later \in SpanMap /\ Increasing(later) /\ DOMAIN later = DOMAIN o
       /\ \A k \in DOMAIN o : later[k] = <<o[k][1] + d, o[k][2]>>
  BY <1>1, <1>4, <1>9, ShiftedMap
<1>11. Entries(later) = {<<e[1] + d, e[2]>> : e \in Entries(o)}
  BY <1>4, EntriesShifted
<1> HIDE DEF later
<1>12. \A j \in DOMAIN first, k \in DOMAIN later : first[j][1] < later[k][1]
  <2> TAKE j \in DOMAIN first, k \in DOMAIN later
  <2>1. first[j] \in Entries(first)
    BY DEF Entries
  <2>2. first[j][1] \in Nat /\ first[j][1] <= p
    BY <1>3, <2>1, EntryTyped
  <2>3. later[k][1] = o[k][1] + d /\ o[k][1] + d > p /\ o[k][1] + d \in Nat
    BY <1>9, <1>10
  <2> HIDE DEF p
  <2> QED
    BY <1>1, <2>2, <2>3
<1>13. PushEntries(first, later) = first \o later
  BY <1>3, <1>10, <1>12, PushedAllLater
<1>14. first \o later \in SpanMap /\ Entries(first \o later) = Entries(first) \cup Entries(later)
  <2>1. first \o later \in SpanMap
    BY <1>3, <1>10, Joined DEF SpanMap
  <2> QED
    BY <1>3, <1>10, <2>1, EntriesJoined
<1> HIDE DEF p
<1> QED
  BY <1>3, <1>5, <1>6, <1>11, <1>13, <1>14 DEF one, first, d, p

(* with_prefix.                                                            *)
LEMMA WithPrefixFits ==
  ASSUME body \in Seq(BodyEvent), NEW s, FitSql(s), NEW start, TagByte(start),
         NEW strip \in 0 .. Len(s.text), NEW prefix \in Chars, Clean(prefix)
  PROVE  FitSql(WithPrefix(Source, s, start, strip, prefix))
<1> DEFINE t == s.text
           E == Entries(s.map)
           p == Len(prefix)
           x == SplitPoint(Source, s, start, strip)
           split == <<p, x>>
           kept == SubSeq(t, strip + 1, Len(t))
           u == Synthetic(prefix, start)
           r == WithPrefix(Source, s, start, strip, prefix)
<1>1. /\ Sound(s) /\ Fits(t, E) /\ t \in Seq(Char) /\ s.map \in SpanMap /\ Len(t) \in Nat
      /\ strip \in Nat /\ Increasing(s.map)
      /\ \A e \in E : e \in Entry /\ e[1] \in Nat /\ e[2] \in Nat /\ e[1] < Len(t)
  BY FitParts DEF Sound
<1>2. start \in Nat /\ p \in Nat
  BY DEF TagByte, Chars
<1>3. Sound(r)
  BY <1>1, <1>2, WithPrefixSound
<1>4. x \in Nat
  BY <1>1, <1>2, SplitPointNat
<1>5. CASE prefix = << >> /\ strip = 0
  BY <1>5 DEF WithPrefix
<1>6. CASE ~ (prefix = << >> /\ strip = 0)
  <2> DEFINE first == PushEntry(<<<<0, start>>>>, split)
             later == LaterEntries(s.map, strip, p)
             entries == PushEntries(first, later)
             v == u \o kept
             L == {k \in DOMAIN entries : entries[k][1] < Len(v)}
             F == {<<0, x>>} \cup {<<e[1] - strip, e[2]>> : e \in {y \in E : y[1] > strip}}
             G == (IF p = 0 THEN {} ELSE {<<0, start>>}) \cup {split}
                    \cup {<<e[1] + (p - strip), e[2]>> : e \in {y \in E : y[1] > strip}}
  <2>1. r.text = v /\ r.map = Only(entries, L)
    BY <1>6 DEF WithPrefix
  <2>2. split \in Entry /\ split[1] = p
    BY <1>2, <1>4 DEF Entry
  <2>3. entries \in SpanMap /\ Entries(entries) = G
    <3> HIDE DEF split, x, p
    <3> QED
      BY <1>1, <1>2, <2>2, PrefixEntries
  <2> HIDE DEF first, later
  <2>4. Entries(r.map) = {g \in G : g[1] < Len(v)}
    <3>1. Entries(r.map) = {entries[k] : k \in L \cap DOMAIN entries}
      <4> HIDE DEF L, entries
      <4> QED
        BY <2>1, <2>3, EntriesRetained
    <3> HIDE DEF G, v
    <3>2. Entries(r.map) = {g \in Entries(entries) : g[1] < Len(v)}
      BY <3>1 DEF Entries
    <3> QED
      BY <2>3, <3>2
  <2> HIDE DEF entries, L
  <2>5. u \in Seq(Char) /\ Len(u) = p /\ Fits(u, {<<0, start>>})
    BY <1>2, SyntheticText, SyntheticFits
  <2>6. kept \in Seq(Char) /\ Len(kept) = Len(t) - strip
    BY <1>1, TheRest
  <2>7. Fits(kept, F)
    <3>1. strip < Len(t) => Entered(t[strip + 1], x)
      BY <1>1, SplitEntered
    <3>2. \A f \in F : f = <<0, x>> \/ (f[1] \in Nat \ {0} /\ <<strip + f[1], f[2]>> \in E)
      <4> TAKE f \in F
      <4>1. CASE f = <<0, x>>
        BY <4>1
      <4>2. CASE f # <<0, x>>
        <5>1. PICK e \in E : e[1] > strip /\ f = <<e[1] - strip, e[2]>>
          BY <4>2
        <5>2. f[1] \in Nat \ {0} /\ strip + f[1] = e[1] /\ f[2] = e[2] /\ e = <<e[1], e[2]>>
          BY <1>1, <5>1 DEF Entry
        <5> QED
          BY <5>2
      <4> QED
        BY <4>1, <4>2
    <3>3. <<0, x>> \in F
      OBVIOUS
    <3>4. \A e \in E : e[1] \in strip + 1 .. Len(t) => <<e[1] - strip, e[2]>> \in F
      BY <1>1
    <3> HIDE DEF E, F, t, x
    <3> QED
      BY <1>1, <3>1, <3>2, <3>3, <3>4, FitsRest DEF t
  <2>8. Fits(v, G)
    <3>1. \A g \in G : g[1] \in 0 .. Len(u) - 1 => g \in {<<0, start>>}
      <4> TAKE g \in G
      <4> HAVE g[1] \in 0 .. Len(u) - 1
      <4>1. g # split
        BY <1>2, <2>2, <2>5
      <4>2. ASSUME NEW e \in E, e[1] > strip, g = <<e[1] + (p - strip), e[2]>> PROVE FALSE
        <5>1. g[1] = e[1] + (p - strip) /\ e[1] \in Nat
          BY <1>1, <4>2
        <5> HIDE DEF p
        <5> QED
          BY <1>1, <1>2, <2>5, <4>2, <5>1
      <4> QED
        BY <4>1, <4>2
    <3>2. \A e \in {<<0, start>>} : e[1] \in 0 .. Len(u) - 1 => e \in G
      BY <1>2, <2>5
    <3>3. \A g \in G : g[1] \in Len(u) .. Len(u) + Len(kept) - 1 => <<g[1] - Len(u), g[2]>> \in F
      <4> TAKE g \in G
      <4> HAVE g[1] \in Len(u) .. Len(u) + Len(kept) - 1
      <4>1. CASE g = split
        BY <1>2, <2>2, <2>5, <4>1
      <4>2. CASE g # split
        <5>1. p = 0 \/ g # <<0, start>>
          BY <1>2, <2>5
        <5>2. PICK e \in E : e[1] > strip /\ g = <<e[1] + (p - strip), e[2]>>
          BY <4>2, <5>1
        <5>3. g[1] = e[1] + (p - strip) /\ g[2] = e[2] /\ e[1] \in Nat
          BY <1>1, <5>2
        <5>4. g[1] - Len(u) = e[1] - strip
          <6> HIDE DEF p
          <6> QED
            BY <1>1, <1>2, <2>5, <5>3
        <5> QED
          BY <5>2, <5>3, <5>4
      <4> QED
        BY <4>1, <4>2
    <3>4. \A f \in F : f[1] \in 0 .. Len(kept) - 1 => <<Len(u) + f[1], f[2]>> \in G
      <4> TAKE f \in F
      <4>1. CASE f = <<0, x>>
        <5>1. Len(u) + f[1] = p /\ f[2] = x
          BY <1>2, <2>5, <4>1
        <5> QED
          BY <5>1
      <4>2. CASE f # <<0, x>>
        <5>1. PICK e \in E : e[1] > strip /\ f = <<e[1] - strip, e[2]>>
          BY <4>2
        <5>2. f[1] = e[1] - strip /\ f[2] = e[2] /\ e[1] \in Nat
          BY <1>1, <5>1
        <5>3. Len(u) + f[1] = e[1] + (p - strip)
          <6> HIDE DEF p
          <6> QED
            BY <1>1, <1>2, <2>5, <5>2
        <5> QED
          BY <5>1, <5>2, <5>3
      <4> QED
        BY <4>1, <4>2
    <3>5. \E f \in F : f[1] = 0
      <4>1. <<0, x>> \in F /\ <<0, x>>[1] = 0
        OBVIOUS
      <4> HIDE DEF F, x
      <4> QED
        BY <4>1
    <3> HIDE DEF F, G, u, kept
    <3> QED
      BY <2>5, <2>6, <2>7, <3>1, <3>2, <3>3, <3>4, <3>5, FitsTogether
  <2>9. v \in Seq(Char)
    <3> HIDE DEF u, kept
    <3> QED
      BY <2>5, <2>6
  <2>10. Fits(v, Entries(r.map))
    <3> HIDE DEF v, G
    <3>1. \A f \in Entries(r.map) : f[1] \in 0 .. Len(v) - 1 => f \in G
      BY <2>4
    <3>2. \A e \in G : e[1] \in 0 .. Len(v) - 1 => e \in Entries(r.map)
      BY <2>4, <2>9
    <3> QED
      BY <2>8, <2>9, <3>1, <3>2, FitsAlike
  <2> QED
    BY <1>3, <2>1, <2>10 DEF FitSql
<1> QED
  BY <1>5, <1>6

(* A wrapper whose attributes hold no "<".                                 *)
CleanWrapper(w) == Clean(w.prefix) /\ (w.kind # "is" => Clean(w.suffix))

(* Set and Trim.                                                           *)
LEMMA AtBothEndsFits ==
  ASSUME body \in Seq(BodyEvent), NEW s, FitSql(s), NEW start, TagByte(start),
         NEW lead \in 0 .. Len(s.text), NEW trail \in Nat, NEW prefix \in Chars, Clean(prefix),
         NEW suffix \in Chars, Clean(suffix)
  PROVE  FitSql(AtBothEnds(Source, s, start, lead, trail, prefix, suffix))
<1> DEFINE rest == Min({trail, Len(s.text) - lead})
           a == WithPrefix(Source, s, start, lead, prefix)
           c == WithoutSuffix(a, rest)
<1>1. FitSql(a)
  BY WithPrefixFits
<1>2. rest \in Nat
  <2>1. Len(s.text) \in Nat
    BY FitParts
  <2>2. Len(s.text) - lead \in Nat
    BY <2>1
  <2>3. rest \in {trail, Len(s.text) - lead}
    BY <2>2, LesserOfTwo
  <2> HIDE DEF rest
  <2> QED
    BY <2>2, <2>3
<1> HIDE DEF a, rest
<1>3. FitSql(c)
  BY <1>1, <1>2, WithoutSuffixFits
<1> HIDE DEF c
<1>4. FitSql(WithSuffix(c, start, suffix))
  BY <1>3, WithSuffixFits
<1> QED
  BY <1>4 DEF AtBothEnds, a, c, rest

(* finish_pending's wrappers.                                              *)
LEMMA WrapTextFits ==
  ASSUME body \in Seq(BodyEvent), NEW w \in Wrapper, w.kind # "is", CleanWrapper(w),
         NEW s, FitSql(s), NEW start, TagByte(start)
  PROVE  FitSql(WrapText(Source, w, s, start))
<1> DEFINE r == WrapText(Source, w, s, start)
<1>1. s.text \in Seq(Char) /\ Len(s.text) \in Nat
  BY FitParts
<1>2. /\ w.kind \in {"where", "set", "foreach", "dynamic", "trim"}
      /\ w.prefix \in Chars /\ w.suffix \in Chars /\ Clean(w.prefix) /\ Clean(w.suffix)
  BY WrapperParts DEF CleanWrapper
<1>3. 0 \in 0 .. Len(s.text)
  BY <1>1
<1>4. << >> \in Chars /\ Clean(<< >>)
  BY DEF Chars, Clean
<1>5. CASE w.kind = "where"
  <2>1. r = WithPrefix(Source, s, start, LeadingAndOr(s.text), w.prefix)
    BY <1>5, Zenon DEF WrapText
  <2>2. LeadingAndOr(s.text) \in 0 .. Len(s.text)
    BY <1>1, LeadingAndOrWithin
  <2> QED
    BY <1>2, <2>1, <2>2, WithPrefixFits
<1>6. CASE w.kind = "set"
  <2> DEFINE lead == LeadingComma(s.text)
             trail == TrailingComma(s.text)
  <2>1. r = AtBothEnds(Source, s, start, lead, trail, w.prefix, << >>)
    BY <1>6, Zenon DEF WrapText
  <2>2. lead \in 0 .. Len(s.text) /\ trail \in Nat
    BY <1>1, LeadingCommaWithin, TrailingCommaWithin
  <2> HIDE DEF lead, trail
  <2> QED
    BY <1>2, <1>4, <2>1, <2>2, AtBothEndsFits
<1>7. CASE w.kind = "trim"
  <2> DEFINE lead == LeadingOverride(s.text, w.leading)
             trail == TrailingOverride(s.text, w.trailing)
  <2>1. r = AtBothEnds(Source, s, start, lead, trail, w.prefix, w.suffix)
    BY <1>7, Zenon DEF WrapText
  <2>2. lead \in 0 .. Len(s.text) /\ trail \in Nat
    <3>1. w.leading \in Seq(Chars) /\ w.trailing \in Seq(Chars)
      BY <1>7, WrapperParts
    <3> QED
      BY <1>1, <3>1, LeadingOverrideWithin, TrailingOverrideWithin
  <2> HIDE DEF lead, trail
  <2> QED
    BY <1>2, <2>1, <2>2, AtBothEndsFits
<1>8. CASE w.kind = "dynamic"
  <2>1. r = WithPrefix(Source, s, start, 0, w.prefix)
    BY <1>8, Zenon DEF WrapText
  <2> QED
    BY <1>2, <1>3, <2>1, WithPrefixFits
<1>9. CASE w.kind = "foreach"
  <2> DEFINE a == WithPrefix(Source, s, start, 0, w.prefix)
  <2>1. r = WithSuffix(a, start, w.suffix)
    BY <1>9, Zenon DEF WrapText
  <2>2. FitSql(a)
    BY <1>2, <1>3, WithPrefixFits
  <2> HIDE DEF a
  <2> QED
    BY <1>2, <2>1, <2>2, WithSuffixFits
<1> QED
  BY <1>2, <1>5, <1>6, <1>7, <1>8, <1>9

(* The first of a kind is left out.                                        *)
LEMMA WithoutFirstPrependFits ==
  ASSUME NEW pieces \in Seq(FitPieces)
  PROVE  WithoutFirstPrepend(pieces) \in Seq(FitPieces)
<1> DEFINE at == {k \in DOMAIN pieces : pieces[k].type = "Prepend"}
           n == Min(at)
<1>1. CASE at = {}
  BY <1>1 DEF WithoutFirstPrepend
<1>2. CASE at # {}
  <2>1. n \in 1 .. Len(pieces) /\ Len(pieces) \in Nat
    <3>1. at \subseteq Nat /\ at \subseteq 1 .. Len(pieces)
      OBVIOUS
    <3> HIDE DEF at
    <3>2. n \in at
      BY <1>2, <3>1, MinIsLeast
    <3> HIDE DEF n
    <3> QED
      BY <3>1, <3>2
  <2>2. WithoutFirstPrepend(pieces)
          = SubSeq(pieces, 1, n - 1) \o SubSeq(pieces, n + 1, Len(pieces))
    BY <1>2 DEF WithoutFirstPrepend, RemoveAt
  <2> HIDE DEF n
  <2>3. SubSeq(pieces, 1, n - 1) \in Seq(FitPieces)
    <3>1. n - 1 \in Nat /\ n - 1 <= Len(pieces)
      BY <2>1
    <3> QED
      BY <3>1, FirstOnes
  <2>4. SubSeq(pieces, n + 1, Len(pieces)) \in Seq(FitPieces)
    BY <2>1, TheRest
  <2> QED
    BY <2>2, <2>3, <2>4
<1> QED
  BY <1>1, <1>2

(* What a closed tag leaves to its parent.                                 *)
LEMMA ClosedPiecesFits ==
  ASSUME body \in Seq(BodyEvent), NEW w \in Wrapper, CleanWrapper(w),
         NEW pieces \in Seq(FitPieces), NEW start, TagByte(start)
  PROVE  ClosedPieces(Source, w, pieces, start) \in Seq(FitPieces)
<1> DEFINE inner == IF w.kind = "dynamic" THEN WithoutFirstPrepend(pieces) ELSE pieces
           s == Assembled(inner)
           wrapped == NormalizedPiece(WrapText(Source, w, s, start))
           before == IF w.prepends THEN <<PrependPiece(w.prefix, start)>> ELSE << >>
           r == ClosedPieces(Source, w, pieces, start)
<1>1. CASE w.kind = "is"
  <2>1. r = before \o pieces
    BY <1>1, Zenon DEF ClosedPieces
  <2>2. PrependPiece(w.prefix, start) \in FitPieces
    BY WrapperParts
       DEF PrependPiece, FitPieces, FitPiece, SoundPiece, Piece, CleanWrapper, TagByte
  <2>3. before \in Seq(FitPieces)
    BY <2>2
  <2> HIDE DEF before, r
  <2> QED
    BY <2>1, <2>3 DEF r
<1>2. CASE w.kind # "is"
  <2>1. r = << >> \/ r = <<wrapped>>
    <3> HIDE DEF inner, wrapped
    <3>1. r = IF w.kind # "foreach" /\ AllBlank(s.text) THEN << >> ELSE <<wrapped>>
      BY <1>2, Zenon DEF ClosedPieces, inner, wrapped
    <3> QED
      BY <3>1, Zenon
  <2>2. inner \in Seq(FitPieces)
    BY WithoutFirstPrependFits
  <2> HIDE DEF inner
  <2>3. s \in Sql /\ FitSql(s)
    BY <2>2, AssembledFits DEF FitSqls
  <2> HIDE DEF s
  <2> DEFINE t == WrapText(Source, w, s, start)
  <2>4. FitSql(t)
    BY <1>2, <2>3, WrapTextFits
  <2>5. wrapped = NormalizedPiece(t)
    OBVIOUS
  <2> HIDE DEF t, wrapped
  <2>6. wrapped \in FitPieces
    BY <2>4, <2>5
       DEF NormalizedPiece, FitPieces, FitPiece, SoundPiece, Piece, FitSql, Sound
  <2> HIDE DEF r
  <2>7. r \in Seq(FitPieces)
    <3>1. << >> \in Seq(FitPieces) /\ <<wrapped>> \in Seq(FitPieces)
      BY <2>6
    <3> QED
      BY <2>1, <3>1, Zenon
  <2> QED
    BY <2>7 DEF r
<1> QED
  BY <1>1, <1>2

-------------------------------------------------------------------------------
(* The characters of the merged text, when every run has some.             *)

(* Where a run ends the next begins, and the last one with the text.       *)
LEMMA RunsAdjoin ==
  ASSUME runs \in Seq(TextRun), NEW k \in DOMAIN runs
  PROVE  /\ MergedStart(k) + Len(runs[k].decoded) <= Len(Merged)
         /\ k + 1 \in DOMAIN runs =>
              MergedStart(k + 1) = MergedStart(k) + Len(runs[k].decoded)
<1> DEFINE parts == [l \in DOMAIN runs |-> RunChars(runs[l])]
           n == Len(runs)
           f == Joins(parts)
<1>1. n \in Nat /\ DOMAIN runs = 1 .. n /\ \A l \in 1 .. n : RunChars(runs[l]) \in Seq(Char)
  BY RunCharsTyped
<1>2. parts \in Seq(Seq(Char)) /\ Len(parts) = n /\ parts[k] = RunChars(runs[k])
  BY <1>1
<1>3. MergedUpTo = f
  BY DEF MergedUpTo
<1> HIDE DEF parts
<1>4. MergedStart(k) = Len(f[k - 1]) /\ Merged = f[n] /\ MergedStart(k + 1) = Len(f[k])
  <2>1. k + 1 - 1 = k
    BY <1>1
  <2> HIDE DEF f
  <2> QED
    BY <1>3, <2>1 DEF MergedStart, Merged
<1>5. Len(f[k]) = Len(f[k - 1]) + Len(parts[k]) /\ Len(f[k]) <= Len(f[n])
  <2>1. k \in 1 .. Len(parts)
    BY <1>1, <1>2
  <2>2. /\ Len(f[k]) = Len(f[k - 1]) + Len(parts[k])
        /\ Len(f[k]) <= Len(f[Len(parts)])
    BY <1>2, <2>1, JoinsHold, Zenon
  <2> QED
    BY <1>2, <2>2
<1>6. Len(parts[k]) = Len(runs[k].decoded)
  <2> DEFINE g == RunChars(runs[k])
             c == runs[k].decoded
  <2>1. c \in Seq(Alphabet)
    <3>1. runs[k] \in TextRun
      OBVIOUS
    <3> QED
      BY <3>1, RunParts DEF Chars
  <2>2. DOMAIN g = DOMAIN c
    BY DEF RunChars
  <2>3. g \in Seq(Char)
    BY <1>1
  <2> HIDE DEF g, c
  <2>4. Len(g) = Len(c)
    BY <2>1, <2>2, <2>3
  <2> QED
    BY <1>2, <2>4 DEF g, c
<1> HIDE DEF f, n
<1> QED
  BY <1>4, <1>5, <1>6

(* A run is a text event's segment; it is verbatim or one character.       *)
LEMMA RunOfSegment ==
  ASSUME body \in Seq(BodyEvent), Captured(body), ~ EmptyRun, runs \in Seq(TextRun),
         NEW ks, CutFrom(ks), NEW k \in DOMAIN runs
  PROVE  /\ ks[k] \in 1 .. Len(body) /\ body[ks[k]].type \in TextType
         /\ runs[k] = Segment(ks[k]) /\ runs[k].start \in Nat /\ runs[k].end \in Nat
         /\ Len(runs[k].decoded) \in Nat /\ Len(runs[k].decoded) >= 1
         /\ ~ Verbatim(runs[k]) => Len(runs[k].decoded) = 1
         /\ Verbatim(runs[k]) => runs[k].end = runs[k].start + Len(runs[k].decoded)
<1> DEFINE j == ks[k]
<1>1. j \in 1 .. Len(body) /\ body[j].type \in TextType /\ runs[k] = Segment(j)
  <2>1. k \in 1 .. Len(ks)
    BY DEF CutFrom
  <2> QED
    BY <2>1 DEF CutFrom
<1> HIDE DEF j
<1>2. /\ Segment(j).start \in Nat /\ Segment(j).end \in Nat
      /\ Segment(j).decoded \in Seq(Alphabet)
      /\ ~ Verbatim(Segment(j)) => Len(Segment(j).decoded) = 1
      /\ Verbatim(Segment(j)) =>
           Segment(j).end = Segment(j).start + Len(Segment(j).decoded)
  BY <1>1, SegmentLaidOut
<1>3. Segment(j).decoded = body[j].chars
  BY DEF Segment
<1>4. Segment(j).decoded # << >>
  <2>1. j \in DOMAIN body
    BY <1>1
  <2>2. CASE body[j].type = "text"
    BY <1>3, <2>1, <2>2 DEF Captured
  <2>3. CASE body[j].type = "cdata"
    BY <1>3, <2>1, <2>3 DEF EmptyRun
  <2>4. CASE body[j].type = "ref"
    <3>1. Len(body[j].chars) = 1 \/ body[j].chars = <<"&", "r", ";">>
      BY <2>1, <2>4 DEF Captured, Raw
    <3> SUFFICES ASSUME body[j].chars = << >> PROVE FALSE
      BY <1>3
    <3>2. Len(<< >>) # 1 /\ << >> # <<"&", "r", ";">>
      OBVIOUS
    <3> QED
      BY <3>1, <3>2, Zenon
  <2> QED
    BY <1>1, <2>2, <2>3, <2>4 DEF TextType
<1> DEFINE c == Segment(j).decoded
<1>5. Len(c) \in Nat /\ Len(c) >= 1
  <2>1. c \in Seq(Alphabet) /\ c # << >>
    BY <1>2, <1>4
  <2> HIDE DEF c
  <2> QED
    BY <2>1
<1> HIDE DEF c
<1> QED
  BY <1>1, <1>2, <1>5 DEF j, c

(* So every run starts where it is looked up.                              *)
LEMMA RunStarts ==
  ASSUME body \in Seq(BodyEvent), Captured(body), ~ EmptyRun, runs \in Seq(TextRun),
         NEW ks, CutFrom(ks), NEW k \in DOMAIN runs
  PROVE  /\ MergedStart(k) \in 0 .. Len(Merged) - 1
         /\ LayoutFor(MergedStart(k)) = k
         /\ RawAt(MergedStart(k)) = runs[k].start
<1> DEFINE o == MergedStart(k)
           n == Len(runs[k].decoded)
<1>1. n \in Nat /\ n >= 1 /\ runs[k].start \in Nat
  BY RunOfSegment
<1>2. o \in Nat /\ Len(Merged) \in Nat /\ o + n <= Len(Merged)
  BY RunsAdjoin, MergedLaidOut
<1> HIDE DEF n
<1>3. o \in 0 .. Len(Merged) - 1 /\ o <= o /\ o < o + n
  BY <1>1, <1>2
<1> HIDE DEF o
<1>4. LayoutFor(o) = k
  BY <1>3, WithinRun DEF o, n
<1>5. RawOffset(k, o) = runs[k].start
  <2> DEFINE x == runs[k].start
  <2>1. x + (o - o) = x
    BY <1>1, <1>2
  <2>2. RawOffset(k, o) = IF Verbatim(runs[k]) THEN x + (o - o) ELSE x
    BY DEF RawOffset, o
  <2> HIDE DEF x
  <2> QED
    BY <2>1, <2>2 DEF x
<1> QED
  BY <1>3, <1>4, <1>5 DEF RawAt, o

(* A character of the merged text is from where it says; within its run it *)
(* follows the one before, and at the beginning of its run it does so      *)
(* unless the byte in front of it belongs to no verbatim segment.          *)
LEMMA MergedChar ==
  ASSUME body \in Seq(BodyEvent), Captured(body), ~ EmptyRun, runs \in Seq(TextRun),
         NEW ks, CutFrom(ks), NEW o \in 0 .. Len(Merged) - 1
  PROVE  /\ Own(Merged[o + 1]) /\ Merged[o + 1].kind \in {"exact", "coarse"}
         /\ Merged[o + 1].at = RawAt(o)
         /\ o > 0 /\ (\A k \in DOMAIN runs : MergedStart(k) # o) =>
              Continues(Merged[o], Merged[o + 1])
         /\ o > 0 => \/ RightBehind(Merged[o], Merged[o + 1])
                     \/ ~ ExactByte(Merged[o + 1].at - 1)
<1> DEFINE k == LayoutFor(o)
           b == MergedStart(k)
           n == Len(runs[k].decoded)
           c == Merged[o + 1]
           p == Merged[o]
           x == runs[k].start
<1>1. /\ k \in DOMAIN runs /\ b \in Nat /\ b <= o /\ o - b + 1 \in 1 .. n
      /\ c.at = RawOffset(k, o)
      /\ c.kind = IF Verbatim(runs[k]) THEN "exact" ELSE "coarse"
  BY CharOfRun
<1>2. c.at = RawAt(o)
  BY <1>1 DEF RawAt
<1>3. Own(c)
  <2>1. CASE Verbatim(runs[k])
    <3>1. /\ ks[k] \in 1 .. Len(body) /\ body[ks[k]].type \in TextType
          /\ Verbatim(Segment(ks[k]))
          /\ Segment(ks[k]).start <= c.at /\ c.at < Segment(ks[k]).end
          /\ c.at < Len(Source) /\ Source[c.at + 1] = c.ch
      BY <2>1, OwnByte
    <3>2. ks[k] \in DOMAIN body
      BY <3>1
    <3>3. ExactByte(c.at)
      BY <3>1, <3>2 DEF ExactByte
    <3>4. c.kind = "exact"
      BY <1>1, <2>1
    <3> QED
      BY <3>1, <3>3, <3>4 DEF Own
  <2>2. CASE ~ Verbatim(runs[k])
    BY <1>1, <2>2 DEF Own
  <2> QED
    BY <2>1, <2>2
<1> HIDE DEF k
<1>4. /\ ks[k] \in 1 .. Len(body) /\ body[ks[k]].type \in TextType
      /\ runs[k] = Segment(ks[k]) /\ x \in Nat
      /\ n \in Nat /\ n >= 1 /\ (~ Verbatim(runs[k]) => n = 1)
  BY <1>1, RunOfSegment
<1>5. o \in Nat /\ Len(Merged) \in Nat
  BY MergedLaidOut
<1>6. c.kind \in {"exact", "coarse"}
  BY <1>1
<1>7. ASSUME o > 0, b < o PROVE RightBehind(p, c) /\ c.kind = "exact"
  <2>1. Verbatim(runs[k])
    <3> HIDE DEF n, b
    <3> QED
      BY <1>1, <1>4, <1>5, <1>7
  <2>2. o - 1 \in 0 .. Len(Merged) - 1 /\ b <= o - 1 /\ o - 1 < b + n
    <3> HIDE DEF n, b
    <3> QED
      BY <1>1, <1>4, <1>5, <1>7
  <2>3. LayoutFor(o - 1) = k
    BY <1>1, <2>2, WithinRun
  <2>4. p.at = RawOffset(k, o - 1) /\ p.kind = "exact"
    <3>1. o - 1 + 1 = o
      BY <1>5
    <3>2. /\ Merged[o - 1 + 1].at = RawOffset(LayoutFor(o - 1), o - 1)
          /\ Merged[o - 1 + 1].kind = IF Verbatim(runs[LayoutFor(o - 1)]) THEN "exact" ELSE "coarse"
      BY <2>2, CharOfRun
    <3> QED
      BY <2>1, <2>3, <3>1, <3>2
  <2>5. p.at = x + (o - 1 - b) /\ c.at = x + (o - b)
    BY <1>1, <2>1, <2>4 DEF RawOffset
  <2>6. c.kind = "exact"
    BY <1>1, <2>1
  <2> DEFINE pa == p.at
             ca == c.at
  <2>7. pa + 1 = ca
    <3> HIDE DEF pa, ca, x, b
    <3>1. pa = x + (o - 1 - b) /\ ca = x + (o - b)
      BY <2>5 DEF pa, ca
    <3> QED
      BY <1>1, <1>4, <1>5, <3>1
  <2> QED
    BY <2>4, <2>6, <2>7 DEF RightBehind
<1>8. ASSUME o > 0, b = o, ExactByte(c.at - 1) PROVE RightBehind(p, c)
  <2>1. c.at = x
    <3>1. RawAt(b) = x
      BY <1>1, RunStarts
    <3> QED
      BY <1>2, <1>8, <3>1
  <2>2. PICK j \in 1 .. Len(body) :
          /\ j + 1 = ks[k] /\ body[j].type \in TextType /\ Verbatim(Segment(j))
          /\ Segment(j).end = Segment(ks[k]).start
    <3>1. ExactByte(Segment(ks[k]).start - 1)
      BY <1>4, <1>8, <2>1
    <3> QED
      BY <1>4, <3>1, ByteBefore
  <2>3. k # 1
    <3>1. runs # << >>
      BY <1>1
    <3>2. MergedStart(1) = 0
      BY <3>1, MergedLaidOut
    <3> QED
      BY <1>8, <3>2
  <2>4. k \in 2 .. Len(ks) /\ k - 1 \in DOMAIN runs /\ k - 1 + 1 = k /\ k \in Nat
    <3>1. Len(ks) = Len(runs) /\ DOMAIN runs = 1 .. Len(runs) /\ Len(runs) \in Nat
      BY DEF CutFrom
    <3> QED
      BY <1>1, <2>3, <3>1, SMTT(30)
  <2>5. ks[k - 1] = j
    BY <2>2, <2>4 DEF CutFrom
  <2> DEFINE l == k - 1
  <2>6. l \in DOMAIN runs /\ l + 1 = k /\ ks[l] = j
    BY <2>4, <2>5
  <2> HIDE DEF l
  <2> DEFINE d == Len(runs[l].decoded)
             a == MergedStart(l)
             y == runs[l].start
  <2>7. /\ runs[l] = Segment(j) /\ y \in Nat /\ d \in Nat /\ d >= 1
        /\ Verbatim(runs[l]) /\ runs[l].end = y + d
    <3>1. /\ runs[l] = Segment(ks[l]) /\ y \in Nat /\ d \in Nat /\ d >= 1
          /\ Verbatim(runs[l]) => runs[l].end = y + d
      BY <2>6, RunOfSegment
    <3> QED
      BY <2>2, <2>6, <3>1
  <2>8. a \in Nat /\ b = a + d
    <3>1. l + 1 \in DOMAIN runs
      BY <1>1, <2>6
    <3> QED
      BY <2>6, <3>1, RunsAdjoin, MergedLaidOut
  <2>9. x = y + d
    BY <1>4, <2>2, <2>7
  <2>10. o - 1 \in 0 .. Len(Merged) - 1 /\ a <= o - 1 /\ o - 1 < a + d
    <3> HIDE DEF a, b, d
    <3> QED
      BY <1>5, <1>8, <2>7, <2>8
  <2>11. LayoutFor(o - 1) = l
    BY <2>6, <2>10, WithinRun
  <2>12. p.at = RawOffset(l, o - 1) /\ p.kind = "exact"
    <3>1. o - 1 + 1 = o
      BY <1>5
    <3>2. /\ Merged[o - 1 + 1].at = RawOffset(LayoutFor(o - 1), o - 1)
          /\ Merged[o - 1 + 1].kind = IF Verbatim(runs[LayoutFor(o - 1)]) THEN "exact" ELSE "coarse"
      BY <2>10, CharOfRun
    <3> QED
      BY <2>7, <2>11, <3>1, <3>2
  <2>13. p.at = y + (o - 1 - a)
    BY <2>7, <2>12 DEF RawOffset
  <2> DEFINE pa == p.at
             ca == c.at
  <2>14. pa + 1 = ca
    <3>1. pa = y + (o - 1 - a) /\ ca = x
      BY <2>1, <2>13
    <3>2. /\ b = o /\ b = a + d /\ x = y + d
          /\ a \in Nat /\ d \in Nat /\ y \in Nat /\ o \in Nat
      BY <1>5, <1>8, <2>7, <2>8, <2>9
    <3> HIDE DEF pa, ca, x, y, a, b, d
    <3> QED
      BY <3>1, <3>2
  <2> QED
    BY <2>12, <2>14 DEF RightBehind
<1>9. b < o \/ b = o
  <2> HIDE DEF b
  <2> QED
    BY <1>1, <1>5
<1>10. o > 0 /\ (\A l \in DOMAIN runs : MergedStart(l) # o) => Continues(p, c)
  <2>1. (\A l \in DOMAIN runs : MergedStart(l) # o) => b # o
    BY <1>1
  <2>2. RightBehind(p, c) /\ c.kind = "exact" => Continues(p, c)
    BY DEF Continues
  <2> QED
    BY <1>7, <1>9, <2>1, <2>2
<1>11. o > 0 => RightBehind(p, c) \/ ~ ExactByte(c.at - 1)
  BY <1>7, <1>8, <1>9
<1> QED
  BY <1>2, <1>3, <1>6, <1>10, <1>11

-------------------------------------------------------------------------------
(* The scan: what it copies fits the map it writes.                        *)

(* A scan of runs cut from a body none of whose CDATA is empty.            *)
CutWhole(ks) ==
  /\ body \in Seq(BodyEvent) /\ Captured(body) /\ ~ EmptyRun
  /\ runs \in Seq(TextRun) /\ CutFrom(ks)

(* The entries for the run boundaries strictly inside.                     *)
Inside(from, to) == {k \in DOMAIN runs : from < MergedStart(k) /\ MergedStart(k) < to}
Bounds(from, to, base) ==
  {<<base + MergedStart(k) - from, runs[k].start>> : k \in Inside(from, to)}

(* They are the entries that flush_literal makes.                          *)
LEMMA JunctionsOf ==
  ASSUME NEW ks, CutWhole(ks), NEW from \in Nat, NEW to \in Nat, NEW base \in Nat
  PROVE  Entries(JunctionEntries(from, to, base)) = Bounds(from, to, base)
<1> DEFINE n == Len(runs)
           all == [k \in DOMAIN runs |-> k]
           K == {k \in DOMAIN runs :
                   /\ from < MergedStart(k) /\ MergedStart(k) < to
                   /\ \A j \in 1 .. k - 1 : MergedStart(j) # MergedStart(k)}
           js == Only(all, K)
           J == [m \in DOMAIN js |-> <<base + MergedStart(js[m]) - from, runs[js[m]].start>>]
<1>0. JunctionEntries(from, to, base) = J
  BY DEF JunctionEntries
<1>1. n \in Nat /\ DOMAIN runs = 1 .. n
  BY DEF CutWhole
<1>2. all \in Seq(1 .. n) /\ Len(all) = n /\ \A k \in 1 .. n : all[k] = k
  BY <1>1
<1>3. \A k \in 1 .. n : LayoutFor(MergedStart(k)) = k
  BY <1>1, RunStarts DEF CutWhole
<1>4. K = Inside(from, to)
  <2>1. ASSUME NEW k \in 1 .. n, NEW j \in 1 .. k - 1, MergedStart(j) = MergedStart(k)
        PROVE  FALSE
    <3>1. j \in 1 .. n /\ j # k
      BY <1>1
    <3>2. LayoutFor(MergedStart(j)) = j /\ LayoutFor(MergedStart(k)) = k
      BY <1>3, <3>1
    <3> QED
      BY <2>1, <3>1, <3>2
  <2> QED
    BY <1>1, <2>1 DEF Inside
<1>5. \A k \in K : k \in 1 .. n
  BY <1>1
<1> HIDE DEF all, K
<1>6. PICK w : js \in Seq(1 .. n) /\ Picks(js, w, all, K, n)
  BY <1>2, OnlyPicks
<1> HIDE DEF js
<1>7. Len(js) \in Nat /\ DOMAIN js = 1 .. Len(js)
  BY <1>6
<1>8. \A m \in 1 .. Len(js) : w[m] \in K /\ w[m] \in 1 .. n /\ js[m] = all[w[m]]
  BY <1>6 DEF Picks
<1>9. \A m \in 1 .. Len(js) : js[m] = w[m] /\ js[m] \in K
  BY <1>2, <1>8
<1>10. \A k \in K : \E m \in 1 .. Len(js) : js[m] = k
  <2>1. \A k \in K : k \in K \cap 1 .. n
    BY <1>5
  <2>2. \A k \in K \cap 1 .. n : \E m \in 1 .. Len(js) : w[m] = k
    BY <1>6 DEF Picks
  <2> QED
    BY <1>9, <2>1, <2>2
<1>11. Entries(J) = {J[m] : m \in 1 .. Len(js)}
  BY <1>7 DEF Entries
<1>12. \A m \in 1 .. Len(js) :
         J[m] = <<base + MergedStart(js[m]) - from, runs[js[m]].start>>
  BY <1>7
<1> HIDE DEF J
<1>13. ASSUME NEW e \in Entries(J) PROVE e \in Bounds(from, to, base)
  <2>1. PICK m \in 1 .. Len(js) : e = J[m]
    BY <1>11
  <2>2. js[m] \in Inside(from, to)
    BY <1>4, <1>9
  <2> QED
    BY <1>12, <2>1, <2>2 DEF Bounds
<1>14. ASSUME NEW e \in Bounds(from, to, base) PROVE e \in Entries(J)
  <2>1. PICK k \in Inside(from, to) : e = <<base + MergedStart(k) - from, runs[k].start>>
    BY DEF Bounds
  <2>2. PICK m \in 1 .. Len(js) : js[m] = k
    BY <1>4, <1>10
  <2>3. e = J[m]
    BY <1>12, <2>1, <2>2
  <2> QED
    BY <1>11, <2>3
<1> QED
  BY <1>0, <1>13, <1>14

(* Text copied from the merged text fits the boundaries in it and an entry *)
(* for where it begins.                                                    *)
LEMMA SliceFits ==
  ASSUME NEW ks, CutWhole(ks), NEW from \in Nat, NEW to \in Nat, from <= to,
         to <= Len(Merged)
  PROVE  Fits(Slice(from, to), {<<0, RawAt(from)>>} \cup Bounds(from, to, 0))
<1> DEFINE u == Slice(from, to)
           F == {<<0, RawAt(from)>>} \cup Bounds(from, to, 0)
<1>1. Merged \in Seq(Char) /\ Len(Merged) \in Nat
  BY MergedLaidOut DEF CutWhole
<1>2. u \in Seq(Char) /\ Len(u) = to - from /\ \A m \in 1 .. to - from : u[m] = Merged[from + m]
  BY <1>1, Stretch DEF Slice
<1>3. \A k \in DOMAIN runs : MergedStart(k) \in Nat
  BY MergedLaidOut DEF CutWhole
<1> HIDE DEF u
<1> SUFFICES ASSUME NEW m \in 1 .. to - from
             PROVE  /\ Own(u[m])
                    /\ \A f \in F : f[1] = m - 1 => Entered(u[m], f[2])
                    /\ m > 1 /\ (\A f \in F : f[1] # m - 1) => Continues(u[m - 1], u[m])
  BY <1>2 DEF Fits, u
<1> DEFINE o == from + m - 1
           c == Merged[o + 1]
<1>4. /\ o \in Nat /\ o \in 0 .. Len(Merged) - 1 /\ from <= o /\ o < to
      /\ o + 1 = from + m /\ o - from = m - 1
      /\ m > 1 => o > 0 /\ from < o /\ m - 1 \in 1 .. to - from /\ from + (m - 1) = o
  BY <1>1
<1>5. u[m] = c /\ (m > 1 => u[m - 1] = Merged[o])
  BY <1>2, <1>4
<1> HIDE DEF o
<1>6. /\ Own(c) /\ c.kind \in {"exact", "coarse"} /\ c.at = RawAt(o)
      /\ o > 0 /\ (\A k \in DOMAIN runs : MergedStart(k) # o) => Continues(Merged[o], c)
  BY <1>4, MergedChar DEF CutWhole
<1> HIDE DEF c
<1>7. Entered(c, RawAt(o))
  BY <1>6 DEF Entered
<1>8. ASSUME NEW f \in F, f[1] = m - 1 PROVE Entered(u[m], f[2])
  <2>1. CASE f = <<0, RawAt(from)>>
    <3>1. m - 1 = 0 /\ f[2] = RawAt(from)
      BY <1>8, <2>1
    <3>2. o = from
      BY <1>4, <3>1
    <3> QED
      BY <1>5, <1>7, <3>1, <3>2
  <2>2. CASE f \in Bounds(from, to, 0)
    <3>1. PICK k \in Inside(from, to) : f = <<0 + MergedStart(k) - from, runs[k].start>>
      BY <2>2 DEF Bounds
    <3>2. k \in DOMAIN runs /\ MergedStart(k) \in Nat
      BY <1>3 DEF Inside
    <3> DEFINE b == MergedStart(k)
    <3>3. f[1] = 0 + b - from /\ f[2] = runs[k].start
      BY <3>1
    <3>4. b = o
      <4> HIDE DEF b
      <4>1. b \in Nat
        BY <3>2 DEF b
      <4> QED
        BY <1>4, <1>8, <3>3, <4>1
    <3>5. RawAt(b) = runs[k].start
      BY <3>2, RunStarts DEF CutWhole
    <3> QED
      BY <1>5, <1>7, <3>3, <3>4, <3>5
  <2> QED
    BY <2>1, <2>2
<1>9. ASSUME m > 1, \A f \in F : f[1] # m - 1 PROVE Continues(u[m - 1], u[m])
  <2>1. ASSUME NEW k \in DOMAIN runs, MergedStart(k) = o PROVE FALSE
    <3>1. k \in Inside(from, to)
      BY <1>4, <1>9, <2>1 DEF Inside
    <3> DEFINE f == <<0 + MergedStart(k) - from, runs[k].start>>
    <3>2. f \in F
      BY <3>1 DEF Bounds
    <3>3. f[1] = m - 1
      BY <1>4, <2>1
    <3> HIDE DEF f, F
    <3> QED
      BY <1>9, <3>2, <3>3
  <2> QED
    BY <1>4, <1>5, <1>6, <1>9, <2>1
<1> QED
  BY <1>5, <1>6, <1>8, <1>9

(* Between two turns: what is copied fits the map, whose last entry says   *)
(* where the uncopied rest is from.                                        *)
ScanFits ==
  /\ Fits(text, Entries(map))
  /\ copyStart < Len(Merged) => <<Len(text), RawAt(copyStart)>> \in Entries(map)

(* A map has one entry for an offset.                                      *)
LEMMA OneEntry ==
  ASSUME NEW m \in SpanMap, Increasing(m), NEW d \in Entries(m), NEW e \in Entries(m), d[1] = e[1]
  PROVE  d = e
<1>1. PICK j \in DOMAIN m : d = m[j]
  BY DEF Entries
<1>2. PICK k \in DOMAIN m : e = m[k]
  BY DEF Entries
<1>3. j \in Nat /\ k \in Nat /\ m[j][1] \in Nat /\ m[k][1] \in Nat
  BY EntryNats DEF SpanMap
<1>4. ~ j < k
  BY <1>1, <1>2, <1>3 DEF Increasing
<1>5. ~ k < j
  BY <1>1, <1>2, <1>3 DEF Increasing
<1>6. j = k
  BY <1>3, <1>4, <1>5
<1> QED
  BY <1>1, <1>2, <1>6

(* flush_literal.                                                          *)
LEMMA FlushedFits ==
  ASSUME NEW ks, CutWhole(ks), ScanSound, ScanFits, NEW to \in i .. Len(Merged)
  PROVE  Fits(FlushedText(to), Entries(FlushedMap(to)))
<1> DEFINE n == Len(text)
           c == Slice(copyStart, to)
           l == Len(c)
           J == JunctionEntries(copyStart, to, n)
           E == Entries(map)
           B == Bounds(copyStart, to, n)
           D == Bounds(copyStart, to, 0)
           x == RawAt(copyStart)
           F == {<<0, x>>} \cup D
           G == E \cup B
<1>1. /\ Merged \in Seq(Char) /\ Len(Merged) \in Nat /\ copyStart \in Nat /\ to \in Nat
      /\ copyStart <= to /\ to <= Len(Merged) /\ n \in Nat /\ text \in Seq(Char)
      /\ map \in SpanMap /\ Increasing(map) /\ runs \in Seq(TextRun)
  BY MergedLaidOut DEF ScanSound
<1>2. c \in Seq(Char) /\ l = to - copyStart /\ l \in Nat
  <2>1. copyStart \in 0 .. Len(Merged) /\ to \in copyStart .. Len(Merged)
    BY <1>1
  <2>2. c \in Seq(Char) /\ l = to - copyStart
    BY <1>1, <2>1, Stretch DEF Slice
  <2> HIDE DEF c
  <2> QED
    BY <2>2
<1>3. Fits(c, F)
  BY <1>1, SliceFits
<1>4. Entries(FlushedMap(to)) = G
  <2>1. J \in SpanMap
    BY <1>1, JunctionsSound
  <2>2. Entries(J) = B
    BY <1>1, JunctionsOf
  <2> HIDE DEF J, B
  <2> QED
    BY <1>1, <2>1, <2>2, EntriesJoined DEF FlushedMap, J
<1>5. FlushedText(to) = text \o c
  BY DEF FlushedText
<1>6. \A e \in E : e \in Entry /\ e[1] \in Nat /\ e[1] <= n
  <2>1. \A k \in DOMAIN map : map[k] \in Entry /\ map[k][1] \in Nat /\ map[k][1] <= n
    BY <1>1, EntryNats DEF ScanSound
  <2> QED
    BY <2>1 DEF Entries
<1>7. \A k \in DOMAIN runs : MergedStart(k) \in Nat
  BY <1>1, MergedLaidOut
<1>8. \A g \in B : \E k \in Inside(copyStart, to) :
        /\ MergedStart(k) \in Nat /\ copyStart < MergedStart(k) /\ MergedStart(k) < to
        /\ g = <<n + MergedStart(k) - copyStart, runs[k].start>>
  BY <1>7 DEF Bounds, Inside
<1> HIDE DEF n, c, l
<1>9. \A g \in B : g[1] > n
  <2> TAKE g \in B
  <2>1. PICK k \in Inside(copyStart, to) :
        /\ MergedStart(k) \in Nat /\ copyStart < MergedStart(k) /\ MergedStart(k) < to
        /\ g = <<n + MergedStart(k) - copyStart, runs[k].start>>
    BY <1>8
  <2> DEFINE b == MergedStart(k)
  <2>2. b \in Nat /\ copyStart < b /\ g[1] = n + b - copyStart
    BY <2>1
  <2> HIDE DEF b, B
  <2> QED
    BY <1>1, <2>2
<1>10. \A g \in G : g[1] \in 0 .. n - 1 => g \in E
  <2> HIDE DEF B, E
  <2> QED
    BY <1>1, <1>9
<1>11. ASSUME NEW g \in G, g[1] \in n .. n + l - 1 PROVE <<g[1] - n, g[2]>> \in F
  <2>1. CASE g \in E
    <3>1. g[1] = n /\ copyStart < Len(Merged)
      BY <1>1, <1>2, <1>6, <1>11, <2>1
    <3> DEFINE e == <<n, x>>
    <3>2. e \in E /\ e[1] = n /\ e[2] = x
      BY <3>1 DEF ScanFits, n
    <3> HIDE DEF E, e
    <3>3. g = e
      BY <1>1, <2>1, <3>1, <3>2, OneEntry DEF E
    <3>4. g[1] - n = 0 /\ g[2] = x
      BY <1>1, <3>2, <3>3
    <3>5. <<g[1] - n, g[2]>> = <<0, x>>
      BY <3>4
    <3> HIDE DEF x, D
    <3> QED
      BY <3>5
  <2>2. CASE g \in B
    <3>1. PICK k \in Inside(copyStart, to) :
            g = <<n + MergedStart(k) - copyStart, runs[k].start>>
      BY <2>2 DEF Bounds
    <3> DEFINE b == MergedStart(k)
    <3>2. b \in Nat /\ g[1] = n + b - copyStart /\ g[2] = runs[k].start
      BY <1>7, <3>1 DEF Inside
    <3>3. <<0 + MergedStart(k) - copyStart, runs[k].start>> \in D
      BY DEF Bounds
    <3>4. g[1] - n = 0 + b - copyStart
      <4> HIDE DEF b
      <4> QED
        BY <1>1, <3>2
    <3>5. <<g[1] - n, g[2]>> = <<0 + MergedStart(k) - copyStart, runs[k].start>>
      BY <3>2, <3>4
    <3>6. <<g[1] - n, g[2]>> \in D
      BY <3>3, <3>5
    <3> HIDE DEF D
    <3> QED
      BY <3>6
  <2> QED
    BY <2>1, <2>2
<1>12. ASSUME NEW f \in F, f[1] \in 0 .. l - 1 PROVE <<n + f[1], f[2]>> \in G
  <2>1. CASE f = <<0, x>>
    <3>1. 0 \in 0 .. l - 1
      BY <1>12, <2>1
    <3>2. copyStart < Len(Merged)
      BY <1>1, <1>2, <3>1
    <3>3. <<n, x>> \in E
      BY <3>2 DEF ScanFits, n
    <3>4. n + f[1] = n /\ f[2] = x
      BY <1>1, <2>1
    <3>5. <<n + f[1], f[2]>> = <<n, x>>
      BY <3>4
    <3> HIDE DEF E, B, x
    <3> QED
      BY <3>3, <3>5
  <2>2. CASE f \in D
    <3>1. PICK k \in Inside(copyStart, to) :
            f = <<0 + MergedStart(k) - copyStart, runs[k].start>>
      BY <2>2 DEF Bounds
    <3> DEFINE b == MergedStart(k)
    <3>2. b \in Nat /\ f[1] = 0 + b - copyStart /\ f[2] = runs[k].start
      BY <1>7, <3>1 DEF Inside
    <3>3. <<n + MergedStart(k) - copyStart, runs[k].start>> \in B
      BY DEF Bounds
    <3>4. n + f[1] = n + b - copyStart
      <4> HIDE DEF b
      <4> QED
        BY <1>1, <3>2
    <3>5. <<n + f[1], f[2]>> = <<n + MergedStart(k) - copyStart, runs[k].start>>
      BY <3>2, <3>4
    <3>6. <<n + f[1], f[2]>> \in B
      BY <3>3, <3>5
    <3> HIDE DEF B
    <3> QED
      BY <3>6
  <2> QED
    BY <2>1, <2>2
<1>13. \E f \in F : f[1] = 0
  <2> DEFINE f == <<0, x>>
  <2>1. f \in F /\ f[1] = 0
    OBVIOUS
  <2> HIDE DEF f, F
  <2> QED
    BY <2>1
<1>14. Fits(text, E)
  BY DEF ScanFits
<1>15. \A e \in E : e[1] \in 0 .. n - 1 => e \in G
  OBVIOUS
<1> HIDE DEF E, F, G
<1>16. Fits(text \o c, G)
  BY <1>1, <1>2, <1>3, <1>10, <1>11, <1>12, <1>13, <1>14, <1>15, FitsTogether DEF n, l
<1> QED
  BY <1>4, <1>5, <1>16

(* What the flushed text and its map end with at the scan position.        *)
LEMMA FlushedEnd ==
  ASSUME NEW ks, CutWhole(ks), ScanSound, ScanFits, i < Len(Merged)
  PROVE  /\ \A e \in Entries(FlushedMap(i)) :
              /\ e[1] \in Nat /\ e[1] <= Len(FlushedText(i))
              /\ e[1] = Len(FlushedText(i)) => e[2] = RawAt(i)
         /\ \/ \E e \in Entries(FlushedMap(i)) : e[1] = Len(FlushedText(i))
            \/ /\ i > 0 /\ FlushedText(i) # << >>
               /\ FlushedText(i)[Len(FlushedText(i))] = Merged[i]
<1> DEFINE n == Len(text)
           c == Slice(copyStart, i)
           t == FlushedText(i)
           B == Bounds(copyStart, i, n)
           E == Entries(map)
<1>1. /\ Merged \in Seq(Char) /\ Len(Merged) \in Nat /\ copyStart \in Nat /\ i \in Nat
      /\ copyStart <= i /\ n \in Nat /\ text \in Seq(Char) /\ runs \in Seq(TextRun)
      /\ map \in SpanMap /\ Increasing(map) /\ i \in i .. Len(Merged)
  BY MergedLaidOut DEF ScanSound
<1>2. /\ c \in Seq(Char) /\ Len(c) = i - copyStart
      /\ i > copyStart => c[i - copyStart] = Merged[i]
  <2>1. copyStart \in 0 .. Len(Merged) /\ i \in copyStart .. Len(Merged)
    BY <1>1
  <2>2. c \in Seq(Char) /\ Len(c) = i - copyStart
    BY <1>1, <2>1, Stretch DEF Slice
  <2>3. i > copyStart => c[i - copyStart] = Merged[copyStart + (i - copyStart)]
    BY <1>1 DEF Slice
  <2>4. copyStart + (i - copyStart) = i
    BY <1>1
  <2> QED
    BY <2>2, <2>3, <2>4
<1>3. t = text \o c
  BY DEF FlushedText
<1>4. /\ FlushedMap(i) \in SpanMap /\ Increasing(FlushedMap(i)) /\ t \in Seq(Char)
      /\ Len(t) = n + (i - copyStart)
      /\ \A e \in Entries(FlushedMap(i)) : e[1] \in Nat /\ e[1] <= Len(t)
  <2>1. /\ FlushedMap(i) \in SpanMap /\ Increasing(FlushedMap(i)) /\ t \in Seq(Char)
        /\ Len(t) = n + (i - copyStart)
        /\ \A k \in DOMAIN FlushedMap(i) : FlushedMap(i)[k][1] <= Len(t)
    BY <1>1, Flushed
  <2>2. \A k \in DOMAIN FlushedMap(i) : FlushedMap(i)[k][1] \in Nat
    BY <2>1, EntryNats
  <2> HIDE DEF t
  <2>3. \A e \in Entries(FlushedMap(i)) : e[1] \in Nat /\ e[1] <= Len(t)
    BY <2>1, <2>2 DEF Entries
  <2> QED
    BY <2>1, <2>3
<1>5. Entries(FlushedMap(i)) = E \cup B
  <2> DEFINE J == JunctionEntries(copyStart, i, n)
  <2>1. J \in SpanMap
    BY <1>1, JunctionsSound
  <2>2. Entries(J) = B
    BY <1>1, JunctionsOf
  <2> HIDE DEF J, B
  <2> QED
    BY <1>1, <2>1, <2>2, EntriesJoined DEF FlushedMap, J
<1>6. ASSUME NEW e \in E \cup B, e[1] = Len(t)
      PROVE  copyStart = i /\ e \in E
  <2>1. CASE e \in B
    <3>1. PICK k \in Inside(copyStart, i) :
            e = <<n + MergedStart(k) - copyStart, runs[k].start>>
      BY <2>1 DEF Bounds
    <3> DEFINE b == MergedStart(k)
    <3>2. b \in Nat /\ copyStart < b /\ b < i /\ e[1] = n + b - copyStart
      BY <1>1, <3>1, MergedLaidOut DEF Inside
    <3> DEFINE m == Len(t)
    <3>3. m = n + (i - copyStart) /\ e[1] = m
      BY <1>4, <1>6
    <3> HIDE DEF b, n, m
    <3> QED
      BY <1>1, <3>2, <3>3
  <2>2. CASE e \in E
    <3>1. e[1] \in Nat /\ e[1] <= n
      <4>1. \A k \in DOMAIN map : map[k][1] \in Nat /\ map[k][1] <= n
        BY <1>1, EntryNats DEF ScanSound
      <4> QED
        BY <2>2, <4>1 DEF Entries
    <3> DEFINE m == Len(t)
    <3>2. m = n + (i - copyStart) /\ e[1] = m
      BY <1>4, <1>6
    <3> HIDE DEF n, m
    <3>3. copyStart = i
      BY <1>1, <3>1, <3>2
    <3> QED
      BY <2>2, <3>3
  <2> QED
    BY <2>1, <2>2
<1>7. copyStart = i => <<n, RawAt(i)>> \in E /\ Len(t) = n
  BY <1>1, <1>4 DEF ScanFits
<1>8. ASSUME NEW e \in E \cup B, e[1] = Len(t) PROVE e[2] = RawAt(i)
  <2> DEFINE d == <<n, RawAt(i)>>
  <2>1. e \in E /\ d \in E /\ d[1] = n /\ d[2] = RawAt(i) /\ Len(t) = n
    BY <1>6, <1>7, <1>8
  <2> HIDE DEF d, E
  <2>2. e = d
    BY <1>1, <1>8, <2>1, OneEntry DEF E
  <2> QED
    BY <2>1, <2>2
<1>9. CASE copyStart = i
  <2> DEFINE d == <<n, RawAt(i)>>
  <2>1. d \in E /\ d[1] = Len(t)
    BY <1>7, <1>9
  <2> HIDE DEF d, E, B
  <2> QED
    BY <1>4, <1>5, <1>8, <2>1
<1>10. CASE copyStart # i
  <2>1. i > copyStart /\ i - copyStart \in 1 .. Len(c) /\ i > 0
    BY <1>1, <1>2, <1>10
  <2>2. Len(t) = n + (i - copyStart) /\ Len(t) # 0
    BY <1>1, <1>4, <2>1
  <2>3. t[n + (i - copyStart)] = c[i - copyStart]
    BY <1>1, <1>2, <1>3, <2>1, Joined
  <2>4. t # << >>
    BY <1>4, <2>2
  <2>5. t[Len(t)] = Merged[i]
    BY <1>2, <2>1, <2>2, <2>3
  <2> HIDE DEF t, E, B
  <2>6. \A e \in Entries(FlushedMap(i)) :
          e[1] \in Nat /\ e[1] <= Len(t) /\ (e[1] = Len(t) => e[2] = RawAt(i))
    BY <1>4, <1>5, <1>8
  <2> QED
    BY <2>1, <2>4, <2>5, <2>6 DEF t
<1> QED
  BY <1>9, <1>10

(* A marker fits an entry for where what it replaces is, and one that says *)
(* anything else if no byte is right in front.                             *)
LEMMA MarkerFits ==
  ASSUME ScanSound, i < Len(Merged), NEW chars \in Chars, NEW F,
         \A f \in F : f[1] = 0 => f[2] = Merged[i + 1].at,
         \A f \in F : f[1] \in Nat /\ f[1] <= 0
  PROVE  Fits(Marker(chars), F)
<1> DEFINE u == Marker(chars)
           n == Len(chars)
           x == Merged[i + 1].at
<1>1. u \in Seq(Char) /\ Len(u) = n
  BY MarkerText
<1>2. DOMAIN chars = 1 .. n /\ n \in Nat
  BY DEF Chars
<1>3. \A k \in 1 .. n :
        u[k] = [ch |-> chars[k], at |-> x, kind |-> IF k = 1 THEN "mark" ELSE "inner"]
  BY <1>2 DEF Marker
<1> HIDE DEF u, n, x
<1>4. ASSUME NEW k \in 1 .. n
      PROVE  u[k].at = x /\ u[k].kind = IF k = 1 THEN "mark" ELSE "inner"
  <2> DEFINE what == IF k = 1 THEN "mark" ELSE "inner"
  <2>1. u[k] = [ch |-> chars[k], at |-> x, kind |-> what]
    BY <1>3
  <2> HIDE DEF what
  <2>2. u[k].at = x /\ u[k].kind = what
    BY <2>1
  <2> QED
    BY <2>2 DEF what
<1>5. ASSUME NEW k \in 1 .. n
      PROVE  /\ Own(u[k])
             /\ \A f \in F : f[1] = k - 1 => Entered(u[k], f[2])
             /\ k > 1 /\ (\A f \in F : f[1] # k - 1) => Continues(u[k - 1], u[k])
  <2>1. u[k].at = x /\ u[k].kind = IF k = 1 THEN "mark" ELSE "inner"
    BY <1>4
  <2>2. Own(u[k])
    BY <2>1 DEF Own
  <2>3. ASSUME NEW f \in F, f[1] = k - 1 PROVE Entered(u[k], f[2])
    <3>1. f[1] = 0 /\ f[2] = x
      BY <2>3 DEF x
    <3> QED
      BY <2>1, <3>1 DEF Entered
  <2>4. k > 1 => Continues(u[k - 1], u[k])
    <3>1. k > 1 => u[k].kind = "inner"
      BY <2>1
    <3> QED
      BY <3>1 DEF Continues
  <2> QED
    BY <2>2, <2>3, <2>4
<1> QED
  BY <1>1, <1>5 DEF Fits, u, n

(* Replace: what is copied, and the marker behind it.                      *)
LEMMA ReplacedFits ==
  ASSUME NEW ks, CutWhole(ks), ScanSound, ScanFits, i < Len(Merged),
         NEW chars \in Chars, chars # << >>, NEW end \in i .. Len(Merged),
         Replace(Marker(chars), end)
  PROVE  /\ Fits(text', Entries(map'))
         /\ <<Len(text'), RawAt(end)>> \in Entries(map')
<1> DEFINE a == FlushedText(i)
           c == Marker(chars)
           t == a \o c
           m == FlushedMap(i)
           l == Len(a)
           e == <<Len(t), RawAt(end)>>
           r == Append(m, e)
           E == Entries(m)
           F == {<<x[1] - l, x[2]>> : x \in {y \in E : y[1] = l}}
           G == E \cup {e}
           mark == Merged[i + 1]
<1>1. /\ Merged \in Seq(Char) /\ i \in Nat /\ Len(Merged) \in Nat /\ i \in i .. Len(Merged)
      /\ i \in 0 .. Len(Merged) - 1 /\ end \in Nat
  BY MergedLaidOut DEF ScanSound
<1>2. a \in Seq(Char) /\ m \in SpanMap /\ l \in Nat
  <2>1. a \in Seq(Char) /\ m \in SpanMap
    BY <1>1, Flushed
  <2> HIDE DEF a
  <2> QED
    BY <2>1
<1>3. Fits(a, E)
  BY <1>1, FlushedFits
<1>4. /\ \A x \in E : x[1] \in Nat /\ x[1] <= l /\ (x[1] = l => x[2] = RawAt(i))
      /\ (\E x \in E : x[1] = l) \/ (i > 0 /\ a # << >> /\ a[l] = Merged[i])
  BY FlushedEnd
<1>5. text' = t /\ map' = r
  BY DEF Replace
<1>6. /\ mark.at = RawAt(i)
      /\ i > 0 => RightBehind(Merged[i], mark) \/ ~ ExactByte(mark.at - 1)
  BY <1>1, MergedChar DEF CutWhole
<1>7. c \in Seq(Char) /\ Len(c) = Len(chars) /\ Len(chars) \in Nat /\ Len(chars) >= 1
  <2>1. Len(chars) \in Nat /\ Len(chars) >= 1
    BY DEF Chars
  <2> QED
    BY <2>1, MarkerText
<1>8. c[1].kind = "mark" /\ c[1].at = mark.at
  <2>1. 1 \in DOMAIN chars
    BY <1>7 DEF Chars
  <2>2. c[1] = [ch |-> chars[1], at |-> mark.at, kind |-> "mark"]
    BY <2>1 DEF Marker
  <2> QED
    BY <2>2
<1> HIDE DEF a, m, l, c, mark
<1>9. \A f \in F : f[1] = 0 /\ f[2] = mark.at
  <2> TAKE f \in F
  <2>1. PICK x \in E : x[1] = l /\ f = <<x[1] - l, x[2]>>
    OBVIOUS
  <2>2. f[1] = x[1] - l /\ f[2] = x[2]
    BY <2>1
  <2>3. x[1] - l = 0 /\ x[2] = RawAt(i)
    BY <1>2, <1>4, <2>1
  <2> QED
    BY <1>6, <2>2, <2>3
<1>10. Fits(c, F)
  <2> HIDE DEF F
  <2>1. \A f \in F : f[1] = 0 => f[2] = Merged[i + 1].at
    BY <1>9 DEF mark
  <2>2. \A f \in F : f[1] \in Nat /\ f[1] <= 0
    BY <1>9
  <2> QED
    BY <2>1, <2>2, MarkerFits DEF c
<1>11. t \in Seq(Char) /\ Len(t) = l + Len(c)
  BY <1>2, <1>7, Joined DEF l
<1>12. e \in Entry /\ e[1] = l + Len(c) /\ e[1] > l
  <2>1. RawAt(end) \in Nat
    BY <1>1, RawOffsetNat DEF RawAt, ScanSound
  <2> DEFINE z == RawAt(end)
             y == Len(t)
  <2>2. y \in Nat /\ y = l + Len(c) /\ y > l /\ z \in Nat
    BY <1>2, <1>7, <1>11, <2>1
  <2>3. e = <<y, z>>
    OBVIOUS
  <2> HIDE DEF z, y, e
  <2>4. e \in Entry /\ e[1] = y
    BY <2>2, <2>3 DEF Entry
  <2> QED
    BY <2>2, <2>4
<1>13. Entries(r) = G
  <2> HIDE DEF e
  <2> QED
    BY <1>2, <1>12, EntriesAppended
<1> HIDE DEF e
<1>14. \A g \in G : g[1] \in 0 .. l - 1 => g \in E
  <2> HIDE DEF E
  <2> QED
    BY <1>2, <1>12
<1>15. \A x \in E : x[1] \in 0 .. l - 1 => x \in G
  OBVIOUS
<1>16. ASSUME NEW g \in G, g[1] \in l .. l + Len(c) - 1 PROVE <<g[1] - l, g[2]>> \in F
  <2>1. g # e
    BY <1>2, <1>7, <1>12, <1>16
  <2>2. g \in E
    BY <2>1
  <2>3. g[1] = l
    <3> HIDE DEF E
    <3> QED
      BY <1>2, <1>4, <1>16, <2>2
  <2> QED
    BY <2>2, <2>3
<1>17. ASSUME NEW f \in F, f[1] \in 0 .. Len(c) - 1 PROVE <<l + f[1], f[2]>> \in G
  <2>1. PICK x \in E : x[1] = l /\ f = <<x[1] - l, x[2]>>
    OBVIOUS
  <2>2. f[1] = 0 /\ f[2] = x[2]
    BY <1>9, <2>1
  <2>3. l + f[1] = x[1]
    BY <1>2, <2>1, <2>2
  <2>4. x = <<x[1], x[2]>>
    BY <1>2, EntryTyped DEF Entry
  <2>5. <<l + f[1], f[2]>> = x
    BY <2>2, <2>3, <2>4
  <2> HIDE DEF E
  <2> QED
    BY <2>5
<1>18. (\E f \in F : f[1] = 0) \/ (a # << >> => Continues(a[l], c[1]))
  <2>1. CASE \E x \in E : x[1] = l
    <3>1. PICK x \in E : x[1] = l
      BY <2>1
    <3>2. <<x[1] - l, x[2]>> \in F
      BY <3>1
    <3> HIDE DEF F
    <3> QED
      BY <1>9, <3>2
  <2>2. CASE i > 0 /\ a # << >> /\ a[l] = Merged[i]
    <3>1. RightBehind(a[l], mark) \/ ~ ExactByte(mark.at - 1)
      BY <1>6, <2>2
    <3>2. RightBehind(a[l], c[1]) \/ ~ ExactByte(c[1].at - 1)
      BY <1>8, <3>1 DEF RightBehind
    <3>3. Continues(a[l], c[1])
      BY <1>8, <3>2 DEF Continues
    <3> QED
      BY <3>3
  <2> QED
    BY <1>4, <2>1, <2>2
<1> HIDE DEF E, F, G
<1>19. Fits(t, G)
  BY <1>2, <1>3, <1>7, <1>10, <1>14, <1>15, <1>16, <1>17, <1>18, FitsTogether DEF l
<1>20. e \in G
  BY DEF G
<1> QED
  BY <1>5, <1>13, <1>19, <1>20 DEF e

(* The final retain.                                                       *)
LEMMA NormalizedFits ==
  ASSUME NEW ks, CutWhole(ks), ScanSound, ScanFits, i = Len(Merged)
  PROVE  FitSql(Normalized)
<1> DEFINE n == Len(Merged)
           t == FlushedText(n)
           m == FlushedMap(n)
           K == {k \in DOMAIN m : m[k][1] < Len(t)}
           r == Only(m, K)
<1>1. n \in i .. Len(Merged)
  BY MergedLaidOut DEF ScanSound
<1>2. t \in Seq(Char) /\ m \in SpanMap
  BY <1>1, Flushed
<1>3. Normalized = [text |-> t, map |-> r]
  BY DEF Normalized, Within
<1>4. Fits(t, Entries(m))
  BY <1>1, FlushedFits
<1> HIDE DEF t, m
<1>5. Entries(r) = {m[k] : k \in K \cap DOMAIN m}
  <2> HIDE DEF K
  <2> QED
    BY <1>2, EntriesRetained
<1>6. Entries(r) = {e \in Entries(m) : e[1] < Len(t)}
  BY <1>5 DEF Entries
<1>7. Len(t) \in Nat
  BY <1>2
<1> HIDE DEF r
<1>8. Fits(t, Entries(r))
  <2>1. \A f \in Entries(r) : f[1] \in 0 .. Len(t) - 1 => f \in Entries(m)
    BY <1>6
  <2>2. \A e \in Entries(m) : e[1] \in 0 .. Len(t) - 1 => e \in Entries(r)
    BY <1>6, <1>7
  <2> QED
    BY <1>2, <1>4, <2>1, <2>2, FitsAlike
<1>9. Sound(Normalized)
  BY NormalizedSound DEF SoundSqls
<1> QED
  BY <1>3, <1>8, <1>9 DEF FitSql

-------------------------------------------------------------------------------
(* The invariant behind TracesBack.                                        *)

(* The pieces inside the open tags fit, each tag begins where it says, and *)
(* so does the finished text.                                              *)
FramesFit(fs, t) ==
  /\ \A f \in DOMAIN fs : fs[f].pieces \in Seq(FitPieces)
  /\ \A f \in 2 .. Len(fs) : TagByte(fs[f].start) /\ CleanWrapper(fs[f].wrapper)
  /\ FitSql(t)

TraceInv ==
  /\ PathInv
  /\ ~ EmptyRun => FramesFit(frames, sql) /\ (scanning => ScanFits)

(* What fits depends on the body alone.                                    *)
LEMMA FitnessKept ==
  ASSUME body' = body
  PROVE  /\ EmptyRun' <=> EmptyRun
         /\ \A t, E : Fits(t, E)' <=> Fits(t, E)
         /\ \A fs, t : FramesFit(fs, t)' <=> FramesFit(fs, t)
<1>1. Source' = Source /\ \A k : Segment(k)' = Segment(k)
  BY SegmentsKept
<1>2. EmptyRun' <=> EmptyRun
  BY DEF EmptyRun
<1>3. \A p : TagByte(p)' <=> TagByte(p)
  BY <1>1 DEF TagByte
<1>4. \A p : ExactByte(p)' <=> ExactByte(p)
  BY <1>1 DEF ExactByte
<1>5. \A c : Own(c)' <=> Own(c)
  BY <1>1, <1>4 DEF Own
<1>6. \A c, x : Entered(c, x)' <=> Entered(c, x)
  BY <1>4 DEF Entered
<1>7. \A p, c : Continues(p, c)' <=> Continues(p, c)
  BY <1>4 DEF Continues
<1>8. \A t, E : Fits(t, E)' <=> Fits(t, E)
  BY <1>5, <1>6, <1>7 DEF Fits
<1>9. \A s : FitSql(s)' <=> FitSql(s)
  BY <1>8 DEF FitSql
<1>10. \A p : FitPiece(p)' <=> FitPiece(p)
  BY <1>3, <1>9 DEF FitPiece
<1>11. FitPieces' = FitPieces
  BY <1>10 DEF FitPieces
<1>12. \A fs, t : FramesFit(fs, t)' <=> FramesFit(fs, t)
  BY <1>3, <1>9, <1>11 DEF FramesFit
<1> QED
  BY <1>2, <1>8, <1>12

(* So what fits goes on fitting.                                           *)
LEMMA FramesFitKept ==
  ASSUME body' = body, FramesFit(frames', sql')
  PROVE  FramesFit(frames, sql)'
BY FitnessKept

(* So does a scan whose text fits.                                         *)
LEMMA ScanFitsKept ==
  ASSUME body' = body, runs' = runs, Fits(text', Entries(map')),
         copyStart' < Len(Merged) => <<Len(text'), RawAt(copyStart')>> \in Entries(map')
  PROVE  ScanFits'
<1>1. Merged' = Merged /\ \A o : RawAt(o)' = RawAt(o)
  <2>1. MergedUpTo' = MergedUpTo
    BY DEF MergedUpTo
  <2>2. \A k : MergedStart(k)' = MergedStart(k)
    BY <2>1 DEF MergedStart
  <2>3. \A o : LayoutFor(o)' = LayoutFor(o)
    BY <2>2 DEF LayoutFor
  <2>4. \A k, o : RawOffset(k, o)' = RawOffset(k, o)
    BY <2>2 DEF RawOffset
  <2> QED
    BY <2>1, <2>3, <2>4 DEF Merged, RawAt
<1>2. Fits(text, Entries(map))'
  BY FitnessKept DEF Entries
<1>3. (copyStart < Len(Merged) => <<Len(text), RawAt(copyStart)>> \in Entries(map))'
  BY <1>1 DEF Entries
<1> QED
  BY <1>2, <1>3 DEF ScanFits

(* The runs of a scan are cut from the body.                               *)
LEMMA WholeCut ==
  ASSUME PathInv, scanning, ~ EmptyRun
  PROVE  ScanSound /\ \E ks : CutWhole(ks)
<1>1. ScanSound /\ body \in Seq(BodyEvent) /\ Captured(body)
  BY BodiesAssumption DEF PathInv, IInv, ScanTyped, Reading
<1>2. PICK ks : CutFrom(ks)
  BY DEF PathInv, IsCut
<1>3. CutWhole(ks)
  BY <1>1, <1>2 DEF CutWhole, ScanSound
<1> QED
  BY <1>1, <1>3

(* A scan begins with nothing copied and an entry for the first run.       *)
Beginning ==
  /\ PathInv /\ scanning /\ ~ EmptyRun
  /\ copyStart = 0 /\ text = << >> /\ map = <<<<0, runs[1].start>>>>

(* So far it fits.                                                         *)
LEMMA BeginningFits == Beginning => ScanFits
<1> SUFFICES ASSUME Beginning PROVE ScanFits
  OBVIOUS
<1>1. PICK ks : CutWhole(ks)
  BY WholeCut DEF Beginning
<1>2. ScanSound
  BY WholeCut DEF Beginning
<1>3. 1 \in DOMAIN runs /\ MergedStart(1) = 0 /\ runs \in Seq(TextRun)
  BY <1>2, MergedLaidOut DEF ScanSound
<1>4. RawAt(0) = runs[1].start
  <2>1. RawAt(MergedStart(1)) = runs[1].start
    BY <1>1, <1>3, RunStarts DEF CutWhole
  <2> QED
    BY <1>3, <2>1
<1>5. copyStart = 0 /\ text = << >> /\ map = <<<<0, runs[1].start>>>>
  BY DEF Beginning
<1>6. <<0, runs[1].start>> \in Entry
  <2>1. runs[1] \in TextRun
    BY <1>3
  <2> QED
    BY <2>1, RunParts DEF Entry
<1>7. Entries(map) = {<<0, runs[1].start>>}
  BY <1>5, <1>6, EntriesOfFew
<1>8. Len(text) = 0
  BY <1>5
<1>9. Fits(text, Entries(map))
  BY <1>8 DEF Fits
<1>10. <<Len(text), RawAt(copyStart)>> \in Entries(map)
  BY <1>4, <1>5, <1>7, <1>8
<1> QED
  BY <1>9, <1>10 DEF ScanFits

(* It does so in the next state, too.                                      *)
LEMMA BeginningFitsNext == Beginning' => ScanFits'
BY BeginningFits, PTL

-------------------------------------------------------------------------------
(* The steps, again: what fits goes on fitting.                            *)

(* A turn of the loop that puts a marker in its place.                     *)
LEMMA MarkedFits ==
  ASSUME NEW ks, CutWhole(ks), ScanSound, ScanFits, i < Len(Merged),
         NEW chars \in Chars, chars # << >>, NEW end \in i .. Len(Merged),
         Replace(Marker(chars), end), body' = body
  PROVE  ScanFits'
<1>1. Fits(text', Entries(map')) /\ <<Len(text'), RawAt(end)>> \in Entries(map')
  BY ReplacedFits
<1>2. copyStart' = end /\ runs' = runs
  BY DEF Replace
<1> QED
  BY <1>1, <1>2, ScanFitsKept

(* Markers are not empty.                                                  *)
LEMMA MarkerNotEmpty ==
  ASSUME NEW delimiter
  PROVE  \E chars \in Chars : chars # << >> /\ MarkerOf(delimiter) = Marker(chars)
<1> DEFINE chars == IF delimiter = "#" THEN <<"?">> ELSE DynMarker
<1>1. MarkerOf(delimiter) = Marker(chars)
  BY DEF MarkerOf
<1>2. DynMarker \in Chars /\ DynMarker # << >> /\ "?" \in Alphabet
  BY DynMarkerAssumption
<1>3. \A c \in Alphabet : <<c>> \in Chars /\ <<c>> # << >>
  BY DEF Chars
<1>4. chars \in Chars /\ chars # << >>
  BY <1>2, <1>3, Zenon
<1> HIDE DEF chars
<1> QED
  BY <1>1, <1>4

(* Every turn of the loop.                                                 *)
LEMMA ScanKeepsFit ==
  ASSUME PathInv, scanning, ~ EmptyRun, ScanFits, ScanStep, body' = body
  PROVE  ScanFits'
<1>1. PICK ks : CutWhole(ks)
  BY WholeCut
<1>2. ScanSound
  BY WholeCut
<1>3. i \in Nat /\ Len(Merged) \in Nat /\ Merged \in Seq(Char)
  BY <1>2, MergedLaidOut DEF ScanSound
<1>4. CASE BracedPlaceholder
  <2> DEFINE S == ClosingBraces(i)
             close == Min(S)
  <2>1. i < Len(Merged) /\ S # {} /\ Replace(MarkerOf(CharAt(i)), close + 1)
    BY <1>4 DEF BracedPlaceholder, AtText
  <2>2. S \subseteq i + 2 .. Len(Merged) - 1
    BY Zenon DEF ClosingBraces
  <2>3. S \subseteq Nat
    BY <1>3, <2>2
  <2> HIDE DEF S
  <2>4. close \in i + 2 .. Len(Merged) - 1
    BY <2>1, <2>2, <2>3, MinIsLeast
  <2> HIDE DEF close
  <2>5. close + 1 \in i .. Len(Merged)
    BY <1>3, <2>4
  <2>6. PICK chars \in Chars : chars # << >> /\ MarkerOf(CharAt(i)) = Marker(chars)
    BY MarkerNotEmpty
  <2>7. Replace(Marker(chars), close + 1)
    BY <2>1, <2>6
  <2> QED
    BY <1>1, <1>2, <2>1, <2>5, <2>6, <2>7, MarkedFits
<1>5. CASE LegacyPlaceholder
  <2> DEFINE S == LegacyClose(i)
             close == CHOOSE j \in S : TRUE
  <2>1. i < Len(Merged) /\ S # {} /\ Replace(MarkerOf(CharAt(i)), close + 1)
    BY <1>5 DEF LegacyPlaceholder, Legacy, AtText
  <2>2. S \subseteq i + 1 .. Len(Merged) - 1
    BY Zenon DEF LegacyClose
  <2>3. close \in S
    BY <2>1
  <2> HIDE DEF S, close
  <2>4. close + 1 \in i .. Len(Merged)
    <3>1. close \in i + 1 .. Len(Merged) - 1
      BY <2>2, <2>3
    <3> QED
      BY <1>3, <3>1
  <2>5. PICK chars \in Chars : chars # << >> /\ MarkerOf(CharAt(i)) = Marker(chars)
    BY MarkerNotEmpty
  <2>6. Replace(Marker(chars), close + 1)
    BY <2>1, <2>5
  <2> QED
    BY <1>1, <1>2, <2>1, <2>4, <2>5, <2>6, MarkedFits
<1>6. CASE EscapedDelimiter
  <2> DEFINE c == CharAt(i)
  <2>1. /\ i < Len(Merged) /\ Replace(Marker(<<c>>), i + 2)
        /\ Delimiter(c) /\ CharAt(i + 1) = c
    BY <1>6 DEF EscapedDelimiter, Escaped, AtText
  <2>2. c \in Alphabet
    BY <1>2, <2>1, CharWithin
  <2>3. i + 1 < Len(Merged)
    <3> SUFFICES ASSUME ~ (i + 1 < Len(Merged)) PROVE FALSE
      OBVIOUS
    <3>1. CharAt(i + 1) = "none"
      BY Zenon DEF CharAt
    <3>2. CharAt(i + 1) = "#" \/ CharAt(i + 1) = "$"
      BY <2>1 DEF Delimiter
    <3> QED
      BY <3>1, <3>2
  <2> HIDE DEF c
  <2>4. <<c>> \in Chars /\ <<c>> # << >>
    BY <2>2 DEF Chars
  <2>5. i + 2 \in i .. Len(Merged)
    BY <1>3, <2>3
  <2> DEFINE chars == <<c>>
  <2>6. chars \in Chars /\ chars # << >> /\ Replace(Marker(chars), i + 2)
    BY <2>1, <2>4
  <2> HIDE DEF chars
  <2> QED
    BY <1>1, <1>2, <2>1, <2>5, <2>6, MarkedFits
<1>7. CASE Unterminated
  <2> DEFINE n == Len(Merged)
  <2>1. /\ text' = FlushedText(n) /\ map' = FlushedMap(n) /\ copyStart' = n /\ runs' = runs
    BY <1>7 DEF Unterminated
  <2>2. n \in i .. Len(Merged)
    BY <1>2, <1>3 DEF ScanSound
  <2>3. Fits(FlushedText(n), Entries(FlushedMap(n)))
    BY <1>1, <1>2, <2>2, FlushedFits
  <2>4. ~ (copyStart' < n)
    BY <1>3, <2>1
  <2> HIDE DEF n
  <2> QED
    BY <2>1, <2>3, <2>4, ScanFitsKept DEF n
<1>8. CASE PlainCharacter
  <2>1. UNCHANGED <<runs, copyStart, text, map>>
    BY <1>8 DEF PlainCharacter
  <2> QED
    BY <2>1, ScanFitsKept DEF ScanFits
<1> QED
  BY <1>4, <1>5, <1>6, <1>7, <1>8 DEF ScanStep

(* A piece more on top.                                                    *)
LEMMA PushedFit ==
  ASSUME FramesSound, frames # << >>, FramesFit(frames, sql), NEW piece \in FitPieces,
         frames' = Push(piece), UNCHANGED sql
  PROVE  FramesFit(frames', sql')
<1> DEFINE n == Len(frames)
           top == [frames[n] EXCEPT !.pieces = Append(@, piece)]
<1>1. n \in Nat /\ n \in DOMAIN frames /\ DOMAIN frames = 1 .. n /\ frames \in Seq(Frame)
  BY DEF FramesSound
<1>2. frames' = [frames EXCEPT ![n] = top]
  BY DEF Push
<1>3. frames[n] \in Frame
  BY <1>1
<1>4. /\ top.pieces \in Seq(FitPieces)
      /\ top.wrapper = frames[n].wrapper /\ top.start = frames[n].start
  <2> DEFINE f == frames[n]
             ps == Append(f.pieces, piece)
  <2>1. f.pieces \in Seq(FitPieces)
    BY <1>1 DEF FramesFit
  <2>2. ps \in Seq(FitPieces) /\ top = [f EXCEPT !.pieces = ps] /\ f \in Frame
    BY <1>3, <2>1
  <2> HIDE DEF f, ps, top
  <2>3. top.pieces = ps /\ top.wrapper = f.wrapper /\ top.start = f.start
    BY <2>2 DEF Frame
  <2> QED
    BY <2>2, <2>3 DEF f
<1> HIDE DEF top, n
<1>5. DOMAIN frames' = 1 .. n /\ \A f \in 1 .. n : frames'[f] = IF f = n THEN top ELSE frames[f]
  BY <1>1, <1>2
<1>6. Len(frames') = n
  BY <1>1, <1>5
<1>7. \A f \in DOMAIN frames' : frames'[f].pieces \in Seq(FitPieces)
  BY <1>1, <1>4, <1>5 DEF FramesFit
<1>8. ASSUME NEW f \in 2 .. n
      PROVE  TagByte(frames'[f].start) /\ CleanWrapper(frames'[f].wrapper)
  <2>1. f \in 1 .. n
    BY <1>1
  <2>2. frames'[f].wrapper = frames[f].wrapper /\ frames'[f].start = frames[f].start
    BY <1>4, <1>5, <2>1
  <2>3. TagByte(frames[f].start) /\ CleanWrapper(frames[f].wrapper)
    BY DEF FramesFit, n
  <2> QED
    BY <2>2, <2>3
<1>9. FitSql(sql')
  BY DEF FramesFit
<1> QED
  BY <1>6, <1>7, <1>8, <1>9 DEF FramesFit

(* The end of a run leaves its text.                                       *)
LEMMA EndRunKeepsFit ==
  ASSUME PathInv, ~ EmptyRun, FramesFit(frames, sql), ScanFits, EndRun
  PROVE  FramesFit(frames', sql')
<1>1. /\ scanning /\ i = Len(Merged) /\ frames' = Push(NormalizedPiece(Normalized))
      /\ UNCHANGED sql
  BY DEF EndRun
<1>2. PICK ks : CutWhole(ks)
  BY <1>1, WholeCut
<1>3. ScanSound
  BY <1>1, WholeCut
<1>4. FitSql(Normalized)
  BY <1>1, <1>2, <1>3, NormalizedFits
<1>5. NormalizedPiece(Normalized) \in FitPieces
  <2> DEFINE s == Normalized
  <2> HIDE DEF s
  <2>1. FitSql(s)
    BY <1>4 DEF s
  <2>2. NormalizedPiece(s) \in FitPieces
    BY <2>1 DEF NormalizedPiece, FitPieces, FitPiece, SoundPiece, Piece, FitSql, Sound
  <2> QED
    BY <2>2 DEF s
<1>6. frames # << >> /\ FramesSound
  BY <1>1 DEF PathInv, IInv, Depth
<1> QED
  BY <1>1, <1>5, <1>6, PushedFit

(* A tag begins where its event does.                                      *)
LEMMA TagThere ==
  ASSUME body \in Seq(BodyEvent), NEW k \in 1 .. Len(body), body[k].type \notin TextType
  PROVE  TagByte(StartOf(k))
<1>1. body[k] \in BodyEvent
  OBVIOUS
<1>2. Raw(body[k]) = <<"<">>
  BY <1>1, RawOfText
<1>3. Len(<<"<">>) = 1 /\ <<"<">>[1] = "<"
  OBVIOUS
<1>4. /\ StartOf(k) \in Nat /\ Len(Source) \in Nat /\ StartOf(k) + 1 <= Len(Source)
      /\ \A m \in 1 .. 1 : Source[StartOf(k) + m] = <<"<">>[m]
  <2>1. /\ StartOf(k) \in Nat /\ Len(Source) \in Nat
        /\ StartOf(k) + Len(Raw(body[k])) <= Len(Source)
        /\ \A m \in 1 .. Len(Raw(body[k])) : Source[StartOf(k) + m] = Raw(body[k])[m]
    BY EventLaidOut
  <2> QED
    BY <1>2, <1>3, <2>1
<1>5. Source[StartOf(k) + 1] = "<"
  BY <1>3, <1>4
<1> QED
  BY <1>4, <1>5 DEF TagByte

(* An include leaves its comment.                                          *)
LEMMA IncludeKeepsFit ==
  ASSUME PathInv, FramesFit(frames, sql), Include
  PROVE  FramesFit(frames', sql')
<1>1. /\ ~ scanning /\ next < Len(body) /\ Here.type = "include"
      /\ frames' = Push(IncludePiece(StartOf(next + 1))) /\ UNCHANGED sql
  BY DEF Include, AtEvent
<1>2. next \in Nat /\ body \in Seq(BodyEvent) /\ next + 1 \in 1 .. Len(body)
  BY <1>1, BodyTyped DEF PathInv, IInv, Reading
<1>3. body[next + 1].type \notin TextType
  BY <1>1 DEF Here, TextType
<1> DEFINE x == StartOf(next + 1)
<1>4. TagByte(x)
  BY <1>2, <1>3, TagThere
<1> HIDE DEF x
<1>5. IncludePiece(x) \in FitPieces
  BY <1>4 DEF IncludePiece, FitPieces, FitPiece, SoundPiece, Piece, TagByte
<1>6. frames # << >> /\ FramesSound
  BY <1>1 DEF PathInv, IInv, Depth
<1> QED
  BY <1>1, <1>5, <1>6, PushedFit DEF x

(* An open tag's frame holds nothing yet.                                  *)
LEMMA OpenKeepsFit ==
  ASSUME PathInv, FramesFit(frames, sql), Open
  PROVE  FramesFit(frames', sql')
<1> DEFINE f == [wrapper |-> Here.wrapper, start |-> StartOf(next + 1), pieces |-> << >>]
           n == Len(frames)
<1>1. /\ ~ scanning /\ next < Len(body) /\ Here.type = "open"
      /\ frames' = Append(frames, f) /\ UNCHANGED sql
  BY DEF Open, AtEvent
<1>2. next \in Nat /\ body \in Seq(BodyEvent) /\ next + 1 \in 1 .. Len(body) /\ body \in Bodies
  BY <1>1, BodyTyped DEF PathInv, IInv, Reading
<1>3. /\ f.pieces \in Seq(FitPieces) /\ TagByte(f.start) /\ CleanWrapper(f.wrapper)
  <2>1. body[next + 1].type = "open" /\ body[next + 1].type \notin TextType
    BY <1>1 DEF Here, TextType
  <2>2. TagByte(StartOf(next + 1))
    BY <1>2, <2>1, TagThere
  <2>3. CleanWrapper(Here.wrapper)
    <3>1. next + 1 \in DOMAIN body
      BY <1>2
    <3> DEFINE w == body[next + 1].wrapper
    <3>2. /\ \A m \in DOMAIN w.prefix : w.prefix[m] # "<"
          /\ w.kind # "is" => \A m \in DOMAIN w.suffix : w.suffix[m] # "<"
      BY <1>2, <2>1, <3>1, AttributesAssumption
    <3> QED
      BY <3>2 DEF CleanWrapper, Clean, Here
  <2>4. << >> \in Seq(FitPieces)
    OBVIOUS
  <2> QED
    BY <2>2, <2>3, <2>4
<1>4. f \in Frame
  <2>1. Here \in BodyEvent
    BY <1>2 DEF Here
  <2>2. Here.wrapper \in Wrapper
    BY <1>1, <2>1, EventTypes
  <2>3. StartOf(next + 1) \in Nat
    BY <1>2, SourceLaidOut
  <2>4. << >> \in Seq(SoundPieces)
    OBVIOUS
  <2> QED
    BY <2>2, <2>3, <2>4 DEF Frame
<1> HIDE DEF f
<1>5. frames \in Seq(Frame) /\ n \in Nat /\ DOMAIN frames = 1 .. n
  BY DEF PathInv, IInv, FramesSound
<1>6. /\ frames' \in Seq(Frame) /\ Len(frames') = n + 1 /\ frames'[n + 1] = f
      /\ \A k \in 1 .. n : frames'[k] = frames[k]
  BY <1>1, <1>4, <1>5, OneMore
<1>7. DOMAIN frames' = 1 .. n + 1
  BY <1>5, <1>6
<1> HIDE DEF n
<1>8. \A k \in 1 .. n + 1 : k = n + 1 \/ k \in 1 .. n
  BY <1>5
<1>9. \A k \in 2 .. n + 1 : k = n + 1 \/ k \in 2 .. n
  BY <1>5
<1>10. \A k \in 2 .. n : k \in 1 .. n
  BY <1>5
<1>11. \A k \in DOMAIN frames' : frames'[k].pieces \in Seq(FitPieces)
  BY <1>3, <1>5, <1>6, <1>7, <1>8 DEF FramesFit
<1>12. \A k \in 2 .. n : TagByte(frames[k].start) /\ CleanWrapper(frames[k].wrapper)
  BY DEF FramesFit, n
<1>13. ASSUME NEW k \in 2 .. n + 1
       PROVE  TagByte(frames'[k].start) /\ CleanWrapper(frames'[k].wrapper)
  <2>1. CASE k = n + 1
    BY <1>3, <1>6, <2>1
  <2>2. CASE k \in 2 .. n
    BY <1>6, <1>10, <1>12, <2>2
  <2> QED
    BY <1>9, <2>1, <2>2
<1>14. FitSql(sql')
  BY <1>1 DEF FramesFit
<1> QED
  BY <1>6, <1>11, <1>13, <1>14 DEF FramesFit

(* A closed tag leaves what it wraps in the one below it.                  *)
LEMMA CloseKeepsFit ==
  ASSUME PathInv, FramesFit(frames, sql), Close
  PROVE  FramesFit(frames', sql')
<1> DEFINE n == Len(frames)
           outer == Front(frames)
           closed == ClosedPieces(Source, Top.wrapper, Top.pieces, Top.start)
           below == [outer[n - 1] EXCEPT !.pieces = @ \o closed]
<1>1. /\ AtEvent("close") /\ UNCHANGED sql
      /\ frames' = [outer EXCEPT ![Len(outer)].pieces = @ \o closed]
  BY DEF Close
<1>2. n >= 2 /\ n \in Nat /\ frames \in Seq(Frame) /\ DOMAIN frames = 1 .. n
  BY <1>1, SomethingOpen DEF PathInv, IInv, FramesSound
<1>3. Top \in Frame /\ Top.wrapper \in Wrapper /\ n \in DOMAIN frames /\ n \in 2 .. Len(frames)
      /\ Top = frames[n]
  BY <1>2 DEF PathInv, IInv, FramesSound, Top
<1>4. closed \in Seq(FitPieces)
  <2>1. /\ Top.pieces \in Seq(FitPieces) /\ TagByte(Top.start) /\ CleanWrapper(Top.wrapper)
    BY <1>3 DEF FramesFit
  <2>2. body \in Seq(BodyEvent)
    BY BodyTyped DEF PathInv, IInv, Reading
  <2> QED
    BY <1>3, <2>1, <2>2, ClosedPiecesFits
<1>5. /\ outer \in Seq(Frame) /\ Len(outer) = n - 1 /\ DOMAIN outer = 1 .. n - 1
      /\ \A k \in 1 .. n - 1 : outer[k] = frames[k]
  <2>1. n - 1 \in Nat /\ n - 1 <= Len(frames)
    BY <1>2
  <2>2. /\ SubSeq(frames, 1, n - 1) \in Seq(Frame) /\ Len(SubSeq(frames, 1, n - 1)) = n - 1
        /\ \A k \in 1 .. n - 1 : SubSeq(frames, 1, n - 1)[k] = frames[k]
    BY <1>2, <2>1, FirstOnes
  <2>3. outer = SubSeq(frames, 1, n - 1)
    BY DEF Front
  <2> HIDE DEF outer, n
  <2> QED
    BY <2>1, <2>2, <2>3
<1> HIDE DEF closed, outer
<1>6. /\ below.pieces \in Seq(FitPieces)
      /\ below.wrapper = frames[n - 1].wrapper /\ below.start = frames[n - 1].start
  <2>1. n - 1 \in 1 .. n - 1 /\ n - 1 \in DOMAIN frames
    BY <1>2
  <2>2. outer[n - 1] \in Frame /\ outer[n - 1] = frames[n - 1]
    BY <1>5, <2>1
  <2>3. frames[n - 1].pieces \in Seq(FitPieces)
    BY <2>1 DEF FramesFit
  <2> DEFINE f == outer[n - 1]
             ps == f.pieces \o closed
  <2>4. f \in Frame /\ ps \in Seq(FitPieces) /\ below = [f EXCEPT !.pieces = ps]
        /\ f = frames[n - 1]
    BY <1>4, <2>2, <2>3
  <2> HIDE DEF f, ps, below
  <2>5. below.pieces = ps /\ below.wrapper = f.wrapper /\ below.start = f.start
    BY <2>4 DEF Frame
  <2> QED
    BY <2>4, <2>5
<1>7. frames' = [outer EXCEPT ![n - 1] = below]
  BY <1>1, <1>5
<1> HIDE DEF below, n
<1>8. /\ DOMAIN frames' = 1 .. n - 1
      /\ \A k \in 1 .. n - 1 : frames'[k] = IF k = n - 1 THEN below ELSE frames[k]
  BY <1>2, <1>5, <1>7
<1>9. Len(frames') = n - 1
  <2>1. n - 1 \in 1 .. n - 1 /\ n - 1 \in Nat
    BY <1>2
  <2>2. Len(frames') = Len(outer)
    BY <1>5, <1>7, <2>1
  <2> QED
    BY <1>5, <2>2
<1>10. \A k \in 1 .. n - 1 : k \in DOMAIN frames
  BY <1>2
<1>11. \A k \in DOMAIN frames' : frames'[k].pieces \in Seq(FitPieces)
  BY <1>6, <1>8, <1>10 DEF FramesFit
<1>12. ASSUME NEW k \in 2 .. n - 1
       PROVE  TagByte(frames'[k].start) /\ CleanWrapper(frames'[k].wrapper)
  <2>1. k \in 1 .. n - 1 /\ k \in 2 .. n
    BY <1>2
  <2>2. frames'[k].start = frames[k].start /\ frames'[k].wrapper = frames[k].wrapper
    BY <1>6, <1>8, <2>1
  <2>3. TagByte(frames[k].start) /\ CleanWrapper(frames[k].wrapper)
    BY <2>1 DEF FramesFit, n
  <2> QED
    BY <2>2, <2>3
<1>13. FitSql(sql')
  BY <1>1 DEF FramesFit
<1> QED
  BY <1>9, <1>11, <1>12, <1>13 DEF FramesFit

(* The body's own pieces make up the finished text.                        *)
LEMMA FinishKeepsFit ==
  ASSUME PathInv, FramesFit(frames, sql), Finish
  PROVE  FramesFit(frames', sql')
<1>1. frames # << >> /\ sql' = Assembled(Top.pieces) /\ frames' = << >>
  BY DEF Finish
<1>2. Len(frames) \in DOMAIN frames
  BY <1>1 DEF PathInv, IInv, FramesSound
<1>3. Top.pieces \in Seq(FitPieces)
  BY <1>2 DEF FramesFit, Top
<1>4. FitSql(sql')
  BY <1>1, <1>3, AssembledFits DEF FitSqls
<1>5. DOMAIN frames' = {} /\ Len(frames') = 0 /\ 2 .. 0 = {}
  BY <1>1
<1> QED
  BY <1>4, <1>5 DEF FramesFit

(* The step as a whole keeps the invariant the paths rest on.              *)
LEMMA PathInvKept ==
  ASSUME PathInv, [Next]_vars
  PROVE  PathInv'
<1>1. IInv
  BY DEF PathInv
<1>2. IInv'
  BY <1>1, ScanKeepsInv, BeginRunKeepsInv, EndRunKeepsInv, CommentKeepsInv, IncludeKeepsInv,
     OpenKeepsInv, CloseKeepsInv, FinishKeepsInv, StutterKeepsInv, Zenon DEF Next
<1>3. AllTrue(paths)' /\ IsCut'
  BY ScanKeepsTruth, BeginRunKeepsTruth, OthersKeepTruth, Zenon DEF Next
<1> QED
  BY <1>2, <1>3 DEF PathInv

(* A run that begins has nothing behind it.                                *)
LEMMA BeginRunKeepsFit ==
  ASSUME PathInv, BeginRun, PathInv', ~ EmptyRun
  PROVE  ScanFits'
<1> DEFINE ks == TextsIn(next, RunEnd)
           rs == [m \in DOMAIN ks |-> Segment(ks[m])]
<1>1. BeginScan(rs) /\ body' = body
  BY DEF BeginRun
<1> HIDE DEF rs
<1>2. /\ scanning' = TRUE /\ copyStart' = 0 /\ text' = << >>
      /\ map' = <<<<0, runs'[1].start>>>>
  BY <1>1 DEF BeginScan
<1>3. ~ EmptyRun'
  BY <1>1, FitnessKept
<1>4. Beginning'
  BY <1>2, <1>3 DEF Beginning
<1> QED
  BY <1>4, BeginningFitsNext

(* The invariant holds throughout.                                         *)
THEOREM TraceInvariance == Spec => []TraceInv
<1>1. Init => TraceInv
  <2> SUFFICES ASSUME Init PROVE TraceInv
    OBVIOUS
  <2>1. PathInv
    BY Initially DEF Init, PathInv, AllTrue, IsCut
  <2> DEFINE f == [wrapper |-> [kind |-> "body"], start |-> 0, pieces |-> << >>]
  <2>2. frames = <<f>> /\ sql = NoSql /\ ~ scanning
    BY DEF Init
  <2>3. f.pieces \in Seq(FitPieces)
    OBVIOUS
  <2> HIDE DEF f
  <2>4. DOMAIN <<f>> = {1} /\ <<f>>[1] = f /\ Len(<<f>>) = 1 /\ 2 .. 1 = {}
    OBVIOUS
  <2>5. FramesFit(frames, sql)
    BY <2>2, <2>3, <2>4, NothingFits DEF FramesFit
  <2> QED
    BY <2>1, <2>2, <2>5 DEF TraceInv
<1>2. TraceInv /\ [Next]_vars => TraceInv'
  <2> SUFFICES ASSUME TraceInv, [Next]_vars PROVE TraceInv'
    OBVIOUS
  <2>1. PathInv /\ PathInv'
    BY PathInvKept DEF TraceInv
  <2>2. body' = body
    BY DEF Next, Scan, BeginRun, EndRun, Comment, Include, Open, Close, Finish, vars
  <2> SUFFICES ASSUME ~ EmptyRun'
               PROVE  FramesFit(frames, sql)' /\ (scanning' => ScanFits')
    BY <2>1 DEF TraceInv
  <2>3. ~ EmptyRun
    BY <2>2, FitnessKept
  <2>4. FramesFit(frames, sql) /\ (scanning => ScanFits)
    BY <2>3 DEF TraceInv
  <2>5. FramesFit(frames', sql')
    <3>1. EndRun => scanning
      BY DEF EndRun
    <3>2. Scan \/ BeginRun \/ Comment \/ UNCHANGED vars => UNCHANGED <<frames, sql>>
      BY DEF Scan, BeginRun, Comment, vars
    <3>3. CASE UNCHANGED <<frames, sql>>
      BY <2>4, <3>3
    <3> QED
      BY <2>1, <2>3, <2>4, <3>1, <3>2, <3>3, EndRunKeepsFit, IncludeKeepsFit, OpenKeepsFit,
         CloseKeepsFit, FinishKeepsFit, Zenon DEF Next
  <2>6. FramesFit(frames, sql)'
    BY <2>2, <2>5, FramesFitKept
  <2>7. scanning' => ScanFits'
    <3>1. CASE Scan
      <4>1. scanning /\ ScanStep
        BY <3>1 DEF Scan, ScanStep, BracedPlaceholder, Unterminated, EscapedDelimiter,
                    LegacyPlaceholder, PlainCharacter, AtText
      <4> QED
        BY <2>1, <2>2, <2>3, <2>4, <4>1, ScanKeepsFit
    <3>2. CASE BeginRun
      BY <2>1, <2>3, <3>2, BeginRunKeepsFit
    <3>3. CASE EndRun
      BY <3>3 DEF EndRun, EndScan
    <3>4. CASE Comment \/ Include \/ Open \/ Close \/ Finish \/ UNCHANGED vars
      <4>1. UNCHANGED scanVars
        BY <3>4 DEF Comment, Include, Open, Close, Finish, vars
      <4>2. UNCHANGED <<scanning, runs, copyStart, text, map>>
        BY <4>1 DEF scanVars
      <4> SUFFICES ASSUME scanning' PROVE ScanFits'
        OBVIOUS
      <4>3. ScanFits
        BY <2>4, <4>2
      <4>4. /\ Fits(text', Entries(map'))
            /\ copyStart' < Len(Merged) => <<Len(text'), RawAt(copyStart')>> \in Entries(map')
        BY <4>2, <4>3 DEF ScanFits
      <4> QED
        BY <2>2, <4>2, <4>4, ScanFitsKept
    <3> QED
      BY <3>1, <3>2, <3>3, <3>4 DEF Next
  <2> QED
    BY <2>6, <2>7
<1> QED
  BY <1>1, <1>2, PTL DEF Spec

-------------------------------------------------------------------------------
(* What fits traces back.                                                  *)

(* The entry in force at an offset, and what is traced from there.         *)
Governs(s, o, a, x) ==
  /\ a \in Nat /\ x \in Nat /\ <<a, x>> \in Entries(s.map) /\ a <= o
  /\ \A e \in Entries(s.map) : e[1] \notin a + 1 .. o
  /\ Traced(s, o) = x + (o - a)

(* Every offset has one.                                                   *)
LEMMA EntryGoverns ==
  ASSUME NEW s, FitSql(s), NEW o \in 0 .. Len(s.text) - 1
  PROVE  Governs(s, o, Governing(s, o)[1], Governing(s, o)[2])
<1>1. Sound(s) /\ s.text \in Seq(Char) /\ s.map \in SpanMap
  BY FitParts
<1>2. o \in Nat /\ s.text # << >>
  BY <1>1
<1> DEFINE g == Governing(s, o)
<1>3. /\ g \in Entries(s.map) /\ g[1] <= o
      /\ \A e \in Entries(s.map) : e[1] <= o => e[1] <= g[1]
  BY <1>1, <1>2, InForceEntry DEF Governing
<1>4. Traced(s, o) = g[2] + (o - g[1])
  BY DEF Traced
<1> HIDE DEF g
<1>5. g \in Entry /\ g[1] \in Nat /\ g[2] \in Nat
  BY <1>1, <1>3, EntryTyped
<1>6. g = <<g[1], g[2]>>
  BY <1>5 DEF Entry
<1>7. \A e \in Entries(s.map) : e[1] \in Nat
  BY <1>1, EntryTyped
<1>8. \A e \in Entries(s.map) : e[1] \notin g[1] + 1 .. o
  BY <1>2, <1>3, <1>5, <1>7
<1>9. <<g[1], g[2]>> \in Entries(s.map)
  BY <1>3, <1>6
<1>10. /\ g[1] \in Nat /\ g[2] \in Nat /\ <<g[1], g[2]>> \in Entries(s.map) /\ g[1] <= o
       /\ \A e \in Entries(s.map) : e[1] \notin g[1] + 1 .. o
       /\ Traced(s, o) = g[2] + (o - g[1])
  BY <1>3, <1>4, <1>5, <1>8, <1>9
<1>11. Governs(s, o, g[1], g[2])
  BY <1>10 DEF Governs
<1> QED
  BY <1>11 DEF g

(* Each character is traced to where it is from.                           *)
LEMMA FitTraces ==
  ASSUME NEW s, FitSql(s), NEW o \in 0 .. Len(s.text) - 1
  PROVE  TracesTrue(s, o)
<1> DEFINE t == s.text
           E == Entries(s.map)
           c == t[o + 1]
           a == Governing(s, o)[1]
           x == Governing(s, o)[2]
<1>1. Fits(t, E) /\ t \in Seq(Char) /\ Len(t) \in Nat
  BY FitParts
<1>2. o \in Nat /\ o + 1 \in 1 .. Len(t)
  BY <1>1
<1>3. /\ a \in Nat /\ x \in Nat /\ <<a, x>> \in E /\ a <= o
      /\ \A e \in E : e[1] \notin a + 1 .. o
      /\ Governing(s, o)[2] = x /\ Traced(s, o) = x + (o - a)
  <2>1. Governs(s, o, a, x)
    BY EntryGoverns
  <2> HIDE DEF a, x
  <2>2. /\ a \in Nat /\ x \in Nat /\ <<a, x>> \in E /\ a <= o
        /\ \A e \in E : e[1] \notin a + 1 .. o
        /\ Traced(s, o) = x + (o - a)
    BY <2>1 DEF Governs, E
  <2>3. Governing(s, o)[2] = x
    BY DEF x
  <2> QED
    BY <2>2, <2>3
<1> HIDE DEF a, x
<1>4. c \in Char /\ c.at \in Nat
  BY <1>1, <1>2, CharParts
<1>5. c.kind \in {"exact", "coarse", "tag", "mark", "inner"}
  BY <1>4 DEF Char
<1> HIDE DEF E, t
<1>6. o + 1 \in a + 1 .. Len(t) /\ (o + 1) - 1 = o
  BY <1>2, <1>3
<1>7. a = o => Entered(c, x)
  BY <1>1, <1>2, <1>3, <1>6 DEF Fits
<1>8. a # o => \A e \in E : e[1] # o
  <2>1. a # o => o \in a + 1 .. o
    BY <1>2, <1>3
  <2> QED
    BY <1>3, <2>1
<1>9. c.kind = "exact" => Traced(s, o) = c.at
  <2> SUFFICES ASSUME c.kind = "exact" PROVE Traced(s, o) = c.at
    OBVIOUS
  <2>1. \A e \in E : e[1] \notin a + 1 .. (o + 1) - 1
    BY <1>3, <1>6
  <2>2. \A j \in a + 1 .. o + 1 : t[j].kind = "exact" /\ t[j].at = x + (j - a - 1)
    BY <1>1, <1>3, <1>6, <2>1, ExactStretch, SMTT(30)
  <2>3. c.at = x + (o + 1 - a - 1) /\ o + 1 \in a + 1 .. o + 1
    BY <1>2, <1>3, <2>2
  <2>4. o + 1 - a - 1 = o - a
    BY <1>2, <1>3
  <2> QED
    BY <1>3, <2>3, <2>4
<1>10. c.kind = "tag" => Governing(s, o)[2] = c.at
  <2> SUFFICES ASSUME c.kind = "tag" PROVE Governing(s, o)[2] = c.at
    OBVIOUS
  <2>1. \A e \in E : e[1] \notin a + 1 .. (o + 1) - 1
    BY <1>3, <1>6
  <2>2. c.at = x
    BY <1>1, <1>3, <1>6, <2>1, TagStretch
  <2> QED
    BY <1>3, <2>2
<1>11. c.kind = "coarse" => Governing(s, o)[2] = c.at
  <2> SUFFICES ASSUME c.kind = "coarse" PROVE Governing(s, o)[2] = c.at
    OBVIOUS
  <2>1. a = o
    <3> SUFFICES ASSUME a # o PROVE FALSE
      OBVIOUS
    <3>1. \A e \in E : e[1] # (o + 1) - 1
      BY <1>6, <1>8
    <3>2. o + 1 > 1
      BY <1>2, <1>3
    <3>3. Continues(t[(o + 1) - 1], c)
      BY <1>1, <1>2, <3>1, <3>2 DEF Fits
    <3> QED
      BY <3>3 DEF Continues
  <2> QED
    BY <1>3, <1>7, <2>1 DEF Entered
<1>12. c.kind = "mark" /\ FollowsOn(s, o) => Traced(s, o) = c.at
  <2> SUFFICES ASSUME c.kind = "mark", FollowsOn(s, o) PROVE Traced(s, o) = c.at
    OBVIOUS
  <2> DEFINE p == t[o]
  <2>1. o > 0 /\ p.kind = "exact" /\ p.at + 1 = c.at
    BY DEF FollowsOn, t
  <2>2. o \in 1 .. Len(t)
    BY <1>2, <2>1
  <2>3. p.at \in Nat
    BY <1>1, <2>2, CharParts
  <2>4. ExactByte(c.at - 1)
    <3>1. ExactByte(p.at)
      BY <1>1, <2>1, <2>2 DEF Fits, Own
    <3> DEFINE y == p.at
               z == c.at
    <3>2. y + 1 = z /\ y \in Nat /\ ExactByte(y)
      BY <2>1, <2>3, <3>1
    <3> HIDE DEF y, z
    <3>3. z - 1 = y
      BY <3>2
    <3> QED
      BY <3>2, <3>3 DEF z
  <2>5. CASE a = o
    <3>1. x = c.at
      BY <1>7, <2>4, <2>5 DEF Entered
    <3>2. o - a = 0 /\ x + 0 = x
      BY <1>2, <1>3, <2>5
    <3> QED
      BY <1>3, <3>1, <3>2
  <2>6. CASE a # o
    <3>1. o \in a + 1 .. Len(t)
      BY <1>2, <1>3, <2>2, <2>6
    <3>2. \A e \in E : e[1] \notin a + 1 .. o - 1
      BY <1>2, <1>3
    <3>3. \A j \in a + 1 .. o : t[j].kind = "exact" /\ t[j].at = x + (j - a - 1)
      BY <1>1, <1>3, <2>1, <3>1, <3>2, ExactStretch
    <3>4. p.at = x + (o - a - 1)
      BY <1>2, <3>1, <3>3
    <3> DEFINE y == p.at
               z == c.at
    <3>5. y = x + (o - a - 1) /\ y + 1 = z
      BY <2>1, <3>4
    <3> HIDE DEF y, z
    <3>6. z = x + (o - a)
      BY <1>2, <1>3, <3>5
    <3> QED
      BY <1>3, <3>6 DEF z
  <2> QED
    BY <2>5, <2>6
<1>13. c = s.text[o + 1]
  BY DEF t
<1> HIDE DEF c
<1>14. c.kind \in {"coarse", "tag"} => Governing(s, o)[2] = c.at
  BY <1>10, <1>11
<1> DEFINE k == c.kind
           exact == Traced(s, o) = c.at
           governed == Governing(s, o)[2] = c.at
           follows == FollowsOn(s, o)
<1>15. TracesTrue(s, o) <=>
         CASE k = "exact" -> exact
           [] k \in {"coarse", "tag"} -> governed
           [] k = "mark" -> (follows => exact)
           [] k = "inner" -> TRUE
  BY <1>13, Zenon DEF TracesTrue
<1>16. /\ k \in {"exact", "coarse", "tag", "mark", "inner"}
       /\ k = "exact" => exact
       /\ k \in {"coarse", "tag"} => governed
       /\ k = "mark" => (follows => exact)
  BY <1>5, <1>9, <1>12, <1>14
<1> HIDE DEF k, exact, governed, follows
<1> QED
  BY <1>15, <1>16

(* Every text there is fits its map.                                       *)
LEMMA SqlsFit ==
  ASSUME TraceInv, ~ EmptyRun, NEW s \in Sqls
  PROVE  FitSql(s)
<1>1. PathInv /\ FramesFit(frames, sql) /\ (scanning => ScanFits)
  BY DEF TraceInv
<1>2. CASE s = sql
  BY <1>1, <1>2 DEF FramesFit
<1>3. CASE \E f \in DOMAIN frames : s \in SqlPieces(frames[f].pieces)
  <2>1. PICK f \in DOMAIN frames : s \in SqlPieces(frames[f].pieces)
    BY <1>3
  <2> DEFINE ps == frames[f].pieces
  <2>2. ps \in Seq(FitPieces)
    BY <1>1 DEF FramesFit
  <2>3. PICK k \in DOMAIN ps : ps[k].type = "Normalized" /\ s = ps[k].sql
    BY <2>1 DEF SqlPieces
  <2>4. ps[k] \in FitPieces
    BY <2>2
  <2> QED
    BY <2>3, <2>4 DEF FitPieces, FitPiece
<1>4. CASE scanning /\ i = Len(Merged) /\ s = Normalized
  <2>1. PICK ks : CutWhole(ks)
    BY <1>1, <1>4, WholeCut
  <2>2. ScanSound
    BY <1>1, <1>4, WholeCut
  <2> QED
    BY <1>1, <1>4, <2>1, <2>2, NormalizedFits
<1>5. \/ s = sql
      \/ \E f \in DOMAIN frames : s \in SqlPieces(frames[f].pieces)
      \/ scanning /\ i = Len(Merged) /\ s = Normalized
  BY TextThere
<1> QED
  BY <1>2, <1>3, <1>4, <1>5, Zenon

(* Every character of every text traces back to where it is from, through  *)
(* scanning, assembling, stripping and adding at both ends, for every set  *)
(* of bodies whose attributes hold no "<".                                 *)
THEOREM TracesAlwaysBack == Spec => []TracesBack
<1>1. TraceInv => TracesBack
  <2> SUFFICES ASSUME TraceInv, ~ EmptyRun, NEW s \in Sqls, NEW o \in 0 .. Len(s.text) - 1
               PROVE  TracesTrue(s, o)
    BY DEF TracesBack
  <2> QED
    BY SqlsFit, FitTraces
<1> QED
  BY <1>1, TraceInvariance, PTL

-------------------------------------------------------------------------------
(* The scan implements normalisation of the text as a whole.               *)

(* What the abstract specification reads, has made of it, and has found.   *)
Input == Spelling(Merged)
Out == Spelling(FlushedText(i))
Found == [k \in DOMAIN paths |-> Spelling(paths[k].value)]

(* Nothing is merged of no runs.                                           *)
LEMMA NothingMerged ==
  ASSUME runs = << >>
  PROVE  Merged = << >>
<1> DEFINE parts == [k \in DOMAIN runs |-> RunChars(runs[k])]
<1>1. parts \in Seq(Seq(Char)) /\ Len(parts) = 0 /\ Len(runs) = 0
  <2>1. parts = << >>
    OBVIOUS
  <2> QED
    BY <2>1
<1>2. MergedUpTo = Joins(parts)
  BY DEF MergedUpTo
<1> HIDE DEF parts
<1>3. Joins(parts)[0] = << >>
  BY <1>1, JoinsGrow
<1> QED
  BY <1>1, <1>2, <1>3 DEF Merged

(* The spelling of a text, character by character.                         *)
LEMMA Spelled ==
  ASSUME NEW t \in Seq(Char)
  PROVE  /\ Spelling(t) \in Seq(Alphabet) /\ Len(Spelling(t)) = Len(t)
         /\ \A k \in 1 .. Len(t) : Spelling(t)[k] = t[k].ch
<1>1. \A k \in DOMAIN t : t[k].ch \in Alphabet
  BY CharParts
<1>2. DOMAIN Spelling(t) = 1 .. Len(t) /\ \A k \in 1 .. Len(t) : Spelling(t)[k] = t[k].ch
  BY DEF Spelling
<1>3. Spelling(t) \in Seq(Alphabet)
  BY <1>1 DEF Spelling
<1> QED
  BY <1>2, <1>3

(* Texts end to end are spelled end to end.                                *)
LEMMA SpelledTogether ==
  ASSUME NEW a \in Seq(Char), NEW b \in Seq(Char)
  PROVE  Spelling(a \o b) = Spelling(a) \o Spelling(b)
<1> DEFINE c == a \o b
           u == Spelling(a)
           v == Spelling(b)
           w == Spelling(c)
           z == u \o v
<1>1. /\ c \in Seq(Char) /\ Len(c) = Len(a) + Len(b)
      /\ \A k \in 1 .. Len(c) :
           \/ k \in 1 .. Len(a) /\ c[k] = a[k]
           \/ k - Len(a) \in 1 .. Len(b) /\ c[k] = b[k - Len(a)]
  BY Joined
<1> HIDE DEF c
<1>2. /\ u \in Seq(Alphabet) /\ Len(u) = Len(a) /\ \A k \in 1 .. Len(a) : u[k] = a[k].ch
      /\ v \in Seq(Alphabet) /\ Len(v) = Len(b) /\ \A k \in 1 .. Len(b) : v[k] = b[k].ch
      /\ w \in Seq(Alphabet) /\ Len(w) = Len(c) /\ \A k \in 1 .. Len(c) : w[k] = c[k].ch
  BY <1>1, Spelled
<1> HIDE DEF u, v, w
<1>3. /\ z \in Seq(Alphabet) /\ Len(z) = Len(u) + Len(v)
      /\ \A k \in 1 .. Len(u) : z[k] = u[k]
      /\ \A k \in 1 .. Len(v) : z[Len(u) + k] = v[k]
  <2>1. u \in Seq(Alphabet) /\ v \in Seq(Alphabet)
    BY <1>2
  <2> QED
    BY <2>1, Joined
<1> HIDE DEF z
<1>4. Len(a) \in Nat /\ Len(b) \in Nat
  OBVIOUS
<1>5. ASSUME NEW k \in 1 .. Len(c) PROVE w[k] = z[k]
  <2>1. CASE k \in 1 .. Len(a) /\ c[k] = a[k]
    BY <1>2, <1>3, <2>1
  <2>2. CASE k - Len(a) \in 1 .. Len(b) /\ c[k] = b[k - Len(a)]
    <3> DEFINE j == k - Len(a)
    <3>1. j \in 1 .. Len(b) /\ Len(a) + j = k /\ c[k] = b[j]
      BY <1>1, <1>4, <2>2
    <3> HIDE DEF j
    <3> QED
      BY <1>2, <1>3, <3>1
  <2> QED
    BY <1>1, <2>1, <2>2
<1> QED
  BY <1>1, <1>2, <1>3, <1>5 DEF c, w, z, u, v

(* A stretch of a text is spelled as that stretch of its spelling.         *)
LEMMA SpelledStretch ==
  ASSUME NEW t \in Seq(Char), NEW a \in 0 .. Len(t), NEW c \in a .. Len(t)
  PROVE  Spelling(SubSeq(t, a + 1, c)) = SubSeq(Spelling(t), a + 1, c)
<1> DEFINE u == SubSeq(t, a + 1, c)
           s == Spelling(t)
           v == SubSeq(s, a + 1, c)
           w == Spelling(u)
<1>1. u \in Seq(Char) /\ Len(u) = c - a /\ \A m \in 1 .. c - a : u[m] = t[a + m]
  BY Stretch, StretchItems
<1>2. s \in Seq(Alphabet) /\ Len(s) = Len(t) /\ \A k \in 1 .. Len(t) : s[k] = t[k].ch
  BY Spelled
<1> HIDE DEF s, u
<1>3. v \in Seq(Alphabet) /\ Len(v) = c - a /\ \A m \in 1 .. c - a : v[m] = s[a + m]
  BY <1>2, Stretch, StretchItems
<1>4. w \in Seq(Alphabet) /\ Len(w) = c - a /\ \A m \in 1 .. c - a : w[m] = u[m].ch
  BY <1>1, Spelled
<1>5. \A m \in 1 .. c - a : a + m \in 1 .. Len(t)
  OBVIOUS
<1> HIDE DEF v, w
<1>6. \A m \in 1 .. c - a : v[m] = w[m]
  BY <1>1, <1>2, <1>3, <1>4, <1>5
<1> QED
  BY <1>3, <1>4, <1>6 DEF u, v, w, s

(* What stands at an offset, in the spelling.                              *)
LEMMA InputLaidOut ==
  ASSUME runs \in Seq(TextRun)
  PROVE  /\ Input \in Seq(Alphabet) /\ Len(Input) = Len(Merged) /\ Len(Merged) \in Nat
         /\ \A k \in 1 .. Len(Merged) : Input[k] = CharAt(k - 1)
         /\ \A o \in Nat : o < Len(Merged) => CharAt(o) = Input[o + 1]
         /\ \A o \in Nat : ~ o < Len(Merged) => CharAt(o) = "none"
<1>1. Merged \in Seq(Char) /\ Len(Merged) \in Nat
  BY MergedLaidOut
<1>2. Input \in Seq(Alphabet) /\ Len(Input) = Len(Merged)
      /\ \A k \in 1 .. Len(Merged) : Input[k] = Merged[k].ch
  BY <1>1, Spelled DEF Input
<1>3. ASSUME NEW k \in 1 .. Len(Merged) PROVE Input[k] = CharAt(k - 1)
  <2>1. k - 1 < Len(Merged) /\ (k - 1) + 1 = k
    BY <1>1
  <2> QED
    BY <1>2, <2>1 DEF CharAt
<1>4. ASSUME NEW o \in Nat, o < Len(Merged) PROVE CharAt(o) = Input[o + 1]
  <2>1. o + 1 \in 1 .. Len(Merged)
    BY <1>1, <1>4
  <2> QED
    BY <1>2, <1>4, <2>1 DEF CharAt
<1>5. \A o \in Nat : ~ o < Len(Merged) => CharAt(o) = "none"
  BY DEF CharAt
<1> QED
  BY <1>1, <1>2, <1>3, <1>4, <1>5

(* The initial states.                                                     *)
LEMMA PromiseInitially == Init => Promise!Init
<1> SUFFICES ASSUME Init PROVE Promise!Init
  OBVIOUS
<1>1. runs = << >> /\ i = 0 /\ copyStart = 0 /\ text = << >> /\ paths = << >> /\ dialect \in Dialect
  BY DEF Init
<1>2. Merged = << >>
  BY <1>1, NothingMerged
<1>3. FlushedText(0) = << >>
  BY <1>1, <1>2 DEF FlushedText, Slice
<1>4. Spelling(<< >>) = << >>
  BY DEF Spelling
<1>5. [k \in DOMAIN paths |-> Spelling(paths[k].value)] = << >>
  BY <1>1
<1> QED
  BY <1>1, <1>2, <1>3, <1>4, <1>5 DEF Promise!Init, Dialect

-------------------------------------------------------------------------------
(* Braces.                                                                 *)

(* What it counts by is the count of the elements of a set.                *)
LEMMA CountIs ==
  ASSUME NEW c, NEW from, NEW to
  PROVE  Promise!Count(c, from, to) = Cardinality({k \in from .. to : Input[k] = c})
<1>1. \A S : Promise!Cardinality(S) = Cardinality(S)
  BY Zenon DEF Promise!Cardinality, Cardinality
<1> QED
  BY <1>1, Zenon DEF Promise!Count, Input

(* How often a character has occurred, one place further on.               *)
LEMMA CountSteps ==
  ASSUME NEW c, NEW from \in Nat, NEW to \in Nat, from <= to + 1
  PROVE  /\ Promise!Count(c, from, to) \in Nat
         /\ Input[to + 1] = c => Promise!Count(c, from, to + 1) = Promise!Count(c, from, to) + 1
         /\ Input[to + 1] # c => Promise!Count(c, from, to + 1) = Promise!Count(c, from, to)
<1> DEFINE S == {k \in from .. to : Input[k] = c}
           T == {k \in from .. to + 1 : Input[k] = c}
<1>1. Promise!Count(c, from, to) = Cardinality(S) /\ Promise!Count(c, from, to + 1) = Cardinality(T)
  BY CountIs
<1>2. IsFiniteSet(S)
  <2>1. IsFiniteSet(from .. to)
    BY FS_Interval
  <2>2. S \subseteq from .. to
    OBVIOUS
  <2> HIDE DEF S
  <2> QED
    BY <2>1, <2>2, FS_Subset
<1>3. Cardinality(S) \in Nat
  BY <1>2, FS_CardinalityType
<1>4. to + 1 \notin S
  OBVIOUS
<1>5. CASE Input[to + 1] = c
  <2>1. T = S \cup {to + 1}
    BY <1>5
  <2> HIDE DEF S, T
  <2>2. Cardinality(T) = Cardinality(S) + 1
    BY <1>2, <1>4, <2>1, FS_AddElement
  <2> QED
    BY <1>1, <1>3, <1>5, <2>2
<1>6. CASE Input[to + 1] # c
  <2>1. T = S
    BY <1>6
  <2> HIDE DEF S, T
  <2> QED
    BY <1>1, <1>3, <1>6, <2>1
<1> QED
  BY <1>5, <1>6

(* Nothing occurs where there is nothing.                                  *)
LEMMA CountNone ==
  ASSUME NEW c, NEW from \in Nat, NEW to \in Nat, to < from
  PROVE  Promise!Count(c, from, to) = 0
<1>1. {k \in from .. to : Input[k] = c} = {}
  OBVIOUS
<1> QED
  BY <1>1, FS_EmptySet, CountIs

(* How many braces are open behind offset j, of those from the brace after *)
(* offset o on.                                                            *)
Braces(o, j) == Promise!Count("{", o + 2, j + 1) - Promise!Count("}", o + 2, j + 1)

(* What a character adds.                                                  *)
BraceStep(c) == CASE c = "{" -> 1 [] c = "}" -> -1 [] OTHER -> 0

(* It adds one, takes one away, or does neither.                           *)
LEMMA BraceSteps ==
  ASSUME NEW c
  PROVE  /\ c = "{" => BraceStep(c) = 1
         /\ c = "}" => BraceStep(c) = -1
         /\ c # "{" /\ c # "}" => BraceStep(c) = 0
<1>1. CASE c = "{"
  BY <1>1 DEF BraceStep
<1>2. CASE c = "}"
  BY <1>2 DEF BraceStep
<1>3. CASE c # "{" /\ c # "}"
  BY <1>3 DEF BraceStep
<1> QED
  BY <1>1, <1>2, <1>3

(* At most one less, and that only for a closing brace.                    *)
LEMMA BraceBounds ==
  ASSUME NEW c
  PROVE  /\ BraceStep(c) \in Int /\ BraceStep(c) + 1 >= 0
         /\ c # "}" => BraceStep(c) >= 0
<1> DEFINE u == BraceStep(c)
<1>0. /\ c = "{" => u = 1
      /\ c = "}" => u = -1
      /\ c # "{" /\ c # "}" => u = 0
  BY BraceSteps
<1> HIDE DEF u
<1>1. u \in Int /\ u + 1 >= 0 /\ (c # "}" => u >= 0)
  <2>1. CASE c = "{"
    <3>1. u = 1
      BY <1>0, <2>1
    <3> QED
      BY <3>1
  <2>2. CASE c = "}"
    <3>1. u = -1
      BY <1>0, <2>2
    <3>2. -1 \in Int /\ -1 + 1 >= 0
      OBVIOUS
    <3> QED
      BY <2>2, <3>1, <3>2, Zenon
  <2>3. CASE c # "{" /\ c # "}"
    <3>1. u = 0
      BY <1>0, <2>3
    <3> QED
      BY <3>1
  <2> QED
    BY <2>1, <2>2, <2>3, Zenon
<1> QED
  BY <1>1, Zenon DEF u

(* One more on either side of a difference.                                *)
LEMMA DifferenceSteps ==
  ASSUME NEW x \in Nat, NEW y \in Nat
  PROVE  (x + 1) - y = (x - y) + 1 /\ x - (y + 1) = (x - y) + (-1) /\ x - y = (x - y) + 0
OBVIOUS

(* It starts at one and changes by one.                                    *)
LEMMA BracesStep ==
  ASSUME runs \in Seq(TextRun), NEW o \in Nat, OpensBraced(o)
  PROVE  /\ o + 1 < Len(Merged) /\ Braces(o, o + 1) = 1
         /\ \A j \in o + 1 .. Len(Merged) - 1 : Braces(o, j) \in Int
         /\ \A j \in o + 2 .. Len(Merged) - 1 :
              Braces(o, j) = Braces(o, j - 1) + BraceStep(CharAt(j))
<1>1. /\ Len(Merged) \in Nat
      /\ \A p \in Nat : p < Len(Merged) => CharAt(p) = Input[p + 1]
      /\ \A p \in Nat : ~ p < Len(Merged) => CharAt(p) = "none"
  BY InputLaidOut
<1>2. o + 1 < Len(Merged) /\ CharAt(o + 1) = "{"
  <2>1. CharAt(o + 1) = "{"
    BY Zenon DEF OpensBraced
  <2>2. o + 1 \in Nat /\ "{" # "none"
    OBVIOUS
  <2> QED
    BY <1>1, <2>1, <2>2, Zenon
<1> DEFINE a(j) == Promise!Count("{", o + 2, j)
           b(j) == Promise!Count("}", o + 2, j)
<1>3. ASSUME NEW j \in Nat, j >= o + 1
      PROVE  /\ a(j) \in Nat /\ b(j) \in Nat
             /\ Input[j + 1] = "{" => a(j + 1) = a(j) + 1
             /\ Input[j + 1] # "{" => a(j + 1) = a(j)
             /\ Input[j + 1] = "}" => b(j + 1) = b(j) + 1
             /\ Input[j + 1] # "}" => b(j + 1) = b(j)
  <2>1. o + 2 \in Nat /\ o + 2 <= j + 1
    BY <1>3
  <2> QED
    BY <1>3, <2>1, CountSteps
<1>4. a(o + 1) = 0 /\ b(o + 1) = 0
  <2>1. o + 1 \in Nat /\ o + 2 \in Nat /\ o + 1 < o + 2
    OBVIOUS
  <2> QED
    BY <2>1, CountNone
<1>5. \A j : Braces(o, j) = a(j + 1) - b(j + 1)
  BY DEF Braces
<1> HIDE DEF a, b
<1>6. Input[(o + 1) + 1] = "{"
  <2>1. o + 1 \in Nat
    OBVIOUS
  <2> QED
    BY <1>1, <1>2, <2>1, Zenon
<1>7. Braces(o, o + 1) = 1
  <2>1. o + 1 \in Nat /\ o + 1 >= o + 1
    OBVIOUS
  <2> DEFINE m == o + 1
  <2>2. /\ Input[m + 1] = "{" => a(m + 1) = a(m) + 1
        /\ Input[m + 1] # "}" => b(m + 1) = b(m)
    BY <1>3, <2>1
  <2>3. a(m) = 0 /\ b(m) = 0 /\ Input[m + 1] = "{"
    BY <1>4, <1>6
  <2>4. Braces(o, m) = a(m + 1) - b(m + 1)
    BY <1>5
  <2> DEFINE x == a(m + 1)
             y == b(m + 1)
  <2>5. x = 0 + 1
    BY <2>2, <2>3, Zenon
  <2>6. "{" # "}"
    OBVIOUS
  <2>7. y = 0
    BY <2>2, <2>3, <2>6, Zenon
  <2> HIDE DEF m, x, y
  <2>8. x - y = 1
    BY <2>5, <2>7
  <2>9. Braces(o, m) = 1
    BY <2>4, <2>8, Zenon DEF x, y
  <2> QED
    BY <2>9 DEF m
<1>8. ASSUME NEW j \in o + 1 .. Len(Merged) - 1 PROVE Braces(o, j) \in Int
  <2>1. j + 1 \in Nat /\ j + 1 >= o + 1
    BY <1>1
  <2>2. a(j + 1) \in Nat /\ b(j + 1) \in Nat
    BY <1>3, <2>1
  <2> QED
    BY <1>5, <2>2
<1>9. ASSUME NEW j \in o + 2 .. Len(Merged) - 1
      PROVE  Braces(o, j) = Braces(o, j - 1) + BraceStep(CharAt(j))
  <2>1. j \in Nat /\ j >= o + 1 /\ (j - 1) + 1 = j /\ j < Len(Merged)
    BY <1>1
  <2>2. CharAt(j) = Input[j + 1]
    BY <1>1, <2>1
  <2>3. Braces(o, j) = a(j + 1) - b(j + 1) /\ Braces(o, j - 1) = a(j) - b(j)
    BY <1>5, <2>1
  <2>4. /\ a(j) \in Nat /\ b(j) \in Nat
        /\ Input[j + 1] = "{" => a(j + 1) = a(j) + 1
        /\ Input[j + 1] # "{" => a(j + 1) = a(j)
        /\ Input[j + 1] = "}" => b(j + 1) = b(j) + 1
        /\ Input[j + 1] # "}" => b(j + 1) = b(j)
    BY <1>3, <2>1
  <2>5. a(j + 1) - b(j + 1) = (a(j) - b(j)) + BraceStep(Input[j + 1])
    <3> DEFINE c == Input[j + 1]
               x == a(j)
               y == b(j)
               v == a(j + 1)
               w == b(j + 1)
    <3>1. /\ x \in Nat /\ y \in Nat
          /\ c = "{" => v = x + 1
          /\ c # "{" => v = x
          /\ c = "}" => w = y + 1
          /\ c # "}" => w = y
      BY <2>4
    <3> HIDE DEF c, x, y, v, w
    <3>2. v - w = (x - y) + BraceStep(c)
      <4>1. CASE c = "{"
        <5>1. c # "}"
          BY <4>1
        <5> QED
          BY <3>1, <4>1, <5>1, BraceSteps, DifferenceSteps, Zenon
      <4>2. CASE c = "}"
        <5>1. c # "{"
          BY <4>2
        <5> QED
          BY <3>1, <4>2, <5>1, BraceSteps, DifferenceSteps, Zenon
      <4>3. CASE c # "{" /\ c # "}"
        BY <3>1, <4>3, BraceSteps, DifferenceSteps, Zenon
      <4> QED
        BY <4>1, <4>2, <4>3, Zenon
    <3> QED
      BY <3>2, Zenon DEF c, x, y, v, w
  <2> QED
    BY <2>2, <2>3, <2>5, Zenon
<1> QED
  BY <1>2, <1>7, <1>8, <1>9

(* It is what consume_braced counts.                                       *)
LEMMA BracesCounted ==
  ASSUME runs \in Seq(TextRun), NEW o \in Nat, OpensBraced(o)
  PROVE  ClosingBraces(o)
           = {j \in o + 2 .. Len(Merged) - 1 : CharAt(j) = "}" /\ Braces(o, j) = 0}
<1> DEFINE J == o + 1 .. Len(Merged) - 1
           up(j) == BraceStep(CharAt(j))
           Is(f) == f = [j \in J |-> IF j = o + 1 THEN 1 ELSE f[j - 1] + up(j)]
           depth == CHOOSE f : Is(f)
           g == [j \in J |-> Braces(o, j)]
<1>1. /\ Len(Merged) \in Nat /\ o + 1 < Len(Merged) /\ Braces(o, o + 1) = 1
      /\ \A j \in J : Braces(o, j) \in Int
      /\ \A j \in o + 2 .. Len(Merged) - 1 : Braces(o, j) = Braces(o, j - 1) + up(j)
  BY BracesStep, InputLaidOut
<1>2. ClosingBraces(o) = {j \in o + 2 .. Len(Merged) - 1 : CharAt(j) = "}" /\ depth[j] = 0}
  BY Zenon DEF ClosingBraces, BraceStep
<1> HIDE DEF up
<1>3. \A j \in J : j = o + 1 \/ (j \in o + 2 .. Len(Merged) - 1 /\ j - 1 \in J)
  BY <1>1
<1>4. Is(g)
  <2>1. \A j \in J : g[j] = IF j = o + 1 THEN 1 ELSE g[j - 1] + up(j)
    BY <1>1, <1>3
  <2> QED
    BY <2>1
<1>5. Is(depth)
  BY <1>4, Zenon
<1> HIDE DEF depth, g
<1>6. ASSUME NEW j \in J PROVE depth[j] = Braces(o, j)
  <2> DEFINE P == {m \in Nat : o + 1 + m \in J => depth[o + 1 + m] = Braces(o, o + 1 + m)}
             n == j - (o + 1)
  <2>1. 0 \in P
    <3>1. o + 1 + 0 = o + 1 /\ o + 1 \in J
      BY <1>1
    <3>2. depth[o + 1] = 1
      BY <1>5, <3>1
    <3> QED
      BY <1>1, <3>1, <3>2
  <2>2. ASSUME NEW m \in 1 .. n, m - 1 \in P PROVE m \in P
    <3> DEFINE q == o + 1 + m
    <3>1. q \in J /\ q # o + 1 /\ q \in o + 2 .. Len(Merged) - 1 /\ q - 1 = o + 1 + (m - 1)
          /\ q - 1 \in J /\ m \in Nat
      BY <1>1
    <3>2. depth[q - 1] = Braces(o, q - 1)
      BY <2>2, <3>1
    <3> HIDE DEF q
    <3>3. depth[q] = depth[q - 1] + up(q)
      BY <1>5, <3>1
    <3>4. depth[q] = Braces(o, q)
      BY <1>1, <3>1, <3>2, <3>3
    <3> QED
      BY <3>1, <3>4 DEF q
  <2>3. n \in Nat /\ o + 1 + n = j
    BY <1>1
  <2> HIDE DEF P, n
  <2>4. \A m \in 0 .. n : m \in P
    BY <2>1, <2>2, <2>3, StepByStep, Zenon
  <2>5. n \in P
    BY <2>3, <2>4
  <2> QED
    BY <2>3, <2>5 DEF P
<1>7. \A j \in o + 2 .. Len(Merged) - 1 : j \in J
  BY <1>1
<1> HIDE DEF J, Is
<1> QED
  BY <1>2, <1>6, <1>7

(* What starts at one and falls by one at a time is not at zero for the    *)
(* first time unless it has just fallen.                                   *)
LEMMA StaysUp ==
  ASSUME NEW a \in Nat, NEW n \in Nat, NEW d \in [a .. n -> Int], a <= n, d[a] = 1,
         \A j \in a + 1 .. n : d[j] >= d[j - 1] - 1 /\ (d[j] = 0 => d[j] >= d[j - 1])
  PROVE  \A j \in a .. n : d[j] >= 1
<1> SUFFICES ASSUME NEW j \in a .. n PROVE d[j] >= 1
  OBVIOUS
<1> DEFINE P == {m \in Nat : a + m <= n => d[a + m] >= 1}
           l == j - a
<1>1. 0 \in P
  OBVIOUS
<1>2. ASSUME NEW m \in 1 .. l, m - 1 \in P PROVE m \in P
  <2> DEFINE q == a + m
  <2>1. /\ q \in a + 1 .. n /\ q \in a .. n /\ q - 1 = a + (m - 1) /\ q - 1 \in a .. n
        /\ m \in Nat /\ q - 1 <= n
    OBVIOUS
  <2>2. d[q - 1] >= 1
    BY <1>2, <2>1
  <2> HIDE DEF q
  <2>3. d[q] \in Int /\ d[q - 1] \in Int
    BY <2>1
  <2>4. d[q] >= 1
    BY <2>1, <2>2, <2>3
  <2> QED
    BY <2>1, <2>4 DEF q
<1>3. l \in Nat /\ a + l = j /\ j <= n
  OBVIOUS
<1> HIDE DEF P, l
<1>4. \A m \in 0 .. l : m \in P
  BY <1>1, <1>2, <1>3, StepByStep, Zenon
<1>5. l \in P
  BY <1>3, <1>4
<1> QED
  BY <1>3, <1>5 DEF P

(* So as long as no brace brings the count to zero, it stays above.        *)
NoBraceCloses(o, n) == \A j \in o + 2 .. n : Braces(o, j) = 0 => CharAt(j) # "}"

(* Then the count is at least one throughout.                              *)
LEMMA BracesStayUp ==
  ASSUME runs \in Seq(TextRun), NEW o \in Nat, OpensBraced(o), NEW n \in o + 1 .. Len(Merged) - 1,
         NoBraceCloses(o, n)
  PROVE  \A j \in o + 1 .. n : Braces(o, j) \in Int /\ Braces(o, j) >= 1
<1> DEFINE z == o + 1
           d == [j \in z .. n |-> Braces(o, j)]
<1>1. /\ Len(Merged) \in Nat /\ Braces(o, o + 1) = 1
      /\ \A j \in o + 1 .. Len(Merged) - 1 : Braces(o, j) \in Int
      /\ \A j \in o + 2 .. Len(Merged) - 1 :
           Braces(o, j) = Braces(o, j - 1) + BraceStep(CharAt(j))
  BY BracesStep, InputLaidOut
<1>2. z \in Nat /\ n \in Nat /\ z <= n /\ z = o + 1
  BY <1>1
<1>3. \A j \in z .. n : j \in o + 1 .. Len(Merged) - 1
  BY <1>1
<1>4. d \in [z .. n -> Int] /\ d[z] = 1
  BY <1>1, <1>2, <1>3
<1>5. ASSUME NEW j \in z + 1 .. n
      PROVE  d[j] >= d[j - 1] - 1 /\ (d[j] = 0 => d[j] >= d[j - 1])
  <2>1. j \in o + 2 .. n /\ j \in o + 2 .. Len(Merged) - 1 /\ j \in z .. n /\ j - 1 \in z .. n
    BY <1>1
  <2> DEFINE x == d[j]
             y == d[j - 1]
             u == BraceStep(CharAt(j))
  <2>2. x = Braces(o, j) /\ y = Braces(o, j - 1) /\ x \in Int /\ y \in Int
    BY <1>4, <2>1
  <2>3. x = y + u
    BY <1>1, <2>1, <2>2
  <2>4. x = 0 => CharAt(j) # "}"
    BY <2>1, <2>2 DEF NoBraceCloses
  <2>5. u \in Int /\ u + 1 >= 0
    BY BraceBounds
  <2>8. CharAt(j) # "}" => u >= 0
    BY BraceBounds
  <2> HIDE DEF x, y, u
  <2>6. x >= y - 1
    BY <2>2, <2>3, <2>5
  <2>7. ASSUME x = 0 PROVE x >= y
    <3>1. u >= 0
      BY <2>4, <2>8, <2>7, Zenon
    <3> QED
      BY <2>2, <2>3, <2>5, <3>1
  <2> QED
    BY <2>6, <2>7 DEF x, y
<1> HIDE DEF z, d
<1>6. \A j \in z .. n : d[j] >= 1
  BY <1>2, <1>4, <1>5, StaysUp
<1>7. \A j \in z .. n : d[j] = Braces(o, j) /\ d[j] \in Int
  BY <1>4 DEF d
<1> QED
  BY <1>2, <1>6, <1>7

-------------------------------------------------------------------------------
(* The stretches that give way to a marker.                                *)

(* What is to be read off the text.                                        *)
LEMMA RestIs ==
  ASSUME runs \in Seq(TextRun), NEW o \in Nat
  PROVE  /\ Len(Merged) \in Nat
         /\ \A k : k \in Promise!Rest(o) <=> k \in o + 1 .. Len(Merged)
         /\ \A k \in Promise!Rest(o) : Input[k] = CharAt(k - 1) /\ k \in Nat /\ k - 1 \in Nat
<1>1. /\ Len(Input) = Len(Merged) /\ Len(Merged) \in Nat
      /\ \A k \in 1 .. Len(Merged) : Input[k] = CharAt(k - 1)
  BY InputLaidOut
<1>2. Promise!Rest(o) = o + 1 .. Len(Input)
  BY Zenon DEF Promise!Rest, Input
<1>3. \A k : k \in Promise!Rest(o) <=> k \in o + 1 .. Len(Merged)
  BY <1>1, <1>2, Zenon
<1>4. \A k \in o + 1 .. Len(Merged) : k \in 1 .. Len(Merged) /\ k \in Nat /\ k - 1 \in Nat
  BY <1>1
<1> QED
  BY <1>1, <1>3, <1>4, Zenon

(* Where an expression opens.                                              *)
LEMMA OpeningIs ==
  ASSUME runs \in Seq(TextRun), NEW o \in Nat
  PROVE  /\ Promise!Opening(o) <=> OpensBraced(o)
         /\ OpensBraced(o) => o + 1 < Len(Merged)
         /\ Delimiter(CharAt(o)) => o < Len(Merged)
         /\ o < Len(Merged) => Input[o + 1] = CharAt(o)
<1>1. /\ Len(Merged) \in Nat
      /\ \A p \in Nat : p < Len(Merged) => CharAt(p) = Input[p + 1]
      /\ \A p \in Nat : ~ p < Len(Merged) => CharAt(p) = "none"
  BY InputLaidOut
<1>2. o + 1 \in Nat /\ (o + 1) + 1 = o + 2 /\ (o + 1 < Len(Merged) => o < Len(Merged))
  BY <1>1
<1>3. o + 2 \in Promise!Rest(o) <=> o + 1 < Len(Merged)
  <2>1. o + 2 \in o + 1 .. Len(Merged) <=> o + 1 < Len(Merged)
    BY <1>1
  <2> QED
    BY <2>1, RestIs, Zenon
<1>4. CharAt(o + 1) = "{" => o + 1 < Len(Merged)
  <2>1. "{" # "none"
    OBVIOUS
  <2> QED
    BY <1>1, <1>2, <2>1, Zenon
<1>5. Delimiter(CharAt(o)) => o < Len(Merged)
  <2>1. ~ Delimiter("none")
    BY DEF Delimiter
  <2> QED
    BY <1>1, <2>1, Zenon
<1>6. Promise!Opening(o)
        <=> (o + 2 \in Promise!Rest(o) /\ Input[o + 1] \in {"#", "$"} /\ Input[o + 2] = "{")
  BY Zenon DEF Promise!Opening, Input
<1>7. OpensBraced(o) <=> (CharAt(o) \in {"#", "$"} /\ CharAt(o + 1) = "{")
  BY Zenon DEF OpensBraced, Delimiter
<1>8. o + 1 < Len(Merged) => CharAt(o) = Input[o + 1] /\ CharAt(o + 1) = Input[o + 2]
  BY <1>1, <1>2, Zenon
<1>9. Promise!Opening(o) <=> OpensBraced(o)
  BY <1>3, <1>4, <1>6, <1>7, <1>8, Zenon
<1> QED
  BY <1>1, <1>4, <1>5, <1>7, <1>9, Zenon

(* When the braces from the first on are balanced.                         *)
LEMMA BalancedIs ==
  ASSUME NEW o \in Nat, NEW k \in Nat, k >= o + 2
  PROVE  Promise!Balanced(o + 2, k) <=> Braces(o, k - 1) = 0
<1>1. o + 2 \in Nat /\ k - 1 \in Nat /\ o + 2 <= (k - 1) + 1 /\ (k - 1) + 1 = k
  OBVIOUS
<1> DEFINE a == Promise!Count("{", o + 2, k)
           b == Promise!Count("}", o + 2, k)
<1>2. a \in Nat /\ b \in Nat
  <2>1. o + 2 <= k + 1
    OBVIOUS
  <2> QED
    BY <1>1, <2>1, CountSteps
<1>3. Promise!Balanced(o + 2, k) <=> a = b
  BY Zenon DEF Promise!Balanced
<1>4. Braces(o, k - 1) = a - b
  BY <1>1, Zenon DEF Braces
<1> HIDE DEF a, b
<1>5. a = b <=> a - b = 0
  BY <1>2
<1> QED
  BY <1>3, <1>4, <1>5, Zenon

(* The stretch of an expression, and its place.                            *)
BracedAt(o, j) ==
  [to |-> j + 1, new |-> CharAt(o), inner |-> SubSeq(Input, o + 3, j), separator |-> ","]

(* The first brace at which the depth drops to zero closes it.             *)
LEMMA BracedThere ==
  ASSUME runs \in Seq(TextRun), NEW o \in Nat, OpensBraced(o), ClosingBraces(o) # {}
  PROVE  /\ Min(ClosingBraces(o)) \in o + 2 .. Len(Merged) - 1
         /\ BracedAt(o, Min(ClosingBraces(o))) \in Promise!Stretch(o)
<1> DEFINE S == ClosingBraces(o)
           j == Min(S)
           c == j + 1
<1>1. Len(Merged) \in Nat /\ o + 1 < Len(Merged) /\ Promise!Opening(o) /\ Input[o + 1] = CharAt(o)
  <2>1. Len(Merged) \in Nat
    BY InputLaidOut
  <2>2. o + 1 < Len(Merged) => o < Len(Merged)
    BY <2>1
  <2> QED
    BY <2>1, <2>2, OpeningIs, Zenon
<1>2. S = {k \in o + 2 .. Len(Merged) - 1 : CharAt(k) = "}" /\ Braces(o, k) = 0}
  BY BracesCounted
<1> HIDE DEF S
<1>3. S \subseteq Nat /\ S \subseteq o + 2 .. Len(Merged) - 1
  <2>1. S \subseteq o + 2 .. Len(Merged) - 1
    BY <1>2, Zenon
  <2> QED
    BY <1>1, <2>1
<1>4. j \in S /\ \A k \in S : j <= k
  BY <1>3, MinIsLeast DEF S
<1>5. j \in o + 2 .. Len(Merged) - 1 /\ Braces(o, j) = 0
  BY <1>2, <1>3, <1>4
<1> HIDE DEF j
<1>6. /\ j - 1 \in o + 1 .. Len(Merged) - 1 /\ j \in Nat
      /\ \A k \in o + 2 .. j - 1 : k \in o + 2 .. Len(Merged) - 1 /\ ~ j <= k
  BY <1>1, <1>5
<1>7. NoBraceCloses(o, j - 1)
  BY <1>2, <1>4, <1>6, Zenon DEF NoBraceCloses
<1>8. \A k \in o + 1 .. j - 1 : Braces(o, k) \in Int /\ Braces(o, k) >= 1
  BY <1>6, <1>7, BracesStayUp
<1>9. Promise!Closes(o + 2, c)
  <2>1. c \in Nat /\ c >= o + 2 /\ c - 1 = j
    BY <1>5, <1>6
  <2>2. Promise!Balanced(o + 2, c)
    BY <1>5, <2>1, BalancedIs
  <2>3. ASSUME NEW k \in o + 2 .. c - 1 PROVE ~ Promise!Balanced(o + 2, k)
    <3>1. k \in Nat /\ k >= o + 2 /\ k - 1 \in o + 1 .. j - 1
      BY <1>6
    <3>2. Braces(o, k - 1) # 0
      <4>1. Braces(o, k - 1) \in Int /\ Braces(o, k - 1) >= 1
        BY <1>8, <3>1
      <4> QED
        BY <4>1
    <3> QED
      BY <3>1, <3>2, BalancedIs
  <2> QED
    BY <2>2, <2>3, Zenon DEF Promise!Closes
<1>10. c \in Promise!Rest(o) /\ c > o + 1
  <2>1. c \in o + 1 .. Len(Merged) /\ c > o + 1
    BY <1>1, <1>5
  <2> QED
    BY <2>1, RestIs, Zenon
<1>11. c - 1 = j
  BY <1>6
<1> HIDE DEF c
<1>12. [to |-> c, new |-> Input[o + 1], inner |-> SubSeq(Input, o + 3, c - 1), separator |-> ","]
         \in Promise!BracedStretch(o)
  BY <1>1, <1>9, <1>10, Zenon DEF Promise!BracedStretch, Input
<1>13. BracedAt(o, j) \in Promise!Stretch(o)
  BY <1>1, <1>11, <1>12, Zenon DEF BracedAt, Promise!Stretch, c
<1> QED
  BY <1>5, <1>13 DEF j, S

(* Where no expression opens, none is a stretch.                           *)
LEMMA NoBracedUnopened ==
  ASSUME NEW o, ~ Promise!Opening(o)
  PROVE  Promise!BracedStretch(o) = {}
BY Zenon DEF Promise!BracedStretch

(* Where one opens, nothing of iBatis is.                                  *)
LEMMA NoLegacyOpened ==
  ASSUME NEW o, Promise!Opening(o)
  PROVE  Promise!LegacyStretch(o) = {}
BY Zenon DEF Promise!LegacyStretch

(* An expression that no brace closes is no stretch.                       *)
LEMMA BracedNot ==
  ASSUME runs \in Seq(TextRun), NEW o \in Nat, OpensBraced(o), ClosingBraces(o) = {}
  PROVE  Promise!Stretch(o) = {}
<1>1. Len(Merged) \in Nat /\ o + 1 < Len(Merged) /\ Promise!Opening(o)
  BY OpeningIs, InputLaidOut, Zenon
<1> DEFINE n == Len(Merged) - 1
<1>2. n \in o + 1 .. Len(Merged) - 1
  BY <1>1
<1>3. {k \in o + 2 .. n : CharAt(k) = "}" /\ Braces(o, k) = 0} = {}
  BY BracesCounted, Zenon
<1>4. NoBraceCloses(o, n)
  BY <1>3, Zenon DEF NoBraceCloses
<1> HIDE DEF n
<1>5. \A k \in o + 1 .. n : Braces(o, k) \in Int /\ Braces(o, k) >= 1
  BY <1>2, <1>4, BracesStayUp
<1>6. ASSUME NEW c \in Promise!Rest(o), c > o + 1, Promise!Closes(o + 2, c)
      PROVE  FALSE
  <2>1. c \in o + 1 .. Len(Merged)
    BY <1>6, RestIs, Zenon
  <2>2. c \in Nat /\ c >= o + 2 /\ c - 1 \in o + 1 .. n
    BY <1>1, <1>6, <2>1 DEF n
  <2>3. Promise!Balanced(o + 2, c)
    BY <1>6, Zenon DEF Promise!Closes
  <2>4. Braces(o, c - 1) = 0
    BY <2>2, <2>3, BalancedIs
  <2>5. Braces(o, c - 1) \in Int /\ Braces(o, c - 1) >= 1
    BY <1>5, <2>2
  <2> QED
    BY <2>4, <2>5
<1>7. Promise!BracedStretch(o) = {}
  BY <1>6, Zenon DEF Promise!BracedStretch
<1> QED
  BY <1>1, <1>7, NoLegacyOpened, Zenon DEF Promise!Stretch

(* The stretch between two delimiters.                                     *)
LegacyAt(o, j) ==
  [to |-> j + 1, new |-> CharAt(o), inner |-> SubSeq(Input, o + 2, j), separator |-> ":"]

(* Where it is one.                                                        *)
LEMMA LegacyIs ==
  ASSUME runs \in Seq(TextRun), NEW o \in Nat, dialect = "Ibatis", ~ OpensBraced(o),
         Delimiter(CharAt(o)), NEW j \in Nat, j > o, j < Len(Merged), CharAt(j) = CharAt(o),
         \A k \in o + 1 .. j - 1 : CharAt(k) # CharAt(o) /\ ~ Blank(CharAt(k))
  PROVE  LegacyAt(o, j) \in Promise!Stretch(o)
<1> DEFINE c == j + 1
<1>1. /\ Len(Merged) \in Nat /\ ~ Promise!Opening(o) /\ Input[o + 1] = CharAt(o)
      /\ Input[o + 1] \in {"#", "$"}
  BY OpeningIs, InputLaidOut, Zenon DEF Delimiter
<1>2. c \in Promise!Rest(o) /\ c > o + 1 /\ c - 1 = j
  <2>1. c \in o + 1 .. Len(Merged) /\ c > o + 1 /\ c - 1 = j
    BY <1>1
  <2> QED
    BY <2>1, RestIs, Zenon
<1>3. Input[c] = CharAt(j)
  BY <1>2, RestIs, Zenon
<1>4. ASSUME NEW k \in o + 2 .. c - 1 PROVE Input[k] \notin {Input[c], " "}
  <2>1. k \in o + 1 .. Len(Merged) /\ k - 1 \in o + 1 .. j - 1
    BY <1>1, <1>2
  <2>2. Input[k] = CharAt(k - 1)
    BY <2>1, RestIs, Zenon
  <2>3. CharAt(k - 1) # CharAt(o) /\ CharAt(k - 1) # " "
    BY <2>1 DEF Blank
  <2> QED
    BY <1>3, <2>2, <2>3
<1> HIDE DEF c
<1>5. [to |-> c, new |-> Input[o + 1], inner |-> SubSeq(Input, o + 2, c - 1), separator |-> ":"]
         \in Promise!LegacyStretch(o)
  BY <1>1, <1>2, <1>3, <1>4, Zenon DEF Promise!LegacyStretch, Input
<1> QED
  BY <1>1, <1>2, <1>5, Zenon DEF LegacyAt, Promise!Stretch, c

(* A character at which the scan finds nothing begins no stretch.          *)
LEMMA PlainNot ==
  ASSUME runs \in Seq(TextRun), NEW o \in Nat, ~ OpensBraced(o), ~ Escaped(o), ~ Legacy(o)
  PROVE  Promise!Stretch(o) = {} /\ ~ Promise!Opening(o)
<1>1. ~ Promise!Opening(o) /\ Len(Merged) \in Nat
  BY OpeningIs, InputLaidOut, Zenon
<1>2. ASSUME NEW c \in Promise!Rest(o), dialect = "Ibatis", c > o + 1,
             Input[o + 1] \in {"#", "$"}, Input[c] = Input[o + 1],
             \A k \in o + 2 .. c - 1 : Input[k] \notin {Input[c], " "}
      PROVE  FALSE
  <2> DEFINE j == c - 1
  <2>1. c \in o + 1 .. Len(Merged) /\ Input[c] = CharAt(j)
    BY <1>2, RestIs, Zenon
  <2>2. /\ j \in o + 1 .. Len(Merged) - 1 /\ c \in Nat /\ o < Len(Merged)
        /\ \A k \in o + 1 .. j - 1 :
             k + 1 \in o + 2 .. c - 1 /\ k + 1 \in o + 1 .. Len(Merged) /\ (k + 1) - 1 = k
    <3>1. c > o + 1 /\ c \in o + 1 .. Len(Merged) /\ Len(Merged) \in Nat
      BY <1>1, <1>2, <2>1, Zenon
    <3>2. c \in Nat /\ c - 1 \in o + 1 .. Len(Merged) - 1 /\ o < Len(Merged)
      BY <3>1
    <3>3. \A k \in o + 1 .. (c - 1) - 1 :
            k + 1 \in o + 2 .. c - 1 /\ k + 1 \in o + 1 .. Len(Merged) /\ (k + 1) - 1 = k
      BY <3>1
    <3> QED
      BY <3>2, <3>3, Zenon
  <2>3. Input[o + 1] = CharAt(o)
    BY <2>2, OpeningIs, Zenon
  <2>4. Delimiter(CharAt(o)) /\ CharAt(j) = CharAt(o)
    BY <1>2, <2>1, <2>3, Zenon DEF Delimiter
  <2>5. ASSUME NEW k \in o + 1 .. j - 1 PROVE CharAt(k) # CharAt(o) /\ ~ Blank(CharAt(k))
    <3>1. Input[k + 1] \notin {Input[c], " "}
      BY <1>2, <2>2
    <3>2. Input[k + 1] = CharAt(k)
      BY <2>2, RestIs, Zenon
    <3> QED
      BY <1>2, <2>3, <3>1, <3>2 DEF Blank
  <2> HIDE DEF j
  <2>6. j \in LegacyClose(o)
    BY <2>2, <2>4, <2>5, Zenon DEF LegacyClose
  <2> QED
    BY <1>2, <2>4, <2>6, Zenon DEF Legacy
<1>3. Promise!LegacyStretch(o) = {}
  BY <1>2, Zenon DEF Promise!LegacyStretch, Input
<1> QED
  BY <1>1, <1>3, NoBracedUnopened, Zenon DEF Promise!Stretch

-------------------------------------------------------------------------------
(* The paths.                                                              *)

(* What extract_path finds, and where it stops to look.                    *)
LEMMA PathParts ==
  ASSUME NEW from \in Nat, NEW to \in Nat, from <= to, NEW separator
  PROVE  \E cut \in from .. to :
           /\ cut = to \/ CharAt(cut) = separator
           /\ \A k \in from .. cut - 1 : CharAt(k) # separator
           /\ PathIn(from, to, separator) = {} <=> \A k \in from .. cut - 1 : Blank(CharAt(k))
           /\ \A r \in PathIn(from, to, separator) :
                /\ r[1] \in from .. cut - 1 /\ r[2] \in r[1] + 1 .. cut
                /\ ~ Blank(CharAt(r[1])) /\ ~ Blank(CharAt(r[2] - 1))
                /\ \A k \in from .. r[1] - 1 : Blank(CharAt(k))
                /\ \A k \in r[2] .. cut - 1 : Blank(CharAt(k))
<1> DEFINE K == {k \in from .. to - 1 : CharAt(k) = separator}
           C == {to} \cup K
           cut == Min(C)
           solid == {k \in from .. cut - 1 : ~ Blank(CharAt(k))}
           p == <<Min(solid), Max(solid) + 1>>
           P == PathIn(from, to, separator)
<1>1. P = IF solid = {} THEN {} ELSE {p}
  BY Zenon DEF PathIn
<1>2. K \subseteq from .. to - 1 /\ \A k \in K : CharAt(k) = separator
  BY Zenon
<1>3. \A k \in from .. to - 1 : CharAt(k) = separator => k \in K
  BY Zenon
<1> HIDE DEF K, P
<1>4. C \subseteq from .. to /\ C \subseteq Nat /\ to \in C
  BY <1>2
<1>5. cut \in C /\ \A k \in C : cut <= k
  <2> HIDE DEF C
  <2> QED
    BY <1>4, MinIsLeast
<1>6. cut \in from .. to /\ (cut = to \/ CharAt(cut) = separator)
  BY <1>2, <1>4, <1>5
<1>7. \A k \in K : cut <= k
  BY <1>5
<1> HIDE DEF C, cut
<1>8. \A k \in from .. cut - 1 : CharAt(k) # separator
  <2> SUFFICES ASSUME NEW k \in from .. cut - 1, CharAt(k) = separator PROVE FALSE
    BY Zenon
  <2>1. k \in from .. to - 1 /\ ~ cut <= k
    BY <1>6
  <2> QED
    BY <1>3, <1>7, <2>1
<1>9. solid = {} <=> \A k \in from .. cut - 1 : Blank(CharAt(k))
  BY Zenon
<1>10. \A k \in solid : k \in from .. cut - 1 /\ ~ Blank(CharAt(k))
  BY Zenon
<1>11. \A k \in from .. cut - 1 : Blank(CharAt(k)) \/ k \in solid
  BY Zenon
<1>12. solid \subseteq Nat /\ solid \subseteq 0 .. cut /\ cut \in Nat
  BY <1>6, <1>10
<1> HIDE DEF solid
<1>13. ASSUME solid # {}
       PROVE  /\ p[1] \in from .. cut - 1 /\ p[2] \in p[1] + 1 .. cut
              /\ ~ Blank(CharAt(p[1])) /\ ~ Blank(CharAt(p[2] - 1))
              /\ \A k \in from .. p[1] - 1 : Blank(CharAt(k))
              /\ \A k \in p[2] .. cut - 1 : Blank(CharAt(k))
  <2> DEFINE a == Min(solid)
             b == Max(solid)
  <2>1. a \in solid /\ \A k \in solid : a <= k
    BY <1>12, <1>13, MinIsLeast
  <2>2. b \in solid /\ \A k \in solid : k <= b
    BY <1>12, <1>13, MaxIsGreatest
  <2>3. p[1] = a /\ p[2] = b + 1
    OBVIOUS
  <2> HIDE DEF a, b, p
  <2>4. a \in from .. cut - 1 /\ b \in from .. cut - 1 /\ a <= b /\ ~ Blank(CharAt(a))
        /\ ~ Blank(CharAt(b))
    BY <1>10, <2>1, <2>2
  <2>5. b + 1 \in a + 1 .. cut /\ (b + 1) - 1 = b
    BY <1>12, <2>4
  <2>6. ASSUME NEW k \in from .. a - 1 PROVE Blank(CharAt(k))
    <3>1. k \in from .. cut - 1 /\ ~ a <= k
      BY <1>12, <2>4
    <3> QED
      BY <1>11, <2>1, <3>1
  <2>7. ASSUME NEW k \in b + 1 .. cut - 1 PROVE Blank(CharAt(k))
    <3>1. k \in from .. cut - 1 /\ ~ k <= b
      BY <1>12, <2>4
    <3> QED
      BY <1>11, <2>2, <3>1
  <2> QED
    BY <2>3, <2>4, <2>5, <2>6, <2>7, Zenon
<1> HIDE DEF p
<1>14. P = {} <=> solid = {}
  <2>1. {p} # {}
    BY Zenon
  <2> QED
    BY <1>1, <2>1, Zenon
<1>15. \A r \in P : solid # {} /\ r = p
  <2>1. \A r \in {} : FALSE
    OBVIOUS
  <2>2. \A r \in {p} : r = p
    BY Zenon
  <2> QED
    BY <1>1, <2>1, <2>2, Zenon
<1> QED
  BY <1>6, <1>8, <1>9, <1>13, <1>14, <1>15, Zenon DEF P

(* A stretch of a stretch.                                                 *)
LEMMA StretchOfStretch ==
  ASSUME NEW S, NEW s \in Seq(S), NEW from \in 0 .. Len(s), NEW to \in from .. Len(s),
         NEW a \in from .. to, NEW b \in a .. to
  PROVE  SubSeq(SubSeq(s, from + 1, to), a - from + 1, b - from) = SubSeq(s, a + 1, b)
<1> DEFINE t == SubSeq(s, from + 1, to)
           x == a - from
           y == b - from
           u == SubSeq(t, x + 1, y)
           v == SubSeq(s, a + 1, b)
<1>1. Len(s) \in Nat /\ from \in Nat /\ to \in Nat /\ a \in Nat /\ b \in Nat
      /\ a \in 0 .. Len(s) /\ b \in a .. Len(s)
  OBVIOUS
<1>2. t \in Seq(S) /\ Len(t) = to - from /\ \A m \in 1 .. to - from : t[m] = s[from + m]
  BY Stretch, StretchItems, Zenon
<1> HIDE DEF t
<1>3. x \in 0 .. Len(t) /\ y \in x .. Len(t) /\ y - x = b - a
  BY <1>1, <1>2
<1>4. \A m \in 1 .. b - a : x + m \in 1 .. to - from /\ from + (x + m) = a + m
  BY <1>1
<1> HIDE DEF x, y
<1>5. u \in Seq(S) /\ Len(u) = y - x /\ \A m \in 1 .. y - x : u[m] = t[x + m]
  BY <1>2, <1>3, Stretch, StretchItems, Zenon
<1>6. v \in Seq(S) /\ Len(v) = b - a /\ \A m \in 1 .. b - a : v[m] = s[a + m]
  BY <1>1, Stretch, StretchItems, Zenon
<1> HIDE DEF u, v
<1>7. \A m \in 1 .. b - a : u[m] = v[m]
  BY <1>2, <1>3, <1>4, <1>5, <1>6, Zenon
<1>8. Len(u) = Len(v)
  BY <1>3, <1>5, <1>6, Zenon
<1>9. u = v
  BY <1>5, <1>6, <1>7, <1>8
<1> QED
  BY <1>9 DEF u, v, t, x, y

(* It is what the abstract specification asks for.                         *)
LEMMA PathPromised ==
  ASSUME runs \in Seq(TextRun), NEW from \in Nat, NEW to \in Nat, from <= to, to <= Len(Merged),
         NEW s, s.inner = SubSeq(Input, from + 1, to)
  PROVE  /\ PathIn(from, to, s.separator) # {} <=> Promise!HasPath(s)
         /\ \A r \in PathIn(from, to, s.separator) :
              Promise!IsPath(SubSeq(Input, r[1] + 1, r[2]), s)
<1> DEFINE P == PathIn(from, to, s.separator)
           inner == s.inner
           n == to - from
<1>1. /\ Input \in Seq(Alphabet) /\ Len(Input) = Len(Merged) /\ Len(Merged) \in Nat
      /\ \A k \in 1 .. Len(Merged) : Input[k] = CharAt(k - 1)
  BY InputLaidOut
<1>2. from \in 0 .. Len(Input) /\ to \in from .. Len(Input)
  BY <1>1
<1>3. inner \in Seq(Alphabet) /\ Len(inner) = n /\ \A m \in 1 .. n : inner[m] = Input[from + m]
  BY <1>1, <1>2, Stretch, StretchItems, Zenon
<1>4. \A m \in 1 .. n : inner[m] = CharAt(from + m - 1)
  <2> TAKE m \in 1 .. n
  <2>1. from + m \in 1 .. Len(Merged) /\ (from + m) - 1 = from + m - 1
    BY <1>1
  <2>2. inner[m] = Input[from + m]
    BY <1>3
  <2> HIDE DEF inner, n
  <2>3. Input[from + m] = CharAt(from + m - 1)
    BY <1>1, <2>1, Zenon
  <2> QED
    BY <2>2, <2>3, Zenon
<1>5. DOMAIN inner = 1 .. n /\ n \in Nat
  BY <1>3
<1>6. PICK cut \in from .. to :
           /\ cut = to \/ CharAt(cut) = s.separator
           /\ \A k \in from .. cut - 1 : CharAt(k) # s.separator
           /\ P = {} <=> \A k \in from .. cut - 1 : Blank(CharAt(k))
           /\ \A r \in P :
                /\ r[1] \in from .. cut - 1 /\ r[2] \in r[1] + 1 .. cut
                /\ ~ Blank(CharAt(r[1])) /\ ~ Blank(CharAt(r[2] - 1))
                /\ \A k \in from .. r[1] - 1 : Blank(CharAt(k))
                /\ \A k \in r[2] .. cut - 1 : Blank(CharAt(k))
  BY PathParts, Zenon
<1>7. \A c : Blank(c) <=> c = " "
  BY Zenon DEF Blank
<1> HIDE DEF P, inner, n
<1>8. \A k \in from .. cut - 1 :
        k - from + 1 \in 1 .. n /\ inner[k - from + 1] = CharAt(k)
  <2> TAKE k \in from .. cut - 1
  <2>1. k - from + 1 \in 1 .. n /\ from + (k - from + 1) - 1 = k
    BY DEF n
  <2> QED
    BY <1>4, <2>1, Zenon
<1>9. ASSUME NEW k \in from .. cut - 1, ~ Blank(CharAt(k)) PROVE Promise!HasPath(s)
  <2> DEFINE q == k - from + 1
  <2>1. q \in DOMAIN inner /\ inner[q] # " "
    BY <1>5, <1>7, <1>8, <1>9
  <2>2. ASSUME NEW j \in 1 .. q PROVE inner[j] # s.separator
    <3>1. from + j - 1 \in from .. cut - 1 /\ j \in 1 .. n
      BY DEF n
    <3> QED
      BY <1>4, <1>6, <3>1, Zenon
  <2> HIDE DEF q
  <2> QED
    BY <2>1, <2>2, Zenon DEF Promise!HasPath, inner
<1>10. ASSUME Promise!HasPath(s) PROVE \E k \in from .. cut - 1 : ~ Blank(CharAt(k))
  <2>1. PICK k \in DOMAIN inner : inner[k] # " " /\ \A j \in 1 .. k : inner[j] # s.separator
    BY <1>10, Zenon DEF Promise!HasPath, inner
  <2>2. k \in 1 .. n /\ inner[k] = CharAt(from + k - 1)
    BY <1>4, <1>5, <2>1, Zenon
  <2>3. ~ cut <= from + k - 1
    <3> SUFFICES ASSUME cut <= from + k - 1 PROVE FALSE
      OBVIOUS
    <3> DEFINE j == cut - from + 1
    <3>1. j \in 1 .. k /\ j \in 1 .. n /\ from + j - 1 = cut /\ cut # to
      BY <2>2 DEF n
    <3> HIDE DEF j
    <3>2. inner[j] = CharAt(cut)
      BY <1>4, <3>1, Zenon
    <3> QED
      BY <1>6, <2>1, <3>1, <3>2, Zenon
  <2>4. from + k - 1 \in from .. cut - 1
    BY <2>2, <2>3
  <2> QED
    BY <1>7, <2>1, <2>2, <2>4, Zenon
<1>11. P # {} <=> Promise!HasPath(s)
  BY <1>6, <1>9, <1>10, Zenon
<1>12. ASSUME NEW r \in P
       PROVE  Promise!IsPath(SubSeq(Input, r[1] + 1, r[2]), s)
  <2> DEFINE x == r[1]
             y == r[2]
             a == x - from + 1
             b == y - from
             p == SubSeq(Input, x + 1, y)
  <2>1. /\ x \in from .. cut - 1 /\ y \in x + 1 .. cut
        /\ ~ Blank(CharAt(x)) /\ ~ Blank(CharAt(y - 1))
        /\ \A k \in from .. x - 1 : Blank(CharAt(k))
        /\ \A k \in y .. cut - 1 : Blank(CharAt(k))
    BY <1>6, <1>12, Zenon
  <2> HIDE DEF x, y
  <2>2. x \in Nat /\ y \in Nat /\ cut \in Nat /\ x \in from .. to /\ y \in x .. to
        /\ a \in 1 .. n /\ b \in 1 .. n /\ a <= b /\ y - 1 \in from .. cut - 1
    BY <2>1 DEF n
  <2>3. p = SubSeq(inner, a, b)
    BY <1>1, <1>2, <2>2, StretchOfStretch, Zenon DEF inner
  <2>4. x \in 0 .. Len(Input) /\ y \in x .. Len(Input)
    BY <1>1, <2>2
  <2>5. Len(p) = y - x /\ \A m \in 1 .. y - x : p[m] = Input[x + m]
    BY <1>1, <2>4, Stretch, StretchItems, Zenon
  <2> HIDE DEF p
  <2>6. p[1] # " "
    <3>1. 1 \in 1 .. y - x /\ x + 1 \in 1 .. Len(Merged) /\ (x + 1) - 1 = x
      BY <1>1, <2>1, <2>2
    <3> QED
      BY <1>1, <1>7, <2>1, <2>5, <3>1, Zenon
  <2>7. p[Len(p)] # " "
    <3>1. y - x \in 1 .. y - x /\ x + (y - x) = y /\ y \in 1 .. Len(Merged)
      BY <1>1, <2>1, <2>2
    <3> QED
      BY <1>1, <1>7, <2>1, <2>5, <3>1, Zenon
  <2>8. ASSUME NEW k \in 1 .. b PROVE inner[k] # s.separator
    <3>1. from + k - 1 \in from .. cut - 1 /\ k \in 1 .. n
      BY <2>1, <2>2 DEF n
    <3> QED
      BY <1>4, <1>6, <3>1, Zenon
  <2>9. ASSUME NEW k \in 1 .. a - 1 PROVE inner[k] = " "
    <3>1. from + k - 1 \in from .. x - 1 /\ k \in 1 .. n
      BY <2>1, <2>2 DEF n
    <3> QED
      BY <1>4, <1>7, <2>1, <3>1, Zenon
  <2>10. ASSUME NEW k \in b + 1 .. n
         PROVE  inner[k] = " " \/ \E j \in b + 1 .. k : inner[j] = s.separator
    <3> DEFINE q == from + k - 1
    <3>1. q \in Nat /\ q >= y /\ q < to /\ k \in 1 .. n
      BY <2>2 DEF n
    <3>2. CASE q < cut
      <4>1. q \in y .. cut - 1
        BY <2>2, <3>1, <3>2
      <4> QED
        BY <1>4, <1>7, <2>1, <3>1, <4>1, Zenon
    <3>3. CASE ~ q < cut
      <4> DEFINE j == cut - from + 1
      <4>1. j \in b + 1 .. k /\ j \in 1 .. n /\ from + j - 1 = cut /\ cut # to
        BY <2>1, <2>2, <3>1, <3>3 DEF n
      <4> HIDE DEF j
      <4>2. inner[j] = CharAt(cut)
        BY <1>4, <4>1, Zenon
      <4> QED
        BY <1>6, <4>1, <4>2, Zenon
    <3> QED
      BY <3>2, <3>3, Zenon
  <2> HIDE DEF a, b
  <2>11. Promise!IsPath(p, s)
    BY <1>3, <2>2, <2>3, <2>6, <2>7, <2>8, <2>9, <2>10, Zenon DEF Promise!IsPath, inner
  <2> QED
    BY <2>11, Zenon DEF p, x, y
<1> QED
  BY <1>11, <1>12, Zenon DEF P

-------------------------------------------------------------------------------
(* What the turns of the loop do to the text as it would be now.           *)

(* Further text is what it was, and the stretch between.                   *)
LEMMA FlushedFurther ==
  ASSUME ScanSound, NEW a \in i .. Len(Merged), NEW b \in a .. Len(Merged)
  PROVE  /\ FlushedText(b) = FlushedText(a) \o SubSeq(Merged, a + 1, b)
         /\ Spelling(FlushedText(b)) = Spelling(FlushedText(a)) \o SubSeq(Input, a + 1, b)
<1> DEFINE c == SubSeq(Merged, copyStart + 1, a)
           d == SubSeq(Merged, a + 1, b)
           e == SubSeq(Merged, copyStart + 1, b)
<1>1. /\ Merged \in Seq(Char) /\ Len(Merged) \in Nat /\ text \in Seq(Char)
      /\ copyStart \in 0 .. Len(Merged) /\ a \in copyStart .. Len(Merged) /\ a \in 0 .. Len(Merged)
      /\ b \in a .. Len(Merged) /\ a \in Nat /\ b \in Nat /\ copyStart \in Nat
  BY MergedLaidOut DEF ScanSound
<1>2. c \in Seq(Char) /\ d \in Seq(Char)
  BY <1>1, Stretch, Zenon
<1>3. e = c \o d
  <2>1. copyStart + 1 \in 1 .. Len(Merged) + 1 /\ a \in (copyStart + 1) - 1 .. Len(Merged)
    BY <1>1
  <2> QED
    BY <1>1, <2>1, ConcatAdjacentSubSeq, Zenon
<1>4. FlushedText(a) = text \o c /\ FlushedText(b) = text \o e
  BY DEF FlushedText, Slice
<1> HIDE DEF c, d, e
<1>5. text \o e = (text \o c) \o d
  <2>1. (text \o c) \o d = text \o (c \o d)
    <3>1. text \in Seq(Char) /\ c \in Seq(Char) /\ d \in Seq(Char)
      BY <1>1, <1>2
    <3> QED
      BY <3>1, ConcatAssociative
  <2> QED
    BY <1>3, <2>1, Zenon
<1>6. text \o c \in Seq(Char)
  BY <1>1, <1>2, Joined, Zenon
<1>7. FlushedText(b) = FlushedText(a) \o d
  BY <1>4, <1>5, Zenon
<1>8. Spelling(FlushedText(b)) = Spelling(FlushedText(a)) \o Spelling(d)
  BY <1>2, <1>4, <1>6, <1>7, SpelledTogether, Zenon
<1>9. Spelling(d) = SubSeq(Input, a + 1, b)
  BY <1>1, SpelledStretch, Zenon DEF d, Input
<1> QED
  BY <1>7, <1>8, <1>9, Zenon DEF d

(* Nothing is flushed that has been copied.                                *)
LEMMA FlushedNow ==
  ASSUME runs \in Seq(TextRun), text \in Seq(Char), i \in 0 .. Len(Merged), copyStart = i
  PROVE  FlushedText(i) = text
<1>1. Merged \in Seq(Char) /\ Len(Merged) \in Nat
  BY MergedLaidOut
<1> DEFINE c == SubSeq(Merged, i + 1, i)
<1>2. c = << >>
  <2>1. i \in 0 .. Len(Merged) /\ i \in i .. Len(Merged) /\ i - i = 0
    BY <1>1
  <2>2. c \in Seq(Char) /\ Len(c) = 0
    BY <1>1, <2>1, Stretch
  <2> HIDE DEF c
  <2> QED
    BY <2>2
<1>3. FlushedText(i) = text \o c
  BY DEF FlushedText, Slice
<1> QED
  BY <1>2, <1>3, ConcatEmptySeq, Zenon

(* A scan that has copied all there is.                                    *)
LEMMA FlushedNext ==
  ASSUME (runs \in Seq(TextRun))', (text \in Seq(Char))', (i \in 0 .. Len(Merged))', copyStart' = i'
  PROVE  Out' = Spelling(text')
<1>1. (runs \in Seq(TextRun) /\ text \in Seq(Char) /\ i \in 0 .. Len(Merged) /\ copyStart = i
         => FlushedText(i) = text)'
  BY FlushedNow, PTL
<1>2. FlushedText(i)' = text'
  BY <1>1
<1> QED
  BY <1>2 DEF Out

(* Whatever turn of the loop, the text is the one it was.                  *)
LEMMA InputKept ==
  ASSUME runs' = runs
  PROVE  Input' = Input /\ Merged' = Merged
<1>1. Merged' = Merged
  BY DEF Merged, MergedUpTo
<1> QED
  BY <1>1 DEF Input

(* Copying late.                                                           *)
LEMMA PassedOut ==
  ASSUME ScanSound, i < Len(Merged), PlainCharacter
  PROVE  Out' = Append(Out, Input[i + 1]) /\ i' = i + 1
<1>1. i' = i + 1 /\ UNCHANGED <<runs, copyStart, text>>
  BY DEF PlainCharacter
<1>2. /\ i \in i .. Len(Merged) /\ i + 1 \in i .. Len(Merged) /\ i \in Nat /\ Len(Merged) \in Nat
      /\ Merged \in Seq(Char) /\ runs \in Seq(TextRun)
  BY MergedLaidOut DEF ScanSound
<1>3. Input \in Seq(Alphabet) /\ Len(Input) = Len(Merged)
  BY <1>2, InputLaidOut
<1>4. FlushedText(i)' = FlushedText(i + 1)
  <2>1. Merged' = Merged
    BY <1>1, InputKept
  <2> QED
    BY <1>1, <2>1 DEF FlushedText, Slice
<1>5. Spelling(FlushedText(i + 1)) = Spelling(FlushedText(i)) \o SubSeq(Input, i + 1, i + 1)
  BY <1>2, FlushedFurther
<1>6. SubSeq(Input, i + 1, i + 1) = <<Input[i + 1]>>
  <2> DEFINE s == SubSeq(Input, i + 1, i + 1)
  <2>1. i \in 0 .. Len(Input) /\ i + 1 \in i .. Len(Input) /\ (i + 1) - i = 1
    BY <1>2, <1>3
  <2>2. s \in Seq(Alphabet) /\ Len(s) = (i + 1) - i /\ \A m \in 1 .. (i + 1) - i : s[m] = Input[i + m]
    BY <1>3, <2>1, Stretch, StretchItems, Zenon
  <2> HIDE DEF s
  <2>3. s[1] = Input[i + 1] /\ Len(s) = 1
    BY <2>1, <2>2
  <2> DEFINE x == Input[i + 1]
             v == <<x>>
  <2>5. x \in Alphabet
    BY <1>2, <1>3
  <2> HIDE DEF x
  <2>6. v \in Seq(Alphabet) /\ Len(v) = 1 /\ v[1] = x
    BY <2>5
  <2> HIDE DEF v
  <2>7. \A m \in 1 .. 1 : s[m] = v[m]
    BY <2>3, <2>6 DEF x
  <2>8. s = v
    BY <2>2, <2>3, <2>6, <2>7
  <2>4. s = <<Input[i + 1]>>
    BY <2>8 DEF v, x
  <2> QED
    BY <2>4 DEF s
<1>7. Out \in Seq(Alphabet)
  <2>1. FlushedText(i) \in Seq(Char)
    BY <1>2, Flushed
  <2> QED
    BY <2>1, Spelled, Zenon DEF Out
<1>8. Input[i + 1] \in Alphabet
  BY <1>2, <1>3
<1>9. Out' = Out \o <<Input[i + 1]>>
  BY <1>4, <1>5, <1>6 DEF Out
<1> QED
  BY <1>1, <1>7, <1>8, <1>9, AppendIsConcat, Zenon

(* Copying all of the rest.                                                *)
LEMMA RestOut ==
  ASSUME ScanSound, Unterminated
  PROVE  Out' = Out \o SubSeq(Input, i + 1, Len(Input)) /\ i' = Len(Input) /\ Input' = Input
<1> DEFINE n == Len(Merged)
<1>1. text' = FlushedText(n) /\ i' = n /\ copyStart' = n /\ UNCHANGED runs
  BY DEF Unterminated
<1>2. n \in Nat /\ i \in i .. n /\ n \in i .. n /\ i \in Nat /\ runs \in Seq(TextRun)
  BY MergedLaidOut DEF ScanSound
<1>3. Len(Input) = n
  BY <1>2, InputLaidOut
<1>4. Merged' = Merged /\ Input' = Input
  BY <1>1, InputKept
<1>5. FlushedText(n) \in Seq(Char)
  BY <1>2, Flushed
<1>6. Spelling(FlushedText(n)) = Spelling(FlushedText(i)) \o SubSeq(Input, i + 1, n)
  BY <1>2, FlushedFurther
<1>7. Out' = Spelling(text')
  <2>1. n \in 0 .. n
    BY <1>2
  <2>2. (runs \in Seq(TextRun))' /\ (text \in Seq(Char))' /\ (i \in 0 .. Len(Merged))'
    BY <1>1, <1>2, <1>4, <1>5, <2>1
  <2> QED
    BY <1>1, <2>2, FlushedNext
<1> QED
  BY <1>1, <1>3, <1>4, <1>6, <1>7 DEF Out

(* Putting something new in the place of what was.                         *)
LEMMA ReplacedOut ==
  ASSUME ScanSound, NEW new \in Seq(Char), Len(new) >= 1, NEW end \in i .. Len(Merged),
         Replace(new, end)
  PROVE  Out' = Out \o Spelling(new) /\ i' = end /\ Input' = Input
<1> DEFINE a == FlushedText(i)
           t == a \o new
<1>1. text' = t /\ i' = end /\ copyStart' = end /\ runs' = runs
  BY DEF Replace
<1>2. ScanSound'
  BY Replaced
<1>3. (runs \in Seq(TextRun))' /\ (text \in Seq(Char))' /\ (i \in 0 .. Len(Merged))'
  BY <1>2 DEF ScanSound
<1>4. Out' = Spelling(t)
  BY <1>1, <1>3, FlushedNext
<1>5. a \in Seq(Char)
  <2>1. i \in i .. Len(Merged)
    BY MergedLaidOut DEF ScanSound
  <2> QED
    BY <2>1, Flushed
<1> HIDE DEF a
<1>6. Spelling(t) = Spelling(a) \o Spelling(new)
  BY <1>5, SpelledTogether, Zenon
<1> QED
  BY <1>1, <1>4, <1>6, InputKept DEF a, Out

(* What a marker spells.                                                   *)
LEMMA MarkerSpelled ==
  ASSUME NEW chars \in Chars
  PROVE  Spelling(Marker(chars)) = chars
<1> DEFINE n == Len(chars)
           g == Marker(chars)
<1>1. DOMAIN chars = 1 .. n /\ n \in Nat
  BY DEF Chars
<1>2. DOMAIN g = 1 .. n /\ \A k \in 1 .. n : g[k].ch = chars[k]
  BY <1>1 DEF Marker
<1> HIDE DEF g, n
<1>3. Spelling(g) = [k \in 1 .. n |-> chars[k]]
  BY <1>2 DEF Spelling
<1>4. chars = [k \in 1 .. n |-> chars[k]]
  BY <1>1 DEF Chars
<1> QED
  BY <1>3, <1>4 DEF g

-------------------------------------------------------------------------------
(* The paths found, spelled out.                                           *)

ValuesOf(ps) == [k \in DOMAIN ps |-> Spelling(ps[k].value)]

(* They are as many as the paths.                                          *)
LEMMA ValuesTyped ==
  ASSUME NEW ps \in Seq(Path)
  PROVE  ValuesOf(ps) \in Seq(Seq(Alphabet)) /\ Len(ValuesOf(ps)) = Len(ps)
<1>1. \A k \in DOMAIN ps : ps[k].value \in Seq(Char)
  <2>1. \A k \in DOMAIN ps : ps[k] \in Path
    OBVIOUS
  <2>2. \A p \in Path : p.value \in Seq(Char)
    BY DEF Path
  <2> QED
    BY <2>1, <2>2, Zenon
<1>2. \A k \in DOMAIN ps : Spelling(ps[k].value) \in Seq(Alphabet)
  BY <1>1, Spelled, Zenon
<1>3. DOMAIN ps = 1 .. Len(ps) /\ Len(ps) \in Nat
  OBVIOUS
<1> DEFINE f(k) == Spelling(ps[k].value)
<1>4. \A k \in 1 .. Len(ps) : f(k) \in Seq(Alphabet)
  BY <1>2, <1>3, Zenon
<1>5. ValuesOf(ps) = [k \in 1 .. Len(ps) |-> f(k)]
  BY <1>3, Zenon DEF ValuesOf
<1> HIDE DEF f
<1>6. [k \in 1 .. Len(ps) |-> f(k)] \in Seq(Seq(Alphabet)) /\ Len([k \in 1 .. Len(ps) |-> f(k)]) = Len(ps)
  BY <1>3, <1>4
<1> QED
  BY <1>5, <1>6, Zenon

(* One more element, after what there was.                                 *)
LEMMA OneMoreFound ==
  ASSUME NEW S, NEW s \in Seq(S), NEW t \in Seq(S), Len(t) = Len(s) + 1,
         \A k \in 1 .. Len(s) : t[k] = s[k]
  PROVE  SubSeq(t, 1, Len(s)) = s
<1> DEFINE n == Len(s)
           u == SubSeq(t, 0 + 1, n)
<1>1. n \in Nat /\ 0 \in 0 .. Len(t) /\ n \in 0 .. Len(t) /\ n - 0 = n /\ 0 + 1 = 1
  OBVIOUS
<1> HIDE DEF n
<1>2. u \in Seq(S) /\ Len(u) = n /\ \A m \in 1 .. n : u[m] = t[0 + m]
  <2>1. u \in Seq(S) /\ Len(u) = n - 0
    BY <1>1, Stretch, Zenon
  <2>2. \A m \in 1 .. n - 0 : u[m] = t[0 + m]
    BY <1>1, StretchItems, Zenon
  <2> QED
    BY <1>1, <2>1, <2>2, Zenon
<1> HIDE DEF u
<1>3. \A m \in 1 .. n : u[m] = s[m]
  <2> TAKE m \in 1 .. n
  <2>1. 0 + m = m
    BY <1>1
  <2>2. t[m] = s[m]
    BY DEF n
  <2> QED
    BY <1>2, <2>1, <2>2, Zenon
<1>4. u = s
  BY <1>2, <1>3 DEF n
<1> QED
  BY <1>1, <1>4, Zenon DEF u, n

(* push_path adds what the abstract specification asks for.                *)
LEMMA FoundPushed ==
  ASSUME ScanSound, paths \in Seq(Path), NEW from \in Nat, NEW to \in Nat, from <= to,
         to <= Len(Merged), NEW s, s.inner = SubSeq(Input, from + 1, to),
         PushPaths(PathIn(from, to, s.separator)), paths' \in Seq(Path)
  PROVE  /\ Promise!HasPath(s) => /\ Len(Found') = Len(Found) + 1
                                  /\ SubSeq(Found', 1, Len(Found)) = Found
                                  /\ Promise!IsPath(Found'[Len(Found')], s)
         /\ ~ Promise!HasPath(s) => Found' = Found
<1> DEFINE P == PathIn(from, to, s.separator)
           r == CHOOSE p \in P : TRUE
           v == Slice(r[1], r[2])
           new == [value |-> v, span |-> PathSpan(r[1], r[2])]
<1>1. runs \in Seq(TextRun) /\ Merged \in Seq(Char) /\ Len(Merged) \in Nat
  BY MergedLaidOut DEF ScanSound
<1>2. /\ P # {} <=> Promise!HasPath(s)
      /\ \A p \in P : Promise!IsPath(SubSeq(Input, p[1] + 1, p[2]), s)
  BY <1>1, PathPromised, Zenon
<1>3. paths' = IF P = {} THEN paths ELSE Append(paths, new)
  BY DEF PushPaths
<1>4. Found = ValuesOf(paths) /\ Found' = ValuesOf(paths')
  BY DEF Found, ValuesOf
<1>5. ASSUME ~ Promise!HasPath(s) PROVE Found' = Found
  <2>1. paths' = paths
    BY <1>2, <1>3, <1>5, Zenon
  <2> QED
    BY <1>4, <2>1, Zenon
<1>6. ASSUME Promise!HasPath(s)
      PROVE  /\ Len(Found') = Len(Found) + 1
             /\ SubSeq(Found', 1, Len(Found)) = Found
             /\ Promise!IsPath(Found'[Len(Found')], s)
  <2>1. P # {} /\ paths' = Append(paths, new)
    BY <1>2, <1>3, <1>6, Zenon
  <2>2. r \in P
    BY <2>1, Zenon
  <2> HIDE DEF r
  <2>3. Promise!IsPath(SubSeq(Input, r[1] + 1, r[2]), s)
    BY <1>2, <2>2, Zenon
  <2>4. r[1] \in 0 .. Len(Merged) /\ r[2] \in r[1] .. Len(Merged)
    <3> HIDE DEF P
    <3>1. r[1] \in Nat /\ r[2] \in Nat /\ r[1] < r[2] /\ r[2] <= to
      BY <2>2, PathWithin, Zenon DEF P
    <3> QED
      BY <1>1, <3>1
  <2>5. Spelling(v) = SubSeq(Input, r[1] + 1, r[2])
    BY <1>1, <2>4, SpelledStretch, Zenon DEF Slice, Input
  <2>6. new.value = v
    BY Zenon
  <2> HIDE DEF new, v, P
  <2> DEFINE f == ValuesOf(paths)
             g == ValuesOf(paths')
             l == Len(paths)
  <2>7. l \in Nat /\ Len(paths') = l + 1 /\ paths'[l + 1] = new
        /\ \A k \in 1 .. l : paths'[k] = paths[k]
    BY <2>1
  <2>8. DOMAIN paths = 1 .. l /\ DOMAIN paths' = 1 .. l + 1
        /\ \A k \in 1 .. l : k \in 1 .. l + 1
    BY <2>7
  <2>9. f \in Seq(Seq(Alphabet)) /\ Len(f) = l /\ g \in Seq(Seq(Alphabet)) /\ Len(g) = l + 1
    BY <2>7, ValuesTyped, Zenon
  <2>10. \A k \in 1 .. l : g[k] = f[k]
    <3> TAKE k \in 1 .. l
    <3>1. g[k] = Spelling(paths'[k].value) /\ f[k] = Spelling(paths[k].value)
      BY <2>8, Zenon DEF ValuesOf
    <3> QED
      BY <2>7, <3>1, Zenon
  <2>11. g[l + 1] = Spelling(new.value)
    <3>1. l + 1 \in 1 .. l + 1
      BY <2>7
    <3> QED
      BY <2>7, <2>8, <3>1, Zenon DEF ValuesOf
  <2> HIDE DEF f, g, l
  <2>12. SubSeq(g, 1, Len(f)) = f
    <3>1. Len(g) = Len(f) + 1 /\ \A k \in 1 .. Len(f) : g[k] = f[k]
      BY <2>9, <2>10
    <3> QED
      BY <2>9, <3>1, OneMoreFound, Zenon
  <2>13. g[Len(g)] = SubSeq(Input, r[1] + 1, r[2])
    BY <2>5, <2>6, <2>9, <2>11, Zenon
  <2>14. Len(g) = Len(f) + 1
    BY <2>9
  <2>15. Found = f /\ Found' = g
    BY <1>4, Zenon DEF f, g
  <2> QED
    BY <2>3, <2>12, <2>13, <2>14, <2>15, Zenon
<1> QED
  BY <1>5, <1>6, Zenon

-------------------------------------------------------------------------------
(* Every step is one the abstract specification takes, or none.            *)

(* The new text in the place of a stretch.                                 *)
LEMMA SubstituteKept ==
  ASSUME NEW s \in Promise!Stretch(i), i < Len(Input), i' = s.to,
         Out' = Out \o Promise!NewText(s),
         Promise!HasPath(s) => /\ Len(Found') = Len(Found) + 1
                               /\ SubSeq(Found', 1, Len(Found)) = Found
                               /\ Promise!IsPath(Found'[Len(Found')], s),
         ~ Promise!HasPath(s) => Found' = Found,
         dialect' = dialect, Input' = Input
  PROVE  Promise!Substitute
BY Zenon DEF Promise!Substitute, Input, Out, Found

(* Where the scan stands while it is under way.                            *)
LEMMA ScanAt ==
  ASSUME ScanSound
  PROVE  /\ i \in Nat /\ Len(Merged) \in Nat /\ Len(Input) = Len(Merged) /\ runs \in Seq(TextRun)
         /\ i \in 0 .. Len(Merged)
<1>1. runs \in Seq(TextRun) /\ i \in 0 .. Len(Merged)
  BY DEF ScanSound
<1>2. Len(Input) = Len(Merged) /\ Len(Merged) \in Nat
  BY <1>1, InputLaidOut
<1> QED
  BY <1>1, <1>2

(* A plain character is copied.                                            *)
LEMMA PlainPromised ==
  ASSUME ScanSound, PlainCharacter
  PROVE  Promise!Copy
<1>1. /\ i < Len(Merged) /\ ~ OpensBraced(i) /\ ~ Escaped(i) /\ ~ Legacy(i)
      /\ UNCHANGED <<dialect, runs, paths>>
  BY DEF PlainCharacter, AtText
<1>2. i \in Nat /\ Len(Input) = Len(Merged) /\ runs \in Seq(TextRun)
  BY ScanAt
<1>3. Promise!Stretch(i) = {} /\ ~ Promise!Opening(i)
  BY <1>1, <1>2, PlainNot
<1>4. Out' = Append(Out, Input[i + 1]) /\ i' = i + 1
  BY <1>1, PassedOut
<1>5. Input' = Input /\ Found' = Found /\ dialect' = dialect /\ i < Len(Input)
  BY <1>1, <1>2, InputKept DEF Found
<1> QED
  BY <1>3, <1>4, <1>5, Zenon DEF Promise!Copy, Input, Out, Found

(* An expression that is not closed is given up.                           *)
LEMMA UnterminatedPromised ==
  ASSUME ScanSound, Unterminated
  PROVE  Promise!GiveUp
<1>1. i < Len(Merged) /\ OpensBraced(i) /\ ClosingBraces(i) = {} /\ UNCHANGED <<dialect, paths>>
  BY DEF Unterminated, AtText
<1>2. i \in Nat /\ Len(Input) = Len(Merged) /\ runs \in Seq(TextRun)
  BY ScanAt
<1>3. Promise!Stretch(i) = {} /\ Promise!Opening(i)
  BY <1>1, <1>2, BracedNot, OpeningIs
<1>4. Out' = Out \o SubSeq(Input, i + 1, Len(Input)) /\ i' = Len(Input) /\ Input' = Input
  BY RestOut
<1>5. Found' = Found /\ dialect' = dialect /\ i < Len(Input)
  BY <1>1, <1>2 DEF Found
<1> QED
  BY <1>3, <1>4, <1>5, Zenon DEF Promise!GiveUp, Input, Out, Found

(* What stands in the place of a placeholder.                              *)
LEMMA MarkerPromised ==
  ASSUME NEW c
  PROVE  Spelling(MarkerOf(c)) = IF c = "#" THEN <<"?">> ELSE DynMarker
<1> DEFINE chars == IF c = "#" THEN <<"?">> ELSE DynMarker
<1>1. chars \in Chars
  <2>1. DynMarker \in Chars
    BY DynMarkerAssumption
  <2>2. \A a \in Alphabet : <<a>> \in Chars
    BY DEF Chars
  <2>3. <<"?">> \in Chars
    BY <2>2, DynMarkerAssumption, Zenon
  <2> QED
    BY <2>1, <2>3, Zenon
<1>2. MarkerOf(c) = Marker(chars)
  BY DEF MarkerOf
<1> HIDE DEF chars
<1>3. Spelling(Marker(chars)) = chars
  BY <1>1, MarkerSpelled
<1> QED
  BY <1>2, <1>3, Zenon DEF chars

(* A braced placeholder is a stretch that gives way to its marker.         *)
LEMMA BracedPromised ==
  ASSUME ScanSound, paths \in Seq(Path), paths' \in Seq(Path), BracedPlaceholder
  PROVE  Promise!Substitute
<1> DEFINE j == Min(ClosingBraces(i))
           new == MarkerOf(CharAt(i))
           s == BracedAt(i, j)
<1>1. /\ i < Len(Merged) /\ OpensBraced(i) /\ ClosingBraces(i) # {}
      /\ Replace(new, j + 1) /\ PushPaths(PathIn(i + 2, j, ","))
  BY Zenon DEF BracedPlaceholder, AtText
<1>2. i \in Nat /\ Len(Merged) \in Nat /\ Len(Input) = Len(Merged) /\ runs \in Seq(TextRun)
  BY ScanAt
<1>3. j \in i + 2 .. Len(Merged) - 1 /\ s \in Promise!Stretch(i)
  BY <1>1, <1>2, BracedThere
<1>4. new \in Seq(Char) /\ Len(new) >= 1
  BY <1>1, MarkerOfText
<1>5. Spelling(new) = IF CharAt(i) = "#" THEN <<"?">> ELSE DynMarker
  BY MarkerPromised
<1>6. /\ s.to = j + 1 /\ s.new = CharAt(i) /\ s.inner = SubSeq(Input, i + 3, j)
      /\ s.separator = ","
  BY Zenon DEF BracedAt
<1> HIDE DEF j, new, s
<1>7. j + 1 \in i .. Len(Merged) /\ i + 2 \in Nat /\ j \in Nat /\ i + 2 <= j /\ j <= Len(Merged)
      /\ (i + 2) + 1 = i + 3
  BY <1>2, <1>3
<1>8. Out' = Out \o Spelling(new) /\ i' = j + 1 /\ Input' = Input
  BY <1>1, <1>4, <1>7, ReplacedOut
<1>9. Promise!NewText(s) = Spelling(new)
  <2>1. "," # ":"
    OBVIOUS
  <2>2. ~ Promise!Escape(s)
    BY <1>6, <2>1, Zenon DEF Promise!Escape
  <2> QED
    BY <1>5, <1>6, <2>2, Zenon DEF Promise!NewText
<1>10. /\ Promise!HasPath(s) => /\ Len(Found') = Len(Found) + 1
                                /\ SubSeq(Found', 1, Len(Found)) = Found
                                /\ Promise!IsPath(Found'[Len(Found')], s)
       /\ ~ Promise!HasPath(s) => Found' = Found
  <2>1. s.inner = SubSeq(Input, (i + 2) + 1, j) /\ PushPaths(PathIn(i + 2, j, s.separator))
    BY <1>1, <1>6, <1>7, Zenon
  <2> QED
    BY <1>7, <2>1, FoundPushed, Zenon
<1>11. dialect' = dialect
  BY <1>1 DEF Replace
<1>12. i < Len(Input) /\ i' = s.to /\ Out' = Out \o Promise!NewText(s)
  BY <1>1, <1>2, <1>6, <1>8, <1>9, Zenon
<1> QED
  BY <1>3, <1>8, <1>10, <1>11, <1>12, SubstituteKept, Zenon

(* So is a placeholder of iBatis.                                          *)
LEMMA LegacyPromised ==
  ASSUME ScanSound, paths \in Seq(Path), paths' \in Seq(Path), LegacyPlaceholder
  PROVE  Promise!Substitute
<1> DEFINE j == CHOOSE j \in LegacyClose(i) : TRUE
           new == MarkerOf(CharAt(i))
           s == LegacyAt(i, j)
<1>1. /\ i < Len(Merged) /\ Legacy(i)
      /\ Replace(new, j + 1) /\ PushPaths(PathIn(i + 1, j, ":"))
  BY Zenon DEF LegacyPlaceholder, AtText
<1>2. i \in Nat /\ Len(Merged) \in Nat /\ Len(Input) = Len(Merged) /\ runs \in Seq(TextRun)
  BY ScanAt
<1>3. /\ dialect = "Ibatis" /\ Delimiter(CharAt(i)) /\ ~ OpensBraced(i) /\ ~ Escaped(i)
      /\ LegacyClose(i) # {}
  BY <1>1, Zenon DEF Legacy
<1>4. j \in LegacyClose(i)
  BY <1>3, Zenon
<1>5. new \in Seq(Char) /\ Len(new) >= 1
  BY <1>1, MarkerOfText
<1>6. Spelling(new) = IF CharAt(i) = "#" THEN <<"?">> ELSE DynMarker
  BY MarkerPromised
<1>7. /\ s.to = j + 1 /\ s.new = CharAt(i) /\ s.inner = SubSeq(Input, i + 2, j)
      /\ s.separator = ":"
  BY Zenon DEF LegacyAt
<1> HIDE DEF j, new
<1>8. /\ j \in i + 1 .. Len(Merged) - 1 /\ CharAt(j) = CharAt(i)
      /\ \A k \in i + 1 .. j - 1 : CharAt(k) # CharAt(i) /\ ~ Blank(CharAt(k))
  BY <1>4, Zenon DEF LegacyClose
<1>9. j # i + 1
  BY <1>3, <1>8, Zenon DEF Escaped
<1>10. /\ j + 1 \in i .. Len(Merged) /\ i + 1 \in Nat /\ j \in Nat /\ i + 1 <= j /\ j <= Len(Merged)
       /\ (i + 1) + 1 = i + 2 /\ j > i /\ j < Len(Merged) /\ j - (i + 1) > 0
       /\ i + 1 \in 0 .. Len(Input) /\ j \in i + 1 .. Len(Input)
  BY <1>2, <1>8, <1>9
<1>11. s \in Promise!Stretch(i)
  BY <1>2, <1>3, <1>8, <1>10, LegacyIs, Zenon
<1> HIDE DEF s
<1>12. Out' = Out \o Spelling(new) /\ i' = j + 1 /\ Input' = Input
  BY <1>1, <1>5, <1>10, ReplacedOut
<1>13. Promise!NewText(s) = Spelling(new)
  <2>1. s.inner # << >>
    <3>1. Input \in Seq(Alphabet)
      BY <1>2, InputLaidOut
    <3>2. Len(SubSeq(Input, (i + 1) + 1, j)) = j - (i + 1)
      BY <1>10, <3>1, Stretch, Zenon
    <3>3. Len(SubSeq(Input, i + 2, j)) # 0
      BY <1>10, <3>2
    <3>4. Len(<< >>) = 0
      OBVIOUS
    <3> QED
      BY <1>7, <3>3, <3>4, Zenon
  <2>2. ~ Promise!Escape(s)
    BY <2>1, Zenon DEF Promise!Escape
  <2> QED
    BY <1>6, <1>7, <2>2, Zenon DEF Promise!NewText
<1>14. /\ Promise!HasPath(s) => /\ Len(Found') = Len(Found) + 1
                                /\ SubSeq(Found', 1, Len(Found)) = Found
                                /\ Promise!IsPath(Found'[Len(Found')], s)
       /\ ~ Promise!HasPath(s) => Found' = Found
  <2>1. s.inner = SubSeq(Input, (i + 1) + 1, j) /\ PushPaths(PathIn(i + 1, j, s.separator))
    BY <1>1, <1>7, <1>10, Zenon
  <2> QED
    BY <1>10, <2>1, FoundPushed, Zenon
<1>15. dialect' = dialect
  BY <1>1 DEF Replace
<1>16. i < Len(Input) /\ i' = s.to /\ Out' = Out \o Promise!NewText(s)
  BY <1>1, <1>2, <1>7, <1>12, <1>13, Zenon
<1> QED
  BY <1>11, <1>12, <1>14, <1>15, <1>16, SubstituteKept, Zenon

(* A doubled delimiter is a stretch with nothing in it.                    *)
LEMMA EscapedPromised ==
  ASSUME ScanSound, EscapedDelimiter
  PROVE  Promise!Substitute
<1> DEFINE c == CharAt(i)
           new == Marker(<<c>>)
           s == LegacyAt(i, i + 1)
<1>1. /\ i < Len(Merged) /\ dialect = "Ibatis" /\ Delimiter(c) /\ CharAt(i + 1) = c
      /\ Replace(new, i + 2) /\ UNCHANGED paths
  BY Zenon DEF EscapedDelimiter, Escaped, AtText
<1>2. i \in Nat /\ Len(Merged) \in Nat /\ Len(Input) = Len(Merged) /\ runs \in Seq(TextRun)
  BY ScanAt
<1>3. i + 1 \in Nat /\ (i + 1) + 1 = i + 2 /\ i + 1 > i /\ \A k \in i + 1 .. (i + 1) - 1 : FALSE
  BY <1>2
<1>4. i + 1 < Len(Merged)
  BY <1>1, <1>2, <1>3, OpeningIs, Zenon
<1>5. ~ OpensBraced(i)
  <2>1. c # "{"
    BY <1>1 DEF Delimiter
  <2> QED
    BY <1>1, <2>1, Zenon DEF OpensBraced
<1>6. s \in Promise!Stretch(i)
  BY <1>1, <1>2, <1>3, <1>4, <1>5, LegacyIs, Zenon
<1>7. /\ s.to = (i + 1) + 1 /\ s.new = c /\ s.inner = SubSeq(Input, i + 2, i + 1)
      /\ s.separator = ":"
  BY Zenon DEF LegacyAt
<1>8. c \in Alphabet
  BY <1>1, CharWithin
<1> HIDE DEF c, s
<1>9. <<c>> \in Chars /\ Len(<<c>>) = 1
  BY <1>8 DEF Chars
<1>10. new \in Seq(Char) /\ Len(new) >= 1 /\ Spelling(new) = <<c>>
  <2>1. new \in Seq(Char) /\ Len(new) = 1
    BY <1>1, <1>9, MarkerText
  <2>2. Spelling(new) = <<c>>
    BY <1>9, MarkerSpelled
  <2> QED
    BY <2>1, <2>2
<1> HIDE DEF new
<1>11. i + 2 \in i .. Len(Merged)
  BY <1>2, <1>4
<1>12. Out' = Out \o Spelling(new) /\ i' = i + 2 /\ Input' = Input
  BY <1>1, <1>10, <1>11, ReplacedOut
<1>13. s.inner = << >>
  <2> DEFINE v == SubSeq(Input, (i + 1) + 1, i + 1)
  <2>1. Input \in Seq(Alphabet)
    BY <1>2, InputLaidOut
  <2>2. i + 1 \in 0 .. Len(Input) /\ i + 1 \in i + 1 .. Len(Input) /\ (i + 1) - (i + 1) = 0
    BY <1>2, <1>4
  <2>3. v \in Seq(Alphabet) /\ Len(v) = 0
    BY <2>1, <2>2, Stretch
  <2>4. s.inner = v
    BY <1>3, <1>7, Zenon
  <2> HIDE DEF v
  <2> QED
    BY <2>3, <2>4
<1>14. Promise!NewText(s) = Spelling(new)
  BY <1>7, <1>10, <1>13, Zenon DEF Promise!NewText, Promise!Escape
<1>15. ~ Promise!HasPath(s)
  <2>1. DOMAIN << >> = {}
    OBVIOUS
  <2> QED
    BY <1>13, <2>1, Zenon DEF Promise!HasPath
<1>16. Found' = Found
  BY <1>1 DEF Found
<1>17. dialect' = dialect
  BY <1>1 DEF Replace
<1>18. i < Len(Input) /\ i' = s.to /\ Out' = Out \o Promise!NewText(s)
  BY <1>1, <1>2, <1>3, <1>7, <1>12, <1>14, Zenon
<1> QED
  BY <1>6, <1>12, <1>15, <1>16, <1>17, <1>18, SubstituteKept, Zenon

(* Whatever is between two scans, the text is dealt with and nothing of it *)
(* is left.                                                                *)
LEMMA NothingLeft ==
  ASSUME runs = << >>, i = 0, copyStart = 0, text = << >>
  PROVE  Len(Input) = 0 /\ Out = << >>
<1>1. Merged = << >>
  BY NothingMerged
<1>2. Spelling(<< >>) = << >> /\ Len(<< >>) = 0
  BY DEF Spelling
<1>3. FlushedText(0) = << >>
  BY <1>1 DEF FlushedText, Slice
<1> QED
  BY <1>1, <1>2, <1>3 DEF Input, Out

(* A scan begins with another text.                                        *)
LEMMA BeginRunPromised ==
  ASSUME IInv, IInv', BeginRun
  PROVE  Promise!Begin
<1>1. ~ scanning /\ scanning' /\ i' = 0 /\ copyStart' = 0 /\ text' = << >> /\ UNCHANGED <<dialect, paths>>
  BY DEF BeginRun, BeginScan, AtEvent
<1>2. i = 0 /\ Len(Input) = 0
  BY <1>1, NothingLeft DEF IInv, ScanTyped
<1>3. (runs \in Seq(TextRun))' /\ (text \in Seq(Char))' /\ (i \in 0 .. Len(Merged))'
  BY <1>1 DEF IInv, ScanTyped, ScanSound
<1>4. Spelling(<< >>) = << >>
  BY DEF Spelling
<1>5. Out' = << >>
  BY <1>1, <1>3, <1>4, FlushedNext
<1>6. Found' = Found
  BY <1>1 DEF Found
<1> QED
  BY <1>1, <1>2, <1>5, <1>6, Zenon DEF Promise!Begin, Input, Out, Found

(* It ends with none.                                                      *)
LEMMA EndRunPromised ==
  ASSUME IInv, EndRun
  PROVE  Promise!Begin
<1>1. /\ scanning /\ i = Len(Merged) /\ runs' = << >> /\ i' = 0 /\ copyStart' = 0 /\ text' = << >>
      /\ UNCHANGED <<dialect, paths>>
  BY DEF EndRun, EndScan
<1>2. i = Len(Input)
  BY <1>1, ScanAt DEF IInv, ScanTyped
<1>3. Out' = << >>
  <2>1. (runs = << >> /\ i = 0 /\ copyStart = 0 /\ text = << >> => Len(Input) = 0 /\ Out = << >>)'
    BY NothingLeft, PTL
  <2> QED
    BY <1>1, <2>1
<1>4. Found' = Found
  BY <1>1 DEF Found
<1> QED
  BY <1>1, <1>2, <1>3, <1>4, Zenon DEF Promise!Begin, Input, Out, Found

(* A turn of the loop.                                                     *)
LEMMA ScanPromised ==
  ASSUME IInv, IInv', Scan
  PROVE  Promise!Next
<1>1. ScanStep
  BY DEF Scan
<1>2. scanning
  BY <1>1 DEF ScanStep, BracedPlaceholder, Unterminated, EscapedDelimiter, LegacyPlaceholder,
              PlainCharacter, AtText
<1>3. ScanSound /\ paths \in Seq(Path) /\ paths' \in Seq(Path)
  BY <1>2 DEF IInv, ScanTyped, Reading
<1> QED
  BY <1>1, <1>3, BracedPromised, UnterminatedPromised, EscapedPromised, LegacyPromised,
     PlainPromised, Zenon DEF ScanStep, Promise!Next

(* Everything else leaves the scan alone.                                  *)
LEMMA LeftAlonePromised ==
  ASSUME UNCHANGED <<dialect, scanVars, paths>>
  PROVE  UNCHANGED Promise!vars
<1>1. UNCHANGED <<dialect, runs, i, copyStart, text, paths>>
  BY DEF scanVars
<1>2. Merged' = Merged /\ Input' = Input
  BY <1>1, InputKept
<1>3. Out' = Out
  BY <1>1, <1>2 DEF Out, FlushedText, Slice
<1>4. Found' = Found
  BY <1>1 DEF Found
<1> QED
  BY <1>1, <1>2, <1>3, <1>4, Zenon DEF Promise!vars, Input, Out, Found

(* Every step is one of the abstract specification, or leaves all it knows *)
(* as it is.                                                               *)
LEMMA StepPromised ==
  ASSUME IInv, IInv', [Next]_vars
  PROVE  [Promise!Next]_(Promise!vars)
<1>1. CASE Scan
  BY <1>1, ScanPromised
<1>2. CASE BeginRun
  BY <1>2, BeginRunPromised DEF Promise!Next
<1>3. CASE EndRun
  BY <1>3, EndRunPromised DEF Promise!Next
<1>4. CASE Comment \/ Include \/ Open \/ Close \/ Finish \/ UNCHANGED vars
  <2>1. UNCHANGED <<dialect, scanVars, paths>>
    BY <1>4, Zenon DEF Comment, Include, Open, Close, Finish, vars
  <2> QED
    BY <2>1, LeftAlonePromised
<1> QED
  BY <1>1, <1>2, <1>3, <1>4, Zenon DEF Next

(* Scanning run by run, copying late and in stretches, implements the      *)
(* normalisation of each text as a whole: whatever the characters, the     *)
(* dynamic marker, the bodies and the runs they are cut into, the scan     *)
(* replaces exactly the stretches of PlaceholderSpec, by the markers it    *)
(* names, and finds exactly its paths.                                     *)
THEOREM ScanKeepsPromise == Spec => PromiseKept
<1>1. IInv /\ IInv' /\ [Next]_vars => [Promise!Next]_(Promise!vars)
  BY StepPromised
<1> QED
  BY <1>1, PromiseInitially, Invariance, PTL DEF Spec, PromiseKept, Promise!Spec
===============================================================================
