------------------------------ MODULE CommonLemmas ------------------------------
(***************************************************************************)
(* Facts about naturals and sequences that several proofs need.            *)
(***************************************************************************)
EXTENDS Integers, Sequences, Selection, SequenceTheorems, WellFoundedInduction, TLAPS

-----------------------------------------------------------------------------
(* Naturals.                                                               *)

SmallerFirst == {p \in Nat \X Nat : p[1] < p[2]}

(* Less-than on the naturals has no endless descent.                       *)
LEMMA NoEndlessDescent == IsWellFoundedOn(SmallerFirst, Nat)
BY NatLessThanWellFounded, Zenon DEF OpToRel, SmallerFirst

(* A set of naturals that holds anything has a least member.               *)
LEMMA NatLeast ==
  ASSUME NEW S, S \subseteq Nat, S # {}
  PROVE  \E m \in S : \A j \in S : m <= j
<1>1. PICK m \in S : \A j \in S : <<j, m>> \notin SmallerFirst
  BY NoEndlessDescent, WFMin, Zenon
<1>2. \A j \in S : m <= j
  <2> TAKE j \in S
  <2>1. j \in Nat /\ m \in Nat
    OBVIOUS
  <2>2. CASE j < m
    <3>1. <<j, m>> \in SmallerFirst
      BY <2>1, <2>2 DEF SmallerFirst
    <3> QED
      BY <3>1, <1>1
  <2> QED
    BY <2>1, <2>2
<1> QED
  BY <1>2

(* A range falls into two at any number.                                   *)
LEMMA Halves ==
  ASSUME NEW from \in Int, NEW middle \in Int, NEW to \in Int
  PROVE  \A k \in from .. to - 1 : k \in from .. middle - 1 \/ k \in middle .. to - 1
OBVIOUS

-----------------------------------------------------------------------------
(* Sequences: the first n elements, all but the last, and the relation of  *)
(* being the end of another one.                                           *)

(* The first n elements of a sequence.                                     *)
LEMMA FirstOnes ==
  ASSUME NEW S, NEW s \in Seq(S), NEW n \in Nat, n <= Len(s)
  PROVE  /\ SubSeq(s, 1, n) \in Seq(S) /\ Len(SubSeq(s, 1, n)) = n
         /\ \A i \in 1 .. n : SubSeq(s, 1, n)[i] = s[i]
<1>1. \A i \in 1 .. n : s[i] \in S
  OBVIOUS
<1>2. PICK len : len = Len(SubSeq(s, 1, n))
  OBVIOUS
<1>3. len = IF 1 <= n THEN n - 1 + 1 ELSE 0
  BY <1>1, <1>2, SubSeqProperties
<1>4. len = n
  BY <1>3
<1> QED
  BY <1>2, <1>4

(* All but the last element of a sequence.                                 *)
LEMMA AllButLast ==
  ASSUME NEW S, NEW s \in Seq(S), s # << >>
  PROVE  /\ Len(SubSeq(s, 1, Len(s) - 1)) = Len(s) - 1
         /\ \A i \in 1 .. Len(s) - 1 : SubSeq(s, 1, Len(s) - 1)[i] = s[i]
<1>1. Len(s) - 1 \in Nat /\ Len(s) - 1 <= Len(s)
  OBVIOUS
<1> QED
  BY <1>1, FirstOnes, Zenon

(* s is how t ends.                                                        *)
Suffix(s, t) ==
  /\ Len(s) <= Len(t)
  /\ \A k \in 1 .. Len(s) : s[k] = t[Len(t) - Len(s) + k]

(* What is appended to both keeps the one the end of the other.            *)
LEMMA SuffixAppended ==
  ASSUME NEW S, NEW s \in Seq(S), NEW t \in Seq(S), NEW x \in S, Suffix(s, t)
  PROVE  Suffix(Append(s, x), Append(t, x))
<1> DEFINE u == Append(s, x)
           v == Append(t, x)
<1>1. Len(s) \in Nat /\ Len(t) \in Nat /\ Len(s) <= Len(t)
  BY DEF Suffix
<1>2. /\ Len(u) = Len(s) + 1 /\ u[Len(s) + 1] = x /\ \A k \in 1 .. Len(s) : u[k] = s[k]
      /\ Len(v) = Len(t) + 1 /\ v[Len(t) + 1] = x /\ \A k \in 1 .. Len(t) : v[k] = t[k]
  OBVIOUS
<1>3. ASSUME NEW k \in 1 .. Len(s)
      PROVE  s[k] = t[Len(t) - Len(s) + k] /\ Len(t) - Len(s) + k \in 1 .. Len(t)
  BY <1>1 DEF Suffix
<1> HIDE DEF u, v
<1>4. ASSUME NEW k \in 1 .. Len(u) PROVE u[k] = v[Len(v) - Len(u) + k]
  <2>1. Len(v) - Len(u) + k = Len(t) - Len(s) + k
    BY <1>1, <1>2
  <2>2. CASE k \in 1 .. Len(s)
    BY <2>1, <2>2, <1>2, <1>3
  <2>3. CASE k = Len(s) + 1
    <3>1. Len(t) - Len(s) + k = Len(t) + 1
      BY <1>1, <2>3
    <3> QED
      BY <2>1, <2>3, <3>1, <1>2
  <2> QED
    BY <2>2, <2>3, <1>1, <1>2
<1>5. Suffix(u, v)
  BY <1>1, <1>2, <1>4 DEF Suffix
<1> QED
  BY <1>5 DEF u, v

(* A sequence and its end have the same last element, and losing it keeps  *)
(* the one the end of the other.                                           *)
LEMMA SuffixCut ==
  ASSUME NEW S, NEW s \in Seq(S), NEW t \in Seq(S), Suffix(s, t), s # << >>
  PROVE  /\ t # << >> /\ s[Len(s)] = t[Len(t)]
         /\ Suffix(SubSeq(s, 1, Len(s) - 1), SubSeq(t, 1, Len(t) - 1))
<1> DEFINE u == SubSeq(s, 1, Len(s) - 1)
           v == SubSeq(t, 1, Len(t) - 1)
<1>1. Len(s) \in Nat /\ Len(t) \in Nat /\ Len(s) > 0 /\ Len(s) <= Len(t)
  BY DEF Suffix
<1>2. t # << >>
  BY <1>1
<1>3. s[Len(s)] = t[Len(t)]
  <2>1. Len(s) \in 1 .. Len(s) /\ Len(t) - Len(s) + Len(s) = Len(t)
    BY <1>1
  <2> QED
    BY <2>1 DEF Suffix
<1>4. /\ Len(u) = Len(s) - 1 /\ \A k \in 1 .. Len(s) - 1 : u[k] = s[k]
      /\ Len(v) = Len(t) - 1 /\ \A k \in 1 .. Len(t) - 1 : v[k] = t[k]
  BY <1>2, AllButLast
<1>5. ASSUME NEW k \in 1 .. Len(s) - 1
      PROVE  s[k] = t[Len(t) - Len(s) + k] /\ Len(t) - Len(s) + k \in 1 .. Len(t) - 1
             /\ Len(t) - 1 - (Len(s) - 1) + k = Len(t) - Len(s) + k
  BY <1>1 DEF Suffix
<1> HIDE DEF u, v
<1>6. Len(u) <= Len(v)
  BY <1>1, <1>4
<1>7. ASSUME NEW k \in 1 .. Len(u) PROVE u[k] = v[Len(v) - Len(u) + k]
  BY <1>4, <1>5
<1> QED
  BY <1>2, <1>3, <1>6, <1>7 DEF u, v, Suffix

(* Appending one.                                                          *)
LEMMA OneMore ==
  ASSUME NEW S, NEW s \in Seq(S), NEW x \in S
  PROVE  /\ Append(s, x) \in Seq(S) /\ Len(Append(s, x)) = Len(s) + 1
         /\ \A i \in 1 .. Len(s) : Append(s, x)[i] = s[i]
         /\ Append(s, x)[Len(s) + 1] = x
OBVIOUS

(* One sequence behind another.                                            *)
LEMMA Joined ==
  ASSUME NEW S, NEW a \in Seq(S), NEW b \in Seq(S)
  PROVE  /\ a \o b \in Seq(S) /\ Len(a \o b) = Len(a) + Len(b)
         /\ \A k \in 1 .. Len(a) : (a \o b)[k] = a[k]
         /\ \A k \in 1 .. Len(b) : (a \o b)[Len(a) + k] = b[k]
         /\ \A k \in 1 .. Len(a \o b) :
              \/ k \in 1 .. Len(a) /\ (a \o b)[k] = a[k]
              \/ k - Len(a) \in 1 .. Len(b) /\ (a \o b)[k] = b[k - Len(a)]
OBVIOUS

(* The rest of a text.                                                     *)
LEMMA TheRest ==
  ASSUME NEW S, NEW t \in Seq(S), NEW n \in 0 .. Len(t)
  PROVE  SubSeq(t, n + 1, Len(t)) \in Seq(S) /\ Len(SubSeq(t, n + 1, Len(t))) = Len(t) - n
<1>1. Len(t) \in Nat /\ \A j \in n + 1 .. Len(t) : t[j] \in S
  OBVIOUS
<1>2. n + 1 \in Int /\ Len(t) \in Int
  BY <1>1
<1>3. SubSeq(t, n + 1, Len(t)) \in Seq(S)
      /\ Len(SubSeq(t, n + 1, Len(t))) = IF n + 1 <= Len(t) THEN Len(t) - (n + 1) + 1 ELSE 0
  BY <1>1, <1>2, SubSeqProperties
<1> QED
  BY <1>1, <1>3

(* A stretch of a text.                                                    *)
LEMMA Stretch ==
  ASSUME NEW S, NEW t \in Seq(S), NEW a \in 0 .. Len(t), NEW c \in a .. Len(t)
  PROVE  SubSeq(t, a + 1, c) \in Seq(S) /\ Len(SubSeq(t, a + 1, c)) = c - a
<1>1. Len(t) \in Nat /\ \A j \in a + 1 .. c : t[j] \in S
  OBVIOUS
<1>2. a + 1 \in Int /\ c \in Int
  BY <1>1
<1>3. SubSeq(t, a + 1, c) \in Seq(S)
      /\ Len(SubSeq(t, a + 1, c)) = IF a + 1 <= c THEN c - (a + 1) + 1 ELSE 0
  BY <1>1, <1>2, SubSeqProperties
<1> QED
  BY <1>1, <1>3

-------------------------------------------------------------------------------
(* What is made step by step.                                              *)

(* What holds at 0, and of every k if of k - 1, holds up to n.             *)
LEMMA StepByStep ==
  ASSUME NEW n \in Nat, NEW P, 0 \in P, \A k \in 1 .. n : k - 1 \in P => k \in P
  PROVE  \A k \in 0 .. n : k \in P
<1> DEFINE Bad == {k \in 0 .. n : k \notin P}
<1> SUFFICES ASSUME Bad # {} PROVE FALSE
  OBVIOUS
<1>0. Bad \subseteq Nat
  OBVIOUS
<1> HIDE DEF Bad
<1>1. PICK m \in Bad : \A k \in Bad : m <= k
  BY <1>0, NatLeast
<1> USE DEF Bad
<1>2. m \in 1 .. n
  BY <1>1
<1>3. m - 1 \in 0 .. n /\ m - 1 \notin Bad
  BY <1>1, <1>2
<1>4. m - 1 \in P
  BY <1>3
<1> QED
  BY <1>1, <1>2, <1>4

(* f holds what becomes of base by the first steps, up to the n-th.        *)
Becomes(f, base, step, n) ==
  f = [k \in 0 .. n |-> IF k = 0 THEN base ELSE step[k][f[k - 1]]]

(* Whatever is made step by step exists, and is of the type the steps keep.*)
LEMMA StepsExist ==
  ASSUME NEW n \in Nat, NEW S, NEW base \in S, NEW step,
         \A k \in 1 .. n, x \in S : step[k][x] \in S
  PROVE  \E f \in [0 .. n -> S] : Becomes(f, base, step, n)
<1> DEFINE P == {m \in 0 .. n : \E f \in [0 .. m -> S] : Becomes(f, base, step, m)}
<1>1. 0 \in P
  <2> DEFINE f == [k \in 0 .. 0 |-> base]
  <2>1. f \in [0 .. 0 -> S] /\ f = [k \in 0 .. 0 |-> IF k = 0 THEN base ELSE step[k][f[k - 1]]]
    OBVIOUS
  <2> HIDE DEF f
  <2> QED
    BY <2>1 DEF Becomes
<1>2. ASSUME NEW m \in 1 .. n, m - 1 \in P PROVE m \in P
  <2>1. PICK g \in [0 .. m - 1 -> S] : Becomes(g, base, step, m - 1)
    BY <1>2
  <2> DEFINE f == [k \in 0 .. m |-> IF k = m THEN step[m][g[m - 1]] ELSE g[k]]
  <2>2. g[m - 1] \in S /\ step[m][g[m - 1]] \in S
    OBVIOUS
  <2>3. \A k \in 0 .. m - 1 : g[k] = IF k = 0 THEN base ELSE step[k][g[k - 1]]
    BY <2>1 DEF Becomes
  <2>4. f \in [0 .. m -> S]
    BY <2>2
  <2>5. \A k \in 0 .. m : f[k] = IF k = 0 THEN base ELSE step[k][f[k - 1]]
    BY <2>3
  <2> HIDE DEF f
  <2>6. Becomes(f, base, step, m)
    BY <2>4, <2>5 DEF Becomes
  <2>7. m \in 0 .. n
    OBVIOUS
  <2> QED
    BY <2>4, <2>6, <2>7
<1> HIDE DEF P
<1>3. n \in 0 .. n /\ \A k \in 0 .. n : k \in P
  BY <1>1, <1>2, StepByStep
<1> QED
  BY <1>3 DEF P

-------------------------------------------------------------------------------
(* Selection, and sequences end to end.                                    *)

(* r is the elements of s at the positions of K up to n, in their order:   *)
(* where[p] is where the p-th of them stood.                               *)
Picks(r, where, s, K, n) ==
  /\ where \in [1 .. Len(r) -> K \cap (1 .. n)]
  /\ \A p, j \in 1 .. Len(r) : p < j => where[p] < where[j]
  /\ \A k \in K \cap (1 .. n) : \E p \in 1 .. Len(r) : where[p] = k
  /\ \A p \in 1 .. Len(r) : r[p] = s[where[p]]

(* One more position.                                                      *)
LEMMA PicksOneMore ==
  ASSUME NEW S, NEW s \in Seq(S), NEW K, NEW n \in 1 .. Len(s), NEW r \in Seq(S), NEW w,
         Picks(r, w, s, K, n - 1)
  PROVE  \E v : Picks(IF n \in K THEN Append(r, s[n]) ELSE r, v, s, K, n)
<1>1. CASE n \notin K
  <2>1. K \cap (1 .. n - 1) = K \cap (1 .. n)
    BY <1>1
  <2>2. Picks(r, w, s, K, n)
    BY <2>1 DEF Picks
  <2> QED
    BY <1>1, <2>2
<1>2. CASE n \in K
  <2> DEFINE t == Append(r, s[n])
             v == [p \in 1 .. Len(r) + 1 |-> IF p = Len(r) + 1 THEN n ELSE w[p]]
  <2>1. /\ t \in Seq(S) /\ Len(t) = Len(r) + 1
        /\ \A p \in 1 .. Len(r) : t[p] = r[p]
        /\ t[Len(r) + 1] = s[n]
    OBVIOUS
  <2>2. \A p \in 1 .. Len(r) : w[p] \in K /\ w[p] \in 1 .. n - 1
    BY DEF Picks
  <2>3. Len(r) \in Nat
    OBVIOUS
  <2>4. \A p \in 1 .. Len(r) : v[p] = w[p]
    BY <2>3
  <2>5. v[Len(r) + 1] = n
    BY <2>3
  <2>6. DOMAIN v = 1 .. Len(r) + 1 /\ v = [p \in 1 .. Len(r) + 1 |-> v[p]]
    OBVIOUS
  <2> HIDE DEF t, v
  <2>7. v \in [1 .. Len(t) -> K \cap (1 .. n)]
    <3>1. \A p \in 1 .. Len(r) + 1 : v[p] \in K /\ v[p] \in 1 .. n
      <4> SUFFICES ASSUME NEW p \in 1 .. Len(r) + 1 PROVE v[p] \in K /\ v[p] \in 1 .. n
        OBVIOUS
      <4>1. CASE p = Len(r) + 1
        BY <1>2, <2>5, <4>1
      <4>2. CASE p \in 1 .. Len(r)
        BY <2>2, <2>4, <4>2
      <4>3. p = Len(r) + 1 \/ p \in 1 .. Len(r)
        BY <2>3
      <4> QED
        BY <4>1, <4>2, <4>3
    <3> QED
      BY <2>1, <2>6, <3>1
  <2>8. \A p, j \in 1 .. Len(t) : p < j => v[p] < v[j]
    <3> SUFFICES ASSUME NEW p \in 1 .. Len(t), NEW j \in 1 .. Len(t), p < j PROVE v[p] < v[j]
      OBVIOUS
    <3>1. p \in 1 .. Len(r) /\ v[p] = w[p]
      BY <2>1, <2>3, <2>4
    <3>2. CASE j = Len(r) + 1
      BY <2>2, <2>5, <3>1, <3>2
    <3>3. CASE j \in 1 .. Len(r)
      BY <2>4, <3>1, <3>3 DEF Picks
    <3>4. j = Len(r) + 1 \/ j \in 1 .. Len(r)
      BY <2>1, <2>3
    <3> QED
      BY <3>2, <3>3, <3>4
  <2>9. \A k \in K \cap (1 .. n) : \E p \in 1 .. Len(t) : v[p] = k
    <3> SUFFICES ASSUME NEW k \in K \cap (1 .. n) PROVE \E p \in 1 .. Len(t) : v[p] = k
      OBVIOUS
    <3>1. CASE k = n
      BY <2>1, <2>3, <2>5, <3>1
    <3>2. CASE k # n
      <4>1. k \in K \cap (1 .. n - 1)
        BY <3>2
      <4>2. PICK p \in 1 .. Len(r) : w[p] = k
        BY <4>1 DEF Picks
      <4> QED
        BY <2>1, <2>3, <2>4, <4>2, SMTT(30)
    <3> QED
      BY <3>1, <3>2
  <2>10. \A p \in 1 .. Len(t) : t[p] = s[v[p]]
    <3> SUFFICES ASSUME NEW p \in 1 .. Len(t) PROVE t[p] = s[v[p]]
      OBVIOUS
    <3>1. CASE p = Len(r) + 1
      BY <2>1, <2>5, <3>1
    <3>2. CASE p \in 1 .. Len(r)
      BY <2>1, <2>4, <3>2 DEF Picks
    <3> QED
      BY <2>1, <2>3, <3>1, <3>2
  <2>11. Picks(t, v, s, K, n)
    BY <2>7, <2>8, <2>9, <2>10 DEF Picks
  <2> QED
    BY <1>2, <2>11 DEF t
<1> QED
  BY <1>1, <1>2

(* What Only returns.                                                      *)
LEMMA OnlyPicks ==
  ASSUME NEW S, NEW s \in Seq(S), NEW K
  PROVE  Only(s, K) \in Seq(S) /\ \E w : Picks(Only(s, K), w, s, K, Len(s))
<1> DEFINE step == [k \in 1 .. Len(s) |->
                      [x \in Seq(S) |-> IF k \in K THEN Append(x, s[k]) ELSE x]]
           UpTo(f) == f = [k \in 0 .. Len(s) |->
                             IF k = 0 THEN << >>
                             ELSE IF k \in K THEN Append(f[k - 1], s[k]) ELSE f[k - 1]]
           f == CHOOSE g : UpTo(g)
<1>1. \E g \in [0 .. Len(s) -> Seq(S)] : Becomes(g, << >>, step, Len(s))
  <2>1. Len(s) \in Nat /\ << >> \in Seq(S)
    OBVIOUS
  <2>2. \A k \in 1 .. Len(s), x \in Seq(S) : step[k][x] \in Seq(S)
    <3> SUFFICES ASSUME NEW k \in 1 .. Len(s), NEW x \in Seq(S) PROVE step[k][x] \in Seq(S)
      OBVIOUS
    <3>1. s[k] \in S /\ step[k][x] = IF k \in K THEN Append(x, s[k]) ELSE x
      OBVIOUS
    <3> QED
      BY <3>1
  <2> HIDE DEF step
  <2> QED
    BY <2>1, <2>2, StepsExist
<1>2. PICK h \in [0 .. Len(s) -> Seq(S)] : Becomes(h, << >>, step, Len(s))
  BY <1>1
<1>3. UpTo(h)
  <2>1. \A k \in 0 .. Len(s) : h[k] = IF k = 0 THEN << >> ELSE step[k][h[k - 1]]
    BY <1>2 DEF Becomes
  <2>2. \A k \in 1 .. Len(s) : h[k - 1] \in Seq(S)
    OBVIOUS
  <2>3. \A k \in 1 .. Len(s) :
          step[k][h[k - 1]] = IF k \in K THEN Append(h[k - 1], s[k]) ELSE h[k - 1]
    BY <2>2
  <2> HIDE DEF step
  <2>4. \A k \in 0 .. Len(s) : k # 0 => k \in 1 .. Len(s)
    OBVIOUS
  <2>5. \A k \in 0 .. Len(s) :
          h[k] = IF k = 0 THEN << >>
                 ELSE IF k \in K THEN Append(h[k - 1], s[k]) ELSE h[k - 1]
    BY <2>1, <2>3, <2>4
  <2> QED
    BY <2>5
<1>4. UpTo(f)
  BY <1>3, Zenon
<1>5. Only(s, K) = f[Len(s)]
  BY DEF Only
<1>6. /\ Len(s) \in Nat /\ f[0] = << >>
      /\ \A k \in 1 .. Len(s) : f[k] = IF k \in K THEN Append(f[k - 1], s[k]) ELSE f[k - 1]
  <2> HIDE DEF f
  <2>1. Len(s) \in Nat /\ 0 \in 0 .. Len(s)
    OBVIOUS
  <2>2. \A k \in 1 .. Len(s) : k \in 0 .. Len(s) /\ k # 0
    OBVIOUS
  <2>3. \A k \in 0 .. Len(s) :
          f[k] = IF k = 0 THEN << >>
                 ELSE IF k \in K THEN Append(f[k - 1], s[k]) ELSE f[k - 1]
    BY <1>4
  <2> QED
    BY <2>1, <2>2, <2>3
<1> HIDE DEF f
<1> DEFINE P == {k \in 0 .. Len(s) : f[k] \in Seq(S) /\ \E w : Picks(f[k], w, s, K, k)}
<1>7. 0 \in P
  <2> DEFINE w == [p \in 1 .. 0 |-> p]
  <2>1. Picks(<< >>, w, s, K, 0)
    BY DEF Picks
  <2>2. << >> \in Seq(S) /\ 0 \in 0 .. Len(s)
    BY <1>6
  <2> HIDE DEF w
  <2> QED
    BY <1>6, <2>1, <2>2, Zenon
<1>8. ASSUME NEW k \in 1 .. Len(s), k - 1 \in P PROVE k \in P
  <2>1. s[k] \in S /\ f[k - 1] \in Seq(S) /\ k \in 0 .. Len(s)
    BY <1>8
  <2>2. f[k] \in Seq(S)
    <3>1. Append(f[k - 1], s[k]) \in Seq(S)
      BY <2>1
    <3> QED
      BY <1>6, <2>1, <3>1
  <2>3. \E v : Picks(f[k], v, s, K, k)
    <3>1. PICK w : Picks(f[k - 1], w, s, K, k - 1)
      BY <1>8, Zenon
    <3>2. f[k] = IF k \in K THEN Append(f[k - 1], s[k]) ELSE f[k - 1]
      BY <1>6, <2>1
    <3> HIDE DEF P
    <3>3. \E v : Picks(IF k \in K THEN Append(f[k - 1], s[k]) ELSE f[k - 1], v, s, K, k)
      BY <2>1, <3>1, PicksOneMore, Zenon
    <3> QED
      BY <3>2, <3>3, Zenon
  <2> QED
    BY <2>1, <2>2, <2>3
<1> HIDE DEF P
<1>9. \A k \in 0 .. Len(s) : k \in P
  <2>1. \A k \in 1 .. Len(s) : k - 1 \in P => k \in P
    BY <1>8
  <2>2. Len(s) \in Nat
    BY <1>6
  <2> QED
    BY <1>7, <2>1, <2>2, StepByStep, Zenon
<1>10. Len(s) \in 0 .. Len(s)
  BY <1>6
<1> QED
  BY <1>5, <1>9, <1>10 DEF P

(* Sequences laid end to end.                                              *)
LEMMA JoinsGrow ==
  ASSUME NEW S, NEW ss \in Seq(Seq(S))
  PROVE  /\ Joins(ss) \in [0 .. Len(ss) -> Seq(S)] /\ Joins(ss)[0] = << >>
         /\ \A k \in 1 .. Len(ss) : Joins(ss)[k] = Joins(ss)[k - 1] \o ss[k]
         /\ \A k \in 0 .. Len(ss) : \A j \in 0 .. k : Len(Joins(ss)[j]) <= Len(Joins(ss)[k])
<1> DEFINE n == Len(ss)
           step == [k \in 1 .. n |-> [x \in Seq(S) |-> x \o ss[k]]]
           UpTo(f) == f = [k \in 0 .. n |-> IF k = 0 THEN << >> ELSE f[k - 1] \o ss[k]]
           f == CHOOSE g : UpTo(g)
<1>0. n \in Nat /\ (\A k \in 1 .. n : ss[k] \in Seq(S)) /\ << >> \in Seq(S)
  OBVIOUS
<1> HIDE DEF n
<1>1. \A k \in 1 .. n, x \in Seq(S) : step[k][x] = x \o ss[k] /\ step[k][x] \in Seq(S)
  BY <1>0
<1> HIDE DEF step
<1>2. PICK h \in [0 .. n -> Seq(S)] : Becomes(h, << >>, step, n)
  BY <1>0, <1>1, StepsExist
<1>3. \A k \in 0 .. n : k # 0 => k \in 1 .. n /\ h[k - 1] \in Seq(S)
  BY <1>0
<1>4. \A k \in 0 .. n : h[k] = IF k = 0 THEN << >> ELSE step[k][h[k - 1]]
  BY <1>2 DEF Becomes
<1>5. \A k \in 0 .. n : h[k] = IF k = 0 THEN << >> ELSE h[k - 1] \o ss[k]
  BY <1>1, <1>3, <1>4
<1>6. UpTo(h)
  BY <1>5
<1>7. UpTo(f)
  BY <1>6, Zenon
<1>8. Joins(ss) = f
  BY DEF Joins, n
<1> HIDE DEF f
<1>9. \A k \in 0 .. n : f[k] = IF k = 0 THEN << >> ELSE f[k - 1] \o ss[k]
  BY <1>7
<1>10. f[0] = << >> /\ \A k \in 1 .. n : f[k] = f[k - 1] \o ss[k]
  <2>1. 0 \in 0 .. n /\ \A k \in 1 .. n : k \in 0 .. n /\ k # 0
    BY <1>0
  <2> QED
    BY <1>9, <2>1
<1> DEFINE P == {k \in 0 .. n : /\ f[k] \in Seq(S)
                                /\ \A j \in 0 .. k : Len(f[j]) <= Len(f[k])}
<1>11. 0 \in P
  <2>1. Len(<< >>) = 0 /\ (\A j \in 0 .. 0 : j = 0) /\ 0 \in 0 .. n
    BY <1>0
  <2>2. \A j \in 0 .. 0 : Len(f[j]) <= Len(f[0])
    BY <1>10, <2>1
  <2> QED
    BY <1>0, <1>10, <2>1, <2>2
<1>12. ASSUME NEW k \in 1 .. n, k - 1 \in P PROVE k \in P
  <2> DEFINE q == f[k - 1]
             r == f[k]
             s == ss[k]
  <2>1. /\ q \in Seq(S) /\ r = q \o s /\ s \in Seq(S) /\ k \in 0 .. n
        /\ k - 1 \in 0 .. n /\ k \in Nat /\ n \in Nat
        /\ \A j \in 0 .. k - 1 : Len(f[j]) <= Len(q)
    <3>1. k - 1 \in P /\ k \in 0 .. n /\ k \in 1 .. n /\ k \in Nat
      BY <1>0, <1>12
    <3>2. q \in Seq(S) /\ k - 1 \in 0 .. n /\ \A j \in 0 .. k - 1 : Len(f[j]) <= Len(q)
      BY <3>1
    <3> QED
      BY <1>0, <1>10, <3>1, <3>2
  <2> HIDE DEF q, s
  <2>2. r \in Seq(S) /\ Len(r) = Len(q) + Len(s) /\ Len(q) \in Nat /\ Len(s) \in Nat
    BY <2>1
  <2> HIDE DEF r
  <2>3. \A j \in 0 .. k : Len(f[j]) <= Len(r)
    <3> TAKE j \in 0 .. k
    <3>1. CASE j = k
      <4>1. f[j] = r
        BY <3>1 DEF r
      <4> QED
        BY <2>2, <4>1
    <3>2. CASE j # k
      <4>1. j \in 0 .. k - 1 /\ j \in 0 .. n
        BY <2>1, <3>2
      <4>2. Len(f[j]) <= Len(q)
        BY <2>1, <4>1
      <4> QED
        BY <1>0, <2>1, <2>2, <4>1, <4>2
    <3> QED
      BY <3>1, <3>2
  <2> QED
    BY <2>1, <2>2, <2>3 DEF r
<1> HIDE DEF P
<1>13. \A k \in 0 .. n : k \in P
  <2>1. \A k \in 1 .. n : k - 1 \in P => k \in P
    BY <1>12
  <2> QED
    BY <1>0, <1>11, <2>1, StepByStep, Zenon
<1>14. DOMAIN f = 0 .. n /\ f = [k \in 0 .. n |-> f[k]]
  BY <1>7
<1>15. f \in [0 .. n -> Seq(S)]
  BY <1>13, <1>14 DEF P
<1> QED
  BY <1>8, <1>10, <1>13, <1>15 DEF n, P

(* What sequences end to end begin with they keep.                         *)
LEMMA JoinsKeep ==
  ASSUME NEW S, NEW ss \in Seq(Seq(S)), NEW j \in 0 .. Len(ss)
  PROVE  \A k \in 0 .. Len(ss) : j <= k =>
           \A m \in 1 .. Len(Joins(ss)[j]) : Joins(ss)[k][m] = Joins(ss)[j][m]
<1> DEFINE f == Joins(ss)
           n == Len(ss)
           Keeps(k) == j <= k => \A m \in 1 .. Len(f[j]) : f[k][m] = f[j][m]
           P == {k \in 0 .. n : Keeps(k)}
<1>1. /\ n \in Nat /\ \A k \in 0 .. n : f[k] \in Seq(S)
      /\ \A k \in 1 .. n : f[k] = f[k - 1] \o ss[k] /\ ss[k] \in Seq(S)
      /\ \A k \in 0 .. n : \A l \in 0 .. k : Len(f[l]) <= Len(f[k])
      /\ f \in [0 .. n -> Seq(S)]
  <2>1. /\ f \in [0 .. n -> Seq(S)]
        /\ \A k \in 1 .. n : f[k] = f[k - 1] \o ss[k]
        /\ \A k \in 0 .. n : \A l \in 0 .. k : Len(f[l]) <= Len(f[k])
    BY JoinsGrow, Zenon
  <2>2. n \in Nat /\ \A k \in 1 .. n : ss[k] \in Seq(S)
    OBVIOUS
  <2> HIDE DEF f, n
  <2> QED
    BY <2>1, <2>2
<1> HIDE DEF f, n
<1>2. 0 \in P
  <2>1. j <= 0 => j = 0
    BY <1>1 DEF n
  <2> QED
    BY <1>1, <2>1
<1>3. ASSUME NEW k \in 1 .. n, k - 1 \in P PROVE k \in P
  <2>1. CASE j = k
    BY <1>1, <2>1
  <2>2. CASE j # k /\ j <= k
    <3>1. j <= k - 1 /\ k - 1 \in 0 .. n /\ j \in 0 .. k - 1
      BY <1>1, <2>2 DEF n
    <3>2. \A m \in 1 .. Len(f[j]) : f[k - 1][m] = f[j][m]
      BY <1>3, <3>1
    <3>3. Len(f[j]) <= Len(f[k - 1]) /\ Len(f[j]) \in Nat /\ Len(f[k - 1]) \in Nat
      <4>1. j \in 0 .. n
        BY DEF n
      <4> QED
        BY <1>1, <3>1, <4>1
    <3>4. \A m \in 1 .. Len(f[k - 1]) : f[k][m] = f[k - 1][m]
      <4> DEFINE a == f[k - 1]
                 b == ss[k]
      <4>1. a \in Seq(S) /\ b \in Seq(S) /\ f[k] = a \o b
        BY <1>1, <3>1
      <4> HIDE DEF a, b
      <4> QED
        BY <4>1, Joined DEF a
    <3>5. \A m \in 1 .. Len(f[j]) : m \in 1 .. Len(f[k - 1])
      BY <3>3
    <3> QED
      BY <1>1, <3>2, <3>4, <3>5
  <2>3. CASE ~ j <= k
    BY <1>1, <2>3
  <2> QED
    BY <1>1, <2>1, <2>2, <2>3
<1> HIDE DEF P
<1>4. \A k \in 0 .. n : k \in P
  <2>1. \A k \in 1 .. n : k - 1 \in P => k \in P
    BY <1>3
  <2> QED
    BY <1>1, <1>2, <2>1, StepByStep, Zenon
<1> QED
  BY <1>4 DEF P, f, n

(* Each of them stands in the whole, where what is before it ends.         *)
LEMMA JoinsHold ==
  ASSUME NEW S, NEW ss \in Seq(Seq(S)), NEW k \in 1 .. Len(ss)
  PROVE  /\ Len(Joins(ss)[k - 1]) \in Nat /\ Len(ss[k]) \in Nat /\ ss[k] \in Seq(S)
         /\ Len(Joins(ss)[k]) = Len(Joins(ss)[k - 1]) + Len(ss[k])
         /\ Len(Joins(ss)[k]) <= Len(Joins(ss)[Len(ss)])
         /\ \A m \in 1 .. Len(ss[k]) :
              Joins(ss)[Len(ss)][Len(Joins(ss)[k - 1]) + m] = ss[k][m]
<1> DEFINE f == Joins(ss)
           n == Len(ss)
           a == f[k - 1]
           b == ss[k]
           c == f[k]
           d == f[n]
<1>0. n \in Nat /\ k \in 0 .. n /\ k - 1 \in 0 .. n /\ n \in 0 .. n /\ k \in 0 .. n /\ k <= n
  OBVIOUS
<1>1. /\ a \in Seq(S) /\ b \in Seq(S) /\ c = a \o b /\ Len(c) <= Len(d)
  <2>1. /\ f \in [0 .. n -> Seq(S)]
        /\ \A l \in 1 .. n : f[l] = f[l - 1] \o ss[l]
        /\ \A l \in 0 .. n : \A j \in 0 .. l : Len(f[j]) <= Len(f[l])
    BY JoinsGrow, Zenon
  <2>2. ss[k] \in Seq(S) /\ k \in 1 .. n
    OBVIOUS
  <2> HIDE DEF f, n
  <2> QED
    BY <1>0, <2>1, <2>2
<1>2. \A m \in 1 .. Len(c) : d[m] = c[m]
  BY <1>0, JoinsKeep
<1> HIDE DEF a, b, c, d
<1>3. Len(a) \in Nat /\ Len(b) \in Nat /\ Len(c) = Len(a) + Len(b)
      /\ \A m \in 1 .. Len(b) : c[Len(a) + m] = b[m]
  BY <1>1, Joined
<1>4. \A m \in 1 .. Len(b) : d[Len(a) + m] = b[m]
  <2> TAKE m \in 1 .. Len(b)
  <2>1. Len(a) + m \in 1 .. Len(c)
    BY <1>3
  <2> QED
    BY <1>2, <1>3, <2>1
<1> QED
  BY <1>1, <1>3, <1>4 DEF a, b, c, d
================================================================================
