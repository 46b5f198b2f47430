---------------------------- MODULE FlattenProofs ----------------------------
(***************************************************************************)
(* That FlattenBody keeps its books, for every body and every limit; that  *)
(* the flag of unknown elements is scoped, and that the side channels are  *)
(* in document order.                                                      *)
(*                                                                         *)
(* None of the five invariants is inductive alone: the depth stays within  *)
(* the limit because it counts the levels of the worklist; the worklist is *)
(* bounded because the depth is; an answer finds a frame that waits for a  *)
(* tag, whose alternatives are within the cap, because the frames wait for *)
(* each other in a chain.  Inv is their conjunction, and it is inductive.  *)
(*                                                                         *)
(* The flag and the side channels are as they should be because of what is *)
(* still on the worklist.  The flag is put back from what a waiting frame  *)
(* remembers, so every frame has to remember what the frames below it make *)
(* of the flag.  What is recorded next is recorded wherever the walk goes  *)
(* on, so what has been recorded has to come before everything that any    *)
(* frame, waiting or not, still has ahead of it.                           *)
(***************************************************************************)
EXTENDS FlattenBody, FiniteSetTheorems, SequenceTheorems, TLAPS

-------------------------------------------------------------------------------
(* What the operators FlattenBody is built from return, and how many        *)
(* alternatives, for every body and every limit.                           *)

(* A set of natural numbers that is not empty has a least element, and one *)
(* of numbers up to n a greatest.                                          *)
LEMMA LeastExists ==
  ASSUME NEW S \in SUBSET Nat, S # {}
  PROVE  /\ Earliest(S) \in S
         /\ \A j \in S : Earliest(S) <= j
<1> DEFINE Down == {0 .. i : i \in S}
           R == StrictSubsetOrdering(Nat)
<1>1. Down \subseteq FiniteSubsetsOf(Nat)
  <2> SUFFICES ASSUME NEW i \in S PROVE 0 .. i \in FiniteSubsetsOf(Nat)
    OBVIOUS
  <2>1. IsFiniteSet(0 .. i)
    BY FS_Interval
  <2> QED
    BY <2>1 DEF FiniteSubsetsOf
<1>2. PICK D \in Down : \A E \in Down : ~ (<<E, D>> \in R)
  <2>1. Down # {}
    OBVIOUS
  <2> HIDE DEF Down, R
  <2>2. IsWellFoundedOn(R, FiniteSubsetsOf(Nat))
    BY FS_StrictSubsetOrderingWellFounded DEF R
  <2> QED
    BY <1>1, <2>1, <2>2, WFMin
<1>3. PICK i \in S : D = 0 .. i
  OBVIOUS
<1>4. \A j \in S : i <= j
  <2> SUFFICES ASSUME NEW j \in S, j < i PROVE FALSE
    OBVIOUS
  <2>1. 0 .. j \subseteq D /\ 0 .. j # D
    BY <1>3
  <2>2. <<0 .. j, D>> \in R
    BY <1>3, <2>1 DEF StrictSubsetOrdering
  <2> QED
    BY <1>2, <2>2
<1> QED
  BY <1>4 DEF Earliest

LEMMA GreatestExists ==
  ASSUME NEW n \in Nat, NEW S \in SUBSET (0 .. n), S # {}
  PROVE  Latest(S) \in S
<1> DEFINE Mirror == {n - i : i \in S}
<1>1. Mirror \in SUBSET Nat /\ Mirror # {}
  <2>1. \A i \in S : i \in 0 .. n /\ n - i \in Nat
    OBVIOUS
  <2> QED
    BY <2>1
<1>2. PICK m \in Mirror : \A j \in Mirror : m <= j
  <2> HIDE DEF Mirror
  <2> QED
    BY <1>1, LeastExists
<1>3. PICK i \in S : m = n - i
  BY <1>2
<1>4. \A j \in S : j <= i
  BY <1>2, <1>3
<1> QED
  BY <1>4 DEF Latest

-------------------------------------------------------------------------------
(* The text run that starts at segment i stays within the body.            *)
LEMMA RunEndType ==
  ASSUME NEW t \in Tree, NEW h \in Holder, NEW i \in 1 .. Len(t.kids[h])
  PROVE  /\ RunEnd(t, h, i) \in i .. Len(t.kids[h]) + 1
         /\ TextRun(t, h, i) \in Seq(Node)
<1> DEFINE kids == t.kids[h]
           stops == {j \in i .. Len(kids) : ~ IsText(t, kids[j])}
<1>1. kids \in Seq(Node)
  BY DEF Tree
<1>2. RunEnd(t, h, i) \in i .. Len(kids) + 1
  <2>1. CASE stops = {}
    BY <1>1, <2>1 DEF RunEnd
  <2>2. CASE stops # {}
    <3>1. stops \in SUBSET Nat
      BY <1>1
    <3>2. Earliest(stops) \in stops
      <4> HIDE DEF stops
      <4> QED
        BY <2>2, <3>1, LeastExists
    <3> QED
      BY <1>1, <2>2, <3>2 DEF RunEnd
  <2> QED
    BY <2>1, <2>2
<1>3. TextRun(t, h, i) \in Seq(Node)
  <2> DEFINE last == RunEnd(t, h, i) - 1
  <2>1. last \in Int /\ i \in Int /\ last <= Len(kids)
    BY <1>1, <1>2
  <2>2. \A j \in i .. last : kids[j] \in Node
    BY <1>1, <2>1
  <2> HIDE DEF last, kids
  <2>3. SubSeq(kids, i, last) \in Seq(Node)
    BY <2>1, <2>2, SubSeqProperties
  <2> QED
    BY <2>3 DEF TextRun, last, kids
<1> QED
  BY <1>2, <1>3

LEMMA BoundaryIncludesType ==
  ASSUME NEW t \in Tree, NEW h \in Holder
  PROVE  BoundaryIncludes(t, h) \in Seq(Node)
<1> DEFINE kids == t.kids[h]
           content == {i \in DOMAIN kids : t.kind[kids[i]] # "blank"}
           ifInclude(i) == IF t.kind[kids[i]] \in IncludeKind THEN <<kids[i]>> ELSE << >>
<1>1. kids \in Seq(Node)
  BY DEF Tree
<1>2. \A i \in content : ifInclude(i) \in Seq(Node)
  <2>1. \A i \in content : kids[i] \in Node
    BY <1>1
  <2>2. \A n \in Node : <<n>> \in Seq(Node)
    OBVIOUS
  <2>3. << >> \in Seq(Node)
    OBVIOUS
  <2> QED
    BY <2>1, <2>2, <2>3, Zenon
<1>3. CASE content = {}
  <2>1. BoundaryIncludes(t, h) = << >>
    BY <1>3, Zenon DEF BoundaryIncludes
  <2> QED
    BY <2>1
<1>4. CASE content # {}
  <2>1. content \in SUBSET (0 .. Len(kids)) /\ content \in SUBSET Nat
    BY <1>1
  <2>2. Len(kids) \in Nat
    BY <1>1
  <2>3. Earliest(content) \in content /\ Latest(content) \in content
    <3> HIDE DEF content
    <3> QED
      BY <1>4, <2>1, <2>2, LeastExists, GreatestExists
  <2>4. /\ ifInclude(Earliest(content)) \in Seq(Node)
        /\ ifInclude(Latest(content)) \in Seq(Node)
    BY <1>2, <2>3
  <2>5. BoundaryIncludes(t, h) =
          ifInclude(Earliest(content)) \o
          (IF Earliest(content) = Latest(content) THEN << >>
           ELSE ifInclude(Latest(content)))
    BY <1>4 DEF BoundaryIncludes
  <2> HIDE DEF content, ifInclude
  <2> QED
    BY <2>4, <2>5
<1> QED
  BY <1>3, <1>4
-------------------------------------------------------------------------------
(* Alternatives.                                                           *)

LEMMA EmptyAltType == EmptyAlt \in Alt
BY DEF EmptyAlt, Alt

(* Appending a piece to every alternative keeps them, and their number.    *)
LEMMA AppendToEachType ==
  ASSUME NEW alts \in Seq(Alt), NEW p \in Piece
  PROVE  /\ AppendToEach(alts, p) \in Seq(Alt)
         /\ Len(AppendToEach(alts, p)) = Len(alts)
<1> DEFINE out(i) == [alts[i] EXCEPT !.pieces = Append(@, p)]
<1>1. \A i \in 1 .. Len(alts) : out(i) \in Alt
  <2> SUFFICES ASSUME NEW i \in 1 .. Len(alts) PROVE out(i) \in Alt
    OBVIOUS
  <2>1. alts[i] \in Alt
    OBVIOUS
  <2>2. Append(alts[i].pieces, p) \in Seq(Piece)
    BY <2>1 DEF Alt
  <2> QED
    BY <2>1, <2>2 DEF Alt
<1>2. AppendToEach(alts, p) = [i \in 1 .. Len(alts) |-> out(i)]
  BY DEF AppendToEach
<1> HIDE DEF out
<1> QED
  BY <1>1, <1>2

(* A guard adds one alternative, the empty one, at the front.              *)
LEMMA GuardedType ==
  ASSUME NEW n \in Node, NEW lead \in Seq(Piece), NEW alts \in Seq(Alt)
  PROVE  /\ Guarded(n, lead, alts) \in Seq(Alt)
         /\ Len(Guarded(n, lead, alts)) = Len(alts) + 1
<1> DEFINE out(i) == [pieces |-> lead \o alts[i].pieces,
                      conds |-> <<n>> \o alts[i].conds]
           rest == [i \in 1 .. Len(alts) |-> out(i)]
<1>1. \A i \in 1 .. Len(alts) : out(i) \in Alt
  <2> SUFFICES ASSUME NEW i \in 1 .. Len(alts) PROVE out(i) \in Alt
    OBVIOUS
  <2>1. alts[i] \in Alt
    OBVIOUS
  <2>2. alts[i].pieces \in Seq(Piece) /\ alts[i].conds \in Seq(Node)
    BY <2>1 DEF Alt
  <2>3. lead \o alts[i].pieces \in Seq(Piece)
    BY <2>2
  <2>4. <<n>> \o alts[i].conds \in Seq(Node)
    BY <2>2
  <2> QED
    BY <2>3, <2>4 DEF Alt
<1>2. Guarded(n, lead, alts) = <<EmptyAlt>> \o rest
  <2>1. DOMAIN alts = 1 .. Len(alts)
    OBVIOUS
  <2> QED
    BY <2>1, Zenon DEF Guarded
<1>3. rest \in Seq(Alt) /\ Len(rest) = Len(alts)
  <2> HIDE DEF out
  <2> QED
    BY <1>1
<1>4. <<EmptyAlt>> \in Seq(Alt) /\ Len(<<EmptyAlt>>) = 1
  BY EmptyAltType
<1> HIDE DEF rest
<1> QED
  BY <1>2, <1>3, <1>4, ConcatProperties

(* Wrapper text around the pieces of an alternative, and what a <dynamic>  *)
(* takes out of them, are pieces again.                                    *)
LEMMA WrappedType ==
  ASSUME NEW n \in Node, NEW pieces \in Seq(Piece)
  PROVE  Wrapped(n, pieces) \in Seq(Piece)
<1> DEFINE out(i) == IF pieces[i].what = "prepend"
                     THEN [pieces[i] EXCEPT !.what = "wrapper"] ELSE pieces[i]
           inner == [i \in 1 .. Len(pieces) |-> out(i)]
           lead == <<[what |-> "wrapper", of |-> <<n>>]>>
<1>1. \A i \in 1 .. Len(pieces) : out(i) \in Piece
  <2> SUFFICES ASSUME NEW i \in 1 .. Len(pieces) PROVE out(i) \in Piece
    OBVIOUS
  <2>1. pieces[i] \in Piece
    OBVIOUS
  <2>2. [pieces[i] EXCEPT !.what = "wrapper"] \in Piece
    BY <2>1 DEF Piece
  <2> QED
    BY <2>1, <2>2
<1>2. inner \in Seq(Piece)
  <2> HIDE DEF out
  <2> QED
    BY <1>1
<1>3. lead \in Seq(Piece)
  BY DEF Piece
<1>4. Wrapped(n, pieces) = lead \o inner
  BY DEF Wrapped
<1> HIDE DEF inner, lead
<1> QED
  BY <1>2, <1>3, <1>4

LEMMA WithoutFirstPrependType ==
  ASSUME NEW pieces \in Seq(Piece)
  PROVE  WithoutFirstPrepend(pieces) \in Seq(Piece)
<1> DEFINE found == {i \in DOMAIN pieces : pieces[i].what = "prepend"}
           first == CHOOSE i \in found : \A j \in found : i <= j
<1>1. CASE found = {}
  BY <1>1 DEF WithoutFirstPrepend
<1>2. CASE found # {}
  <2>1. found \in SUBSET Nat
    OBVIOUS
  <2>2. first \in found
    <3> HIDE DEF found
    <3> QED
      BY <1>2, <2>1, LeastExists DEF Earliest
  <2>3. first \in 1 .. Len(pieces)
    BY <2>2
  <2>4. WithoutFirstPrepend(pieces) =
          SubSeq(pieces, 1, first - 1) \o SubSeq(pieces, first + 1, Len(pieces))
    BY <1>2 DEF WithoutFirstPrepend
  <2> HIDE DEF first, found
  <2>5. SubSeq(pieces, 1, first - 1) \in Seq(Piece)
    BY <2>3
  <2>6. SubSeq(pieces, first + 1, Len(pieces)) \in Seq(Piece)
    BY <2>3
  <2> QED
    BY <2>4, <2>5, <2>6
<1> QED
  BY <1>1, <1>2

LEMMA WrapperTextType ==
  ASSUME NEW n \in Node, NEW pieces \in Seq(Piece)
  PROVE  WrapperText(n, pieces) \in Seq(Piece)
<1>1. \A q \in Seq(Piece) : WrappedUnlessBlank(n, q) \in Seq(Piece)
  BY WrappedType DEF WrappedUnlessBlank
<1> QED
  BY <1>1, WrappedType, WithoutFirstPrependType DEF WrapperText

(* A tag never loses an alternative of its body, and adds one at most.     *)
LEMMA FinishPendingType ==
  ASSUME NEW n \in Node, NEW alts \in Seq(Alt)
  PROVE  /\ FinishPending(n, alts) \in Seq(Alt)
         /\ Len(FinishPending(n, alts)) \in Len(alts) .. Len(alts) + 1
<1> DEFINE out(i) == [alts[i] EXCEPT !.pieces = WrapperText(n, @)]
           plain == [i \in 1 .. Len(alts) |-> out(i)]
<1>1. plain \in Seq(Alt) /\ Len(plain) = Len(alts)
  <2>1. \A i \in 1 .. Len(alts) : out(i) \in Alt
    <3> SUFFICES ASSUME NEW i \in 1 .. Len(alts) PROVE out(i) \in Alt
      OBVIOUS
    <3>1. alts[i] \in Alt
      OBVIOUS
    <3>2. WrapperText(n, alts[i].pieces) \in Seq(Piece)
      BY <3>1, WrapperTextType DEF Alt
    <3> QED
      BY <3>1, <3>2 DEF Alt
  <2> HIDE DEF out
  <2> QED
    BY <2>1
<1>2. /\ Guarded(n, << >>, alts) \in Seq(Alt)
      /\ Len(Guarded(n, << >>, alts)) = Len(alts) + 1
  <2>1. << >> \in Seq(Piece)
    OBVIOUS
  <2> QED
    BY <2>1, GuardedType
<1>3. /\ Guarded(n, <<[what |-> "prepend", of |-> <<n>>]>>, alts) \in Seq(Alt)
      /\ Len(Guarded(n, <<[what |-> "prepend", of |-> <<n>>]>>, alts)) = Len(alts) + 1
  <2>1. <<[what |-> "prepend", of |-> <<n>>]>> \in Seq(Piece)
    BY DEF Piece
  <2> HIDE DEF out
  <2> QED
    BY <2>1, GuardedType
<1>4. \/ FinishPending(n, alts) = plain
      \/ FinishPending(n, alts) = Guarded(n, << >>, alts)
      \/ FinishPending(n, alts) = Guarded(n, <<[what |-> "prepend", of |-> <<n>>]>>, alts)
  <2>1. DOMAIN alts = 1 .. Len(alts)
    OBVIOUS
  <2> QED
    BY <2>1, Zenon DEF FinishPending
<1>5. Len(alts) \in Nat
  OBVIOUS
<1> HIDE DEF plain
<1>6. CASE FinishPending(n, alts) = plain
  BY <1>1, <1>5, <1>6
<1>7. CASE FinishPending(n, alts) = Guarded(n, << >>, alts)
  BY <1>2, <1>5, <1>7
<1>8. CASE FinishPending(n, alts) = Guarded(n, <<[what |-> "prepend", of |-> <<n>>]>>, alts)
  <2>1. Len(FinishPending(n, alts)) = Len(alts) + 1 /\ FinishPending(n, alts) \in Seq(Alt)
    BY <1>3, <1>8, Zenon
  <2> QED
    BY <1>5, <2>1
<1> QED
  BY <1>4, <1>6, <1>7, <1>8

(* Every position of a product of n and m factors is a pair of positions.  *)
LEMMA ProductPositions ==
  ASSUME NEW n \in Nat, NEW m \in Nat, NEW k \in 1 .. n * m
  PROVE  /\ ((k - 1) \div m) + 1 \in 1 .. n
         /\ ((k - 1) % m) + 1 \in 1 .. m
<1>1. m # 0 /\ n # 0
  BY SMT
<1>2. k - 1 \in Nat /\ k - 1 < n * m
  <2>1. n * m \in Nat
    BY SMT
  <2> QED
    BY <2>1, SMT
<1> DEFINE q == (k - 1) \div m
           r == (k - 1) % m
<1>3. q \in Nat /\ r \in 0 .. m - 1 /\ k - 1 = m * q + r
  BY <1>1, <1>2, SMT
<1>4. q < n
  <2> HIDE DEF q, r
  <2> SUFFICES ASSUME q >= n PROVE FALSE
    BY <1>3, SMT
  <2>1. m * q >= m * n
    BY <1>3, SMT
  <2> QED
    BY <1>2, <1>3, <2>1, SMT
<1> QED
  BY <1>3, <1>4, SMT

(* A product has as many alternatives as its factors multiplied.           *)
LEMMA CombinedType ==
  ASSUME NEW acc \in Seq(Alt), NEW local \in Seq(Alt)
  PROVE  /\ Combined(acc, local) \in Seq(Alt)
         /\ Len(Combined(acc, local)) = Len(acc) * Len(local)
<1> DEFINE left(k) == acc[((k - 1) \div Len(local)) + 1]
           right(k) == local[((k - 1) % Len(local)) + 1]
           out(k) == Joined(left(k), right(k))
           total == Len(acc) * Len(local)
<1>1. total \in Nat
  <2>1. Len(acc) \in Nat /\ Len(local) \in Nat
    OBVIOUS
  <2> QED
    BY <2>1, SMT
<1>2. \A k \in 1 .. total : out(k) \in Alt
  <2> SUFFICES ASSUME NEW k \in 1 .. total PROVE out(k) \in Alt
    OBVIOUS
  <2>1. /\ ((k - 1) \div Len(local)) + 1 \in 1 .. Len(acc)
        /\ ((k - 1) % Len(local)) + 1 \in 1 .. Len(local)
    BY ProductPositions
  <2>2. left(k) \in Alt /\ right(k) \in Alt
    BY <2>1
  <2> HIDE DEF left, right
  <2>3. /\ left(k).pieces \o right(k).pieces \in Seq(Piece)
        /\ left(k).conds \o right(k).conds \in Seq(Node)
    BY <2>2 DEF Alt
  <2> QED
    BY <2>3 DEF Alt, Joined
<1>3. Combined(acc, local) = [k \in 1 .. total |-> out(k)]
  BY DEF Combined
<1> HIDE DEF out, total
<1>4. Combined(acc, local) \in Seq(Alt) /\ Len(Combined(acc, local)) = total
  BY <1>1, <1>2, <1>3
<1> QED
  BY <1>4 DEF total

-------------------------------------------------------------------------------
(* The worklist.  S is either kind of frame.                               *)

(* Taking the top frame off leaves the others.                             *)
LEMMA BelowProperties ==
  ASSUME NEW S, stack \in Seq(S), stack # << >>
  PROVE  /\ Below \in Seq(S)
         /\ Len(Below) = Len(stack) - 1
         /\ \A i \in 1 .. Len(stack) - 1 : Below[i] = stack[i]
         /\ Len(stack) \in Nat \ {0}
<1> DEFINE n == Len(stack) - 1
           rest == SubSeq(stack, 1, n)
<1>1. Len(stack) \in Nat \ {0} /\ n \in Nat
  BY EmptySeq
<1>2. \A i \in 1 .. n : stack[i] \in S
  BY <1>1
<1> HIDE DEF n
<1>3. /\ rest \in Seq(S)
      /\ Len(rest) = IF 1 <= n THEN n - 1 + 1 ELSE 0
      /\ \A i \in 1 .. n - 1 + 1 : rest[i] = stack[1 + i - 1]
  BY <1>1, <1>2, SubSeqProperties
<1>4. Below = rest
  BY DEF Below, n
<1> HIDE DEF rest
<1>5. Len(rest) = n /\ \A i \in 1 .. n : rest[i] = stack[i]
  BY <1>1, <1>3
<1> QED
  BY <1>1, <1>3, <1>4, <1>5 DEF n

(* Rewriting the top frame leaves the others, and their number.            *)
LEMMA WithTopProperties ==
  ASSUME NEW S, stack \in Seq(S), stack # << >>, NEW f \in S
  PROVE  /\ WithTop(f) \in Seq(S)
         /\ Len(WithTop(f)) = Len(stack)
         /\ \A i \in 1 .. Len(stack) - 1 : WithTop(f)[i] = stack[i]
         /\ WithTop(f)[Len(stack)] = f
         /\ Len(stack) \in Nat \ {0}
<1>1. /\ Below \in Seq(S)
      /\ Len(Below) = Len(stack) - 1
      /\ \A i \in 1 .. Len(stack) - 1 : Below[i] = stack[i]
      /\ Len(stack) \in Nat \ {0}
  BY BelowProperties
<1> QED
  BY <1>1, AppendProperties DEF WithTop

(* f in the top's place, and g on it.                                      *)
PushOf(S, pushed, f, g) ==
  /\ pushed \in Seq(S)
  /\ Len(pushed) = Len(stack) + 1
  /\ \A i \in 1 .. Len(stack) - 1 : pushed[i] = stack[i]
  /\ pushed[Len(stack)] = f
  /\ pushed[Len(stack) + 1] = g
  /\ Len(stack) \in Nat \ {0}

LEMMA PushProperties ==
  ASSUME NEW S, stack \in Seq(S), stack # << >>, NEW f \in S, NEW g \in S,
         NEW pushed, pushed = Append(WithTop(f), g)
  PROVE  PushOf(S, pushed, f, g)
<1>1. /\ WithTop(f) \in Seq(S)
      /\ Len(WithTop(f)) = Len(stack)
      /\ \A i \in 1 .. Len(stack) - 1 : WithTop(f)[i] = stack[i]
      /\ WithTop(f)[Len(stack)] = f
      /\ Len(stack) \in Nat \ {0}
  BY WithTopProperties
<1>2. /\ pushed \in Seq(S) /\ Len(pushed) = Len(stack) + 1
      /\ \A i \in 1 .. Len(stack) : pushed[i] = WithTop(f)[i]
      /\ pushed[Len(stack) + 1] = g
  BY <1>1
<1>3. Len(stack) \in 1 .. Len(stack) /\ \A i \in 1 .. Len(stack) - 1 : i \in 1 .. Len(stack)
  BY <1>1
<1> QED
  BY <1>1, <1>2, <1>3, Zenon DEF PushOf

(* The number of levels on the worklist is finite, and moves with the top. *)
LEMMA LevelsFinite ==
  ASSUME NEW S, NEW s \in Seq(S)
  PROVE  /\ IsFiniteSet(Levels(s))
         /\ Cardinality(Levels(s)) \in Nat
<1>1. IsFiniteSet(1 .. Len(s)) /\ Levels(s) \in SUBSET (1 .. Len(s))
  BY FS_Interval DEF Levels
<1> QED
  BY <1>1, FS_Subset, FS_CardinalityType

LEMMA LevelsOfWithTop ==
  ASSUME NEW S, stack \in Seq(S), stack # << >>, NEW f \in S, f.type = Top.type
  PROVE  Levels(WithTop(f)) = Levels(stack)
<1>1. /\ WithTop(f) \in Seq(S)
      /\ Len(WithTop(f)) = Len(stack)
      /\ \A i \in 1 .. Len(stack) - 1 : WithTop(f)[i] = stack[i]
      /\ WithTop(f)[Len(stack)] = f
      /\ Len(stack) \in Nat \ {0}
  BY WithTopProperties
<1>2. DOMAIN WithTop(f) = 1 .. Len(stack) /\ DOMAIN stack = 1 .. Len(stack)
  BY <1>1
<1>3. \A i \in 1 .. Len(stack) : WithTop(f)[i].type = stack[i].type
  BY <1>1 DEF Top
<1> QED
  BY <1>2, <1>3, Zenon DEF Levels

LEMMA LevelsOfPushed ==
  ASSUME NEW S, stack \in Seq(S), stack # << >>, NEW f \in S, f.type = Top.type,
         NEW g \in S
  PROVE  Cardinality(Levels(Append(WithTop(f), g))) =
           Cardinality(Levels(stack)) + (IF g.type \in {"Body", "Union"} THEN 1 ELSE 0)
<1> DEFINE pushed == Append(WithTop(f), g)
           level == {"Body", "Union"}
<1>1. /\ pushed \in Seq(S) /\ Len(pushed) = Len(stack) + 1
      /\ \A i \in 1 .. Len(stack) - 1 : pushed[i] = stack[i]
      /\ pushed[Len(stack)] = f /\ pushed[Len(stack) + 1] = g
      /\ Len(stack) \in Nat \ {0}
  <2>1. pushed = Append(WithTop(f), g)
    OBVIOUS
  <2> HIDE DEF pushed
  <2>2. PushOf(S, pushed, f, g)
    BY <2>1, PushProperties, Zenon
  <2> QED
    BY <2>2 DEF PushOf
<1>2. /\ DOMAIN pushed = 1 .. Len(stack) + 1 /\ DOMAIN stack = 1 .. Len(stack)
      /\ \A i \in 1 .. Len(stack) : pushed[i].type = stack[i].type
  BY <1>1 DEF Top
<1>3. \A i : i \in 1 .. Len(stack) + 1 <=> i \in 1 .. Len(stack) \/ i = Len(stack) + 1
  BY <1>1
<1> HIDE DEF pushed, level
<1>4. Levels(pushed) =
        IF g.type \in level THEN Levels(stack) \cup {Len(stack) + 1} ELSE Levels(stack)
  BY <1>1, <1>2, <1>3, Zenon DEF Levels, level
<1>5. Levels(Append(WithTop(f), g)) =
        IF g.type \in {"Body", "Union"} THEN Levels(stack) \cup {Len(stack) + 1}
        ELSE Levels(stack)
  BY <1>4, Zenon DEF pushed, level
<1>6. Len(stack) + 1 \notin Levels(stack)
  BY DEF Levels
<1>7. IsFiniteSet(Levels(stack)) /\ Cardinality(Levels(stack)) \in Nat
  BY LevelsFinite
<1>8. Cardinality(Levels(stack) \cup {Len(stack) + 1}) = Cardinality(Levels(stack)) + 1
  BY <1>6, <1>7, FS_AddElement
<1> QED
  BY <1>5, <1>7, <1>8

LEMMA LevelsOfBelow ==
  ASSUME NEW S, stack \in Seq(S), stack # << >>
  PROVE  Cardinality(Levels(Below)) =
           Cardinality(Levels(stack)) - (IF Top.type \in {"Body", "Union"} THEN 1 ELSE 0)
<1>1. Levels(Below) = Levels(stack) \ {Len(stack)}
  BY BelowProperties DEF Levels
<1>2. Len(stack) \in Levels(stack) <=> Top.type \in {"Body", "Union"}
  BY BelowProperties DEF Levels, Top
<1>3. IsFiniteSet(Levels(stack)) /\ Cardinality(Levels(stack)) \in Nat
  BY LevelsFinite
<1>4. Cardinality(Levels(stack) \ {Len(stack)}) =
        IF Len(stack) \in Levels(stack) THEN Cardinality(Levels(stack)) - 1
        ELSE Cardinality(Levels(stack))
  BY <1>3, FS_RemoveElement
<1> QED
  BY <1>1, <1>2, <1>3, <1>4

(* Where no two chooses lie on each other, at least every other frame is a *)
(* level: the map from a choose to the frame below it is injective.        *)
LEMMA WorklistLength ==
  ASSUME NEW S, NEW s \in Seq(S),
         s # << >> => 1 \in Levels(s),
         \A i \in 1 .. Len(s) - 1 : i \in Levels(s) \/ i + 1 \in Levels(s)
  PROVE  Len(s) <= 2 * Cardinality(Levels(s))
<1> DEFINE levels == Levels(s)
           others == (1 .. Len(s)) \ levels
           down == [i \in others |-> i - 1]
<1>1. IsFiniteSet(levels) /\ Cardinality(levels) \in Nat
  BY LevelsFinite
<1>2. Len(s) \in Nat /\ levels \subseteq 1 .. Len(s)
  BY DEF Levels
<1>3. down \in Injection(others, levels)
  <2>1. \A i \in others : i - 1 \in levels
    <3> SUFFICES ASSUME NEW i \in others PROVE i - 1 \in levels
      OBVIOUS
    <3>1. i \in 1 .. Len(s) /\ i \notin levels /\ s # << >>
      BY <1>2
    <3>2. i # 1
      BY <3>1
    <3>3. i - 1 \in 1 .. Len(s) - 1 /\ (i - 1) + 1 = i
      BY <1>2, <3>1, <3>2
    <3> QED
      BY <3>1, <3>3
  <2>2. down \in [others -> levels]
    BY <2>1
  <2>3. \A a, b \in others : down[a] = down[b] => a = b
    BY <1>2
  <2> QED
    BY <2>2, <2>3, Zenon DEF Injection, IsInjective
<1>4. IsFiniteSet(others) /\ Cardinality(others) <= Cardinality(levels)
  <2> HIDE DEF down, others, levels
  <2> QED
    BY <1>1, <1>3, FS_Injection
<1>5. IsFiniteSet(1 .. Len(s)) /\ Cardinality(1 .. Len(s)) = Len(s)
  <2>1. /\ IsFiniteSet(1 .. Len(s))
        /\ Cardinality(1 .. Len(s)) =
             IF 1 > Len(s) THEN 0 ELSE Len(s) - 1 + 1
    <3>1. 1 \in Int /\ Len(s) \in Int
      BY <1>2
    <3> QED
      BY <3>1, FS_Interval
  <2> QED
    BY <1>2, <2>1
<1>6. Cardinality(others) = Len(s) - Cardinality((1 .. Len(s)) \cap levels)
  <2> HIDE DEF levels
  <2> QED
    BY <1>5, FS_Difference
<1>7. (1 .. Len(s)) \cap levels = levels
  BY <1>2
<1>8. Len(s) - Cardinality(levels) <= Cardinality(levels)
  BY <1>4, <1>6, <1>7, Zenon
<1> QED
  BY <1>1, <1>2, <1>8

-------------------------------------------------------------------------------
(* A Ctx with another depth, and with more in its side channels, is one.   *)
LEMMA CtxWithDepth ==
  ASSUME NEW c \in Ctx, NEW d \in Int
  PROVE  /\ [c EXCEPT !.depth = d] \in Ctx
         /\ [c EXCEPT !.depth = d].depth = d
BY DEF Ctx

LEMMA ProductPositive ==
  ASSUME NEW a \in Nat, NEW b \in Nat, a >= 1, b >= 1
  PROVE  a * b >= 1
<1>1. a * b >= a * 1
  BY SMT
<1> QED
  BY <1>1, SMT

-------------------------------------------------------------------------------
(* The books.                                                              *)

Inv ==
  /\ TypeOK
  /\ DepthCountsLevels
  /\ WaitingFrames
  /\ WorklistBounded
  /\ AlternativesWithinCap

(* What a step has to establish of the worklist for its length to be       *)
(* bounded: the rest follows from the depth.                               *)
LEMMA LengthFollows ==
  ASSUME NEW S, NEW s \in Seq(S), NEW depth,
         s # << >> => 1 \in Levels(s),
         \A i \in 1 .. Len(s) - 1 : i \in Levels(s) \/ i + 1 \in Levels(s),
         depth = Cardinality(Levels(s)), depth <= DepthLimit
  PROVE  Len(s) <= 2 * DepthLimit
<1>1. Len(s) <= 2 * Cardinality(Levels(s))
  BY WorklistLength
<1>2. Cardinality(Levels(s)) \in Nat /\ Len(s) \in Nat
  BY LevelsFinite
<1> QED
  BY <1>1, <1>2, LimitsAssumption

(* An empty worklist has no levels.                                        *)
LEMMA EmptyWorklist == Levels(<< >>) = {} /\ Cardinality(Levels(<< >>)) = 0
<1>1. Levels(<< >>) = {}
  BY DEF Levels
<1> QED
  BY <1>1, FS_EmptySet

(* In the cartesian pass there is a running frame, and it is typed.        *)
LEMMA TopTyped ==
  ASSUME Inv, phase = "cartesian"
  PROVE  /\ stack \in Seq(Frame) /\ stack # << >> /\ Len(stack) \in Nat \ {0}
         /\ Top \in Frame /\ FrameWithinCap(Top)
         /\ tree \in Tree /\ ctx \in Ctx /\ incoming \in Seq(Alt)
         /\ branchCount \in Nat
<1>1. stack \in Seq(Frame) /\ stack # << >>
  BY DEF Inv, TypeOK, WaitingFrames
<1>2. Len(stack) \in Nat \ {0} /\ Len(stack) \in DOMAIN stack
  BY <1>1, EmptySeq
<1> QED
  BY <1>1, <1>2 DEF Inv, TypeOK, AlternativesWithinCap, Top

-------------------------------------------------------------------------------
(* What `run` does with the worklist, whatever made it do so.              *)

(* The running frame goes on, or resumes, and waits for nothing.           *)
LEMMA ResumeStep ==
  ASSUME Inv, phase = "cartesian",
         NEW f \in Frame, f.type = Top.type, f.node = Top.node, f.pending = NoTag,
         FrameWithinCap(f),
         stack' = WithTop(f), ctx' \in Ctx, ctx'.depth = ctx.depth,
         arrived' = FALSE, incoming' \in Seq(Alt),
         UNCHANGED <<tree, phase, branchCount, result>>
  PROVE  Inv'
<1>1. /\ stack \in Seq(Frame) /\ stack # << >>
      /\ tree \in Tree /\ branchCount \in Nat
  BY TopTyped
<1>2. /\ stack' \in Seq(Frame)
      /\ Len(stack') = Len(stack)
      /\ \A i \in 1 .. Len(stack) - 1 : stack'[i] = stack[i]
      /\ stack'[Len(stack)] = f
      /\ Len(stack) \in Nat \ {0}
  BY <1>1, WithTopProperties
<1>3. TypeOK'
  BY <1>1, <1>2 DEF TypeOK
<1>4. Levels(stack') = Levels(stack)
  BY <1>1, LevelsOfWithTop
<1>5. DepthCountsLevels'
  BY <1>4 DEF Inv, DepthCountsLevels
<1>6. WaitingFrames'
  <2>1. \A i \in 1 .. Len(stack') - 1 : stack'[i].pending = stack'[i + 1].node
    BY <1>2 DEF Inv, WaitingFrames, Top
  <2>2. \A i \in 1 .. Len(stack') - 1 : stack'[i].pending # NoTag
    BY <1>2 DEF Inv, WaitingFrames
  <2>3. stack' # << >> /\ Top'.pending = NoTag
    BY <1>2 DEF Top
  <2> QED
    BY <2>1, <2>2, <2>3 DEF WaitingFrames
<1>7. ChoosesApart'
  BY <1>2, <1>4 DEF Inv, WorklistBounded, ChoosesApart
<1>8. AlternativesWithinCap'
  <2>1. \A i \in 1 .. Len(stack) : FrameWithinCap(stack[i])
    BY <1>1 DEF Inv, AlternativesWithinCap
  <2>2. \A i \in DOMAIN stack' :
          i = Len(stack) \/ (i \in 1 .. Len(stack) - 1 /\ i \in 1 .. Len(stack))
    BY <1>2
  <2>3. \A i \in DOMAIN stack' : FrameWithinCap(stack'[i])
    BY <1>2, <2>1, <2>2, Zenon
  <2> QED
    BY <2>3 DEF Inv, AlternativesWithinCap
<1>9. WorklistBounded'
  <2>1. Len(stack') <= 2 * DepthLimit
    BY <1>2, <1>5, <1>7, LengthFollows DEF ChoosesApart, DepthCountsLevels
  <2> QED
    BY <1>7, <2>1 DEF WorklistBounded
<1> QED
  BY <1>3, <1>5, <1>6, <1>8, <1>9 DEF Inv

(* The running frame suspends itself under a new frame for its tag.        *)
LEMMA SuspendStep ==
  ASSUME Inv, phase = "cartesian", ~ arrived,
         NEW f \in Frame, f.type = Top.type, f.node = Top.node,
         FrameWithinCap(f),
         NEW g \in Frame, g.node = f.pending, f.pending # NoTag, g.pending = NoTag,
         FrameWithinCap(g),
         g.type = "Choose" => f.type = "Body",
         g.type = "Body" => ctx.depth < DepthLimit,
         stack' = Append(WithTop(f), g), ctx' \in Ctx,
         ctx'.depth = ctx.depth + (IF g.type = "Body" THEN 1 ELSE 0),
         UNCHANGED <<tree, phase, arrived, incoming, branchCount, result>>
  PROVE  Inv'
<1>1. /\ stack \in Seq(Frame) /\ stack # << >>
      /\ tree \in Tree /\ branchCount \in Nat
  BY TopTyped
<1>2. /\ stack' \in Seq(Frame)
      /\ Len(stack') = Len(stack) + 1
      /\ \A i \in 1 .. Len(stack) - 1 : stack'[i] = stack[i]
      /\ stack'[Len(stack)] = f
      /\ stack'[Len(stack) + 1] = g
      /\ Len(stack) \in Nat \ {0}
  <2>1. PushOf(Frame, stack', f, g)
    BY <1>1, PushProperties, Zenon
  <2> QED
    BY <2>1 DEF PushOf
<1>3. TypeOK'
  BY <1>1, <1>2 DEF Inv, TypeOK
<1>4. Cardinality(Levels(stack')) =
        Cardinality(Levels(stack)) + (IF g.type \in {"Body", "Union"} THEN 1 ELSE 0)
  BY <1>1, LevelsOfPushed
<1>5. DepthCountsLevels'
  <2>1. ctx.depth = Cardinality(Levels(stack)) /\ ctx.depth <= DepthLimit
    BY DEF Inv, DepthCountsLevels
  <2>2. Cardinality(Levels(stack)) \in Nat
    BY <1>1, LevelsFinite
  <2>3. g.type \in {"Body", "Choose"}
    BY DEF Frame
  <2> QED
    BY <1>4, <2>1, <2>2, <2>3, LimitsAssumption DEF DepthCountsLevels
<1>6. WaitingFrames'
  <2>1. \A i \in 1 .. Len(stack') - 1 : stack'[i].pending = stack'[i + 1].node
    <3>1. f.node = stack[Len(stack)].node
      BY DEF Top
    <3>2. \A i \in 1 .. Len(stack) - 1 : stack[i].pending = stack[i + 1].node
      BY DEF Inv, WaitingFrames
    <3>3. \A i \in 1 .. Len(stack) - 1 : stack'[i + 1].node = stack[i + 1].node
      BY <1>2, <3>1
    <3>4. \A i \in 1 .. Len(stack') - 1 : i = Len(stack) \/ i \in 1 .. Len(stack) - 1
      BY <1>2
    <3> QED
      BY <1>2, <3>2, <3>3, <3>4, Zenon
  <2>2. \A i \in 1 .. Len(stack') - 1 : stack'[i].pending # NoTag
    BY <1>2 DEF Inv, WaitingFrames
  <2>3. stack' # << >> /\ Top'.pending = NoTag
    BY <1>2 DEF Top
  <2> QED
    BY <2>1, <2>2, <2>3 DEF WaitingFrames
<1>7. ChoosesApart'
  <2>1. \A i \in 1 .. Len(stack) : i \in Levels(stack') <=> i \in Levels(stack)
    BY <1>1, <1>2 DEF Levels, Top
  <2>2. Len(stack) \in Levels(stack') \/ Len(stack) + 1 \in Levels(stack')
    BY <1>2 DEF Levels, Frame
  <2>3. \A i \in 1 .. Len(stack) - 1 : i \in Levels(stack) \/ i + 1 \in Levels(stack)
    BY DEF Inv, WorklistBounded, ChoosesApart
  <2>4. 1 \in Levels(stack)
    BY <1>1 DEF Inv, WorklistBounded, ChoosesApart
  <2> QED
    BY <1>2, <2>1, <2>2, <2>3, <2>4 DEF ChoosesApart
<1>8. AlternativesWithinCap'
  <2>1. \A i \in 1 .. Len(stack) : FrameWithinCap(stack[i])
    BY <1>1 DEF Inv, AlternativesWithinCap
  <2>2. \A i \in DOMAIN stack' : FrameWithinCap(stack'[i])
    BY <1>2, <2>1
  <2> QED
    BY <2>2 DEF Inv, AlternativesWithinCap
<1>9. WorklistBounded'
  <2>1. Len(stack') <= 2 * DepthLimit
    BY <1>2, <1>5, <1>7, LengthFollows DEF ChoosesApart, DepthCountsLevels
  <2> QED
    BY <1>7, <2>1 DEF WorklistBounded
<1> QED
  BY <1>3, <1>5, <1>6, <1>8, <1>9 DEF Inv

(* Giving up drops every frame and, with them, every level.                *)
LEMMA FailStep ==
  ASSUME Inv, phase = "cartesian", NEW n \in Nat,
         NEW c \in Ctx, c.depth = ctx.depth,
         Fail(n, c)
  PROVE  Inv'
<1>1. /\ stack' = << >> /\ arrived' = FALSE /\ incoming' = << >>
      /\ phase' = "overflow" /\ branchCount' = n
      /\ ctx' = [c EXCEPT !.depth = @ - Cardinality(Levels(stack))]
      /\ tree' = tree /\ result' = result
  BY DEF Fail
<1>2. stack \in Seq(Frame) /\ tree \in Tree /\ ctx \in Ctx
  BY TopTyped
<1>3. ctx'.depth = 0 /\ ctx' \in Ctx
  <2>1. ctx.depth = Cardinality(Levels(stack)) /\ Cardinality(Levels(stack)) \in Nat
    BY <1>2, LevelsFinite DEF Inv, DepthCountsLevels
  <2>2. c.depth - Cardinality(Levels(stack)) = 0
    BY <2>1
  <2>3. /\ ctx' = [c EXCEPT !.depth = 0]
        /\ [c EXCEPT !.depth = 0] \in Ctx
        /\ [c EXCEPT !.depth = 0].depth = 0
    BY <1>1, <2>2, CtxWithDepth
  <2> QED
    BY <2>3, Zenon
<1>4. TypeOK'
  BY <1>1, <1>2, <1>3 DEF TypeOK
<1>5. DepthCountsLevels'
  BY <1>1, <1>3, EmptyWorklist, LimitsAssumption DEF DepthCountsLevels
<1>6. WaitingFrames'
  BY <1>1 DEF WaitingFrames
<1>7. WorklistBounded'
  BY <1>1, LimitsAssumption DEF WorklistBounded, ChoosesApart
<1>8. AlternativesWithinCap'
  BY <1>1 DEF Inv, AlternativesWithinCap
<1> QED
  BY <1>4, <1>5, <1>6, <1>7, <1>8 DEF Inv

(* A frame that is through is popped, and its alternatives reach the frame *)
(* that waits for them or are the answer.                                  *)
LEMMA FinishStep ==
  ASSUME Inv, phase = "cartesian", ~ arrived,
         NEW alts \in Seq(Alt), Len(alts) \in 1 .. BranchLimit + 1,
         Top.type = "Body" => Len(alts) <= BranchLimit,
         Finish(alts)
  PROVE  Inv'
<1>1. /\ stack' = Below
      /\ ctx' = [ctx EXCEPT !.depth = @ - (IF Top.type = "Body" THEN 1 ELSE 0)]
      /\ tree' = tree /\ branchCount' = branchCount
  BY DEF Finish
<1>2. /\ stack \in Seq(Frame) /\ stack # << >> /\ Top \in Frame
      /\ tree \in Tree /\ ctx \in Ctx /\ branchCount \in Nat
  BY TopTyped
<1>3. /\ stack' \in Seq(Frame)
      /\ Len(stack') = Len(stack) - 1
      /\ \A i \in 1 .. Len(stack) - 1 : stack'[i] = stack[i]
      /\ Len(stack) \in Nat \ {0}
  BY <1>1, <1>2, BelowProperties
<1>4. /\ ctx' \in Ctx
      /\ ctx'.depth = ctx.depth - (IF Top.type = "Body" THEN 1 ELSE 0)
  <2>1. ctx.depth - (IF Top.type = "Body" THEN 1 ELSE 0) \in Int
    BY <1>2 DEF Ctx
  <2> QED
    BY <1>1, <1>2, <2>1, CtxWithDepth
<1>5. \/ /\ stack' = << >> /\ phase' = "done" /\ arrived' = FALSE /\ incoming' = << >>
         /\ result'.kind = "variants" /\ result'.alts = alts
      \/ /\ stack' # << >> /\ phase' = phase /\ arrived' = TRUE /\ incoming' = alts
         /\ result' = result
  BY <1>1 DEF Finish
<1>6. TypeOK'
  BY <1>2, <1>3, <1>1, <1>4, <1>5 DEF TypeOK
<1>7. DepthCountsLevels'
  <2>1. Cardinality(Levels(stack')) =
          Cardinality(Levels(stack)) - (IF Top.type \in {"Body", "Union"} THEN 1 ELSE 0)
    BY <1>1, <1>2, LevelsOfBelow
  <2>2. Top.type \in {"Body", "Choose"}
    BY <1>2 DEF Frame
  <2>3. ctx.depth = Cardinality(Levels(stack)) /\ ctx.depth <= DepthLimit
    BY DEF Inv, DepthCountsLevels
  <2>4. Cardinality(Levels(stack)) \in Nat
    BY <1>2, LevelsFinite
  <2> QED
    BY <1>4, <2>1, <2>2, <2>3, <2>4, LimitsAssumption DEF DepthCountsLevels
<1>8. WaitingFrames'
  <2> SUFFICES ASSUME phase' = "cartesian" PROVE WaitingFrames'
    BY DEF WaitingFrames
  <2>1. stack' # << >> /\ arrived' = TRUE
    BY <1>5
  <2>2. \A i \in 1 .. Len(stack) - 1 :
          stack[i].pending = stack[i + 1].node /\ stack[i].pending # NoTag
    BY DEF Inv, WaitingFrames
  <2>3. \A i \in 1 .. Len(stack') - 1 :
          stack'[i].pending = stack'[i + 1].node /\ stack'[i].pending # NoTag
    <3> SUFFICES ASSUME NEW i \in 1 .. Len(stack') - 1
                 PROVE  /\ stack'[i].pending = stack'[i + 1].node
                        /\ stack'[i].pending # NoTag
      OBVIOUS
    <3>1. i \in 1 .. Len(stack) - 1 /\ i + 1 \in 1 .. Len(stack) - 1
      BY <1>3
    <3> QED
      BY <1>3, <2>2, <3>1
  <2>4. Len(stack') \in 1 .. Len(stack) - 1
    BY <1>3, <2>1
  <2>5. Top'.pending # NoTag
    BY <1>3, <2>2, <2>4 DEF Top
  <2> QED
    BY <2>1, <2>3, <2>5 DEF WaitingFrames
<1>9. ChoosesApart'
  <2>1. \A i \in 1 .. Len(stack') : i \in Levels(stack') <=> i \in Levels(stack)
    BY <1>2, <1>3 DEF Levels
  <2>2. /\ 1 \in Levels(stack)
        /\ \A i \in 1 .. Len(stack) - 1 : i \in Levels(stack) \/ i + 1 \in Levels(stack)
    BY <1>2 DEF Inv, WorklistBounded, ChoosesApart
  <2>3. stack' # << >> => Len(stack') \in Nat \ {0}
    BY <1>3, EmptySeq
  <2> QED
    BY <1>3, <2>1, <2>2, <2>3 DEF ChoosesApart
<1>10. WorklistBounded'
  <2>1. Len(stack') <= 2 * DepthLimit
    BY <1>3, <1>7, <1>9, LengthFollows DEF ChoosesApart, DepthCountsLevels
  <2> QED
    BY <1>9, <2>1 DEF WorklistBounded
<1>11. AlternativesWithinCap'
  <2>1. \A i \in 1 .. Len(stack) : FrameWithinCap(stack[i])
    BY <1>2 DEF Inv, AlternativesWithinCap
  <2>2. \A i \in DOMAIN stack' : FrameWithinCap(stack'[i])
    BY <1>3, <2>1
  <2>3. CASE stack' # << >>
    BY <1>5, <2>2, <2>3 DEF Inv, AlternativesWithinCap
  <2>4. CASE stack' = << >>
    <3>1. Top.type = "Body"
      <4>1. Len(stack) = 1
        BY <1>3, <2>4
      <4>2. stack[1].type \in {"Body", "Union"}
        BY <1>2 DEF Inv, WorklistBounded, ChoosesApart, Levels
      <4> QED
        BY <1>2, <4>1, <4>2 DEF Top, Frame
    <3>2. Len(alts) \in 1 .. BranchLimit
      BY <3>1, LimitsAssumption
    <3> QED
      BY <1>5, <2>4, <3>2 DEF AlternativesWithinCap
  <2> QED
    BY <2>3, <2>4
<1> QED
  BY <1>6, <1>7, <1>8, <1>10, <1>11 DEF Inv

(* An answer is folded into the frame that waited for it, or exceeds the   *)
(* cap.                                                                    *)
LEMMA AbsorbStep ==
  ASSUME Inv, phase = "cartesian",
         NEW f \in Frame, f.type = Top.type, f.node = Top.node, f.pending \in Node,
         FrameWithinCap(f),
         NEW alts \in Seq(Alt), Len(alts) \in 1 .. BranchLimit + 1,
         NEW c \in Ctx, c.depth = ctx.depth,
         Absorb(f, alts, c)
  PROVE  Inv'
<1> DEFINE n == f.pending
           local == IF f.type = "Body" THEN FinishPending(n, alts)
                    ELSE IF tree.kind[n] = "when" THEN Tail(Guarded(n, << >>, alts))
                    ELSE alts
           excess == IF f.type = "Body" THEN Excess(n, f.acc, local)
                     ELSE IF Len(f.acc) + Len(local) > BranchLimit
                          THEN Len(f.acc) + Len(local) ELSE 0
           acc == IF f.type = "Body" THEN Combined(f.acc, local) ELSE f.acc \o local
           resumed == [f EXCEPT !.acc = acc, !.pending = NoTag]
           restored == [c EXCEPT !.insideUnknown = RestoredFlag(f, c)]
<1>1. IF excess > 0 THEN Fail(excess, restored)
      ELSE /\ stack' = WithTop(resumed)
           /\ ctx' = restored
           /\ arrived' = FALSE
           /\ incoming' = << >>
           /\ UNCHANGED <<tree, phase, branchCount, result>>
  BY DEF Absorb
<1>2. local \in Seq(Alt) /\ Len(local) \in Nat \ {0}
  <2>1. CASE f.type = "Body"
    BY <2>1, FinishPendingType
  <2>2. CASE f.type # "Body" /\ tree.kind[n] = "when"
    <3>1. << >> \in Seq(Piece)
      OBVIOUS
    <3>2. /\ Guarded(n, << >>, alts) \in Seq(Alt)
          /\ Len(Guarded(n, << >>, alts)) = Len(alts) + 1
      BY <3>1, GuardedType
    <3>3. Guarded(n, << >>, alts) # << >>
      BY <3>2, EmptySeq
    <3>4. /\ Tail(Guarded(n, << >>, alts)) \in Seq(Alt)
          /\ Len(Tail(Guarded(n, << >>, alts))) = Len(alts)
      BY <3>2, <3>3, HeadTailProperties
    <3> QED
      BY <2>2, <3>4
  <2>3. CASE f.type # "Body" /\ tree.kind[n] # "when"
    BY <2>3
  <2> QED
    BY <2>1, <2>2, <2>3
<1>3. f.acc \in Seq(Alt) /\ Len(f.acc) \in Nat /\ f.type \in {"Body", "Choose"}
  BY DEF Frame
<1>4. f.type = "Body" => Len(f.acc) >= 1
  BY DEF FrameWithinCap
<1> HIDE DEF local
<1>5. Len(f.acc) * Len(local) \in Nat
  BY <1>2, <1>3, SMT
<1>6. excess \in Nat
  BY <1>2, <1>3, <1>5 DEF Excess
<1>7. excess = 0 => Len(acc) \in 1 .. BranchLimit
  <2>1. CASE f.type = "Body"
    <3>1. Len(acc) = Len(f.acc) * Len(local)
      BY <1>2, <1>3, <2>1, CombinedType
    <3>2. Len(f.acc) * Len(local) >= 1
      <4>1. Len(f.acc) >= 1 /\ Len(local) >= 1
        BY <1>2, <1>4, <2>1
      <4> QED
        BY <1>2, <1>3, <4>1, ProductPositive
    <3>3. excess = 0 => Len(f.acc) * Len(local) <= BranchLimit
      BY <1>2, <1>5, <2>1, <3>2, LimitsAssumption DEF Excess
    <3> QED
      BY <1>5, <3>1, <3>2, <3>3
  <2>2. CASE f.type # "Body"
    <3>1. Len(acc) = Len(f.acc) + Len(local)
      BY <1>2, <1>3, <2>2
    <3> QED
      BY <1>2, <1>3, <2>2, <3>1, LimitsAssumption
  <2> QED
    BY <2>1, <2>2
<1>8. acc \in Seq(Alt)
  <2>1. CASE f.type = "Body"
    BY <1>2, <1>3, <2>1, CombinedType
  <2>2. CASE f.type # "Body"
    <3>1. f.acc \o local \in Seq(Alt)
      BY <1>2, <1>3
    <3> QED
      BY <2>2, <3>1, Zenon
  <2> QED
    BY <2>1, <2>2
<1> HIDE DEF acc, excess
<1>9. restored \in Ctx /\ restored.depth = ctx.depth
  <2>1. RestoredFlag(f, c) \in BOOLEAN
    BY DEF RestoredFlag, Frame, Ctx
  <2> QED
    BY <2>1 DEF Ctx
<1> HIDE DEF restored
<1>10. CASE excess > 0
  BY <1>1, <1>6, <1>10, <1>9, FailStep
<1>11. CASE ~ (excess > 0)
  <2>1. /\ resumed \in Frame /\ resumed.type = Top.type /\ resumed.node = Top.node
        /\ resumed.pending = NoTag /\ resumed.acc = acc
    BY <1>8 DEF Frame
  <2>2. FrameWithinCap(resumed)
    BY <1>6, <1>7, <1>11, <2>1 DEF FrameWithinCap
  <2>3. /\ stack' = WithTop(resumed)
        /\ ctx' = restored
        /\ arrived' = FALSE /\ incoming' = << >>
        /\ UNCHANGED <<tree, phase, branchCount, result>>
    BY <1>1, <1>11
  <2>4. ctx' \in Ctx /\ ctx'.depth = ctx.depth
    BY <1>9, <2>3
  <2>5. incoming' \in Seq(Alt)
    BY <2>3
  <2> HIDE DEF resumed
  <2> QED
    BY <2>1, <2>2, <2>3, <2>4, <2>5, ResumeStep
<1> QED
  BY <1>10, <1>11

(* The body of a tag gets a frame of its own or, at the limit, is empty.   *)
LEMMA DescendStep ==
  ASSUME Inv, phase = "cartesian", ~ arrived,
         NEW f \in Frame, f.type = Top.type, f.node = Top.node,
         Len(f.acc) <= BranchLimit, f.type = "Body" => Len(f.acc) >= 1,
         NEW n \in Node,
         NEW c \in Ctx, c.depth = ctx.depth,
         Descend(f, n, c)
  PROVE  Inv'
<1> DEFINE suspended == [f EXCEPT !.pending = n, !.was = ctx.insideUnknown]
           warned == [c EXCEPT !.diags = Append(@, Diag("NestingLimitExceeded", n))]
<1>1. IF DepthReached
      THEN Absorb(suspended, <<EmptyAlt>>, warned)
      ELSE /\ stack' = Append(WithTop(suspended), BodyFrame(n))
           /\ ctx' = [c EXCEPT !.depth = @ + 1]
           /\ UNCHANGED <<tree, phase, arrived, incoming, branchCount, result>>
  BY DEF Descend
<1>2. /\ suspended \in Frame /\ suspended.type = Top.type /\ suspended.node = Top.node
      /\ suspended.pending = n /\ suspended.acc = f.acc /\ suspended.type = f.type
  <2>1. ctx.insideUnknown \in BOOLEAN
    BY TopTyped DEF Ctx
  <2> QED
    BY <2>1 DEF Frame
<1>3. FrameWithinCap(suspended)
  BY <1>2 DEF FrameWithinCap, NoTag, Node
<1> HIDE DEF suspended
<1>4. CASE DepthReached
  <2>1. warned \in Ctx /\ warned.depth = ctx.depth
    <3>1. Diag("NestingLimitExceeded", n) \in Diagnostic
      BY DEF Diag, Diagnostic, Holder
    <3>2. c.diags \in Seq(Diagnostic)
      BY DEF Ctx
    <3>3. Append(c.diags, Diag("NestingLimitExceeded", n)) \in Seq(Diagnostic)
      BY <3>1, <3>2
    <3> QED
      BY <3>3 DEF Ctx
  <2>2. <<EmptyAlt>> \in Seq(Alt) /\ Len(<<EmptyAlt>>) \in 1 .. BranchLimit + 1
    BY EmptyAltType, LimitsAssumption
  <2> HIDE DEF warned
  <2> QED
    BY <1>1, <1>2, <1>3, <1>4, <2>1, <2>2, AbsorbStep
<1>5. CASE ~ DepthReached
  <2>1. /\ stack' = Append(WithTop(suspended), BodyFrame(n))
        /\ ctx' = [c EXCEPT !.depth = @ + 1]
        /\ UNCHANGED <<tree, phase, arrived, incoming, branchCount, result>>
    BY <1>1, <1>5
  <2>2. /\ BodyFrame(n) \in Frame /\ BodyFrame(n).node = n
        /\ BodyFrame(n).pending = NoTag /\ BodyFrame(n).type = "Body"
        /\ BodyFrame(n).acc = <<EmptyAlt>>
    BY EmptyAltType DEF BodyFrame, Frame, Holder
  <2>3. FrameWithinCap(BodyFrame(n))
    BY <2>2, LimitsAssumption DEF FrameWithinCap
  <2>4. ctx' \in Ctx /\ ctx'.depth = ctx.depth + 1
    <3>1. c.depth + 1 \in Int
      BY DEF Ctx
    <3> QED
      BY <2>1, <3>1, CtxWithDepth
  <2>5. ctx.depth < DepthLimit
    <3>1. ctx.depth \in Int
      BY TopTyped DEF Ctx
    <3> QED
      BY <1>5, <3>1, LimitsAssumption DEF DepthReached
  <2>6. n # NoTag
    BY DEF Node, NoTag
  <2> QED
    BY <1>2, <1>3, <2>1, <2>2, <2>3, <2>4, <2>5, <2>6, SuspendStep
<1> QED
  BY <1>4, <1>5

-------------------------------------------------------------------------------
(* The actions of the cartesian pass.                                      *)

(* The segment a frame looks at is a node.                                 *)
LEMMA SegmentIsNode ==
  ASSUME Inv, phase = "cartesian", HasSegment
  PROVE  /\ Segment \in Node
         /\ Top.idx \in 1 .. Len(tree.kids[Top.node])
         /\ Top.node \in Holder
<1>1. Top.node \in Holder /\ Top.idx \in Nat \ {0}
  BY TopTyped DEF Frame
<1>2. tree.kids[Top.node] \in Seq(Node)
  BY <1>1, TopTyped DEF Tree
<1> QED
  BY <1>1, <1>2 DEF HasSegment, Segment

(* A frame that steps waits for nothing, and consuming a segment changes   *)
(* neither that nor what it gathered.                                      *)
LEMMA ConsumedProperties ==
  ASSUME Inv, phase = "cartesian", ~ arrived
  PROVE  /\ Consumed \in Frame /\ Consumed.type = Top.type
         /\ Consumed.node = Top.node /\ Consumed.pending = NoTag
         /\ Consumed.acc = Top.acc /\ Consumed.hasOtherwise = Top.hasOtherwise
         /\ FrameWithinCap(Consumed)
         /\ Top.pending = NoTag
<1>1. Top \in Frame /\ FrameWithinCap(Top) /\ Top.pending = NoTag
  BY TopTyped DEF Inv, WaitingFrames
<1>2. /\ Consumed \in Frame /\ Consumed.type = Top.type
      /\ Consumed.node = Top.node /\ Consumed.pending = NoTag
      /\ Consumed.acc = Top.acc /\ Consumed.hasOtherwise = Top.hasOtherwise
  BY <1>1 DEF Consumed, Frame
<1> QED
  BY <1>1, <1>2 DEF FrameWithinCap

(* While no answer has arrived and none arrives, an action leaves it at    *)
(* that.                                                                   *)
LEMMA NothingArrives ==
  ASSUME Inv, phase = "cartesian", ~ arrived, UNCHANGED <<arrived, incoming>>
  PROVE  arrived' = FALSE /\ incoming' \in Seq(Alt)
<1>1. arrived \in BOOLEAN /\ incoming \in Seq(Alt)
  BY DEF Inv, TypeOK
<1> QED
  BY <1>1

(* A run of text goes to every alternative of the frame: the frames stay   *)
(* as many, and as long.                                                   *)
LEMMA BodyTextStep ==
  ASSUME Inv, BodyText
  PROVE  Inv'
<1> DEFINE run == TextRun(tree, Top.node, Top.idx)
           piece == [what |-> "text", of |-> run]
           f == [Top EXCEPT !.idx = RunEnd(tree, Top.node, Top.idx),
                            !.acc = AppendToEach(@, piece)]
<1>1. /\ phase = "cartesian" /\ ~ arrived /\ HasSegment /\ Top.type = "Body"
      /\ stack' = WithTop(f)
      /\ ctx' = [ctx EXCEPT !.paths = @ \o run]
      /\ UNCHANGED <<tree, phase, arrived, incoming, branchCount, result>>
  BY DEF BodyText, Stepping, Running
<1>2. /\ Top \in Frame /\ ctx \in Ctx /\ incoming \in Seq(Alt) /\ tree \in Tree
      /\ FrameWithinCap(Top)
  BY <1>1, TopTyped
<1>3. Top.pending = NoTag
  BY <1>1, ConsumedProperties
<1>4. /\ RunEnd(tree, Top.node, Top.idx) \in Nat \ {0}
      /\ run \in Seq(Node)
  <2>1. Top.idx \in 1 .. Len(tree.kids[Top.node]) /\ Top.node \in Holder
    BY <1>1, SegmentIsNode
  <2>2. /\ RunEnd(tree, Top.node, Top.idx) \in Top.idx .. Len(tree.kids[Top.node]) + 1
        /\ run \in Seq(Node)
    BY <1>2, <2>1, RunEndType
  <2> QED
    BY <2>1, <2>2
<1> HIDE DEF run
<1>5. piece \in Piece
  BY <1>4 DEF Piece
<1> HIDE DEF piece
<1>6. /\ AppendToEach(Top.acc, piece) \in Seq(Alt)
      /\ Len(AppendToEach(Top.acc, piece)) = Len(Top.acc)
  BY <1>2, <1>5, AppendToEachType DEF Frame
<1>7. /\ f \in Frame /\ f.type = Top.type /\ f.node = Top.node /\ f.pending = NoTag
      /\ f.acc = AppendToEach(Top.acc, piece) /\ f.hasOtherwise = Top.hasOtherwise
  BY <1>2, <1>3, <1>4, <1>6 DEF Frame
<1> HIDE DEF f
<1>8. FrameWithinCap(f)
  BY <1>2, <1>3, <1>6, <1>7 DEF FrameWithinCap
<1>9. ctx' \in Ctx /\ ctx'.depth = ctx.depth
  <2>1. ctx.paths \o run \in Seq(Node)
    BY <1>2, <1>4 DEF Ctx
  <2> QED
    BY <1>1, <1>2, <2>1 DEF Ctx
<1> QED
  BY <1>1, <1>7, <1>8, <1>9, NothingArrives, ResumeStep

(* An include goes to every alternative and to the includes.               *)
LEMMA BodyIncludeStep ==
  ASSUME Inv, BodyInclude
  PROVE  Inv'
<1> DEFINE piece == [what |-> "include", of |-> <<Segment>>]
           f == [Consumed EXCEPT !.acc = AppendToEach(@, piece)]
<1>1. /\ phase = "cartesian" /\ ~ arrived /\ HasSegment
      /\ stack' = WithTop(f)
      /\ ctx' = [ctx EXCEPT !.includes = @ \o RecordedInclude(Segment)]
      /\ UNCHANGED <<tree, phase, arrived, incoming, branchCount, result>>
  BY DEF BodyInclude, Stepping, Running
<1>2. ctx \in Ctx /\ incoming \in Seq(Alt) /\ Segment \in Node
  BY <1>1, TopTyped, SegmentIsNode
<1>3. /\ Consumed \in Frame /\ Consumed.type = Top.type
      /\ Consumed.node = Top.node /\ Consumed.pending = NoTag
      /\ FrameWithinCap(Consumed)
  BY <1>1, ConsumedProperties
<1>4. piece \in Piece
  BY <1>2 DEF Piece
<1> HIDE DEF piece
<1>5. /\ AppendToEach(Consumed.acc, piece) \in Seq(Alt)
      /\ Len(AppendToEach(Consumed.acc, piece)) = Len(Consumed.acc)
  BY <1>3, <1>4, AppendToEachType DEF Frame
<1>6. /\ f \in Frame /\ f.type = Top.type /\ f.node = Top.node /\ f.pending = NoTag
      /\ f.acc = AppendToEach(Consumed.acc, piece)
      /\ f.type = Consumed.type /\ f.hasOtherwise = Consumed.hasOtherwise
  BY <1>3, <1>5 DEF Frame
<1> HIDE DEF f
<1>7. FrameWithinCap(f)
  BY <1>3, <1>5, <1>6 DEF FrameWithinCap
<1>8. ctx' \in Ctx /\ ctx'.depth = ctx.depth
  <2>1. RecordedInclude(Segment) \in Seq(Node)
    BY <1>2 DEF RecordedInclude
  <2>2. ctx.includes \o RecordedInclude(Segment) \in Seq(Node)
    BY <1>2, <2>1 DEF Ctx
  <2> QED
    BY <1>1, <1>2, <2>2 DEF Ctx
<1> QED
  BY <1>1, <1>6, <1>7, <1>8, NothingArrives, ResumeStep

(* A bind leaves its path in the side channel and nothing else.            *)
LEMMA BodyBindStep ==
  ASSUME Inv, BodyBind
  PROVE  Inv'
<1>1. /\ phase = "cartesian" /\ ~ arrived /\ HasSegment
      /\ stack' = WithTop(Consumed)
      /\ ctx' = [ctx EXCEPT !.paths = Append(@, Segment)]
      /\ UNCHANGED <<tree, phase, arrived, incoming, branchCount, result>>
  BY DEF BodyBind, Stepping, Running
<1>2. ctx \in Ctx /\ incoming \in Seq(Alt) /\ Segment \in Node
  BY <1>1, TopTyped, SegmentIsNode
<1>3. ctx' \in Ctx /\ ctx'.depth = ctx.depth
  <2>1. Append(ctx.paths, Segment) \in Seq(Node)
    BY <1>2 DEF Ctx
  <2> QED
    BY <1>1, <1>2, <2>1 DEF Ctx
<1> QED
  BY <1>1, <1>3, NothingArrives, ConsumedProperties, ResumeStep

(* A choose suspends the frame and puts its own above it, on the same      *)
(* level.                                                                  *)
LEMMA BodyChooseStep ==
  ASSUME Inv, BodyChoose
  PROVE  Inv'
<1> DEFINE f == [Consumed EXCEPT !.pending = Segment]
           g == ChooseFrame(Segment)
<1>1. /\ phase = "cartesian" /\ ~ arrived /\ HasSegment /\ Top.type = "Body"
      /\ stack' = Append(WithTop(f), g)
      /\ UNCHANGED <<tree, phase, arrived, incoming, ctx, branchCount, result>>
  BY DEF BodyChoose, Stepping, Running
<1>2. ctx \in Ctx /\ Segment \in Node
  BY <1>1, TopTyped, SegmentIsNode
<1>3. /\ Consumed \in Frame /\ Consumed.type = Top.type
      /\ Consumed.node = Top.node /\ FrameWithinCap(Consumed)
  BY <1>1, ConsumedProperties
<1>4. /\ f \in Frame /\ f.type = Top.type /\ f.node = Top.node
      /\ f.pending = Segment /\ f.acc = Consumed.acc
  BY <1>2, <1>3 DEF Frame
<1>5. FrameWithinCap(f)
  BY <1>1, <1>3, <1>4 DEF FrameWithinCap
<1>6. /\ g \in Frame /\ g.type = "Choose" /\ g.node = Segment /\ g.pending = NoTag
      /\ FrameWithinCap(g)
  <2>1. /\ g \in Frame /\ g.type = "Choose" /\ g.node = Segment /\ g.pending = NoTag
        /\ g.acc = << >> /\ ~ g.hasOtherwise
    BY <1>2 DEF ChooseFrame, Frame, Holder
  <2> QED
    BY <2>1, LimitsAssumption DEF FrameWithinCap
<1>7. Segment # NoTag
  BY <1>2 DEF Node, NoTag
<1>8. ctx' \in Ctx /\ ctx'.depth = ctx.depth + (IF g.type = "Body" THEN 1 ELSE 0)
  BY <1>1, <1>2, <1>6 DEF Ctx
<1> HIDE DEF f, g
<1> QED
  BY <1>1, <1>4, <1>5, <1>6, <1>7, <1>8, SuspendStep

(* A wrapper's tag is descended into with its warnings and, for an         *)
(* iterate, its property in the side channels.                             *)
LEMMA BodyWrapperDescends ==
  ASSUME Inv, BodyWrapper
  PROVE  /\ phase = "cartesian" /\ ~ arrived /\ HasSegment /\ ~ IsUnknown(tree, Segment)
         /\ \E c \in Ctx :
              /\ Descend(Consumed, Segment, c)
              /\ c.depth = ctx.depth /\ c.insideUnknown = ctx.insideUnknown
              /\ c.includes = ctx.includes
              /\ c.paths = ctx.paths \/ c.paths = Append(ctx.paths, Segment)
<1> DEFINE boundary == IF tree.kind[Segment] = "where"
                       THEN BoundaryIncludes(tree, Segment) ELSE << >>
           warnings == [i \in DOMAIN boundary |->
                          Diag("IncludeAtWrapperBoundary", boundary[i])]
           property == IF tree.kind[Segment] = "iterate" THEN <<Segment>> ELSE << >>
           c == [ctx EXCEPT !.diags = @ \o warnings, !.paths = @ \o property]
<1>1. /\ phase = "cartesian" /\ ~ arrived /\ HasSegment
      /\ Descend(Consumed, Segment, c)
      /\ tree.kind[Segment] \in {"if", "is", "where", "foreach", "iterate", "dynamic"}
  BY DEF BodyWrapper, Stepping, Running
<1>2. ctx \in Ctx /\ Segment \in Node /\ tree \in Tree
  BY <1>1, TopTyped, SegmentIsNode
<1>3. boundary \in Seq(Node) /\ (property = << >> \/ property = <<Segment>>)
  <2>1. BoundaryIncludes(tree, Segment) \in Seq(Node)
    BY <1>2, BoundaryIncludesType DEF Holder
  <2> QED
    BY <1>2, <2>1
<1> HIDE DEF boundary, property
<1>4. warnings \in Seq(Diagnostic)
  <2>1. \A i \in 1 .. Len(boundary) :
          Diag("IncludeAtWrapperBoundary", boundary[i]) \in Diagnostic
    BY <1>3 DEF Diag, Diagnostic, Holder
  <2>2. warnings = [i \in 1 .. Len(boundary) |->
                      Diag("IncludeAtWrapperBoundary", boundary[i])]
    BY <1>3
  <2> QED
    BY <1>3, <2>1, <2>2
<1> HIDE DEF warnings
<1>5. /\ ctx.paths \o property \in Seq(Node)
      /\ ctx.paths \o property \in {ctx.paths, Append(ctx.paths, Segment)}
  <2>1. ctx.paths \in Seq(Node)
    BY <1>2 DEF Ctx
  <2>2. ctx.paths \o << >> = ctx.paths
    BY <2>1, ConcatEmptySeq
  <2>3. ctx.paths \o <<Segment>> = Append(ctx.paths, Segment)
    BY <1>2, <2>1, AppendIsConcat
  <2>4. Append(ctx.paths, Segment) \in Seq(Node)
    BY <1>2, <2>1
  <2> QED
    BY <1>3, <2>1, <2>2, <2>3, <2>4
<1>6. /\ c \in Ctx /\ c.depth = ctx.depth /\ c.insideUnknown = ctx.insideUnknown
      /\ c.includes = ctx.includes /\ c.paths = ctx.paths \o property
  <2>1. ctx.diags \o warnings \in Seq(Diagnostic)
    BY <1>2, <1>4 DEF Ctx
  <2> QED
    BY <1>2, <1>5, <2>1 DEF Ctx
<1>7. ~ IsUnknown(tree, Segment)
  BY <1>1 DEF IsUnknown, BranchKind
<1> HIDE DEF c
<1> QED
  BY <1>1, <1>5, <1>6, <1>7

(* Any other tag is descended into with its own report, if it is the       *)
(* outermost unknown element, and the flag up.                             *)
LEMMA BodyTransparentDescends ==
  ASSUME Inv, BodyTransparent
  PROVE  /\ phase = "cartesian" /\ ~ arrived /\ HasSegment /\ Top.type = "Body"
         /\ \E c \in Ctx :
              /\ Descend(Consumed, Segment, c)
              /\ c.depth = ctx.depth
              /\ c.insideUnknown <=> (ctx.insideUnknown \/ IsUnknown(tree, Segment))
              /\ c.paths = ctx.paths /\ c.includes = ctx.includes
<1> DEFINE unknown == IsUnknown(tree, Segment)
           report == IF unknown /\ ~ ctx.insideUnknown
                     THEN <<Diag("UnknownElement", Segment)>> ELSE << >>
           c == [ctx EXCEPT !.diags = @ \o report, !.insideUnknown = @ \/ unknown]
<1>1. /\ phase = "cartesian" /\ ~ arrived /\ HasSegment /\ Top.type = "Body"
      /\ Descend(Consumed, Segment, c)
  BY DEF BodyTransparent, Stepping, Running
<1>2. ctx \in Ctx /\ Segment \in Node
  BY <1>1, TopTyped, SegmentIsNode
<1>3. report \in Seq(Diagnostic)
  <2>1. Diag("UnknownElement", Segment) \in Diagnostic
    BY <1>2 DEF Diag, Diagnostic, Holder
  <2>2. <<Diag("UnknownElement", Segment)>> \in Seq(Diagnostic)
    BY <2>1
  <2> QED
    BY <2>2
<1> HIDE DEF report
<1>4. /\ c \in Ctx /\ c.depth = ctx.depth
      /\ c.insideUnknown = (ctx.insideUnknown \/ unknown)
      /\ c.paths = ctx.paths /\ c.includes = ctx.includes
  <2>1. ctx.diags \o report \in Seq(Diagnostic)
    BY <1>2, <1>3 DEF Ctx
  <2>2. (ctx.insideUnknown \/ unknown) \in BOOLEAN
    OBVIOUS
  <2> HIDE DEF unknown
  <2> QED
    BY <1>2, <2>1, <2>2 DEF Ctx
<1> HIDE DEF c
<1> QED
  BY <1>1, <1>4

(* A wrapper is one level down, or is cut off at the limit.                *)
LEMMA BodyWrapperStep ==
  ASSUME Inv, BodyWrapper
  PROVE  Inv'
<1>1. phase = "cartesian" /\ ~ arrived /\ HasSegment
  BY BodyWrapperDescends
<1>2. PICK c \in Ctx : c.depth = ctx.depth /\ Descend(Consumed, Segment, c)
  BY BodyWrapperDescends
<1>3. Len(Consumed.acc) <= BranchLimit /\ (Consumed.type = "Body" => Len(Consumed.acc) >= 1)
  BY <1>1, ConsumedProperties DEF FrameWithinCap
<1> QED
  BY <1>1, <1>2, <1>3, SegmentIsNode, ConsumedProperties, DescendStep

(* Any other tag is one level down as well, or is cut off at the limit.    *)
LEMMA BodyTransparentStep ==
  ASSUME Inv, BodyTransparent
  PROVE  Inv'
<1>1. phase = "cartesian" /\ ~ arrived /\ HasSegment
  BY BodyTransparentDescends
<1>2. PICK c \in Ctx : c.depth = ctx.depth /\ Descend(Consumed, Segment, c)
  BY BodyTransparentDescends
<1>3. Len(Consumed.acc) <= BranchLimit /\ (Consumed.type = "Body" => Len(Consumed.acc) >= 1)
  BY <1>1, ConsumedProperties DEF FrameWithinCap
<1> QED
  BY <1>1, <1>2, <1>3, SegmentIsNode, ConsumedProperties, DescendStep

(* A body that has been read is answered with its alternatives.            *)
LEMMA BodyEndStep ==
  ASSUME Inv, BodyEnd
  PROVE  Inv'
<1>1. phase = "cartesian" /\ ~ arrived /\ Top.type = "Body" /\ Finish(Top.acc)
  BY DEF BodyEnd, Stepping, Running
<1>2. Top.acc \in Seq(Alt) /\ Len(Top.acc) \in 1 .. BranchLimit
  <2>1. Top \in Frame /\ FrameWithinCap(Top)
    BY <1>1, TopTyped
  <2>2. Top.acc \in Seq(Alt) /\ Len(Top.acc) \in Nat
    BY <2>1 DEF Frame
  <2> QED
    BY <1>1, <2>1, <2>2, LimitsAssumption DEF FrameWithinCap
<1>3. Len(Top.acc) \in 1 .. BranchLimit + 1 /\ Len(Top.acc) <= BranchLimit
  BY <1>2, LimitsAssumption
<1> QED
  BY <1>1, <1>2, <1>3, FinishStep

(* An arrived answer finds a waiting frame.                                *)
LEMMA DeliverStep ==
  ASSUME Inv, BodyDeliver \/ ChooseDeliver
  PROVE  Inv'
<1>1. phase = "cartesian" /\ arrived /\ Absorb(Top, incoming, ctx)
  BY DEF BodyDeliver, ChooseDeliver, Delivering, Running
<1>2. /\ Top \in Frame /\ FrameWithinCap(Top)
      /\ ctx \in Ctx /\ incoming \in Seq(Alt)
  BY <1>1, TopTyped
<1>3. Top.pending \in Node
  <2>1. Top.pending # NoTag
    BY <1>1 DEF Inv, WaitingFrames
  <2> QED
    BY <1>2, <2>1 DEF Frame
<1>4. Len(incoming) \in 1 .. BranchLimit + 1
  BY <1>1 DEF Inv, AlternativesWithinCap
<1> QED
  BY <1>1, <1>2, <1>3, <1>4, AbsorbStep

(* What does not belong in a choose is passed over.                        *)
LEMMA ChooseStrayStep ==
  ASSUME Inv, ChooseStray
  PROVE  Inv'
<1>1. /\ phase = "cartesian" /\ ~ arrived /\ HasSegment
      /\ stack' = WithTop(Consumed)
      /\ ctx' = IF IsText(tree, Segment) THEN ctx
                ELSE [ctx EXCEPT !.diags = Append(@, Diag("UnknownElement", Segment))]
      /\ UNCHANGED <<tree, phase, arrived, incoming, branchCount, result>>
  BY DEF ChooseStray, Stepping, Running
<1>2. ctx \in Ctx /\ Segment \in Node
  BY <1>1, TopTyped, SegmentIsNode
<1>3. ctx' \in Ctx /\ ctx'.depth = ctx.depth
  <2>1. Diag("UnknownElement", Segment) \in Diagnostic
    BY <1>2 DEF Diag, Diagnostic, Holder
  <2>2. Append(ctx.diags, Diag("UnknownElement", Segment)) \in Seq(Diagnostic)
    BY <1>2, <2>1 DEF Ctx
  <2> QED
    BY <1>1, <1>2, <2>2 DEF Ctx
<1> QED
  BY <1>1, <1>3, NothingArrives, ConsumedProperties, ResumeStep

(* A branch of a choose is one level down, or is cut off at the limit.     *)
LEMMA ChooseBranchStep ==
  ASSUME Inv, ChooseBranch
  PROVE  Inv'
<1> DEFINE f == [Consumed EXCEPT !.hasOtherwise = @ \/ tree.kind[Segment] = "otherwise"]
<1>1. /\ phase = "cartesian" /\ ~ arrived /\ HasSegment
      /\ Descend(f, Segment, ctx)
  BY DEF ChooseBranch, Stepping, Running
<1>2. ctx \in Ctx /\ Segment \in Node
  BY <1>1, TopTyped, SegmentIsNode
<1>3. /\ Consumed \in Frame /\ Consumed.type = Top.type
      /\ Consumed.node = Top.node /\ FrameWithinCap(Consumed)
  BY <1>1, ConsumedProperties
<1>4. /\ f \in Frame /\ f.type = Top.type /\ f.node = Top.node
      /\ f.acc = Consumed.acc /\ f.type = Consumed.type
  <2>1. (Consumed.hasOtherwise \/ tree.kind[Segment] = "otherwise") \in BOOLEAN
    OBVIOUS
  <2> QED
    BY <1>3, <2>1 DEF Frame
<1>5. Len(f.acc) <= BranchLimit /\ (f.type = "Body" => Len(f.acc) >= 1)
  BY <1>3, <1>4 DEF FrameWithinCap
<1> HIDE DEF f
<1> QED
  BY <1>1, <1>2, <1>4, <1>5, DescendStep

(* The implicit "no branch" is what may exceed the cap by one.             *)
LEMMA ChooseEndStep ==
  ASSUME Inv, ChooseEnd
  PROVE  Inv'
<1> DEFINE alts == IF Top.hasOtherwise THEN Top.acc ELSE Append(Top.acc, EmptyAlt)
<1>1. phase = "cartesian" /\ ~ arrived /\ Top.type = "Choose" /\ Finish(alts)
  BY DEF ChooseEnd, Stepping, Running
<1>2. /\ Top \in Frame /\ FrameWithinCap(Top) /\ Top.pending = NoTag
  BY <1>1, TopTyped, ConsumedProperties
<1>3. Top.acc \in Seq(Alt) /\ Len(Top.acc) \in Nat /\ Len(Top.acc) <= BranchLimit
  BY <1>2 DEF Frame, FrameWithinCap
<1>4. alts \in Seq(Alt) /\ Len(alts) \in 1 .. BranchLimit + 1
  <2>1. CASE Top.hasOtherwise
    <3>1. Len(Top.acc) >= 1
      BY <1>2, <2>1 DEF FrameWithinCap
    <3> QED
      BY <1>3, <2>1, <3>1, LimitsAssumption
  <2>2. CASE ~ Top.hasOtherwise
    <3>1. /\ Append(Top.acc, EmptyAlt) \in Seq(Alt)
          /\ Len(Append(Top.acc, EmptyAlt)) = Len(Top.acc) + 1
      BY <1>3, EmptyAltType, AppendProperties
    <3>2. alts = Append(Top.acc, EmptyAlt)
      BY <2>2
    <3> QED
      BY <1>3, <3>1, <3>2, LimitsAssumption
  <2> QED
    BY <2>1, <2>2
<1> HIDE DEF alts
<1> QED
  BY <1>1, <1>4, FinishStep

-------------------------------------------------------------------------------
(* The fallback and the union pass.                                        *)

(* The union pass starts over with the root alone.                         *)
LEMMA FallBackStep ==
  ASSUME Inv, FallBack
  PROVE  Inv'
<1>1. /\ phase = "overflow" /\ phase' = "union"
      /\ stack' = <<UnionFrame(Root)>>
      /\ ctx' = [FreshCtx EXCEPT !.depth = 1]
      /\ UNCHANGED <<tree, arrived, incoming, branchCount, result>>
  BY DEF FallBack
<1>2. /\ tree \in Tree /\ incoming = << >> /\ arrived \in BOOLEAN /\ branchCount \in Nat
  BY <1>1 DEF Inv, TypeOK
<1>3. UnionFrame(Root) \in UFrame /\ UnionFrame(Root).type = "Union"
  BY DEF UnionFrame, UFrame, Holder
<1>4. stack' \in Seq(UFrame) /\ Len(stack') = 1 /\ stack'[1].type = "Union"
  BY <1>1, <1>3
<1>5. ctx' \in Ctx /\ ctx'.depth = 1
  <2>1. FreshCtx \in Ctx
    BY DEF FreshCtx, Ctx
  <2> QED
    BY <1>1, <2>1, CtxWithDepth
<1>6. Levels(stack') = {1}
  BY <1>4 DEF Levels
<1>7. TypeOK'
  BY <1>1, <1>2, <1>4, <1>5 DEF TypeOK
<1>8. DepthCountsLevels'
  <2>1. Cardinality(Levels(stack')) = 1
    BY <1>6, FS_Singleton
  <2> QED
    BY <1>5, <2>1, LimitsAssumption DEF DepthCountsLevels
<1>9. WorklistBounded'
  BY <1>4, <1>6, LimitsAssumption DEF WorklistBounded, ChoosesApart
<1>10. WaitingFrames' /\ AlternativesWithinCap'
  BY <1>1 DEF Inv, WaitingFrames, AlternativesWithinCap
<1> QED
  BY <1>7, <1>8, <1>9, <1>10 DEF Inv

(* The types of what the union pass looks at.                              *)
LEMMA UnionTyped ==
  ASSUME Inv, phase = "union", stack # << >>
  PROVE  /\ stack \in Seq(UFrame) /\ Len(stack) \in Nat \ {0}
         /\ Top \in UFrame
         /\ tree \in Tree /\ ctx \in Ctx /\ incoming \in Seq(Piece)
         /\ branchCount \in Nat /\ arrived \in BOOLEAN
<1>1. stack \in Seq(UFrame)
  BY DEF Inv, TypeOK
<1>2. Len(stack) \in Nat \ {0} /\ stack[Len(stack)] \in UFrame
  BY <1>1, EmptySeq
<1> QED
  BY <1>1, <1>2 DEF Inv, TypeOK, Top

(* The running frame goes on with more pieces or further along.            *)
LEMMA UnionResumeStep ==
  ASSUME Inv, phase = "union", stack # << >>,
         NEW f \in UFrame, f.type = Top.type,
         stack' = WithTop(f), ctx' \in Ctx, ctx'.depth = ctx.depth,
         arrived' \in BOOLEAN, incoming' \in Seq(Piece),
         UNCHANGED <<tree, phase, branchCount, result>>
  PROVE  Inv'
<1>1. stack \in Seq(UFrame) /\ tree \in Tree /\ branchCount \in Nat
  BY UnionTyped
<1>2. /\ stack' \in Seq(UFrame) /\ Len(stack') = Len(stack)
      /\ Len(stack) \in Nat \ {0}
  BY <1>1, WithTopProperties
<1>3. Levels(stack') = Levels(stack)
  BY <1>1, LevelsOfWithTop
<1>4. TypeOK'
  BY <1>1, <1>2 DEF TypeOK
<1>5. DepthCountsLevels'
  BY <1>3 DEF Inv, DepthCountsLevels
<1>6. WorklistBounded'
  BY <1>2, <1>3 DEF Inv, WorklistBounded, ChoosesApart
<1>7. WaitingFrames' /\ AlternativesWithinCap'
  BY DEF Inv, WaitingFrames, AlternativesWithinCap
<1> QED
  BY <1>4, <1>5, <1>6, <1>7 DEF Inv

(* The running frame goes below a new one.                                 *)
LEMMA UnionSuspendStep ==
  ASSUME Inv, phase = "union", stack # << >>,
         NEW f \in UFrame, f.type = Top.type,
         NEW g \in UFrame,
         g.type = "UnionChoose" => f.type = "Union",
         g.type = "Union" => ctx.depth < DepthLimit,
         stack' = Append(WithTop(f), g), ctx' \in Ctx,
         ctx'.depth = ctx.depth + (IF g.type = "Union" THEN 1 ELSE 0),
         UNCHANGED <<tree, phase, arrived, incoming, branchCount, result>>
  PROVE  Inv'
<1>1. /\ stack \in Seq(UFrame) /\ tree \in Tree /\ branchCount \in Nat
      /\ incoming \in Seq(Piece) /\ arrived \in BOOLEAN
  BY UnionTyped
<1>2. /\ stack' \in Seq(UFrame)
      /\ Len(stack') = Len(stack) + 1
      /\ \A i \in 1 .. Len(stack) - 1 : stack'[i] = stack[i]
      /\ stack'[Len(stack)] = f
      /\ stack'[Len(stack) + 1] = g
      /\ Len(stack) \in Nat \ {0}
  <2>1. PushOf(UFrame, stack', f, g)
    BY <1>1, PushProperties, Zenon
  <2> QED
    BY <2>1 DEF PushOf
<1>3. TypeOK'
  BY <1>1, <1>2 DEF TypeOK
<1>4. Cardinality(Levels(stack')) =
        Cardinality(Levels(stack)) + (IF g.type \in {"Body", "Union"} THEN 1 ELSE 0)
  BY <1>1, LevelsOfPushed
<1>5. DepthCountsLevels'
  <2>1. ctx.depth = Cardinality(Levels(stack)) /\ ctx.depth <= DepthLimit
    BY DEF Inv, DepthCountsLevels
  <2>2. Cardinality(Levels(stack)) \in Nat
    BY <1>1, LevelsFinite
  <2>3. g.type \in {"Union", "UnionChoose"}
    BY DEF UFrame
  <2> QED
    BY <1>4, <2>1, <2>2, <2>3, LimitsAssumption DEF DepthCountsLevels
<1>6. ChoosesApart'
  <2>1. \A i \in 1 .. Len(stack) : i \in Levels(stack') <=> i \in Levels(stack)
    <3>1. \A i \in 1 .. Len(stack) : stack'[i].type = stack[i].type
      BY <1>2 DEF Top
    <3>2. DOMAIN stack' = 1 .. Len(stack) + 1 /\ DOMAIN stack = 1 .. Len(stack)
      BY <1>1, <1>2
    <3>3. Len(stack) \in Nat
      BY <1>2
    <3>4. \A i \in 1 .. Len(stack) : i \in 1 .. Len(stack) + 1
      BY <3>3
    <3> QED
      BY <3>1, <3>2, <3>4, Zenon DEF Levels
  <2>2. Len(stack) \in Levels(stack') \/ Len(stack) + 1 \in Levels(stack')
    BY <1>2 DEF Levels, UFrame
  <2>3. \A i \in 1 .. Len(stack) - 1 : i \in Levels(stack) \/ i + 1 \in Levels(stack)
    BY DEF Inv, WorklistBounded, ChoosesApart
  <2>4. 1 \in Levels(stack)
    BY DEF Inv, WorklistBounded, ChoosesApart
  <2> QED
    BY <1>2, <2>1, <2>2, <2>3, <2>4 DEF ChoosesApart
<1>7. WorklistBounded'
  <2>1. Len(stack') <= 2 * DepthLimit
    BY <1>2, <1>5, <1>6, LengthFollows DEF ChoosesApart, DepthCountsLevels
  <2> QED
    BY <1>6, <2>1 DEF WorklistBounded
<1>8. WaitingFrames' /\ AlternativesWithinCap'
  BY DEF Inv, WaitingFrames, AlternativesWithinCap
<1> QED
  BY <1>3, <1>5, <1>7, <1>8 DEF Inv

(* A frame of the union pass that has been read is left with its pieces.   *)
LEMMA UnionEndStep ==
  ASSUME Inv, UnionEnd
  PROVE  Inv'
<1>1. /\ phase = "union" /\ stack # << >>
      /\ stack' = Below
      /\ ctx' = [ctx EXCEPT !.depth = @ - (IF Top.type = "Union" THEN 1 ELSE 0)]
      /\ tree' = tree /\ branchCount' = branchCount
  BY DEF UnionEnd, UStepping
<1>2. /\ stack \in Seq(UFrame) /\ Top \in UFrame
      /\ tree \in Tree /\ ctx \in Ctx /\ branchCount \in Nat
  BY <1>1, UnionTyped
<1>3. /\ stack' \in Seq(UFrame)
      /\ Len(stack') = Len(stack) - 1
      /\ \A i \in 1 .. Len(stack) - 1 : stack'[i] = stack[i]
      /\ Len(stack) \in Nat \ {0}
  BY <1>1, <1>2, BelowProperties
<1>4. /\ ctx' \in Ctx
      /\ ctx'.depth = ctx.depth - (IF Top.type = "Union" THEN 1 ELSE 0)
  <2>1. ctx.depth - (IF Top.type = "Union" THEN 1 ELSE 0) \in Int
    BY <1>2 DEF Ctx
  <2> QED
    BY <1>1, <1>2, <2>1, CtxWithDepth
<1>5. \/ /\ stack' = << >> /\ phase' = "done" /\ arrived' = FALSE /\ incoming' = << >>
         /\ result'.kind = "union"
      \/ /\ stack' # << >> /\ phase' = phase /\ arrived' = TRUE
         /\ incoming' = Top.pieces /\ result' = result
  BY <1>1 DEF UnionEnd
<1>6. TypeOK'
  <2>1. Top.pieces \in Seq(Piece)
    BY <1>2 DEF UFrame
  <2> QED
    BY <1>1, <1>2, <1>3, <1>4, <1>5, <2>1 DEF TypeOK
<1>7. DepthCountsLevels'
  <2>1. Cardinality(Levels(stack')) =
          Cardinality(Levels(stack)) - (IF Top.type \in {"Body", "Union"} THEN 1 ELSE 0)
    BY <1>1, <1>2, LevelsOfBelow
  <2>2. Top.type \in {"Union", "UnionChoose"}
    BY <1>2 DEF UFrame
  <2>3. ctx.depth = Cardinality(Levels(stack)) /\ ctx.depth <= DepthLimit
    BY DEF Inv, DepthCountsLevels
  <2>4. Cardinality(Levels(stack)) \in Nat
    BY <1>2, LevelsFinite
  <2> QED
    BY <1>4, <2>1, <2>2, <2>3, <2>4, LimitsAssumption DEF DepthCountsLevels
<1>8. ChoosesApart'
  <2>1. \A i \in 1 .. Len(stack') : i \in Levels(stack') <=> i \in Levels(stack)
    BY <1>2, <1>3 DEF Levels
  <2>2. /\ 1 \in Levels(stack)
        /\ \A i \in 1 .. Len(stack) - 1 : i \in Levels(stack) \/ i + 1 \in Levels(stack)
    BY <1>1 DEF Inv, WorklistBounded, ChoosesApart
  <2>3. stack' # << >> => Len(stack') \in Nat \ {0}
    BY <1>3, EmptySeq
  <2> QED
    BY <1>3, <2>1, <2>2, <2>3 DEF ChoosesApart
<1>9. WorklistBounded'
  <2>1. Len(stack') <= 2 * DepthLimit
    BY <1>3, <1>7, <1>8, LengthFollows DEF ChoosesApart, DepthCountsLevels
  <2> QED
    BY <1>8, <2>1 DEF WorklistBounded
<1>10. WaitingFrames' /\ AlternativesWithinCap'
  BY <1>1, <1>5 DEF Inv, WaitingFrames, AlternativesWithinCap
<1> QED
  BY <1>6, <1>7, <1>9, <1>10 DEF Inv

(* The segment a union frame looks at, and the frame once past it.         *)
LEMMA ConsumeProperties ==
  ASSUME Inv, phase = "union", stack # << >>, HasSegment
  PROVE  /\ Segment \in Node
         /\ Top.idx \in 1 .. Len(tree.kids[Top.node]) /\ Top.node \in Holder
         /\ Consume \in UFrame /\ Consume.type = Top.type
         /\ Consume.pieces = Top.pieces
<1>1. Top \in UFrame /\ tree \in Tree
  BY UnionTyped
<1>2. Top.node \in Holder /\ Top.idx \in Nat \ {0}
  BY <1>1 DEF UFrame
<1>3. tree.kids[Top.node] \in Seq(Node)
  BY <1>1, <1>2 DEF Tree
<1>4. Segment \in Node /\ Top.idx \in 1 .. Len(tree.kids[Top.node])
  BY <1>2, <1>3 DEF HasSegment, Segment
<1>5. Consume \in UFrame /\ Consume.type = Top.type /\ Consume.pieces = Top.pieces
  BY <1>1 DEF Consume, UFrame
<1> QED
  BY <1>2, <1>4, <1>5

(* A run of text is one piece.                                             *)
LEMMA UnionTextStep ==
  ASSUME Inv, UnionText
  PROVE  Inv'
<1> DEFINE run == TextRun(tree, Top.node, Top.idx)
           piece == [what |-> "text", of |-> run]
           f == [Top EXCEPT !.idx = RunEnd(tree, Top.node, Top.idx),
                            !.pieces = Append(@, piece)]
<1>1. /\ phase = "union" /\ stack # << >> /\ HasSegment
      /\ stack' = WithTop(f)
      /\ ctx' = [ctx EXCEPT !.paths = @ \o run]
      /\ UNCHANGED <<tree, phase, arrived, incoming, branchCount, result>>
  BY DEF UnionText, UStepping
<1>2. /\ Top \in UFrame /\ ctx \in Ctx /\ incoming \in Seq(Piece) /\ tree \in Tree
      /\ arrived \in BOOLEAN
  BY <1>1, UnionTyped
<1>3. RunEnd(tree, Top.node, Top.idx) \in Nat \ {0} /\ run \in Seq(Node)
  <2>1. Top.idx \in 1 .. Len(tree.kids[Top.node]) /\ Top.node \in Holder
    BY <1>1, ConsumeProperties
  <2>2. /\ RunEnd(tree, Top.node, Top.idx) \in Top.idx .. Len(tree.kids[Top.node]) + 1
        /\ run \in Seq(Node)
    BY <1>2, <2>1, RunEndType
  <2> QED
    BY <2>1, <2>2
<1> HIDE DEF run
<1>4. piece \in Piece
  BY <1>3 DEF Piece
<1> HIDE DEF piece
<1>5. f \in UFrame /\ f.type = Top.type
  <2>1. Append(Top.pieces, piece) \in Seq(Piece)
    BY <1>2, <1>4 DEF UFrame
  <2> QED
    BY <1>2, <1>3, <2>1 DEF UFrame
<1> HIDE DEF f
<1>6. ctx' \in Ctx /\ ctx'.depth = ctx.depth
  <2>1. ctx.paths \o run \in Seq(Node)
    BY <1>2, <1>3 DEF Ctx
  <2> QED
    BY <1>1, <1>2, <2>1 DEF Ctx
<1>7. arrived' \in BOOLEAN /\ incoming' \in Seq(Piece)
  BY <1>1, <1>2
<1> QED
  BY <1>1, <1>5, <1>6, <1>7, UnionResumeStep

(* A segment adds pieces, paths and includes, and is consumed.             *)
LEMMA ContributeStep ==
  ASSUME Inv, phase = "union", stack # << >>, HasSegment,
         NEW pieces \in Seq(Piece), NEW paths \in Seq(Node), NEW includes \in Seq(Node),
         Contribute(pieces, paths, includes)
  PROVE  Inv'
<1> DEFINE f == [Consume EXCEPT !.pieces = @ \o pieces]
<1>1. /\ stack' = WithTop(f)
      /\ ctx' = [ctx EXCEPT !.paths = @ \o paths, !.includes = @ \o includes]
      /\ UNCHANGED <<tree, phase, arrived, incoming, branchCount, result>>
  BY DEF Contribute
<1>2. /\ ctx \in Ctx /\ incoming \in Seq(Piece) /\ arrived \in BOOLEAN
      /\ Consume \in UFrame /\ Consume.type = Top.type
  BY UnionTyped, ConsumeProperties
<1>3. f \in UFrame /\ f.type = Top.type
  <2>1. Consume.pieces \o pieces \in Seq(Piece)
    BY <1>2 DEF UFrame
  <2> QED
    BY <1>2, <2>1 DEF UFrame
<1> HIDE DEF f
<1>4. ctx' \in Ctx /\ ctx'.depth = ctx.depth
  <2>1. ctx.paths \o paths \in Seq(Node) /\ ctx.includes \o includes \in Seq(Node)
    BY <1>2 DEF Ctx
  <2> QED
    BY <1>1, <1>2, <2>1 DEF Ctx
<1>5. arrived' \in BOOLEAN /\ incoming' \in Seq(Piece)
  BY <1>1, <1>2
<1> QED
  BY <1>1, <1>3, <1>4, <1>5, UnionResumeStep

(* Includes, binds and what the union pass skips have nothing inside.      *)
LEMMA UnionLeafStep ==
  ASSUME Inv, UnionInclude \/ UnionBind \/ UnionSkip
  PROVE  Inv'
<1>1. phase = "union" /\ stack # << >> /\ HasSegment
  BY DEF UnionInclude, UnionBind, UnionSkip, UStepping
<1>2. Segment \in Node
  BY <1>1, ConsumeProperties
<1>3. CASE UnionInclude
  <2>1. <<[what |-> "include", of |-> <<Segment>>]>> \in Seq(Piece)
    BY <1>2 DEF Piece
  <2>2. << >> \in Seq(Node) /\ RecordedInclude(Segment) \in Seq(Node)
    BY <1>2 DEF RecordedInclude
  <2>3. Contribute(<<[what |-> "include", of |-> <<Segment>>]>>, << >>,
                   RecordedInclude(Segment))
    BY <1>3 DEF UnionInclude
  <2> QED
    BY <1>1, <2>1, <2>2, <2>3, ContributeStep
<1>4. CASE UnionBind
  <2>1. << >> \in Seq(Piece) /\ << >> \in Seq(Node) /\ <<Segment>> \in Seq(Node)
    BY <1>2
  <2>2. Contribute(<< >>, <<Segment>>, << >>)
    BY <1>4 DEF UnionBind
  <2> QED
    BY <1>1, <2>1, <2>2, ContributeStep
<1>5. CASE UnionSkip
  <2>1. << >> \in Seq(Piece) /\ << >> \in Seq(Node)
    OBVIOUS
  <2>2. Contribute(<< >>, << >>, << >>)
    BY <1>5 DEF UnionSkip
  <2> QED
    BY <1>1, <2>1, <2>2, ContributeStep
<1> QED
  BY <1>3, <1>4, <1>5

(* A choose suspends the frame of the union pass, on the same level.       *)
LEMMA UnionChooseStep ==
  ASSUME Inv, UnionChoose
  PROVE  Inv'
<1>1. /\ phase = "union" /\ stack # << >> /\ HasSegment /\ Top.type = "Union"
      /\ stack' = Append(WithTop(Consume), UnionChooseFrame(Segment))
      /\ UNCHANGED <<tree, phase, arrived, incoming, ctx, branchCount, result>>
  BY DEF UnionChoose, UStepping
<1>2. ctx \in Ctx /\ Segment \in Node /\ Consume \in UFrame /\ Consume.type = Top.type
  BY <1>1, UnionTyped, ConsumeProperties
<1>3. /\ UnionChooseFrame(Segment) \in UFrame
      /\ UnionChooseFrame(Segment).type = "UnionChoose"
  BY <1>2 DEF UnionChooseFrame, UFrame, Holder
<1>4. ctx' \in Ctx /\ ctx'.depth = ctx.depth + 0
  BY <1>1, <1>2 DEF Ctx
<1> QED
  BY <1>1, <1>2, <1>3, <1>4, UnionSuspendStep

(* The union pass goes one level down, or skips the segment at the limit.  *)
LEMMA UDescendStep ==
  ASSUME Inv, phase = "union", stack # << >>, HasSegment,
         NEW c \in Ctx, c.depth = ctx.depth, UDescend(Segment, c)
  PROVE  Inv'
<1>1. /\ ctx \in Ctx /\ Segment \in Node /\ Consume \in UFrame /\ Consume.type = Top.type
      /\ incoming \in Seq(Piece) /\ arrived \in BOOLEAN
  BY UnionTyped, ConsumeProperties
<1>2. CASE DepthReached
  <2>1. /\ stack' = WithTop(Consume)
        /\ ctx' = [c EXCEPT !.diags = Append(@, Diag("NestingLimitExceeded", Segment))]
        /\ UNCHANGED <<tree, phase, arrived, incoming, branchCount, result>>
    BY <1>2 DEF UDescend
  <2>2. ctx' \in Ctx /\ ctx'.depth = ctx.depth
    <3>1. Diag("NestingLimitExceeded", Segment) \in Diagnostic
      BY <1>1 DEF Diag, Diagnostic, Holder
    <3>2. Append(c.diags, Diag("NestingLimitExceeded", Segment)) \in Seq(Diagnostic)
      BY <3>1 DEF Ctx
    <3> QED
      BY <2>1, <3>2 DEF Ctx
  <2>3. arrived' \in BOOLEAN /\ incoming' \in Seq(Piece)
    BY <1>1, <2>1
  <2> QED
    BY <1>1, <2>1, <2>2, <2>3, UnionResumeStep
<1>3. CASE ~ DepthReached
  <2>1. /\ stack' = Append(WithTop(Consume), UnionFrame(Segment))
        /\ ctx' = [c EXCEPT !.depth = @ + 1]
        /\ UNCHANGED <<tree, phase, arrived, incoming, branchCount, result>>
    BY <1>3 DEF UDescend
  <2>2. UnionFrame(Segment) \in UFrame /\ UnionFrame(Segment).type = "Union"
    BY <1>1 DEF UnionFrame, UFrame, Holder
  <2>3. ctx' \in Ctx /\ ctx'.depth = ctx.depth + 1
    <3>1. c.depth + 1 \in Int
      BY DEF Ctx
    <3> QED
      BY <2>1, <3>1, CtxWithDepth
  <2>4. ctx.depth < DepthLimit
    <3>1. ctx.depth \in Int
      BY <1>1 DEF Ctx
    <3> QED
      BY <1>3, <3>1, LimitsAssumption DEF DepthReached
  <2> QED
    BY <1>1, <2>1, <2>2, <2>3, <2>4, UnionSuspendStep
<1> QED
  BY <1>2, <1>3

(* Containers and branches are what the union pass descends into.          *)
LEMMA UnionDescentStep ==
  ASSUME Inv, UnionContainer \/ UnionBranch
  PROVE  Inv'
<1> DEFINE seen == [ctx EXCEPT !.paths = Append(@, Segment)]
<1>1. phase = "union" /\ stack # << >> /\ HasSegment
  BY DEF UnionContainer, UnionBranch, UStepping
<1>2. ctx \in Ctx /\ Segment \in Node
  BY <1>1, UnionTyped, ConsumeProperties
<1>3. seen \in Ctx /\ seen.depth = ctx.depth
  <2>1. Append(ctx.paths, Segment) \in Seq(Node)
    BY <1>2 DEF Ctx
  <2> QED
    BY <1>2, <2>1 DEF Ctx
<1>4. UDescend(Segment, seen) \/ UDescend(Segment, ctx)
  BY DEF UnionContainer, UnionBranch
<1> HIDE DEF seen
<1> QED
  BY <1>1, <1>2, <1>3, <1>4, UDescendStep

(* The pieces of what has been read are added to the frame below.          *)
LEMMA UnionDeliverStep ==
  ASSUME Inv, UnionDeliver
  PROVE  Inv'
<1> DEFINE f == [Top EXCEPT !.pieces = @ \o incoming]
<1>1. /\ phase = "union" /\ stack # << >>
      /\ stack' = WithTop(f)
      /\ arrived' = FALSE /\ incoming' = << >>
      /\ UNCHANGED <<tree, phase, ctx, branchCount, result>>
  BY DEF UnionDeliver
<1>2. Top \in UFrame /\ incoming \in Seq(Piece) /\ ctx \in Ctx
  BY <1>1, UnionTyped
<1>3. f \in UFrame /\ f.type = Top.type
  <2>1. Top.pieces \o incoming \in Seq(Piece)
    BY <1>2 DEF UFrame
  <2> QED
    BY <1>2, <2>1 DEF UFrame
<1> HIDE DEF f
<1>4. arrived' \in BOOLEAN /\ incoming' \in Seq(Piece)
  <2>1. arrived' \in BOOLEAN
    BY <1>1, Zenon
  <2>2. incoming' \in Seq(Piece)
    BY <1>1
  <2> QED
    BY <2>1, <2>2
<1>5. ctx' \in Ctx /\ ctx'.depth = ctx.depth
  BY <1>1, <1>2
<1> QED
  BY <1>1, <1>3, <1>4, <1>5, UnionResumeStep

-------------------------------------------------------------------------------
(* The walk starts with the root's frame, at depth one.                    *)
LEMMA InvInit == Init => Inv
<1> SUFFICES ASSUME Init PROVE Inv
  OBVIOUS
<1>1. /\ tree \in Tree /\ phase = "cartesian" /\ stack = <<BodyFrame(Root)>>
      /\ arrived = FALSE /\ incoming = << >> /\ branchCount = 0 /\ result = NoResult
      /\ ctx = [FreshCtx EXCEPT !.depth = 1]
  BY TreesAssumption DEF Init
<1>2. /\ BodyFrame(Root) \in Frame /\ BodyFrame(Root).type = "Body"
      /\ BodyFrame(Root).pending = NoTag /\ BodyFrame(Root).acc = <<EmptyAlt>>
  BY EmptyAltType DEF BodyFrame, Frame, Holder
<1>3. stack \in Seq(Frame) /\ Len(stack) = 1 /\ stack[1] = BodyFrame(Root)
  BY <1>1, <1>2
<1>4. ctx \in Ctx /\ ctx.depth = 1
  <2>1. /\ [FreshCtx EXCEPT !.depth = 1] \in Ctx
        /\ [FreshCtx EXCEPT !.depth = 1].depth = 1
    <3>1. FreshCtx \in Ctx
      BY DEF FreshCtx, Ctx
    <3> QED
      BY <3>1, CtxWithDepth
  <2> QED
    BY <1>1, <2>1, Zenon
<1>5. Levels(stack) = {1} /\ Cardinality(Levels(stack)) = 1
  <2>1. Levels(stack) = {1}
    BY <1>2, <1>3 DEF Levels
  <2> QED
    BY <2>1, FS_Singleton
<1>6. TypeOK
  <2>1. incoming \in Seq(Alt) /\ branchCount \in Nat
    BY <1>1
  <2>2. arrived \in BOOLEAN
    BY <1>1, Zenon
  <2> QED
    BY <1>1, <1>3, <1>4, <2>1, <2>2 DEF TypeOK
<1>7. DepthCountsLevels
  BY <1>4, <1>5, LimitsAssumption DEF DepthCountsLevels
<1>8. WaitingFrames
  BY <1>1, <1>2, <1>3 DEF WaitingFrames, Top
<1>9. WorklistBounded
  BY <1>3, <1>5, LimitsAssumption DEF WorklistBounded, ChoosesApart
<1>10. AlternativesWithinCap
  <2>1. FrameWithinCap(stack[1])
    <3>1. Len(BodyFrame(Root).acc) = 1
      BY <1>2
    <3> QED
      BY <1>3, <3>1, LimitsAssumption DEF FrameWithinCap
  <2> QED
    BY <1>1, <1>3, <2>1 DEF AlternativesWithinCap, NoResult
<1> QED
  BY <1>6, <1>7, <1>8, <1>9, <1>10 DEF Inv

(* One case per action.                                                    *)
LEMMA InvNext == Inv /\ [Next]_vars => Inv'
<1> SUFFICES ASSUME Inv, [Next]_vars PROVE Inv'
  OBVIOUS
<1>1. CASE CartesianNext
  BY <1>1, BodyTextStep, BodyIncludeStep, BodyBindStep, BodyChooseStep,
     BodyWrapperStep, BodyTransparentStep, BodyEndStep, DeliverStep,
     ChooseStrayStep, ChooseBranchStep, ChooseEndStep DEF CartesianNext
<1>2. CASE FallBack
  BY <1>2, FallBackStep
<1>3. CASE UnionNext
  BY <1>3, UnionTextStep, UnionLeafStep, UnionChooseStep, UnionDescentStep,
     UnionEndStep, UnionDeliverStep DEF UnionNext
<1>4. CASE UNCHANGED vars
  BY <1>4 DEF vars, Inv, TypeOK, DepthCountsLevels, WaitingFrames, WorklistBounded,
     ChoosesApart, AlternativesWithinCap, Top
<1> QED
  BY <1>1, <1>2, <1>3, <1>4 DEF Next

(* The books are kept in every state.                                      *)
LEMMA InvAlways == Spec => []Inv
BY InvInit, InvNext, PTL DEF Spec

(* The worklist and the side channels hold frames, alternatives, pieces    *)
(* and diagnostics of the kinds flatten_body's types admit, in every phase. *)
THEOREM TypeCorrect == Spec => []TypeOK
<1>1. Inv => TypeOK
  BY DEF Inv
<1> QED
  BY <1>1, InvAlways, PTL

(* Ctx::depth, counted up in one place and down in two others, is the      *)
(* number of bodies being walked at every step and never exceeds           *)
(* DEPTH_LIMIT.                                                            *)
THEOREM DepthCorrect == Spec => []DepthCountsLevels
<1>1. Inv => DepthCountsLevels
  BY DEF Inv
<1> QED
  BY <1>1, InvAlways, PTL

(* No answer reaches a frame that does not wait for it, so `deliver` never *)
(* drops alternatives.                                                     *)
THEOREM DeliveryCorrect == Spec => []WaitingFrames
<1>1. Inv => WaitingFrames
  BY DEF Inv
<1> QED
  BY <1>1, InvAlways, PTL

(* However chooses and tags are nested, the worklist holds at most two     *)
(* frames for each level DEPTH_LIMIT allows.                               *)
THEOREM WorklistCorrect == Spec => []WorklistBounded
<1>1. Inv => WorklistBounded
  BY DEF Inv
<1> QED
  BY <1>1, InvAlways, PTL

(* No accumulator ever exceeds BRANCH_LIMIT, no delivery exceeds it by     *)
(* more than one, and the answer is never empty.                           *)
THEOREM CapCorrect == Spec => []AlternativesWithinCap
<1>1. Inv => AlternativesWithinCap
  BY DEF Inv
<1> QED
  BY <1>1, InvAlways, PTL

-------------------------------------------------------------------------------
(* The flag.                                                               *)

(* A frame that waits for the body of an unknown element.                  *)
Silences(t, f) ==
  f.type = "Body" /\ f.pending # NoTag /\ IsUnknown(t, f.pending)

(* The frame at i is inside an unknown element.                            *)
SilencedBelow(t, s, i) == \E j \in 1 .. i - 1 : Silences(t, s[j])

(* A frame that waits for a transparent tag's body puts the flag back to   *)
(* what it is on account of the frames below.                              *)
Remembers(t, s, i) ==
  s[i].type = "Body" /\ s[i].pending # NoTag /\ IsTransparent(t, s[i].pending) =>
    (s[i].was <=> SilencedBelow(t, s, i))

(* The flag tells whether any frame silences, and every frame of a         *)
(* transparent tag remembers what it was.                                  *)
FlagHandled(t, s, flag) ==
  /\ flag <=> SilencedBelow(t, s, Len(s) + 1)
  /\ \A i \in 1 .. Len(s) : Remembers(t, s, i)

(* UnknownFlagIsScoped made inductive.                                     *)
FlagRemembered ==
  phase = "cartesian" => FlagHandled(tree, stack, ctx.insideUnknown)

(* The flag is then up exactly within unknown elements.                    *)
LEMMA FlagIsScoped ==
  ASSUME Inv, FlagRemembered
  PROVE  UnknownFlagIsScoped
<1> SUFFICES ASSUME phase = "cartesian" PROVE UnknownFlagIsScoped
  BY DEF UnknownFlagIsScoped
<1>1. DOMAIN stack = 1 .. Len(stack) /\ Len(stack) \in Nat
  BY TopTyped
<1>2. 1 .. (Len(stack) + 1) - 1 = 1 .. Len(stack)
  BY <1>1
<1>3. ctx.insideUnknown <=> \E i \in DOMAIN stack : Silences(tree, stack[i])
  BY <1>1, <1>2, Zenon DEF FlagRemembered, FlagHandled, SilencedBelow
<1> QED
  BY <1>3, Zenon DEF UnknownFlagIsScoped, Silences

(* A worklist that is the present one below some place is silenced alike   *)
(* up to there, and remembers the same.                                    *)
LEMMA SilencedAlike ==
  ASSUME NEW t, NEW r, NEW s, NEW n \in Nat, \A j \in 1 .. n : s[j] = r[j]
  PROVE  /\ \A i \in 1 .. n + 1 : SilencedBelow(t, s, i) <=> SilencedBelow(t, r, i)
         /\ \A i \in 1 .. n : Remembers(t, r, i) => Remembers(t, s, i)
<1>1. \A i \in 1 .. n + 1 : SilencedBelow(t, s, i) <=> SilencedBelow(t, r, i)
  <2> TAKE i \in 1 .. n + 1
  <2>1. \A j \in 1 .. i - 1 : j \in 1 .. n
    OBVIOUS
  <2>2. \A j \in 1 .. i - 1 : s[j] = r[j]
    BY <2>1
  <2> QED
    BY <2>2, Zenon DEF SilencedBelow
<1>2. \A i \in 1 .. n : Remembers(t, r, i) => Remembers(t, s, i)
  <2> TAKE i \in 1 .. n
  <2>1. i \in 1 .. n + 1
    OBVIOUS
  <2>2. s[i] = r[i] /\ (SilencedBelow(t, s, i) <=> SilencedBelow(t, r, i))
    BY <1>1, <2>1
  <2> QED
    BY <2>2, Zenon DEF Remembers
<1> QED
  BY <1>1, <1>2

(* One more frame on a worklist adds what it waits for.                    *)
LEMMA SilencedByOne ==
  ASSUME NEW t, NEW s, NEW n \in Nat \ {0}
  PROVE  SilencedBelow(t, s, n + 1) <=> SilencedBelow(t, s, n) \/ Silences(t, s[n])
<1>1. \A j : j \in 1 .. (n + 1) - 1 <=> j \in 1 .. n - 1 \/ j = n
  OBVIOUS
<1> QED
  BY <1>1, Zenon DEF SilencedBelow

(* While a frame steps it waits for nothing, so the flag is what the       *)
(* frames below it make it.                                                *)
LEMMA FlagBelowTop ==
  ASSUME Inv, phase = "cartesian", FlagRemembered
  PROVE  /\ Top.pending = NoTag =>
              (ctx.insideUnknown <=> SilencedBelow(tree, stack, Len(stack)))
         /\ Len(stack) \in Nat \ {0}
         /\ \A i \in 1 .. Len(stack) : Remembers(tree, stack, i)
<1>1. Len(stack) \in Nat \ {0}
  BY TopTyped
<1>2. FlagHandled(tree, stack, ctx.insideUnknown)
  BY DEF FlagRemembered
<1>3. SilencedBelow(tree, stack, Len(stack) + 1) <=>
        SilencedBelow(tree, stack, Len(stack)) \/ Silences(tree, Top)
  BY <1>1, SilencedByOne DEF Top
<1> QED
  BY <1>1, <1>2, <1>3, Zenon DEF FlagHandled, Silences

(* Rewriting the top frame leaves the others, whatever is put there.       *)
LEMMA WithTopOfAny ==
  ASSUME NEW S, stack \in Seq(S), stack # << >>, NEW f
  PROVE  /\ Len(WithTop(f)) = Len(stack)
         /\ \A i \in 1 .. Len(stack) - 1 : WithTop(f)[i] = stack[i]
         /\ WithTop(f)[Len(stack)] = f
         /\ Len(stack) \in Nat \ {0}
<1> DEFINE T == S \cup {f}
<1>1. stack \in Seq(T) /\ f \in T
  OBVIOUS
<1> HIDE DEF T
<1> QED
  BY <1>1, WithTopProperties

(* The running frame goes on, or resumes.                                  *)
LEMMA FlagResumed ==
  ASSUME Inv, phase = "cartesian", FlagRemembered, tree' = tree,
         NEW f, f.pending = NoTag, stack' = WithTop(f),
         ctx'.insideUnknown <=> SilencedBelow(tree, stack, Len(stack))
  PROVE  FlagRemembered'
<1>1. stack \in Seq(Frame) /\ stack # << >>
  BY TopTyped
<1>2. /\ Len(stack') = Len(stack) /\ Len(stack) \in Nat \ {0}
      /\ \A i \in 1 .. Len(stack) - 1 : stack'[i] = stack[i]
      /\ stack'[Len(stack)] = f
  BY <1>1, WithTopOfAny
<1> DEFINE n == Len(stack)
           s == stack'
<1>3. /\ \A i \in 1 .. n : SilencedBelow(tree, s, i) <=> SilencedBelow(tree, stack, i)
      /\ \A i \in 1 .. n - 1 : Remembers(tree, stack, i) => Remembers(tree, s, i)
  <2>1. n - 1 \in Nat /\ (n - 1) + 1 = n /\ \A j \in 1 .. n - 1 : s[j] = stack[j]
    BY <1>2
  <2> HIDE DEF n, s
  <2>2. /\ \A i \in 1 .. (n - 1) + 1 :
             SilencedBelow(tree, s, i) <=> SilencedBelow(tree, stack, i)
        /\ \A i \in 1 .. n - 1 : Remembers(tree, stack, i) => Remembers(tree, s, i)
    BY <2>1, SilencedAlike, Zenon
  <2> QED
    BY <2>1, <2>2
<1>4. ~ Silences(tree, s[n]) /\ Remembers(tree, s, n)
  BY <1>2 DEF Silences, Remembers
<1>5. SilencedBelow(tree, s, n + 1) <=> SilencedBelow(tree, stack, n)
  <2>1. n \in Nat \ {0} /\ n \in 1 .. n
    BY <1>2
  <2>2. SilencedBelow(tree, s, n + 1) <=> SilencedBelow(tree, s, n) \/ Silences(tree, s[n])
    BY <2>1, SilencedByOne
  <2> QED
    BY <1>3, <1>4, <2>1, <2>2
<1>6. \A i \in 1 .. n : Remembers(tree, s, i)
  <2>1. \A i \in 1 .. n : i \in 1 .. n - 1 \/ i = n
    BY <1>2
  <2>2. \A i \in 1 .. n - 1 : i \in 1 .. n
    BY <1>2
  <2> QED
    BY <1>3, <1>4, <2>1, <2>2, FlagBelowTop
<1>7. FlagHandled(tree, s, ctx'.insideUnknown)
  BY <1>2, <1>5, <1>6 DEF FlagHandled
<1> QED
  BY <1>7 DEF FlagRemembered

(* The running frame goes below a new one.                                 *)
LEMMA FlagSuspended ==
  ASSUME Inv, phase = "cartesian", FlagRemembered, tree' = tree,
         NEW f \in Frame, Remembers(tree, WithTop(f), Len(stack)),
         NEW g \in Frame, g.pending = NoTag, stack' = Append(WithTop(f), g),
         ctx'.insideUnknown <=>
           SilencedBelow(tree, stack, Len(stack)) \/ Silences(tree, f)
  PROVE  FlagRemembered'
<1>1. stack \in Seq(Frame) /\ stack # << >>
  BY TopTyped
<1> DEFINE n == Len(stack)
           s == stack'
           mid == WithTop(f)
<1>2. /\ Len(s) = n + 1 /\ n \in Nat \ {0}
      /\ \A i \in 1 .. n - 1 : mid[i] = stack[i]
      /\ \A i \in 1 .. n : s[i] = mid[i]
      /\ mid[n] = f /\ s[n + 1] = g
  <2>1. /\ mid \in Seq(Frame) /\ Len(mid) = n /\ n \in Nat \ {0}
        /\ \A i \in 1 .. n - 1 : mid[i] = stack[i]
        /\ mid[n] = f
    BY <1>1, WithTopProperties
  <2> HIDE DEF mid
  <2>2. s = Append(mid, g)
    BY DEF mid
  <2>3. /\ Len(s) = Len(mid) + 1 /\ s[Len(mid) + 1] = g
        /\ \A i \in 1 .. Len(mid) : s[i] = mid[i]
    BY <2>1, <2>2
  <2> QED
    BY <2>1, <2>3
<1>3. /\ \A i \in 1 .. n : SilencedBelow(tree, mid, i) <=> SilencedBelow(tree, stack, i)
      /\ \A i \in 1 .. n - 1 : Remembers(tree, stack, i) => Remembers(tree, mid, i)
  <2>1. n - 1 \in Nat /\ (n - 1) + 1 = n
    BY <1>2
  <2> HIDE DEF n, s, mid
  <2>2. /\ \A i \in 1 .. (n - 1) + 1 :
             SilencedBelow(tree, mid, i) <=> SilencedBelow(tree, stack, i)
        /\ \A i \in 1 .. n - 1 : Remembers(tree, stack, i) => Remembers(tree, mid, i)
    BY <1>2, <2>1, SilencedAlike, Zenon
  <2> QED
    BY <2>1, <2>2
<1>4. /\ \A i \in 1 .. n + 1 : SilencedBelow(tree, s, i) <=> SilencedBelow(tree, mid, i)
      /\ \A i \in 1 .. n : Remembers(tree, mid, i) => Remembers(tree, s, i)
  <2>1. n \in Nat
    BY <1>2
  <2> HIDE DEF n, s, mid
  <2> QED
    BY <1>2, <2>1, SilencedAlike, Zenon
<1>5. SilencedBelow(tree, mid, n + 1) <=>
        SilencedBelow(tree, stack, n) \/ Silences(tree, f)
  <2>1. n \in 1 .. n
    BY <1>2
  <2>2. SilencedBelow(tree, mid, n + 1) <=>
          SilencedBelow(tree, mid, n) \/ Silences(tree, mid[n])
    <3> HIDE DEF mid, n
    <3> QED
      BY <1>2, SilencedByOne
  <2> QED
    BY <1>2, <1>3, <2>1, <2>2, Zenon
<1>6. SilencedBelow(tree, s, n + 1 + 1) <=> ctx'.insideUnknown
  <2>1. n + 1 \in Nat \ {0} /\ n + 1 \in 1 .. n + 1
    BY <1>2
  <2>2. ~ Silences(tree, s[n + 1])
    BY <1>2 DEF Silences
  <2>3. SilencedBelow(tree, s, n + 1 + 1) <=>
          SilencedBelow(tree, s, n + 1) \/ Silences(tree, s[n + 1])
    <3> HIDE DEF s, n
    <3> QED
      BY <2>1, SilencedByOne
  <2> QED
    BY <1>4, <1>5, <2>1, <2>2, <2>3, Zenon
<1>7. \A i \in 1 .. n + 1 : Remembers(tree, s, i)
  <2>1. \A i \in 1 .. n + 1 : i \in 1 .. n \/ i = n + 1
    BY <1>2
  <2>2. \A i \in 1 .. n : i \in 1 .. n - 1 \/ i = n
    BY <1>2
  <2>3. \A i \in 1 .. n - 1 : Remembers(tree, stack, i)
    BY <1>2, FlagBelowTop
  <2>4. Remembers(tree, s, n + 1)
    BY <1>2 DEF Remembers
  <2>5. \A i \in 1 .. n : Remembers(tree, mid, i)
    BY <1>3, <2>2, <2>3
  <2> QED
    BY <1>4, <2>1, <2>4, <2>5
<1>8. FlagHandled(tree, s, ctx'.insideUnknown)
  BY <1>2, <1>6, <1>7 DEF FlagHandled
<1> QED
  BY <1>8 DEF FlagRemembered

(* The frame that is through waited for nothing.                           *)
LEMMA FlagFinished ==
  ASSUME Inv, phase = "cartesian", FlagRemembered, Top.pending = NoTag,
         NEW alts, Finish(alts)
  PROVE  FlagRemembered'
<1>1. stack \in Seq(Frame) /\ stack # << >> /\ ctx \in Ctx
  BY TopTyped
<1>2. /\ Len(Below) = Len(stack) - 1 /\ Len(stack) \in Nat \ {0}
      /\ \A i \in 1 .. Len(stack) - 1 : Below[i] = stack[i]
  BY <1>1, BelowProperties
<1>3. /\ stack' = Below /\ tree' = tree
      /\ ctx' = [ctx EXCEPT !.depth = @ - (IF Top.type = "Body" THEN 1 ELSE 0)]
  BY DEF Finish
<1>4. ctx'.insideUnknown = ctx.insideUnknown
  BY <1>1, <1>3 DEF Ctx
<1> DEFINE n == Len(stack) - 1
<1>5. /\ \A i \in 1 .. n + 1 : SilencedBelow(tree, stack', i) <=> SilencedBelow(tree, stack, i)
      /\ \A i \in 1 .. n : Remembers(tree, stack, i) => Remembers(tree, stack', i)
  <2>1. n \in Nat /\ \A j \in 1 .. n : stack'[j] = stack[j]
    BY <1>2, <1>3
  <2> HIDE DEF n
  <2> QED
    BY <2>1, SilencedAlike, Zenon
<1>6. n + 1 = Len(stack) /\ n + 1 \in 1 .. n + 1 /\ \A i \in 1 .. n : i \in 1 .. Len(stack)
  BY <1>2
<1>7. SilencedBelow(tree, stack', n + 1) <=> ctx'.insideUnknown
  BY <1>4, <1>5, <1>6, FlagBelowTop
<1>8. \A i \in 1 .. n : Remembers(tree, stack', i)
  BY <1>5, <1>6, FlagBelowTop
<1>9. FlagHandled(tree, stack', ctx'.insideUnknown)
  BY <1>2, <1>3, <1>7, <1>8 DEF FlagHandled
<1> QED
  BY <1>3, <1>9 DEF FlagRemembered

(* An answer that is folded in takes the flag back with it, or the pass is *)
(* given up.                                                               *)
LEMMA FlagAbsorbed ==
  ASSUME Inv, phase = "cartesian", FlagRemembered,
         NEW f \in Frame, NEW alts, NEW c \in Ctx, Absorb(f, alts, c),
         RestoredFlag(f, c) <=> SilencedBelow(tree, stack, Len(stack))
  PROVE  FlagRemembered'
<1> DEFINE n == f.pending
           local == IF f.type = "Body" THEN FinishPending(n, alts)
                    ELSE IF tree.kind[n] = "when" THEN Tail(Guarded(n, << >>, alts))
                    ELSE alts
           excess == IF f.type = "Body" THEN Excess(n, f.acc, local)
                     ELSE IF Len(f.acc) + Len(local) > BranchLimit
                          THEN Len(f.acc) + Len(local) ELSE 0
           acc == IF f.type = "Body" THEN Combined(f.acc, local) ELSE f.acc \o local
           resumed == [f EXCEPT !.acc = acc, !.pending = NoTag]
           restored == [c EXCEPT !.insideUnknown = RestoredFlag(f, c)]
<1>1. IF excess > 0 THEN Fail(excess, restored)
      ELSE /\ stack' = WithTop(resumed)
           /\ ctx' = restored
           /\ arrived' = FALSE
           /\ incoming' = << >>
           /\ UNCHANGED <<tree, phase, branchCount, result>>
  BY DEF Absorb
<1> HIDE DEF acc, excess
<1>2. CASE excess > 0
  BY <1>1, <1>2 DEF Fail, FlagRemembered
<1>3. CASE ~ (excess > 0)
  <2>1. stack' = WithTop(resumed) /\ ctx' = restored /\ tree' = tree
    BY <1>1, <1>3
  <2>2. resumed.pending = NoTag
    BY DEF Frame
  <2>3. restored.insideUnknown = RestoredFlag(f, c)
    BY DEF Ctx
  <2> HIDE DEF resumed, restored
  <2> QED
    BY <2>1, <2>2, <2>3, FlagResumed
<1> QED
  BY <1>2, <1>3

(* A descent into tag n remembers the flag as it was, and raises it if n   *)
(* is an unknown element of a body.                                        *)
LEMMA FlagDescended ==
  ASSUME Inv, phase = "cartesian", FlagRemembered, Top.pending = NoTag,
         NEW f \in Frame, NEW n \in Node, NEW c \in Ctx, Descend(f, n, c),
         c.insideUnknown <=>
           ctx.insideUnknown \/ (f.type = "Body" /\ IsUnknown(tree, n))
  PROVE  FlagRemembered'
<1> DEFINE suspended == [f EXCEPT !.pending = n, !.was = ctx.insideUnknown]
           warned == [c EXCEPT !.diags = Append(@, Diag("NestingLimitExceeded", n))]
<1>1. IF DepthReached
      THEN Absorb(suspended, <<EmptyAlt>>, warned)
      ELSE /\ stack' = Append(WithTop(suspended), BodyFrame(n))
           /\ ctx' = [c EXCEPT !.depth = @ + 1]
           /\ UNCHANGED <<tree, phase, arrived, incoming, branchCount, result>>
  BY DEF Descend
<1>2. ctx.insideUnknown <=> SilencedBelow(tree, stack, Len(stack))
  BY FlagBelowTop
<1>3. /\ suspended \in Frame /\ suspended.pending = n
      /\ suspended.was = ctx.insideUnknown /\ suspended.type = f.type
  <2>1. ctx.insideUnknown \in BOOLEAN
    BY TopTyped DEF Ctx
  <2> QED
    BY <2>1 DEF Frame
<1>4. n # NoTag
  BY DEF Node, NoTag
<1>5. IsUnknown(tree, n) => IsTransparent(tree, n)
  BY DEF IsUnknown, IsTransparent
<1> HIDE DEF suspended
<1>6. CASE DepthReached
  <2>1. warned \in Ctx /\ warned.insideUnknown = c.insideUnknown
    <3>1. Diag("NestingLimitExceeded", n) \in Diagnostic
      BY DEF Diag, Diagnostic, Holder
    <3>2. c.diags \in Seq(Diagnostic)
      BY DEF Ctx
    <3>3. Append(c.diags, Diag("NestingLimitExceeded", n)) \in Seq(Diagnostic)
      BY <3>1, <3>2
    <3> QED
      BY <3>3 DEF Ctx
  <2> HIDE DEF warned
  <2>2. RestoredFlag(suspended, warned) <=> SilencedBelow(tree, stack, Len(stack))
    <3>1. CASE f.type = "Body" /\ IsTransparent(tree, n)
      <4>1. RestoredFlag(suspended, warned) = suspended.was
        BY <1>3, <3>1, Zenon DEF RestoredFlag
      <4> QED
        BY <1>2, <1>3, <4>1, Zenon
    <3>2. CASE ~ (f.type = "Body" /\ IsTransparent(tree, n))
      <4>1. RestoredFlag(suspended, warned) = warned.insideUnknown
        BY <1>3, <3>2, Zenon DEF RestoredFlag
      <4>2. ~ (f.type = "Body" /\ IsUnknown(tree, n))
        BY <1>5, <3>2
      <4> QED
        BY <1>2, <2>1, <4>1, <4>2, Zenon
    <3> QED
      BY <3>1, <3>2
  <2> QED
    BY <1>1, <1>3, <1>6, <2>1, <2>2, FlagAbsorbed
<1>7. CASE ~ DepthReached
  <2>1. /\ stack' = Append(WithTop(suspended), BodyFrame(n)) /\ tree' = tree
        /\ ctx' = [c EXCEPT !.depth = @ + 1]
    BY <1>1, <1>7
  <2>2. BodyFrame(n) \in Frame /\ BodyFrame(n).pending = NoTag
    BY EmptyAltType DEF BodyFrame, Frame, Holder
  <2>3. ctx'.insideUnknown = c.insideUnknown
    BY <2>1 DEF Ctx
  <2>4. stack \in Seq(Frame) /\ stack # << >>
    BY TopTyped
  <2>5. /\ WithTop(suspended)[Len(stack)] = suspended /\ Len(stack) \in Nat \ {0}
        /\ \A i \in 1 .. Len(stack) - 1 : WithTop(suspended)[i] = stack[i]
    BY <2>4, WithTopOfAny
  <2>6. SilencedBelow(tree, WithTop(suspended), Len(stack)) <=>
          SilencedBelow(tree, stack, Len(stack))
    BY <2>5, Zenon DEF SilencedBelow
  <2>7. Remembers(tree, WithTop(suspended), Len(stack))
    BY <1>2, <1>3, <2>5, <2>6, Zenon DEF Remembers
  <2>8. Silences(tree, suspended) <=> f.type = "Body" /\ IsUnknown(tree, n)
    BY <1>3, <1>4, Zenon DEF Silences
  <2>9. ctx'.insideUnknown <=>
          SilencedBelow(tree, stack, Len(stack)) \/ Silences(tree, suspended)
    BY <1>2, <2>3, <2>8, Zenon
  <2> QED
    BY <1>3, <2>1, <2>2, <2>7, <2>9, FlagSuspended
<1> QED
  BY <1>6, <1>7

(* A step that leaves the flag alone, and the running frame waiting for    *)
(* nothing.                                                                *)
LEMMA FlagLeftAlone ==
  ASSUME Inv, phase = "cartesian", FlagRemembered, Top.pending = NoTag,
         NEW f, f.pending = NoTag, stack' = WithTop(f), tree' = tree,
         ctx'.insideUnknown = ctx.insideUnknown
  PROVE  FlagRemembered'
<1>1. ctx'.insideUnknown <=> SilencedBelow(tree, stack, Len(stack))
  BY FlagBelowTop
<1> QED
  BY <1>1, FlagResumed

(* Each action of the cartesian pass handles the flag.                     *)
LEMMA FlagStep ==
  ASSUME Inv, FlagRemembered, CartesianNext
  PROVE  FlagRemembered'
<1>1. phase = "cartesian"
  BY DEF CartesianNext, BodyText, BodyInclude, BodyBind, BodyChoose, BodyWrapper,
     BodyTransparent, BodyEnd, BodyDeliver, ChooseStray, ChooseBranch, ChooseEnd,
     ChooseDeliver, Stepping, Delivering, Running
<1>2. Top \in Frame /\ ctx \in Ctx
  BY <1>1, TopTyped
<1>3. ~ arrived => Consumed \in Frame /\ Consumed.type = Top.type
                   /\ Consumed.pending = NoTag /\ Top.pending = NoTag
  BY <1>1, ConsumedProperties
<1>4. CASE BodyText
  <2> DEFINE f == [Top EXCEPT
                    !.idx = RunEnd(tree, Top.node, Top.idx),
                    !.acc = AppendToEach(@, [what |-> "text",
                              of |-> TextRun(tree, Top.node, Top.idx)])]
  <2>1. /\ ~ arrived /\ stack' = WithTop(f) /\ tree' = tree
        /\ ctx' = [ctx EXCEPT !.paths = @ \o TextRun(tree, Top.node, Top.idx)]
    BY <1>4 DEF BodyText, Stepping
  <2>2. f.pending = Top.pending
    BY <1>2 DEF Frame
  <2>3. ctx'.insideUnknown = ctx.insideUnknown
    BY <1>2, <2>1 DEF Ctx
  <2> HIDE DEF f
  <2> QED
    BY <1>1, <1>3, <2>1, <2>2, <2>3, FlagLeftAlone
<1>5. CASE BodyInclude
  <2> DEFINE f == [Consumed EXCEPT
                    !.acc = AppendToEach(@, [what |-> "include", of |-> <<Segment>>])]
  <2>1. /\ ~ arrived /\ stack' = WithTop(f) /\ tree' = tree
        /\ ctx' = [ctx EXCEPT !.includes = @ \o RecordedInclude(Segment)]
    BY <1>5 DEF BodyInclude, Stepping
  <2>2. f.pending = Consumed.pending
    BY <1>3, <2>1 DEF Frame
  <2>3. ctx'.insideUnknown = ctx.insideUnknown
    BY <1>2, <2>1 DEF Ctx
  <2> HIDE DEF f
  <2> QED
    BY <1>1, <1>3, <2>1, <2>2, <2>3, FlagLeftAlone
<1>6. CASE BodyBind
  <2>1. /\ ~ arrived /\ stack' = WithTop(Consumed) /\ tree' = tree
        /\ ctx' = [ctx EXCEPT !.paths = Append(@, Segment)]
    BY <1>6 DEF BodyBind, Stepping
  <2>2. ctx'.insideUnknown = ctx.insideUnknown
    BY <1>2, <2>1 DEF Ctx
  <2> QED
    BY <1>1, <1>3, <2>1, <2>2, FlagLeftAlone
<1>7. CASE ChooseStray
  <2>1. /\ ~ arrived /\ stack' = WithTop(Consumed) /\ tree' = tree
        /\ ctx' = IF IsText(tree, Segment) THEN ctx
                  ELSE [ctx EXCEPT !.diags = Append(@, Diag("UnknownElement", Segment))]
    BY <1>7 DEF ChooseStray, Stepping
  <2>2. ctx'.insideUnknown = ctx.insideUnknown
    BY <1>2, <2>1 DEF Ctx
  <2> QED
    BY <1>1, <1>3, <2>1, <2>2, FlagLeftAlone
<1>8. CASE BodyChoose
  <2> DEFINE f == [Consumed EXCEPT !.pending = Segment]
  <2>1. /\ ~ arrived /\ HasSegment /\ tree.kind[Segment] = "choose" /\ tree' = tree
        /\ stack' = Append(WithTop(f), ChooseFrame(Segment)) /\ ctx' = ctx
    BY <1>8 DEF BodyChoose, Stepping
  <2>2. Segment \in Node
    BY <1>1, <2>1, SegmentIsNode
  <2>3. f \in Frame /\ f.pending = Segment
    BY <1>3, <2>1, <2>2 DEF Frame
  <2>4. ChooseFrame(Segment) \in Frame /\ ChooseFrame(Segment).pending = NoTag
    BY <2>2 DEF ChooseFrame, Frame, Holder
  <2>5. ~ IsUnknown(tree, Segment) /\ ~ IsTransparent(tree, Segment)
    BY <2>1 DEF IsUnknown, IsTransparent, BranchKind
  <2> HIDE DEF f
  <2>6. stack \in Seq(Frame) /\ stack # << >>
    BY <1>1, TopTyped
  <2>7. WithTop(f)[Len(stack)] = f
    BY <2>6, WithTopOfAny
  <2>8. Remembers(tree, WithTop(f), Len(stack)) /\ ~ Silences(tree, f)
    BY <2>3, <2>5, <2>7, Zenon DEF Remembers, Silences
  <2>9. ctx'.insideUnknown <=>
          SilencedBelow(tree, stack, Len(stack)) \/ Silences(tree, f)
    BY <1>1, <1>3, <2>1, <2>8, FlagBelowTop
  <2> QED
    BY <1>1, <2>1, <2>3, <2>4, <2>8, <2>9, FlagSuspended
<1>9. CASE BodyWrapper
  <2>1. phase = "cartesian" /\ ~ arrived /\ HasSegment /\ ~ IsUnknown(tree, Segment)
    BY <1>9, BodyWrapperDescends
  <2>2. PICK c \in Ctx : /\ Descend(Consumed, Segment, c)
                         /\ c.insideUnknown = ctx.insideUnknown
    BY <1>9, BodyWrapperDescends
  <2> QED
    BY <1>3, <2>1, <2>2, SegmentIsNode, FlagDescended
<1>10. CASE BodyTransparent
  <2>1. phase = "cartesian" /\ ~ arrived /\ HasSegment /\ Top.type = "Body"
    BY <1>10, BodyTransparentDescends
  <2>2. PICK c \in Ctx :
          /\ Descend(Consumed, Segment, c)
          /\ c.insideUnknown <=> (ctx.insideUnknown \/ IsUnknown(tree, Segment))
    BY <1>10, BodyTransparentDescends
  <2> QED
    BY <1>3, <2>1, <2>2, SegmentIsNode, FlagDescended
<1>11. CASE BodyEnd \/ ChooseEnd
  <2>1. ~ arrived /\ \E alts : Finish(alts)
    BY <1>11 DEF BodyEnd, ChooseEnd, Stepping
  <2> QED
    BY <1>1, <1>3, <2>1, FlagFinished
<1>12. CASE BodyDeliver \/ ChooseDeliver
  <2>1. arrived /\ Absorb(Top, incoming, ctx)
    BY <1>12 DEF BodyDeliver, ChooseDeliver, Delivering
  <2>2. RestoredFlag(Top, ctx) <=> SilencedBelow(tree, stack, Len(stack))
    <3>1. Len(stack) \in Nat \ {0} /\ Remembers(tree, stack, Len(stack))
      BY <1>1, FlagBelowTop
    <3>2. ctx.insideUnknown <=>
            SilencedBelow(tree, stack, Len(stack)) \/ Silences(tree, Top)
      BY <1>1, <3>1, SilencedByOne DEF FlagRemembered, FlagHandled, Top
    <3>3. Top.pending # NoTag
      BY <1>1, <2>1 DEF Inv, WaitingFrames
    <3>4. IsUnknown(tree, Top.pending) => IsTransparent(tree, Top.pending)
      BY DEF IsUnknown, IsTransparent
    <3>5. Remembers(tree, stack, Len(stack)) <=>
            (Top.type = "Body" /\ Top.pending # NoTag /\ IsTransparent(tree, Top.pending) =>
              (Top.was <=> SilencedBelow(tree, stack, Len(stack))))
      BY Zenon DEF Remembers, Top
    <3>6. CASE Top.type = "Body" /\ IsTransparent(tree, Top.pending)
      <4>1. RestoredFlag(Top, ctx) = Top.was
        BY <3>6, Zenon DEF RestoredFlag
      <4> QED
        BY <3>1, <3>3, <3>5, <3>6, <4>1, Zenon
    <3>7. CASE ~ (Top.type = "Body" /\ IsTransparent(tree, Top.pending))
      <4>1. RestoredFlag(Top, ctx) = ctx.insideUnknown
        BY <3>7, Zenon DEF RestoredFlag
      <4>2. ~ Silences(tree, Top)
        BY <3>4, <3>7, Zenon DEF Silences
      <4> QED
        BY <3>2, <4>1, <4>2, Zenon
    <3> QED
      BY <3>6, <3>7
  <2> QED
    BY <1>1, <1>2, <2>1, <2>2, FlagAbsorbed
<1>13. CASE ChooseBranch
  <2> DEFINE f == [Consumed EXCEPT
                    !.hasOtherwise = @ \/ tree.kind[Segment] = "otherwise"]
  <2>1. /\ ~ arrived /\ HasSegment /\ Top.type = "Choose" /\ Descend(f, Segment, ctx)
    BY <1>13 DEF ChooseBranch, Stepping, Running
  <2>2. f \in Frame /\ f.type = "Choose"
    <3>1. (Consumed.hasOtherwise \/ tree.kind[Segment] = "otherwise") \in BOOLEAN
      OBVIOUS
    <3> QED
      BY <1>3, <2>1, <3>1 DEF Frame
  <2> HIDE DEF f
  <2> QED
    BY <1>1, <1>2, <1>3, <2>1, <2>2, SegmentIsNode, FlagDescended
<1> QED
  BY <1>4, <1>5, <1>6, <1>7, <1>8, <1>9, <1>10, <1>11, <1>12, <1>13 DEF CartesianNext

(* The flag that silences nested unknown elements is up exactly while the  *)
(* body of one is being walked, although it is put back turns and frames   *)
(* after it was raised.                                                    *)
THEOREM FlagCorrect == Spec => []UnknownFlagIsScoped
<1>1. Init => FlagRemembered
  <2> SUFFICES ASSUME Init PROVE FlagRemembered
    OBVIOUS
  <2>1. stack = <<BodyFrame(Root)>> /\ ctx = [FreshCtx EXCEPT !.depth = 1]
    BY DEF Init
  <2>2. Len(stack) = 1 /\ stack[1].pending = NoTag /\ ~ ctx.insideUnknown
    BY <2>1 DEF BodyFrame, FreshCtx
  <2>3. \A j \in 1 .. Len(stack) : ~ Silences(tree, stack[j]) /\ Remembers(tree, stack, j)
    BY <2>2 DEF Silences, Remembers
  <2>4. 1 .. (Len(stack) + 1) - 1 = 1 .. Len(stack)
    BY <2>2
  <2> QED
    BY <2>2, <2>3, <2>4, Zenon DEF FlagRemembered, FlagHandled, SilencedBelow
<1>2. Inv /\ FlagRemembered /\ [Next]_vars => FlagRemembered'
  <2>1. CASE CartesianNext
    BY <2>1, FlagStep
  <2>2. CASE FallBack \/ UnionNext
    <3>1. phase' # "cartesian"
      BY <2>2 DEF FallBack, UnionNext, UnionText, UnionInclude, UnionBind, UnionChoose,
         UnionContainer, UnionBranch, UnionSkip, UnionEnd, UnionDeliver, UStepping,
         Contribute, UDescend
    <3> QED
      BY <3>1 DEF FlagRemembered
  <2>3. CASE UNCHANGED vars
    BY <2>3 DEF vars, FlagRemembered
  <2> QED
    BY <2>1, <2>2, <2>3 DEF Next
<1>3. Inv /\ FlagRemembered => UnknownFlagIsScoped
  BY FlagIsScoped
<1> QED
  BY <1>1, <1>2, <1>3, InvAlways, PTL DEF Spec

-------------------------------------------------------------------------------
(* The order.                                                              *)

(* Whatever frame f has still to look at comes behind x.                   *)
Precedes(t, x, f) ==
  \A j \in f.idx .. Len(t.kids[f.node]) : x < t.kids[f.node][j]

(* The same of every frame of a worklist.                                  *)
PrecedesAll(t, x, s) == \A i \in 1 .. Len(s) : Precedes(t, x, s[i])

(* What has been recorded is in order, and behind the walk.                *)
Behind(t, s, recorded) ==
  Ascending(recorded) /\ \A k \in DOMAIN recorded : PrecedesAll(t, recorded[k], s)

(* A suspended frame goes on behind everything the frames above it hold.   *)
Enclosing(t, s) ==
  \A i, k \in 1 .. Len(s) : i < k => Precedes(t, LastIn(t)[s[k].node], s[i])

(* SideChannelsInDocumentOrder made inductive.                             *)
InOrder(t, s, c) ==
  Behind(t, s, c.paths) /\ Behind(t, s, c.includes) /\ Enclosing(t, s)

(* The body is numbered, and the walk in the order of the numbers.         *)
Ordered == Numbered(tree) /\ InOrder(tree, stack, ctx)

(* The numbers of what a node holds.                                       *)
LEMMA KidsNumbered ==
  ASSUME NEW t \in Tree, Numbered(t), NEW h \in Holder
  PROVE  /\ t.kids[h] \in Seq(Node) /\ LastIn(t)[h] \in Nat
         /\ \A i \in 1 .. Len(t.kids[h]) :
              LET kid == t.kids[h][i]
              IN  /\ kid \in Node /\ h < kid /\ LastIn(t)[kid] \in Nat
                  /\ kid <= LastIn(t)[kid] /\ LastIn(t)[kid] <= LastIn(t)[h]
         /\ \A i, j \in 1 .. Len(t.kids[h]) :
              i < j => /\ LastIn(t)[t.kids[h][i]] < t.kids[h][j]
                       /\ t.kids[h][i] < t.kids[h][j]
<1>1. t.kids[h] \in Seq(Node) /\ NodeCount \in Nat
  BY TreesAssumption DEF Tree
<1>2. \A k \in Holder : /\ k <= LastIn(t)[k] /\ LastIn(t)[k] \in Nat /\ k \in Nat
  BY <1>1 DEF Numbered, Holder, Node, Root
<1>3. \A i \in 1 .. Len(t.kids[h]) : t.kids[h][i] \in Node /\ t.kids[h][i] \in Holder
  BY <1>1 DEF Holder
<1>4. /\ \A i \in DOMAIN t.kids[h] :
           h < t.kids[h][i] /\ LastIn(t)[t.kids[h][i]] <= LastIn(t)[h]
      /\ \A i, j \in DOMAIN t.kids[h] : i < j => LastIn(t)[t.kids[h][i]] < t.kids[h][j]
  BY Zenon DEF Numbered
<1>5. DOMAIN t.kids[h] = 1 .. Len(t.kids[h])
  BY <1>1
<1>6. \A i \in 1 .. Len(t.kids[h]) :
        LET kid == t.kids[h][i]
        IN  /\ kid \in Node /\ h < kid /\ LastIn(t)[kid] \in Nat
            /\ kid <= LastIn(t)[kid] /\ LastIn(t)[kid] <= LastIn(t)[h]
  BY <1>2, <1>3, <1>4, <1>5
<1>7. \A i, j \in 1 .. Len(t.kids[h]) :
        i < j => /\ LastIn(t)[t.kids[h][i]] < t.kids[h][j]
                 /\ t.kids[h][i] < t.kids[h][j]
  <2> TAKE i, j \in 1 .. Len(t.kids[h])
  <2> HAVE i < j
  <2>1. LastIn(t)[t.kids[h][i]] < t.kids[h][j]
    BY <1>4, <1>5
  <2>2. /\ t.kids[h][i] <= LastIn(t)[t.kids[h][i]] /\ LastIn(t)[t.kids[h][i]] \in Nat
        /\ t.kids[h][i] \in Nat /\ t.kids[h][j] \in Nat
    BY <1>2, <1>3
  <2> QED
    BY <2>1, <2>2
<1> QED
  BY <1>1, <1>2, <1>6, <1>7

(* Nodes are numbers.                                                      *)
LEMMA NodesAreNumbers ==
  ASSUME NEW e \in Seq(Node)
  PROVE  /\ \A i \in DOMAIN e : e[i] \in Nat
         /\ DOMAIN e = 1 .. Len(e) /\ Len(e) \in Nat
<1>1. \A n \in Node : n \in Nat
  BY DEF Node
<1>2. \A i \in DOMAIN e : e[i] \in Node
  OBVIOUS
<1> QED
  BY <1>1, <1>2

(* Where either pass stands.                                               *)
LEMMA WalkTyped ==
  ASSUME Inv, phase \in {"cartesian", "union"}, stack # << >>
  PROVE  /\ stack \in Seq(Frame \cup UFrame) /\ Len(stack) \in Nat \ {0}
         /\ \A i \in 1 .. Len(stack) :
              stack[i].node \in Holder /\ stack[i].idx \in Nat \ {0}
         /\ Top.node \in Holder /\ Top.idx \in Nat \ {0}
         /\ tree \in Tree /\ tree.kids[Top.node] \in Seq(Node)
         /\ ctx.paths \in Seq(Node) /\ ctx.includes \in Seq(Node)
         /\ HasSegment => /\ Segment \in Node
                          /\ Top.idx \in 1 .. Len(tree.kids[Top.node])
<1>1. stack \in Seq(Frame \cup UFrame) /\ tree \in Tree /\ ctx \in Ctx
  <2>1. \A S, T : Seq(S) \subseteq Seq(S \cup T)
    OBVIOUS
  <2>2. stack \in Seq(Frame) \/ stack \in Seq(UFrame)
    BY DEF Inv, TypeOK
  <2>3. UFrame \cup Frame = Frame \cup UFrame
    OBVIOUS
  <2> QED
    BY <2>1, <2>2, <2>3, Zenon DEF Inv, TypeOK
<1>2. \A f \in Frame \cup UFrame : f.node \in Holder /\ f.idx \in Nat \ {0}
  BY DEF Frame, UFrame
<1>3. Len(stack) \in Nat \ {0} /\ \A i \in 1 .. Len(stack) : stack[i] \in Frame \cup UFrame
  BY <1>1, EmptySeq
<1>4. Top.node \in Holder /\ Top.idx \in Nat \ {0}
  BY <1>2, <1>3 DEF Top
<1>5. tree.kids[Top.node] \in Seq(Node)
  BY <1>1, <1>4 DEF Tree
<1>6. ctx.paths \in Seq(Node) /\ ctx.includes \in Seq(Node)
  BY <1>1 DEF Ctx
<1> QED
  BY <1>1, <1>2, <1>3, <1>4, <1>5, <1>6 DEF HasSegment, Segment

(* Numbers in order, and more of them behind, are in order.                *)
LEMMA AscendingAppended ==
  ASSUME NEW a \in Seq(Node), NEW b \in Seq(Node), Ascending(a), Ascending(b),
         \A i \in DOMAIN a : \A j \in DOMAIN b : a[i] < b[j]
  PROVE  /\ Ascending(a \o b)
         /\ \A k \in DOMAIN (a \o b) :
              \/ k \in DOMAIN a /\ (a \o b)[k] = a[k]
              \/ \E j \in DOMAIN b : (a \o b)[k] = b[j]
<1>1. /\ Len(a) \in Nat /\ Len(b) \in Nat /\ a \o b \in Seq(Node)
      /\ DOMAIN a = 1 .. Len(a) /\ DOMAIN b = 1 .. Len(b)
      /\ DOMAIN (a \o b) = 1 .. Len(a) + Len(b)
      /\ \A k \in 1 .. Len(a) + Len(b) :
           (a \o b)[k] = IF k <= Len(a) THEN a[k] ELSE b[k - Len(a)]
  BY ConcatProperties
<1> DEFINE c == a \o b
<1>2. \A k \in 1 .. Len(a) + Len(b) :
        \/ k \in 1 .. Len(a) /\ c[k] = a[k]
        \/ k - Len(a) \in 1 .. Len(b) /\ c[k] = b[k - Len(a)] /\ k > Len(a)
  BY <1>1
<1>3. Ascending(c)
  <2> SUFFICES ASSUME NEW i \in 1 .. Len(a) + Len(b), NEW j \in 1 .. Len(a) + Len(b),
                      i < j
               PROVE  c[i] < c[j]
    BY <1>1 DEF Ascending
  <2> HIDE DEF c
  <2>1. CASE i \in 1 .. Len(a) /\ j \in 1 .. Len(a)
    <3>1. c[i] = a[i] /\ c[j] = a[j]
      BY <1>1, <1>2, <2>1
    <3> QED
      BY <1>1, <2>1, <3>1 DEF Ascending
  <2>2. CASE i \in 1 .. Len(a) /\ j > Len(a)
    <3>1. c[i] = a[i] /\ c[j] = b[j - Len(a)] /\ j - Len(a) \in 1 .. Len(b)
      BY <1>1, <1>2, <2>2
    <3> QED
      BY <1>1, <2>2, <3>1
  <2>3. CASE i > Len(a) /\ j > Len(a)
    <3>1. /\ c[i] = b[i - Len(a)] /\ c[j] = b[j - Len(a)]
          /\ i - Len(a) \in 1 .. Len(b) /\ j - Len(a) \in 1 .. Len(b)
      BY <1>1, <1>2, <2>3
    <3>2. i - Len(a) < j - Len(a)
      BY <1>1
    <3> QED
      BY <1>1, <3>1, <3>2 DEF Ascending
  <2> QED
    BY <1>1, <2>1, <2>2, <2>3
<1> QED
  BY <1>1, <1>2, <1>3

(* What holds of the order of things when the running frame moves on.      *)
LEMMA TopMovesOn ==
  ASSUME Inv, Ordered, phase \in {"cartesian", "union"}, stack # << >>,
         NEW f, f.node = Top.node, f.idx \in Nat, f.idx >= Top.idx
  PROVE  /\ \A x \in Nat : PrecedesAll(tree, x, stack) => PrecedesAll(tree, x, WithTop(f))
         /\ \A j \in 1 .. Len(tree.kids[Top.node]) :
              Top.idx <= j /\ j < f.idx =>
                PrecedesAll(tree, tree.kids[Top.node][j], WithTop(f))
         /\ Enclosing(tree, WithTop(f))
<1> DEFINE n == Len(stack)
           kids == tree.kids[Top.node]
           s == WithTop(f)
<1>1. /\ stack \in Seq(Frame \cup UFrame) /\ n \in Nat \ {0}
      /\ Top.node \in Holder /\ Top.idx \in Nat \ {0} /\ tree \in Tree
      /\ \A i \in 1 .. n : stack[i].node \in Holder /\ stack[i].idx \in Nat \ {0}
  BY WalkTyped
<1>2. /\ Len(s) = n /\ s[n] = f
      /\ \A i \in 1 .. n - 1 : s[i] = stack[i]
  BY <1>1, WithTopOfAny
<1>3. /\ kids \in Seq(Node) /\ LastIn(tree)[Top.node] \in Nat
      /\ \A j \in 1 .. Len(kids) :
           /\ kids[j] \in Nat /\ LastIn(tree)[kids[j]] \in Nat
           /\ kids[j] <= LastIn(tree)[kids[j]]
           /\ LastIn(tree)[kids[j]] <= LastIn(tree)[Top.node]
      /\ \A i, j \in 1 .. Len(kids) : i < j => kids[i] < kids[j]
  <2>1. Node \subseteq Nat
    BY DEF Node
  <2> QED
    BY <1>1, <2>1, KidsNumbered DEF Ordered
<1>4. \A i, k \in 1 .. n : i < k => Precedes(tree, LastIn(tree)[stack[k].node], stack[i])
  BY DEF Ordered, InOrder, Enclosing
<1>5. \A i \in 1 .. n : i = n \/ (i \in 1 .. n - 1 /\ i < n)
  BY <1>1
<1>6. n \in 1 .. n /\ Top = stack[n]
  BY <1>1 DEF Top
<1>7. \A i \in 1 .. n - 1 : tree.kids[stack[i].node] \in Seq(Node)
  BY <1>1 DEF Tree
<1> HIDE DEF s, n, kids
<1>8. \A x : Precedes(tree, x, stack[n]) => Precedes(tree, x, f)
  <2>1. stack[n].idx \in Nat /\ stack[n].idx <= f.idx /\ stack[n].node = f.node
    BY <1>1, <1>6
  <2>2. \A j \in f.idx .. Len(tree.kids[f.node]) :
          j \in stack[n].idx .. Len(tree.kids[f.node])
    BY <2>1
  <2> QED
    BY <2>1, <2>2, Zenon DEF Precedes
<1>9. \A x \in Nat : PrecedesAll(tree, x, stack) => PrecedesAll(tree, x, s)
  BY <1>2, <1>5, <1>6, <1>8, Zenon DEF PrecedesAll, n
<1>10. \A i \in 1 .. n - 1 : \A x \in Nat :
         x <= LastIn(tree)[Top.node] => Precedes(tree, x, stack[i])
  <2> SUFFICES ASSUME NEW i \in 1 .. n - 1, NEW x \in Nat, x <= LastIn(tree)[Top.node],
                      NEW j \in stack[i].idx .. Len(tree.kids[stack[i].node])
               PROVE  x < tree.kids[stack[i].node][j]
    BY DEF Precedes
  <2>1. i \in 1 .. n /\ i < n
    BY <1>1
  <2>2. LastIn(tree)[Top.node] < tree.kids[stack[i].node][j]
    BY <1>4, <1>6, <2>1 DEF Precedes
  <2>3. tree.kids[stack[i].node][j] \in Nat
    <3>1. /\ tree.kids[stack[i].node] \in Seq(Node)
          /\ DOMAIN tree.kids[stack[i].node] = 1 .. Len(tree.kids[stack[i].node])
          /\ Len(tree.kids[stack[i].node]) \in Nat
      BY <1>7
    <3>2. j \in DOMAIN tree.kids[stack[i].node]
      BY <1>1, <2>1, <3>1
    <3> QED
      BY <3>1, <3>2, NodesAreNumbers
  <2> QED
    BY <1>3, <2>2, <2>3
<1>11. \A j \in 1 .. Len(kids) :
         Top.idx <= j /\ j < f.idx => PrecedesAll(tree, kids[j], s)
  <2> TAKE j \in 1 .. Len(kids)
  <2> HAVE Top.idx <= j /\ j < f.idx
  <2>1. \A i \in 1 .. n - 1 : Precedes(tree, kids[j], s[i])
    <3>1. kids[j] <= LastIn(tree)[Top.node] /\ kids[j] \in Nat
      BY <1>3
    <3> QED
      BY <1>2, <1>10, <3>1
  <2>2. Precedes(tree, kids[j], f)
    <3> SUFFICES ASSUME NEW m \in f.idx .. Len(kids) PROVE kids[j] < kids[m]
      BY DEF Precedes, kids
    <3>1. m \in 1 .. Len(kids) /\ j < m
      BY <1>1, <1>3
    <3> QED
      BY <1>3, <3>1
  <2> QED
    BY <1>2, <1>5, <2>1, <2>2, Zenon DEF PrecedesAll
<1>12. Enclosing(tree, s)
  <2> SUFFICES ASSUME NEW i \in 1 .. n, NEW k \in 1 .. n, i < k
               PROVE  Precedes(tree, LastIn(tree)[s[k].node], s[i])
    BY <1>2, Zenon DEF Enclosing
  <2>1. s[i] = stack[i]
    BY <1>1, <1>2 DEF n
  <2>2. s[k].node = stack[k].node
    BY <1>2, <1>5, <1>6
  <2> QED
    BY <1>4, <2>1, <2>2
<1> QED
  BY <1>9, <1>11, <1>12 DEF kids, s

(* The running frame looks at the segments up to some place, and some of   *)
(* them are recorded in order.                                             *)
LEMMA BehindWhenRead ==
  ASSUME Inv, Ordered, phase \in {"cartesian", "union"}, stack # << >>,
         NEW f, f.node = Top.node, f.idx \in Nat, f.idx >= Top.idx,
         NEW e \in Seq(Node), Behind(tree, stack, e),
         NEW new \in Seq(Node), Ascending(new),
         \A k \in DOMAIN new :
           \E j \in 1 .. Len(tree.kids[Top.node]) :
             Top.idx <= j /\ j < f.idx /\ new[k] = tree.kids[Top.node][j]
  PROVE  Behind(tree, WithTop(f), e \o new)
<1>1. /\ Len(stack) \in Nat \ {0} /\ Top.idx \in Nat \ {0}
      /\ tree.kids[Top.node] \in Seq(Node)
  BY WalkTyped
<1>2. \A i \in DOMAIN e : e[i] \in Nat /\ PrecedesAll(tree, e[i], stack)
  BY NodesAreNumbers DEF Behind
<1>3. \A i \in DOMAIN e : \A k \in DOMAIN new : e[i] < new[k]
  <2> TAKE i \in DOMAIN e
  <2> TAKE k \in DOMAIN new
  <2>1. PICK j \in 1 .. Len(tree.kids[Top.node]) :
          Top.idx <= j /\ new[k] = tree.kids[Top.node][j]
    OBVIOUS
  <2>2. Len(stack) \in 1 .. Len(stack) /\ j \in Top.idx .. Len(tree.kids[Top.node])
    BY <1>1, <2>1
  <2>3. Precedes(tree, e[i], Top)
    BY <1>2, <2>2 DEF PrecedesAll, Top
  <2> QED
    BY <2>1, <2>2, <2>3 DEF Precedes
<1>4. \A k \in DOMAIN new : PrecedesAll(tree, new[k], WithTop(f))
  BY TopMovesOn
<1>5. \A i \in DOMAIN e : PrecedesAll(tree, e[i], WithTop(f))
  BY <1>2, TopMovesOn
<1>6. /\ Ascending(e \o new)
      /\ \A k \in DOMAIN (e \o new) :
           \/ k \in DOMAIN e /\ (e \o new)[k] = e[k]
           \/ \E j \in DOMAIN new : (e \o new)[k] = new[j]
  BY <1>3, AscendingAppended DEF Behind
<1> QED
  BY <1>4, <1>5, <1>6, Zenon DEF Behind

(* The same when nothing is recorded, or the one segment passed over is.   *)
LEMMA BehindWhenConsumed ==
  ASSUME Inv, Ordered, phase \in {"cartesian", "union"}, stack # << >>, HasSegment,
         NEW f, f.node = Top.node, f.idx = Top.idx + 1,
         NEW e \in Seq(Node), Behind(tree, stack, e)
  PROVE  /\ Behind(tree, WithTop(f), e)
         /\ Behind(tree, WithTop(f), Append(e, Segment))
<1>1. /\ Top.idx \in 1 .. Len(tree.kids[Top.node]) /\ Segment \in Node
      /\ Segment = tree.kids[Top.node][Top.idx]
  BY WalkTyped DEF Segment
<1>2. f.idx \in Nat /\ f.idx >= Top.idx /\ Top.idx < f.idx
  BY <1>1
<1>3. Behind(tree, WithTop(f), e)
  <2>1. \A i \in DOMAIN e : e[i] \in Nat
    BY NodesAreNumbers
  <2> QED
    BY <1>2, <2>1, TopMovesOn DEF Behind
<1>4. <<Segment>> \in Seq(Node) /\ Ascending(<<Segment>>)
  BY <1>1 DEF Ascending
<1>5. \A k \in DOMAIN <<Segment>> : <<Segment>>[k] = tree.kids[Top.node][Top.idx]
  BY <1>1
<1>6. Behind(tree, WithTop(f), e \o <<Segment>>)
  <2>1. \A k \in DOMAIN <<Segment>> :
          \E j \in 1 .. Len(tree.kids[Top.node]) :
            Top.idx <= j /\ j < f.idx /\ <<Segment>>[k] = tree.kids[Top.node][j]
    BY <1>1, <1>2, <1>5
  <2> DEFINE new == <<Segment>>
  <2> HIDE DEF new
  <2>2. /\ new \in Seq(Node) /\ Ascending(new)
        /\ \A k \in DOMAIN new :
             \E j \in 1 .. Len(tree.kids[Top.node]) :
               Top.idx <= j /\ j < f.idx /\ new[k] = tree.kids[Top.node][j]
    BY <1>4, <2>1, Zenon DEF new
  <2>3. Behind(tree, WithTop(f), e \o new)
    BY <1>2, <2>2, BehindWhenRead
  <2> QED
    BY <2>3 DEF new
<1>7. Append(e, Segment) = e \o <<Segment>>
  BY <1>1, AppendIsConcat
<1> QED
  BY <1>3, <1>6, <1>7

(* The frame pushed for a segment looks at what that segment holds.        *)
LEMMA OrderWhenPushed ==
  ASSUME Inv, Ordered, phase \in {"cartesian", "union"}, stack # << >>, HasSegment,
         NEW f, f.node = Top.node, f.idx = Top.idx + 1,
         NEW g, g.node = Segment, g.idx = 1
  PROVE  /\ \A e \in Seq(Node) : Behind(tree, stack, e) =>
              /\ Behind(tree, Append(WithTop(f), g), e)
              /\ Behind(tree, Append(WithTop(f), g), Append(e, Segment))
         /\ Enclosing(tree, Append(WithTop(f), g))
<1> DEFINE n == Len(stack)
           mid == WithTop(f)
           s == Append(mid, g)
           kids == tree.kids[Top.node]
<1>1. /\ stack \in Seq(Frame \cup UFrame) /\ n \in Nat \ {0} /\ tree \in Tree
      /\ Top.idx \in 1 .. Len(kids) /\ Segment \in Node /\ Segment = kids[Top.idx]
      /\ Top.node \in Holder
      /\ \A i \in 1 .. n : stack[i].node \in Holder /\ stack[i].idx \in Nat \ {0}
  BY WalkTyped DEF Segment
<1>2. /\ Len(s) = n + 1 /\ s[n + 1] = g /\ mid[n] = f /\ Len(mid) = n
      /\ \A i \in 1 .. n : s[i] = mid[i]
      /\ \A i \in 1 .. n - 1 : mid[i] = stack[i]
  <2> DEFINE S == Frame \cup UFrame \cup {f, g}
  <2>1. stack \in Seq(S) /\ f \in S /\ g \in S
    BY <1>1
  <2> HIDE DEF S
  <2>2. /\ mid \in Seq(S) /\ Len(mid) = n /\ mid[n] = f
        /\ \A i \in 1 .. n - 1 : mid[i] = stack[i]
    BY <2>1, WithTopProperties
  <2> HIDE DEF mid
  <2> QED
    BY <2>1, <2>2
<1>3. /\ \A x \in Nat : PrecedesAll(tree, x, stack) => PrecedesAll(tree, x, mid)
      /\ \A j \in 1 .. Len(kids) :
           Top.idx <= j /\ j < f.idx => PrecedesAll(tree, kids[j], mid)
      /\ Enclosing(tree, mid)
  <2>1. f.idx \in Nat /\ f.idx >= Top.idx
    BY <1>1
  <2> QED
    BY <2>1, TopMovesOn
<1>4. /\ kids \in Seq(Node) /\ LastIn(tree)[Segment] \in Nat /\ Segment \in Nat
      /\ Segment <= LastIn(tree)[Segment]
      /\ LastIn(tree)[Segment] <= LastIn(tree)[Top.node] /\ LastIn(tree)[Top.node] \in Nat
      /\ \A j \in 1 .. Len(kids) : Top.idx < j => LastIn(tree)[Segment] < kids[j]
  <2>1. Segment \in Nat
    BY <1>1 DEF Node
  <2> QED
    BY <1>1, <2>1, KidsNumbered DEF Ordered
<1>5. \A x \in Nat : x <= Segment => Precedes(tree, x, g)
  <2>1. Segment \in Holder
    BY <1>1 DEF Holder
  <2>2. /\ tree.kids[Segment] \in Seq(Node)
        /\ \A j \in 1 .. Len(tree.kids[Segment]) : Segment < tree.kids[Segment][j]
    BY <1>1, <2>1, KidsNumbered DEF Ordered
  <2>3. \A j \in 1 .. Len(tree.kids[Segment]) :
          Segment < tree.kids[Segment][j] /\ tree.kids[Segment][j] \in Nat
    BY <2>2, NodesAreNumbers
  <2> QED
    BY <1>4, <2>3 DEF Precedes
<1>6. \A x \in Nat : PrecedesAll(tree, x, mid) /\ x <= Segment => PrecedesAll(tree, x, s)
  <2>1. \A i \in 1 .. n + 1 : i \in 1 .. n \/ i = n + 1
    BY <1>1
  <2> HIDE DEF s, mid
  <2> QED
    BY <1>2, <1>5, <2>1, Zenon DEF PrecedesAll
<1>7. ASSUME NEW e \in Seq(Node), Behind(tree, stack, e)
      PROVE  Behind(tree, s, e) /\ Behind(tree, s, Append(e, Segment))
  <2>1. Behind(tree, mid, e) /\ Behind(tree, mid, Append(e, Segment))
    BY <1>7, BehindWhenConsumed
  <2>2. \A k \in DOMAIN e : e[k] \in Nat /\ e[k] < Segment
    <3> TAKE k \in DOMAIN e
    <3>1. e[k] \in Nat
      BY NodesAreNumbers
    <3>2. n \in 1 .. n /\ Top.idx \in Top.idx .. Len(kids)
      BY <1>1
    <3>3. Precedes(tree, e[k], Top)
      BY <1>7, <3>2 DEF Behind, PrecedesAll, Top
    <3> QED
      BY <1>1, <3>1, <3>2, <3>3 DEF Precedes
  <2>3. \A k \in DOMAIN Append(e, Segment) :
          Append(e, Segment)[k] \in Nat /\ Append(e, Segment)[k] <= Segment
    <3>1. /\ Len(e) \in Nat /\ DOMAIN Append(e, Segment) = 1 .. Len(e) + 1
          /\ DOMAIN e = 1 .. Len(e) /\ Append(e, Segment)[Len(e) + 1] = Segment
          /\ \A k \in 1 .. Len(e) : Append(e, Segment)[k] = e[k]
      BY <1>1
    <3>2. \A k \in 1 .. Len(e) + 1 : k \in 1 .. Len(e) \/ k = Len(e) + 1
      BY <3>1
    <3>3. \A k \in 1 .. Len(e) : e[k] <= Segment
      BY <1>4, <2>2, <3>1
    <3>4. Segment <= Segment
      BY <1>4
    <3> QED
      BY <1>4, <2>2, <3>1, <3>2, <3>3, <3>4, Zenon
  <2> HIDE DEF s, mid
  <2>4. Behind(tree, s, e)
    BY <1>4, <1>6, <2>1, <2>2 DEF Behind
  <2>5. Behind(tree, s, Append(e, Segment))
    BY <1>6, <2>1, <2>3, Zenon DEF Behind
  <2> QED
    BY <2>4, <2>5
<1>8. Enclosing(tree, s)
  <2> SUFFICES ASSUME NEW i \in 1 .. n + 1, NEW k \in 1 .. n + 1, i < k
               PROVE  Precedes(tree, LastIn(tree)[s[k].node], s[i])
    BY <1>2, Zenon DEF Enclosing
  <2>1. CASE k \in 1 .. n
    <3>1. i \in 1 .. n
      BY <1>1, <2>1
    <3> HIDE DEF s, mid
    <3> QED
      BY <1>2, <1>3, <2>1, <3>1, Zenon DEF Enclosing
  <2>2. CASE k = n + 1 /\ i = n
    <3>1. s[k].node = Segment /\ s[i] = f
      BY <1>1, <1>2, <2>2
    <3>2. \A j \in f.idx .. Len(kids) : j \in 1 .. Len(kids) /\ Top.idx < j
      BY <1>1
    <3> HIDE DEF s, mid
    <3> QED
      BY <1>4, <3>1, <3>2 DEF Precedes
  <2>3. CASE k = n + 1 /\ i < n
    <3>1. s[k].node = Segment /\ s[i] = stack[i] /\ i \in 1 .. n /\ n \in 1 .. n
      BY <1>1, <1>2, <2>3
    <3>2. Precedes(tree, LastIn(tree)[Top.node], stack[i])
      BY <2>3, <3>1 DEF Ordered, InOrder, Enclosing, Top
    <3>3. tree.kids[stack[i].node] \in Seq(Node) /\ stack[i].idx \in Nat \ {0}
      BY <1>1, <3>1 DEF Tree
    <3>4. \A j \in stack[i].idx .. Len(tree.kids[stack[i].node]) :
            tree.kids[stack[i].node][j] \in Nat
      BY <3>3, NodesAreNumbers
    <3> HIDE DEF s, mid
    <3> QED
      BY <1>4, <3>1, <3>2, <3>4 DEF Precedes
  <2>4. k \in 1 .. n \/ (k = n + 1 /\ (i = n \/ i < n))
    <3>1. n \in Nat
      BY <1>1
    <3> HIDE DEF n
    <3> QED
      BY <3>1
  <2> QED
    BY <2>1, <2>2, <2>3, <2>4, Zenon
<1> QED
  BY <1>7, <1>8

(* A run of text is in order.                                              *)
LEMMA RunInOrder ==
  ASSUME NEW t \in Tree, Numbered(t), NEW h \in Holder, NEW i \in 1 .. Len(t.kids[h])
  PROVE  /\ TextRun(t, h, i) \in Seq(Node) /\ Ascending(TextRun(t, h, i))
         /\ RunEnd(t, h, i) \in Nat /\ RunEnd(t, h, i) >= i
         /\ \A k \in DOMAIN TextRun(t, h, i) :
              \E j \in 1 .. Len(t.kids[h]) :
                i <= j /\ j < RunEnd(t, h, i) /\ TextRun(t, h, i)[k] = t.kids[h][j]
<1> DEFINE kids == t.kids[h]
           end == RunEnd(t, h, i)
           run == TextRun(t, h, i)
<1>1. /\ kids \in Seq(Node) /\ Len(kids) \in Nat
      /\ end \in i .. Len(kids) + 1 /\ run \in Seq(Node)
  BY RunEndType DEF Tree
<1>2. \A a, b \in 1 .. Len(kids) : a < b => kids[a] < kids[b]
  BY KidsNumbered
<1>3. \A j \in i .. end - 1 : kids[j] \in Node
  BY <1>1
<1>4. run = SubSeq(kids, i, end - 1)
  BY DEF TextRun
<1> HIDE DEF kids, end, run
<1>5. /\ Len(run) = IF i <= end - 1 THEN (end - 1) - i + 1 ELSE 0
      /\ \A k \in 1 .. (end - 1) - i + 1 : run[k] = kids[i + k - 1]
  <2> DEFINE e == end - 1
  <2>1. i \in Int /\ e \in Int
    BY <1>1
  <2>2. \A j \in i .. e : kids[j] \in Node
    BY <1>3
  <2> HIDE DEF e
  <2>3. /\ Len(SubSeq(kids, i, e)) = IF i <= e THEN e - i + 1 ELSE 0
        /\ \A k \in 1 .. e - i + 1 : SubSeq(kids, i, e)[k] = kids[i + k - 1]
    BY <2>1, <2>2, SubSeqProperties
  <2> QED
    BY <1>4, <2>3 DEF e
<1>6. \A k \in DOMAIN run :
        /\ i + k - 1 \in 1 .. Len(kids) /\ i <= i + k - 1 /\ i + k - 1 < end
        /\ run[k] = kids[i + k - 1]
  <2>1. DOMAIN run = 1 .. Len(run)
    BY <1>1
  <2> QED
    BY <1>1, <1>5, <2>1, SMTT(30)
<1>7. Ascending(run)
  <2> SUFFICES ASSUME NEW k \in DOMAIN run, NEW m \in DOMAIN run, k < m
               PROVE  run[k] < run[m]
    BY DEF Ascending
  <2>1. i + k - 1 < i + m - 1
    BY <1>1
  <2> QED
    BY <1>2, <1>6, <2>1
<1>8. \A k \in DOMAIN run :
        \E j \in 1 .. Len(kids) : i <= j /\ j < end /\ run[k] = kids[j]
  BY <1>6
<1>9. end \in Nat /\ end >= i
  BY <1>1
<1> QED
  BY <1>1, <1>7, <1>8, <1>9 DEF kids, end, run

(* How each kind of step keeps the order.                                  *)

(* The running frame goes on, with what its step recorded behind it.       *)
LEMMA OrderOnRead ==
  ASSUME Inv, Ordered, phase \in {"cartesian", "union"}, stack # << >>, tree' = tree,
         NEW f, f.node = Top.node, f.idx \in Nat, f.idx >= Top.idx, stack' = WithTop(f),
         Behind(tree, WithTop(f), ctx'.paths), Behind(tree, WithTop(f), ctx'.includes)
  PROVE  Ordered'
<1>1. Enclosing(tree, WithTop(f))
  BY TopMovesOn
<1>2. InOrder(tree, stack', ctx')
  BY <1>1 DEF InOrder
<1> QED
  BY <1>2 DEF Ordered

(* A run of text is recorded.                                              *)
LEMMA OrderOnText ==
  ASSUME Inv, Ordered, phase \in {"cartesian", "union"}, stack # << >>, tree' = tree,
         HasSegment, NEW f, f.node = Top.node,
         f.idx = RunEnd(tree, Top.node, Top.idx), stack' = WithTop(f),
         ctx'.paths = ctx.paths \o TextRun(tree, Top.node, Top.idx),
         ctx'.includes = ctx.includes
  PROVE  Ordered'
<1> DEFINE run == TextRun(tree, Top.node, Top.idx)
<1>1. /\ tree \in Tree /\ Top.node \in Holder /\ Top.idx \in 1 .. Len(tree.kids[Top.node])
      /\ ctx.paths \in Seq(Node) /\ ctx.includes \in Seq(Node)
  BY WalkTyped
<1>2. /\ run \in Seq(Node) /\ Ascending(run) /\ f.idx \in Nat /\ f.idx >= Top.idx
      /\ \A k \in DOMAIN run :
           \E j \in 1 .. Len(tree.kids[Top.node]) :
             Top.idx <= j /\ j < f.idx /\ run[k] = tree.kids[Top.node][j]
  BY <1>1, RunInOrder, SMTT(30) DEF Ordered
<1> HIDE DEF run
<1>3. Behind(tree, stack, ctx.paths) /\ Behind(tree, stack, ctx.includes)
  BY DEF Ordered, InOrder
<1>4. Behind(tree, WithTop(f), ctx.paths \o run)
  BY <1>1, <1>2, <1>3, BehindWhenRead
<1>5. Behind(tree, WithTop(f), ctx.includes)
  <2>1. \A i \in DOMAIN ctx.includes : ctx.includes[i] \in Nat
    BY <1>1, NodesAreNumbers
  <2> QED
    BY <1>2, <1>3, <2>1, TopMovesOn DEF Behind
<1> QED
  BY <1>2, <1>4, <1>5, OrderOnRead DEF run

(* One segment is passed over, and may be recorded.                        *)
Recorded(c) ==
  /\ c.paths = ctx.paths \/ c.paths = Append(ctx.paths, Segment)
  /\ c.includes = ctx.includes \/ c.includes = Append(ctx.includes, Segment)

(* Whether the segment is recorded or not, the side channels stay behind   *)
(* the walk.                                                               *)
LEMMA BehindRecorded ==
  ASSUME Inv, Ordered, phase \in {"cartesian", "union"}, stack # << >>, HasSegment,
         NEW f, f.node = Top.node, f.idx = Top.idx + 1, NEW c, Recorded(c)
  PROVE  /\ Behind(tree, WithTop(f), c.paths) /\ Behind(tree, WithTop(f), c.includes)
         /\ f.idx \in Nat /\ f.idx >= Top.idx
<1>1. /\ ctx.paths \in Seq(Node) /\ ctx.includes \in Seq(Node) /\ Top.idx \in Nat \ {0}
  BY WalkTyped
<1>2. Behind(tree, stack, ctx.paths) /\ Behind(tree, stack, ctx.includes)
  BY DEF Ordered, InOrder
<1>3. /\ Behind(tree, WithTop(f), ctx.paths)
      /\ Behind(tree, WithTop(f), Append(ctx.paths, Segment))
      /\ Behind(tree, WithTop(f), ctx.includes)
      /\ Behind(tree, WithTop(f), Append(ctx.includes, Segment))
  BY <1>1, <1>2, BehindWhenConsumed
<1>4. f.idx \in Nat /\ f.idx >= Top.idx
  BY <1>1
<1> QED
  BY <1>3, <1>4, Zenon DEF Recorded

(* An include is recorded once, or not at all when it has no refid.        *)
LEMMA IncludeRecorded ==
  ASSUME NEW e \in Seq(Node), NEW n \in Node
  PROVE  e \o RecordedInclude(n) \in {e, Append(e, n)}
<1>1. e \o << >> = e /\ e \o <<n>> = Append(e, n)
  BY ConcatEmptySeq, AppendIsConcat
<1> QED
  BY <1>1, Zenon DEF RecordedInclude

(* The segment is passed over, and may be recorded.                        *)
LEMMA OrderOnConsume ==
  ASSUME Inv, Ordered, phase \in {"cartesian", "union"}, stack # << >>, tree' = tree,
         HasSegment, NEW f, f.node = Top.node, f.idx = Top.idx + 1, stack' = WithTop(f),
         Recorded(ctx')
  PROVE  Ordered'
<1>1. /\ Behind(tree, WithTop(f), ctx'.paths) /\ Behind(tree, WithTop(f), ctx'.includes)
      /\ f.idx \in Nat /\ f.idx >= Top.idx
  BY BehindRecorded
<1> QED
  BY <1>1, OrderOnRead

(* A frame is pushed for the segment.                                      *)
LEMMA OrderOnPush ==
  ASSUME Inv, Ordered, phase \in {"cartesian", "union"}, stack # << >>, tree' = tree,
         HasSegment, NEW f, f.node = Top.node, f.idx = Top.idx + 1,
         NEW g, g.node = Segment, g.idx = 1, stack' = Append(WithTop(f), g),
         Recorded(ctx')
  PROVE  Ordered'
<1>1. ctx.paths \in Seq(Node) /\ ctx.includes \in Seq(Node)
  BY WalkTyped
<1>2. Behind(tree, stack, ctx.paths) /\ Behind(tree, stack, ctx.includes)
  BY DEF Ordered, InOrder
<1>3. /\ Behind(tree, stack', ctx.paths)
      /\ Behind(tree, stack', Append(ctx.paths, Segment))
      /\ Behind(tree, stack', ctx.includes)
      /\ Behind(tree, stack', Append(ctx.includes, Segment))
      /\ Enclosing(tree, stack')
  BY <1>1, <1>2, OrderWhenPushed
<1>4. InOrder(tree, stack', ctx')
  BY <1>3, Zenon DEF InOrder, Recorded
<1> QED
  BY <1>4 DEF Ordered

(* An answer is folded in, and nothing recorded.                           *)
LEMMA OrderOnDeliver ==
  ASSUME Inv, Ordered, phase \in {"cartesian", "union"}, stack # << >>,
         NEW f, f.node = Top.node, f.idx = Top.idx
  PROVE  /\ Behind(tree, WithTop(f), ctx.paths) /\ Behind(tree, WithTop(f), ctx.includes)
         /\ f.idx \in Nat /\ f.idx >= Top.idx
<1>1. /\ \A i \in DOMAIN ctx.paths : ctx.paths[i] \in Nat
      /\ \A i \in DOMAIN ctx.includes : ctx.includes[i] \in Nat
      /\ f.idx \in Nat /\ f.idx >= Top.idx
  BY WalkTyped, NodesAreNumbers
<1> QED
  BY <1>1, TopMovesOn DEF Behind, Ordered, InOrder

(* A frame is popped.                                                      *)
LEMMA OrderOnFinish ==
  ASSUME Inv, Ordered, phase \in {"cartesian", "union"}, stack # << >>, tree' = tree,
         stack' = Below, ctx'.paths = ctx.paths, ctx'.includes = ctx.includes
  PROVE  Ordered'
<1>1. stack \in Seq(Frame \cup UFrame)
  BY WalkTyped
<1>2. /\ Len(Below) = Len(stack) - 1 /\ Len(stack) \in Nat \ {0}
      /\ \A i \in 1 .. Len(stack) - 1 : Below[i] = stack[i]
  BY <1>1, BelowProperties
<1>3. \A i \in 1 .. Len(Below) : i \in 1 .. Len(stack) /\ Below[i] = stack[i]
  BY <1>2
<1>4. InOrder(tree, Below, ctx)
  BY <1>3, Zenon DEF Ordered, InOrder, Behind, Enclosing, PrecedesAll
<1>5. InOrder(tree, stack', ctx')
  BY <1>4 DEF InOrder
<1> QED
  BY <1>5 DEF Ordered

(* The pass is given up: no frame is left to be behind of.                 *)
LEMMA OrderOnFail ==
  ASSUME Ordered, tree' = tree, stack' = << >>,
         Ascending(ctx'.paths), Ascending(ctx'.includes)
  PROVE  Ordered'
<1>1. InOrder(tree, stack', ctx')
  BY DEF InOrder, Behind, Enclosing, PrecedesAll
<1> QED
  BY <1>1 DEF Ordered

-------------------------------------------------------------------------------
(* The cartesian pass.                                                     *)

(* An answer is folded into a frame that has moved on or not, or the pass  *)
(* is given up.                                                            *)
LEMMA OrderAbsorbed ==
  ASSUME Inv, Ordered, phase = "cartesian",
         NEW f \in Frame, f.node = Top.node, f.idx >= Top.idx,
         NEW alts, NEW c \in Ctx, Absorb(f, alts, c),
         \A h : h.node = f.node /\ h.idx = f.idx =>
           Behind(tree, WithTop(h), c.paths) /\ Behind(tree, WithTop(h), c.includes)
  PROVE  Ordered'
<1> DEFINE n == f.pending
           local == IF f.type = "Body" THEN FinishPending(n, alts)
                    ELSE IF tree.kind[n] = "when" THEN Tail(Guarded(n, << >>, alts))
                    ELSE alts
           excess == IF f.type = "Body" THEN Excess(n, f.acc, local)
                     ELSE IF Len(f.acc) + Len(local) > BranchLimit
                          THEN Len(f.acc) + Len(local) ELSE 0
           acc == IF f.type = "Body" THEN Combined(f.acc, local) ELSE f.acc \o local
           resumed == [f EXCEPT !.acc = acc, !.pending = NoTag]
           restored == [c EXCEPT !.insideUnknown = RestoredFlag(f, c)]
<1>1. IF excess > 0 THEN Fail(excess, restored)
      ELSE /\ stack' = WithTop(resumed)
           /\ ctx' = restored
           /\ arrived' = FALSE
           /\ incoming' = << >>
           /\ UNCHANGED <<tree, phase, branchCount, result>>
  BY DEF Absorb
<1> HIDE DEF acc, excess
<1>2. resumed.node = f.node /\ resumed.idx = f.idx /\ f.idx \in Nat
  BY DEF Frame
<1>3. Behind(tree, WithTop(resumed), c.paths) /\ Behind(tree, WithTop(resumed), c.includes)
  BY <1>2
<1>4. restored \in [depth : Int, insideUnknown : {RestoredFlag(f, c)},
                    diags : Seq(Diagnostic), paths : {c.paths}, includes : {c.includes}]
  BY DEF Ctx
<1> HIDE DEF resumed, restored
<1>5. restored.paths = c.paths /\ restored.includes = c.includes
  BY <1>4
<1>6. CASE excess > 0
  <2>1. /\ stack' = << >> /\ tree' = tree
        /\ ctx' = [restored EXCEPT !.depth = @ - Cardinality(Levels(stack))]
    BY <1>1, <1>6 DEF Fail
  <2>2. ctx'.paths = c.paths /\ ctx'.includes = c.includes
    BY <1>4, <1>5, <2>1
  <2> QED
    BY <1>3, <2>1, <2>2, OrderOnFail DEF Behind
<1>7. CASE ~ (excess > 0)
  <2>1. stack' = WithTop(resumed) /\ ctx' = restored /\ tree' = tree
    BY <1>1, <1>7
  <2>2. stack # << >>
    BY TopTyped
  <2> QED
    BY <1>2, <1>3, <1>5, <2>1, <2>2, OrderOnRead
<1> QED
  BY <1>6, <1>7

(* A descent records at most the segment itself.                           *)
LEMMA OrderDescended ==
  ASSUME Inv, Ordered, phase = "cartesian", HasSegment,
         NEW f \in Frame, f.node = Top.node, f.idx = Top.idx + 1,
         NEW c \in Ctx, Recorded(c), Descend(f, Segment, c)
  PROVE  Ordered'
<1> DEFINE suspended == [f EXCEPT !.pending = Segment, !.was = ctx.insideUnknown]
           warned == [c EXCEPT !.diags = Append(@, Diag("NestingLimitExceeded", Segment))]
<1>1. IF DepthReached
      THEN Absorb(suspended, <<EmptyAlt>>, warned)
      ELSE /\ stack' = Append(WithTop(suspended), BodyFrame(Segment))
           /\ ctx' = [c EXCEPT !.depth = @ + 1]
           /\ UNCHANGED <<tree, phase, arrived, incoming, branchCount, result>>
  BY DEF Descend
<1>2. /\ suspended \in Frame /\ suspended.node = Top.node /\ suspended.idx = Top.idx + 1
      /\ Segment \in Node /\ stack # << >> /\ Top.idx \in Nat
  <2>1. ctx.insideUnknown \in BOOLEAN /\ Segment \in Node /\ stack # << >> /\ Top.idx \in Nat
    BY TopTyped, SegmentIsNode DEF Ctx
  <2> QED
    BY <2>1 DEF Frame
<1> HIDE DEF suspended
<1>3. CASE DepthReached
  <2>1. warned \in Ctx /\ warned.paths = c.paths /\ warned.includes = c.includes
    <3>1. Diag("NestingLimitExceeded", Segment) \in Diagnostic
      BY <1>2 DEF Diag, Diagnostic, Holder
    <3>2. c.diags \in Seq(Diagnostic)
      BY DEF Ctx
    <3>3. Append(c.diags, Diag("NestingLimitExceeded", Segment)) \in Seq(Diagnostic)
      BY <3>1, <3>2
    <3> QED
      BY <3>3 DEF Ctx
  <2> HIDE DEF warned
  <2>2. \A h : h.node = suspended.node /\ h.idx = suspended.idx =>
          /\ Behind(tree, WithTop(h), warned.paths)
          /\ Behind(tree, WithTop(h), warned.includes)
    BY <1>2, <2>1, BehindRecorded
  <2>3. suspended.idx >= Top.idx
    BY <1>2
  <2> QED
    BY <1>1, <1>2, <1>3, <2>1, <2>2, <2>3, OrderAbsorbed
<1>4. CASE ~ DepthReached
  <2>1. /\ stack' = Append(WithTop(suspended), BodyFrame(Segment)) /\ tree' = tree
        /\ ctx' = [c EXCEPT !.depth = @ + 1]
    BY <1>1, <1>4
  <2>2. BodyFrame(Segment).node = Segment /\ BodyFrame(Segment).idx = 1
    BY DEF BodyFrame
  <2>3. ctx'.paths = c.paths /\ ctx'.includes = c.includes
    BY <2>1 DEF Ctx
  <2>4. Recorded(ctx')
    BY <2>3, Zenon DEF Recorded
  <2> QED
    BY <1>2, <2>1, <2>2, <2>4, OrderOnPush
<1> QED
  BY <1>3, <1>4

(* Each action of the cartesian pass keeps the order.                      *)
LEMMA CartesianInOrder ==
  ASSUME Inv, Ordered, CartesianNext
  PROVE  Ordered'
<1>1. phase = "cartesian"
  BY DEF CartesianNext, BodyText, BodyInclude, BodyBind, BodyChoose, BodyWrapper,
     BodyTransparent, BodyEnd, BodyDeliver, ChooseStray, ChooseBranch, ChooseEnd,
     ChooseDeliver, Stepping, Delivering, Running
<1>2. Top \in Frame /\ ctx \in Ctx /\ stack # << >> /\ ctx.includes \in Seq(Node)
  BY <1>1, TopTyped DEF Ctx
<1>3. ~ arrived => /\ Consumed \in Frame /\ Consumed.node = Top.node
                   /\ Consumed.idx = Top.idx + 1
  <2>1. Consumed.idx = Top.idx + 1
    BY <1>2 DEF Consumed, Frame
  <2> QED
    BY <1>1, <2>1, ConsumedProperties
<1>4. Recorded(ctx)
  BY DEF Recorded
<1>5. CASE BodyText
  <2> DEFINE run == TextRun(tree, Top.node, Top.idx)
             f == [Top EXCEPT
                    !.idx = RunEnd(tree, Top.node, Top.idx),
                    !.acc = AppendToEach(@, [what |-> "text", of |-> run])]
  <2>1. /\ HasSegment /\ stack' = WithTop(f) /\ tree' = tree
        /\ ctx' = [ctx EXCEPT !.paths = @ \o run]
    BY <1>5 DEF BodyText, Stepping
  <2>2. f.node = Top.node /\ f.idx = RunEnd(tree, Top.node, Top.idx)
    BY <1>2 DEF Frame
  <2>3. ctx'.paths = ctx.paths \o run /\ ctx'.includes = ctx.includes
    BY <1>2, <2>1 DEF Ctx
  <2> HIDE DEF f
  <2> QED
    BY <1>1, <1>2, <2>1, <2>2, <2>3, OrderOnText
<1>6. CASE BodyInclude
  <2> DEFINE f == [Consumed EXCEPT
                    !.acc = AppendToEach(@, [what |-> "include", of |-> <<Segment>>])]
  <2>1. /\ ~ arrived /\ HasSegment /\ stack' = WithTop(f) /\ tree' = tree
        /\ ctx' = [ctx EXCEPT !.includes = @ \o RecordedInclude(Segment)]
    BY <1>6 DEF BodyInclude, Stepping
  <2>2. f.node = Top.node /\ f.idx = Top.idx + 1
    BY <1>3, <2>1 DEF Frame
  <2>3. /\ ctx'.includes = ctx.includes \o RecordedInclude(Segment)
        /\ ctx'.paths = ctx.paths
    BY <1>2, <2>1 DEF Ctx
  <2>4. Segment \in Node
    BY <1>1, <2>1, SegmentIsNode
  <2>5. Recorded(ctx')
    BY <1>2, <2>3, <2>4, IncludeRecorded DEF Recorded
  <2> HIDE DEF f
  <2> QED
    BY <1>1, <1>2, <2>1, <2>2, <2>5, OrderOnConsume
<1>7. CASE BodyBind
  <2>1. /\ ~ arrived /\ HasSegment /\ stack' = WithTop(Consumed) /\ tree' = tree
        /\ ctx' = [ctx EXCEPT !.paths = Append(@, Segment)]
    BY <1>7 DEF BodyBind, Stepping
  <2>2. Recorded(ctx')
    BY <1>2, <2>1 DEF Ctx, Recorded
  <2> QED
    BY <1>1, <1>2, <1>3, <2>1, <2>2, OrderOnConsume
<1>8. CASE ChooseStray
  <2>1. /\ ~ arrived /\ HasSegment /\ stack' = WithTop(Consumed) /\ tree' = tree
        /\ ctx' = IF IsText(tree, Segment) THEN ctx
                  ELSE [ctx EXCEPT !.diags = Append(@, Diag("UnknownElement", Segment))]
    BY <1>8 DEF ChooseStray, Stepping
  <2>2. Recorded(ctx')
    BY <1>2, <2>1 DEF Ctx, Recorded
  <2> QED
    BY <1>1, <1>2, <1>3, <2>1, <2>2, OrderOnConsume
<1>9. CASE BodyChoose
  <2> DEFINE f == [Consumed EXCEPT !.pending = Segment]
  <2>1. /\ ~ arrived /\ HasSegment /\ tree' = tree
        /\ stack' = Append(WithTop(f), ChooseFrame(Segment)) /\ ctx' = ctx
    BY <1>9 DEF BodyChoose, Stepping
  <2>2. f.node = Top.node /\ f.idx = Top.idx + 1
    BY <1>3, <2>1 DEF Frame
  <2>3. ChooseFrame(Segment).node = Segment /\ ChooseFrame(Segment).idx = 1
    BY DEF ChooseFrame
  <2>4. Recorded(ctx')
    BY <1>4, <2>1, Zenon
  <2> HIDE DEF f
  <2> QED
    BY <1>1, <1>2, <2>1, <2>2, <2>3, <2>4, OrderOnPush
<1>10. CASE BodyWrapper
  <2>1. phase = "cartesian" /\ ~ arrived /\ HasSegment
    BY <1>10, BodyWrapperDescends
  <2>2. PICK c \in Ctx : Descend(Consumed, Segment, c) /\ Recorded(c)
    BY <1>10, BodyWrapperDescends DEF Recorded
  <2> QED
    BY <1>3, <2>1, <2>2, OrderDescended
<1>11. CASE BodyTransparent
  <2>1. phase = "cartesian" /\ ~ arrived /\ HasSegment
    BY <1>11, BodyTransparentDescends
  <2>2. PICK c \in Ctx : Descend(Consumed, Segment, c) /\ Recorded(c)
    BY <1>11, BodyTransparentDescends DEF Recorded
  <2> QED
    BY <1>3, <2>1, <2>2, OrderDescended
<1>12. CASE BodyEnd \/ ChooseEnd
  <2>1. PICK alts : Finish(alts)
    BY <1>12 DEF BodyEnd, ChooseEnd
  <2>2. /\ stack' = Below /\ tree' = tree
        /\ ctx' = [ctx EXCEPT !.depth = @ - (IF Top.type = "Body" THEN 1 ELSE 0)]
    BY <2>1 DEF Finish
  <2>3. ctx'.paths = ctx.paths /\ ctx'.includes = ctx.includes
    BY <1>2, <2>2 DEF Ctx
  <2> QED
    BY <1>1, <1>2, <2>2, <2>3, OrderOnFinish
<1>13. CASE BodyDeliver \/ ChooseDeliver
  <2>1. Absorb(Top, incoming, ctx)
    BY <1>13 DEF BodyDeliver, ChooseDeliver
  <2>2. \A h : h.node = Top.node /\ h.idx = Top.idx =>
          /\ Behind(tree, WithTop(h), ctx.paths)
          /\ Behind(tree, WithTop(h), ctx.includes)
    BY <1>1, <1>2, OrderOnDeliver
  <2>3. Top.idx >= Top.idx
    BY <1>2 DEF Frame
  <2> QED
    BY <1>1, <1>2, <2>1, <2>2, <2>3, OrderAbsorbed
<1>14. CASE ChooseBranch
  <2> DEFINE f == [Consumed EXCEPT
                    !.hasOtherwise = @ \/ tree.kind[Segment] = "otherwise"]
  <2>1. ~ arrived /\ HasSegment /\ Descend(f, Segment, ctx)
    BY <1>14 DEF ChooseBranch, Stepping
  <2>2. f \in Frame /\ f.node = Top.node /\ f.idx = Top.idx + 1
    <3>1. (Consumed.hasOtherwise \/ tree.kind[Segment] = "otherwise") \in BOOLEAN
      OBVIOUS
    <3> QED
      BY <1>3, <2>1, <3>1 DEF Frame
  <2> HIDE DEF f
  <2> QED
    BY <1>1, <1>2, <1>4, <2>1, <2>2, OrderDescended
<1> QED
  BY <1>5, <1>6, <1>7, <1>8, <1>9, <1>10, <1>11, <1>12, <1>13, <1>14 DEF CartesianNext

-------------------------------------------------------------------------------
(* The union pass.                                                         *)

(* A descent of the union pass, into a frame or not.                       *)
LEMMA OrderUDescended ==
  ASSUME Inv, Ordered, phase = "union", stack # << >>, HasSegment,
         NEW c \in Ctx, Recorded(c), UDescend(Segment, c)
  PROVE  Ordered'
<1>1. Consume.node = Top.node /\ Consume.idx = Top.idx + 1
  BY UnionTyped DEF Consume, UFrame
<1>2. tree' = tree
  BY DEF UDescend
<1>3. CASE DepthReached
  <2>1. /\ stack' = WithTop(Consume)
        /\ ctx' = [c EXCEPT !.diags = Append(@, Diag("NestingLimitExceeded", Segment))]
    BY <1>3 DEF UDescend
  <2>2. ctx'.paths = c.paths /\ ctx'.includes = c.includes
    BY <2>1 DEF Ctx
  <2>3. Recorded(ctx')
    BY <2>2, Zenon DEF Recorded
  <2> QED
    BY <1>1, <1>2, <2>1, <2>3, OrderOnConsume
<1>4. CASE ~ DepthReached
  <2>1. /\ stack' = Append(WithTop(Consume), UnionFrame(Segment))
        /\ ctx' = [c EXCEPT !.depth = @ + 1]
    BY <1>4 DEF UDescend
  <2>2. ctx'.paths = c.paths /\ ctx'.includes = c.includes
    BY <2>1 DEF Ctx
  <2>3. Recorded(ctx')
    BY <2>2, Zenon DEF Recorded
  <2>4. UnionFrame(Segment).node = Segment /\ UnionFrame(Segment).idx = 1
    BY DEF UnionFrame
  <2> QED
    BY <1>1, <1>2, <2>1, <2>3, <2>4, OrderOnPush
<1> QED
  BY <1>3, <1>4

(* A segment that contributes what it is, or nothing.                      *)
LEMMA OrderContributed ==
  ASSUME Inv, Ordered, phase = "union", stack # << >>, HasSegment,
         NEW pieces, NEW paths \in {<< >>, <<Segment>>}, NEW includes \in {<< >>, <<Segment>>},
         Contribute(pieces, paths, includes)
  PROVE  Ordered'
<1> DEFINE f == [Consume EXCEPT !.pieces = @ \o pieces]
<1>1. /\ stack' = WithTop(f) /\ tree' = tree
      /\ ctx' = [ctx EXCEPT !.paths = @ \o paths, !.includes = @ \o includes]
  BY DEF Contribute
<1>2. /\ f.node = Top.node /\ f.idx = Top.idx + 1
  BY UnionTyped DEF Consume, UFrame
<1>3. ctx \in Ctx /\ Segment \in Node
  BY UnionTyped, ConsumeProperties
<1>4. ctx'.paths = ctx.paths \o paths /\ ctx'.includes = ctx.includes \o includes
  BY <1>1, <1>3 DEF Ctx
<1>5. \A e \in Seq(Node) : e \o << >> = e /\ e \o <<Segment>> = Append(e, Segment)
  BY <1>3, ConcatEmptySeq, AppendIsConcat
<1>6. ctx.paths \in Seq(Node) /\ ctx.includes \in Seq(Node)
  BY <1>3 DEF Ctx
<1>7. Recorded(ctx')
  BY <1>4, <1>5, <1>6, Zenon DEF Recorded
<1> HIDE DEF f
<1> QED
  BY <1>1, <1>2, <1>7, OrderOnConsume

(* Each action of the union pass keeps the order.                          *)
LEMMA UnionInOrder ==
  ASSUME Inv, Ordered, UnionNext
  PROVE  Ordered'
<1>1. phase = "union" /\ stack # << >>
  BY DEF UnionNext, UnionText, UnionInclude, UnionBind, UnionChoose, UnionContainer,
     UnionBranch, UnionSkip, UnionEnd, UnionDeliver, UStepping
<1>2. Top \in UFrame /\ ctx \in Ctx
  BY <1>1, UnionTyped
<1>3. Recorded(ctx)
  BY DEF Recorded
<1>4. CASE UnionText
  <2> DEFINE run == TextRun(tree, Top.node, Top.idx)
             f == [Top EXCEPT
                    !.idx = RunEnd(tree, Top.node, Top.idx),
                    !.pieces = Append(@, [what |-> "text", of |-> run])]
  <2>1. /\ HasSegment /\ stack' = WithTop(f) /\ tree' = tree
        /\ ctx' = [ctx EXCEPT !.paths = @ \o run]
    BY <1>4 DEF UnionText
  <2>2. f.node = Top.node /\ f.idx = RunEnd(tree, Top.node, Top.idx)
    BY <1>2 DEF UFrame
  <2>3. ctx'.paths = ctx.paths \o run /\ ctx'.includes = ctx.includes
    BY <1>2, <2>1 DEF Ctx
  <2> HIDE DEF f
  <2> QED
    BY <1>1, <2>1, <2>2, <2>3, OrderOnText
<1>5. CASE UnionInclude \/ UnionBind \/ UnionSkip
  <2>1. HasSegment
    BY <1>5 DEF UnionInclude, UnionBind, UnionSkip
  <2>2. \E pieces : \E paths, includes \in {<< >>, <<Segment>>} :
          Contribute(pieces, paths, includes)
    <3>1. RecordedInclude(Segment) \in {<< >>, <<Segment>>}
      BY DEF RecordedInclude
    <3> QED
      BY <1>5, <3>1, Zenon DEF UnionInclude, UnionBind, UnionSkip
  <2> QED
    BY <1>1, <2>1, <2>2, OrderContributed
<1>6. CASE UnionChoose
  <2>1. /\ HasSegment /\ tree' = tree /\ ctx' = ctx
        /\ stack' = Append(WithTop(Consume), UnionChooseFrame(Segment))
    BY <1>6 DEF UnionChoose
  <2>2. Consume.node = Top.node /\ Consume.idx = Top.idx + 1
    BY <1>2 DEF Consume, UFrame
  <2>3. UnionChooseFrame(Segment).node = Segment /\ UnionChooseFrame(Segment).idx = 1
    BY DEF UnionChooseFrame
  <2>4. Recorded(ctx')
    BY <1>3, <2>1, Zenon
  <2> QED
    BY <1>1, <2>1, <2>2, <2>3, <2>4, OrderOnPush
<1>7. CASE UnionContainer \/ UnionBranch
  <2> DEFINE seen == [ctx EXCEPT !.paths = Append(@, Segment)]
  <2>1. HasSegment /\ (UDescend(Segment, seen) \/ UDescend(Segment, ctx))
    BY <1>7 DEF UnionContainer, UnionBranch
  <2>2. Segment \in Node
    BY <1>1, <2>1, ConsumeProperties
  <2>3. seen \in Ctx /\ seen.paths = Append(ctx.paths, Segment) /\ seen.includes = ctx.includes
    <3>1. Append(ctx.paths, Segment) \in Seq(Node)
      BY <1>2, <2>2 DEF Ctx
    <3> QED
      BY <1>2, <3>1 DEF Ctx
  <2> HIDE DEF seen
  <2>4. Recorded(seen)
    BY <2>3, Zenon DEF Recorded
  <2> QED
    BY <1>1, <1>2, <1>3, <2>1, <2>3, <2>4, OrderUDescended
<1>8. CASE UnionEnd
  <2>1. /\ stack' = Below /\ tree' = tree
        /\ ctx' = [ctx EXCEPT !.depth = @ - (IF Top.type = "Union" THEN 1 ELSE 0)]
    BY <1>8 DEF UnionEnd
  <2>2. ctx'.paths = ctx.paths /\ ctx'.includes = ctx.includes
    BY <1>2, <2>1 DEF Ctx
  <2> QED
    BY <1>1, <2>1, <2>2, OrderOnFinish
<1>9. CASE UnionDeliver
  <2> DEFINE f == [Top EXCEPT !.pieces = @ \o incoming]
  <2>1. stack' = WithTop(f) /\ tree' = tree /\ ctx' = ctx
    BY <1>9 DEF UnionDeliver
  <2>2. f.node = Top.node /\ f.idx = Top.idx
    BY <1>2 DEF UFrame
  <2> HIDE DEF f
  <2>3. /\ Behind(tree, WithTop(f), ctx.paths) /\ Behind(tree, WithTop(f), ctx.includes)
        /\ f.idx \in Nat /\ f.idx >= Top.idx
    BY <1>1, <2>2, OrderOnDeliver
  <2> QED
    BY <1>1, <2>1, <2>2, <2>3, OrderOnRead
<1> QED
  BY <1>4, <1>5, <1>6, <1>7, <1>8, <1>9 DEF UnionNext

(* Either pass starts at the root's own first segment with nothing         *)
(* recorded.                                                               *)
LEMMA OrderAtStart ==
  ASSUME NEW t, NEW f, NEW c, c.paths = << >>, c.includes = << >>
  PROVE  InOrder(t, <<f>>, c)
<1>1. Len(<<f>>) = 1 /\ DOMAIN << >> = {}
  OBVIOUS
<1>2. \A i, k \in 1 .. Len(<<f>>) : ~ (i < k)
  BY <1>1
<1> QED
  BY <1>1, <1>2, Zenon DEF InOrder, Behind, Ascending, Enclosing

(* Property paths and includes come out in document order and each once,   *)
(* whichever pass they come from, with nothing left of an abandoned one.   *)
THEOREM SideChannelsCorrect == Spec => []SideChannelsInDocumentOrder
<1>1. Init => Ordered
  <2> SUFFICES ASSUME Init PROVE Ordered
    OBVIOUS
  <2>1. Numbered(tree)
    BY TreesAssumption DEF Init
  <2>2. stack = <<BodyFrame(Root)>> /\ ctx.paths = << >> /\ ctx.includes = << >>
    BY DEF Init, FreshCtx
  <2>3. InOrder(tree, stack, ctx)
    BY <2>2, OrderAtStart
  <2> QED
    BY <2>1, <2>3 DEF Ordered
<1>2. Inv /\ Ordered /\ [Next]_vars => Ordered'
  <2>1. CASE CartesianNext
    BY <2>1, CartesianInOrder
  <2>2. CASE FallBack
    <3>1. /\ stack' = <<UnionFrame(Root)>> /\ tree' = tree
          /\ ctx'.paths = << >> /\ ctx'.includes = << >>
      BY <2>2 DEF FallBack, FreshCtx
    <3>2. InOrder(tree, stack', ctx')
      BY <3>1, OrderAtStart
    <3> QED
      BY <3>1, <3>2 DEF Ordered
  <2>3. CASE UnionNext
    BY <2>3, UnionInOrder
  <2>4. CASE UNCHANGED vars
    BY <2>4 DEF vars, Ordered
  <2> QED
    BY <2>1, <2>2, <2>3, <2>4 DEF Next
<1>3. Ordered => SideChannelsInDocumentOrder
  BY DEF Ordered, InOrder, Behind, SideChannelsInDocumentOrder
<1> QED
  BY <1>1, <1>2, <1>3, InvAlways, PTL DEF Spec
===============================================================================
