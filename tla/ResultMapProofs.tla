---------------------------- MODULE ResultMapProofs ----------------------------
(***************************************************************************)
(* That collect_mappings keeps its books, for every resultMap and every    *)
(* nesting limit: each frame is handed the level it is on, no frame is at  *)
(* the limit, and there are at most two frames a level.  And that what it  *)
(* gathers is what the tree says: the columns above the limit and the      *)
(* bodies at it, in document order.                                        *)
(*                                                                         *)
(* The bound does not follow from the levels counted up: what carries it   *)
(* is that a frame's place on the worklist is at most twice its level,     *)
(* plus one for a discriminator, which only ever lies on a mapping frame   *)
(* of the same level.  What carries the lists is Walk: whatever was wanted *)
(* is either recorded, and behind all that is ahead, or ahead, which is to *)
(* say inside what some frame has yet to look at; and what a frame was     *)
(* reached from resumes only behind all that is inside it.                 *)
(***************************************************************************)
EXTENDS ResultMapWalk, FiniteSetTheorems, SequenceTheorems, CommonLemmas, TLAPS

PlaceWithinLevel ==
  \A i \in DOMAIN stack :
    i <= 2 * stack[i].depth + (IF stack[i].type = "mapping" THEN 1 ELSE 2)

Inv == TypeOK /\ DepthCountsBodies /\ PlaceWithinLevel

-------------------------------------------------------------------------------
(* The bodies below the frame at i, in any worklist.                       *)
Below(s, i) == {j \in 1 .. i - 1 : s[j].type = "mapping"}

LEMMA BelowFinite ==
  ASSUME NEW s, NEW i \in Nat
  PROVE  IsFiniteSet(Below(s, i)) /\ Cardinality(Below(s, i)) \in Nat
<1>1. i - 1 \in Int
  OBVIOUS
<1>2. IsFiniteSet(1 .. i - 1)
  BY <1>1, FS_Interval
<1>3. Below(s, i) \in SUBSET (1 .. i - 1)
  BY Zenon DEF Below
<1> QED
  BY <1>2, <1>3, FS_Subset, FS_CardinalityType

(* Only the frames below count.                                            *)
LEMMA BelowSame ==
  ASSUME NEW s, NEW t, NEW i \in Nat, \A j \in 1 .. i - 1 : s[j].type = t[j].type
  PROVE  Below(s, i) = Below(t, i)
BY Zenon DEF Below

(* One place up there is one body more below, or the same.                 *)
LEMMA BelowNext ==
  ASSUME NEW s, NEW i \in Nat \ {0}
  PROVE  Cardinality(Below(s, i + 1)) =
           Cardinality(Below(s, i)) + (IF s[i].type = "mapping" THEN 1 ELSE 0)
<1>1. IsFiniteSet(Below(s, i)) /\ Cardinality(Below(s, i)) \in Nat /\ i \notin Below(s, i)
  BY BelowFinite DEF Below
<1>2. CASE s[i].type = "mapping"
  <2>1. Below(s, i + 1) = Below(s, i) \cup {i}
    BY <1>2 DEF Below
  <2> QED
    BY <1>1, <1>2, <2>1, FS_AddElement
<1>3. CASE s[i].type # "mapping"
  <2>1. Below(s, i + 1) = Below(s, i)
    BY <1>3 DEF Below
  <2> QED
    BY <1>1, <1>3, <2>1
<1> QED
  BY <1>2, <1>3

(* What is known of each frame, whatever the worklist.                     *)
Booked(s, i) ==
  /\ s[i].depth = Cardinality(Below(s, i)) - (IF s[i].type = "discriminator" THEN 1 ELSE 0)
  /\ s[i].depth < DepthLimit
  /\ i <= 2 * s[i].depth + (IF s[i].type = "mapping" THEN 1 ELSE 2)

LEMMA BookedMeans ==
  DepthCountsBodies /\ PlaceWithinLevel <=> \A i \in DOMAIN stack : Booked(stack, i)
<1>1. \A i : Below(stack, i) = {j \in 1 .. i - 1 : stack[j].type = "mapping"}
  BY DEF Below
<1> QED
  BY <1>1, Zenon DEF DepthCountsBodies, PlaceWithinLevel, Booked, BodiesBelow

(* A frame's books depend on nothing above it, nor on its own index.       *)
LEMMA BookedSame ==
  ASSUME NEW s, NEW t, NEW i \in Nat \ {0}, Booked(s, i),
         \A j \in 1 .. i : s[j].type = t[j].type,
         s[i].depth = t[i].depth
  PROVE  Booked(t, i)
<1>1. Below(s, i) = Below(t, i)
  BY BelowSame
<1>2. s[i].type = t[i].type
  OBVIOUS
<1> QED
  BY <1>1, <1>2, Zenon DEF Booked

-------------------------------------------------------------------------------
(* Typed: the running frame and the worklist with its index moved on.      *)
LEMMA TopTyped ==
  ASSUME TypeOK, stack # << >>
  PROVE  /\ Len(stack) \in Nat \ {0} /\ Len(stack) \in DOMAIN stack
         /\ DOMAIN stack = 1 .. Len(stack)
         /\ Top \in Frame /\ Kids \in Seq(Node)
<1>1. stack \in Seq(Frame) /\ tree \in Tree
  BY DEF TypeOK
<1>2. Len(stack) \in Nat \ {0} /\ Len(stack) \in DOMAIN stack /\ DOMAIN stack = 1 .. Len(stack)
  BY <1>1, EmptySeq
<1>3. Top \in Frame
  BY <1>1, <1>2 DEF Top
<1>4. Top.node \in Holder /\ tree.kids \in [Holder -> Seq(Node)]
  BY <1>1, <1>3 DEF Frame, Tree
<1> QED
  BY <1>2, <1>3, <1>4 DEF Kids

(* The worklist once the running frame has its index at k.                 *)
Moved(k) == [stack EXCEPT ![Len(stack)].idx = k]

LEMMA MovedKeepsBooks ==
  ASSUME Inv, stack # << >>, NEW k \in Nat \ {0}
  PROVE  /\ Moved(k) \in Seq(Frame)
         /\ Len(Moved(k)) = Len(stack)
         /\ Moved(k)[Len(stack)].type = Top.type
         /\ \A i \in 1 .. Len(stack) : i # Len(stack) => Moved(k)[i] = stack[i]
         /\ \A i \in 1 .. Len(stack) : Booked(Moved(k), i)
<1>1. /\ Len(stack) \in Nat \ {0} /\ DOMAIN stack = 1 .. Len(stack)
      /\ stack \in Seq(Frame) /\ Top \in Frame
  BY TopTyped DEF Inv, TypeOK
<1> DEFINE f == [Top EXCEPT !.idx = k]
<1>2. f \in Frame /\ f.type = Top.type /\ f.depth = Top.depth
  BY <1>1 DEF Frame
<1>3. Moved(k) = [stack EXCEPT ![Len(stack)] = f]
  BY <1>1 DEF Moved, Top
<1> HIDE DEF f
<1>4. /\ Moved(k) \in Seq(Frame) /\ Len(Moved(k)) = Len(stack)
      /\ \A i \in 1 .. Len(stack) :
           Moved(k)[i] = IF i = Len(stack) THEN f ELSE stack[i]
  BY <1>1, <1>2, <1>3
<1>5. \A i \in 1 .. Len(stack) :
        stack[i].type = Moved(k)[i].type /\ stack[i].depth = Moved(k)[i].depth
  BY <1>2, <1>4, Zenon DEF Top
<1>6. \A i \in 1 .. Len(stack) : Booked(stack, i)
  BY <1>1, BookedMeans DEF Inv
<1>7. ASSUME NEW i \in 1 .. Len(stack) PROVE Booked(Moved(k), i)
  <2>1. i \in Nat \ {0} /\ \A j \in 1 .. i : j \in 1 .. Len(stack)
    BY <1>1
  <2> QED
    BY <1>5, <1>6, <1>7, <2>1, BookedSame
<1>8. Len(stack) \in 1 .. Len(stack)
  BY <1>1
<1>9. Moved(k)[Len(stack)].type = Top.type
  BY <1>2, <1>4, <1>8, Zenon
<1> QED
  BY <1>4, <1>7, <1>9, Zenon

-------------------------------------------------------------------------------
(* What a turn does with the worklist, whatever made it do so.             *)

(* It is enough that the next worklist keeps its books.                    *)
LEMMA Rebooked ==
  ASSUME Inv, tree' = tree, mappings' \in Seq(Node), cut' \in Seq(Node),
         stack' \in Seq(Frame), \A i \in 1 .. Len(stack') : Booked(stack', i)
  PROVE  Inv'
<1>1. TypeOK'
  BY DEF Inv, TypeOK
<1>2. DOMAIN stack' = 1 .. Len(stack')
  OBVIOUS
<1>3. \A i : Below(stack', i) = {j \in 1 .. i - 1 : stack'[j].type = "mapping"}
  BY DEF Below
<1>4. (DepthCountsBodies /\ PlaceWithinLevel)'
  BY <1>2, <1>3, Zenon DEF DepthCountsBodies, PlaceWithinLevel, Booked, BodiesBelow
<1> QED
  BY <1>1, <1>4, Zenon DEF Inv

(* The running frame moves on.                                             *)
LEMMA MoveStep ==
  ASSUME Inv, stack # << >>, NEW k \in Nat \ {0}, stack' = Moved(k),
         tree' = tree, mappings' \in Seq(Node), cut' \in Seq(Node)
  PROVE  Inv'
BY MovedKeepsBooks, Rebooked

(* What may lie on the running frame: a mapping frame one level down, or,  *)
(* on a mapping frame, a discriminator of the same level.                  *)
FitsOnTop(f) ==
  /\ f.depth < DepthLimit
  /\ \/ f.type = "mapping" /\ f.depth = Top.depth + 1
     \/ f.type = "discriminator" /\ Top.type = "mapping" /\ f.depth = Top.depth

LEMMA PushStep ==
  ASSUME Inv, stack # << >>, NEW k \in Nat \ {0}, NEW f \in Frame, FitsOnTop(f),
         stack' = Append(Moved(k), f), UNCHANGED <<tree, mappings, cut>>
  PROVE  Inv'
<1> DEFINE n == Len(stack)
<1>1. /\ n \in Nat \ {0} /\ stack \in Seq(Frame) /\ Top \in Frame
      /\ mappings \in Seq(Node) /\ cut \in Seq(Node) /\ DOMAIN stack = 1 .. n
  BY TopTyped DEF Inv, TypeOK
<1>2. /\ Moved(k) \in Seq(Frame) /\ Len(Moved(k)) = n
      /\ Moved(k)[n].type = Top.type
      /\ \A i \in 1 .. n : Booked(Moved(k), i)
  BY MovedKeepsBooks
<1>3. /\ stack' \in Seq(Frame) /\ Len(stack') = n + 1
      /\ \A i \in 1 .. n : stack'[i] = Moved(k)[i]
      /\ stack'[n + 1] = f
  BY <1>1, <1>2
<1>4. ASSUME NEW i \in 1 .. n PROVE Booked(stack', i)
  <2>1. i \in Nat \ {0} /\ \A j \in 1 .. i : j \in 1 .. n
    BY <1>1
  <2> HIDE DEF n
  <2> QED
    BY <1>2, <1>3, <1>4, <2>1, BookedSame
<1>5. Booked(stack', n + 1)
  <2>1. n \in 1 .. n
    BY <1>1
  <2>2. Booked(stack, n) /\ stack[n] = Top
    BY <1>1, <2>1, BookedMeans DEF Inv, Top
  <2>3. Below(stack', n) = Below(stack, n)
    <3>1. \A j \in 1 .. n - 1 : j \in 1 .. n /\ j # n
      <4>1. n \in Nat
        BY <1>1
      <4> HIDE DEF n
      <4> QED
        BY <4>1
    <3>2. \A j \in 1 .. n - 1 : Moved(k)[j] = stack[j]
      BY <3>1, MovedKeepsBooks
    <3>3. \A j \in 1 .. n - 1 : stack'[j].type = stack[j].type
      BY <1>3, <3>1, <3>2, Zenon
    <3> QED
      BY <1>1, <3>3, BelowSame
  <2>4. stack'[n].type = Top.type
    BY <1>2, <1>3, <2>1, Zenon
  <2>5. Cardinality(Below(stack', n + 1)) =
          Cardinality(Below(stack, n)) + (IF Top.type = "mapping" THEN 1 ELSE 0)
    <3>1. Cardinality(Below(stack', n + 1)) =
            Cardinality(Below(stack', n)) + (IF stack'[n].type = "mapping" THEN 1 ELSE 0)
      BY <1>1, BelowNext
    <3> QED
      BY <2>3, <2>4, <3>1, Zenon
  <2>6. Cardinality(Below(stack, n)) \in Nat
    BY <1>1, BelowFinite
  <2>7. Top.type \in {"mapping", "discriminator"} /\ Top.depth \in Nat
    BY <1>1 DEF Frame
  <2>8. /\ Top.depth = Cardinality(Below(stack, n)) - (IF Top.type = "discriminator" THEN 1 ELSE 0)
        /\ n <= 2 * Top.depth + (IF Top.type = "mapping" THEN 1 ELSE 2)
    BY <2>2, Zenon DEF Booked
  <2> DEFINE below == Cardinality(Below(stack, n))
  <2>10. /\ below \in Nat /\ n \in Nat
         /\ Top.depth = below - (IF Top.type = "discriminator" THEN 1 ELSE 0)
         /\ n <= 2 * Top.depth + (IF Top.type = "mapping" THEN 1 ELSE 2)
    BY <1>1, <2>6, <2>8
  <2> HIDE DEF below, n
  <2>9. /\ f.depth = (below + (IF Top.type = "mapping" THEN 1 ELSE 0))
             - (IF f.type = "discriminator" THEN 1 ELSE 0)
        /\ f.depth < DepthLimit
        /\ n + 1 <= 2 * f.depth + (IF f.type = "mapping" THEN 1 ELSE 2)
    <3>1. CASE f.type = "mapping" /\ f.depth = Top.depth + 1 /\ Top.type = "mapping"
      <4>1. below = Top.depth /\ n <= 2 * Top.depth + 1
        BY <2>10, <3>1
      <4> QED
        BY <2>7, <2>10, <3>1, <4>1 DEF FitsOnTop
    <3>2. CASE f.type = "mapping" /\ f.depth = Top.depth + 1 /\ Top.type = "discriminator"
      <4>1. below = Top.depth + 1 /\ n <= 2 * Top.depth + 2
        BY <2>7, <2>10, <3>2
      <4> QED
        BY <2>7, <2>10, <3>2, <4>1 DEF FitsOnTop
    <3>3. CASE f.type = "discriminator" /\ f.depth = Top.depth /\ Top.type = "mapping"
      <4>1. below = Top.depth /\ n <= 2 * Top.depth + 1
        BY <2>10, <3>3
      <4> QED
        BY <2>7, <2>10, <3>3, <4>1 DEF FitsOnTop
    <3> QED
      BY <2>7, <3>1, <3>2, <3>3, Zenon DEF FitsOnTop
  <2>11. /\ f.depth = Cardinality(Below(stack', n + 1))
                       - (IF f.type = "discriminator" THEN 1 ELSE 0)
         /\ f.depth < DepthLimit
         /\ n + 1 <= 2 * f.depth + (IF f.type = "mapping" THEN 1 ELSE 2)
    BY <2>5, <2>9, Zenon DEF below
  <2> QED
    BY <1>3, <2>11, Zenon DEF Booked
<1>6. \A i \in 1 .. Len(stack') : Booked(stack', i)
  <2>1. \A i \in 1 .. n + 1 : i \in 1 .. n \/ i = n + 1
    BY <1>1
  <2> HIDE DEF n
  <2> QED
    BY <1>3, <1>4, <1>5, <2>1, Zenon
<1> QED
  BY <1>1, <1>3, <1>6, Rebooked

(* The running frame is taken off.                                         *)
LEMMA PopStep ==
  ASSUME Inv, stack # << >>, stack' = SubSeq(stack, 1, Len(stack) - 1),
         UNCHANGED <<tree, mappings, cut>>
  PROVE  Inv'
<1> DEFINE m == Len(stack) - 1
<1>1. /\ m \in Nat /\ m <= Len(stack) /\ stack \in Seq(Frame) /\ Len(stack) \in Nat
      /\ mappings \in Seq(Node) /\ cut \in Seq(Node) /\ DOMAIN stack = 1 .. Len(stack)
  BY TopTyped DEF Inv, TypeOK
<1>2. stack' \in Seq(Frame) /\ Len(stack') = m /\ \A i \in 1 .. m : stack'[i] = stack[i]
  <2> HIDE DEF m
  <2>1. stack' = SubSeq(stack, 1, m)
    BY DEF m
  <2>2. \A i \in 1 .. m : stack[i] \in Frame
    BY <1>1
  <2>3. m \in Int /\ 1 \in Int /\ m - 1 + 1 = m /\ (1 <= m \/ m = 0)
        /\ \A i \in 1 .. m : 1 + i - 1 = i
    BY <1>1
  <2>4. /\ stack' \in Seq(Frame)
        /\ Len(stack') = IF 1 <= m THEN m - 1 + 1 ELSE 0
        /\ \A i \in 1 .. m - 1 + 1 : stack'[i] = stack[1 + i - 1]
    BY <2>1, <2>2, <2>3, SubSeqProperties
  <2> QED
    BY <2>3, <2>4
<1>3. ASSUME NEW i \in 1 .. m PROVE Booked(stack', i)
  <2>1. /\ i \in Nat \ {0} /\ i \in 1 .. Len(stack)
        /\ \A j \in 1 .. i : j \in 1 .. m
    BY <1>1
  <2>2. Booked(stack, i)
    BY <1>1, <2>1, BookedMeans DEF Inv
  <2> QED
    BY <1>2, <2>1, <2>2, BookedSame
<1> QED
  BY <1>1, <1>2, <1>3, Rebooked

(* A body is entered, or kept out by the limit.                            *)
LEMMA DescendStep ==
  ASSUME Inv, stack # << >>, NEW k \in Nat \ {0}, NEW n \in Node,
         DescendMapping(n, Top.depth + 1, Moved(k)), UNCHANGED <<tree, mappings>>
  PROVE  Inv'
<1>1. /\ Top \in Frame /\ DepthLimit \in Nat
      /\ mappings \in Seq(Node) /\ cut \in Seq(Node)
  BY TopTyped, LimitAssumption DEF Inv, TypeOK
<1>2. Top.depth \in Nat
  BY <1>1 DEF Frame
<1>3. CASE Top.depth + 1 >= DepthLimit
  <2>1. cut' = Append(cut, n) /\ stack' = Moved(k)
    BY <1>3 DEF DescendMapping
  <2> QED
    BY <1>1, <2>1, MoveStep
<1>4. CASE ~ (Top.depth + 1 >= DepthLimit)
  <2> DEFINE f == MappingFrame(n, Top.depth + 1)
  <2>1. f \in Frame /\ f.type = "mapping" /\ f.depth = Top.depth + 1
    BY <1>2 DEF Frame, Holder, MappingFrame
  <2>2. stack' = Append(Moved(k), f) /\ UNCHANGED cut
    BY <1>4 DEF DescendMapping
  <2> HIDE DEF f
  <2>3. FitsOnTop(f)
    BY <1>1, <1>2, <1>4, <2>1 DEF FitsOnTop
  <2> QED
    BY <2>1, <2>2, <2>3, PushStep
<1> QED
  BY <1>3, <1>4

-------------------------------------------------------------------------------
(* The actions, each of which is one of these.                             *)
LEMMA InitInv == Init => Inv
<1> SUFFICES ASSUME Init PROVE Inv
  OBVIOUS
<1> DEFINE f == MappingFrame(Root, 0)
<1>1. f \in Frame /\ f.type = "mapping" /\ f.depth = 0
  BY DEF Frame, Holder, MappingFrame
<1>2. stack = <<f>>
  BY DEF Init
<1>3. TypeOK
  BY <1>1, <1>2, TreesAssumption DEF Init, TypeOK
<1>4. /\ DOMAIN stack = {1} /\ stack[1] = f /\ DepthLimit \in Nat \ {0}
  BY <1>2, LimitAssumption
<1>5. Below(stack, 1) = {}
  BY DEF Below
<1> HIDE DEF f
<1>6. Booked(stack, 1)
  BY <1>1, <1>4, <1>5, FS_EmptySet DEF Booked
<1> QED
  BY <1>3, <1>4, <1>6, BookedMeans DEF Inv

(* Moving on by one is a move, and the tag at the index is a node.         *)
LEMMA AtTheTag ==
  ASSUME Inv, stack # << >>, More
  PROVE  /\ Top.idx + 1 \in Nat \ {0} /\ Advanced = Moved(Top.idx + 1)
         /\ Tag \in Node /\ Top \in Frame
         /\ mappings \in Seq(Node) /\ cut \in Seq(Node)
<1>1. /\ stack \in Seq(Frame) /\ Top \in Frame /\ Kids \in Seq(Node)
      /\ Len(stack) \in DOMAIN stack
      /\ mappings \in Seq(Node) /\ cut \in Seq(Node)
  BY TopTyped DEF Inv, TypeOK
<1>2. Top.idx \in Nat \ {0}
  BY <1>1 DEF Frame
<1>3. Tag \in Node
  BY <1>1, <1>2 DEF Tag, More
<1>4. Advanced = Moved(Top.idx + 1)
  BY <1>1 DEF Advanced, Moved, Top
<1> QED
  BY <1>1, <1>2, <1>3, <1>4

LEMMA MappingPassesInv == Inv /\ MappingPasses => Inv'
BY AtTheTag, MoveStep DEF MappingPasses, AtTop

LEMMA MappingColumnInv == Inv /\ MappingColumn => Inv'
<1> SUFFICES ASSUME Inv, MappingColumn PROVE Inv'
  OBVIOUS
<1>1. stack # << >> /\ More /\ stack' = Advanced /\ UNCHANGED <<tree, cut>>
  BY DEF MappingColumn, AtTop
<1>2. mappings' = Append(mappings, Tag)
  BY DEF MappingColumn
<1>3. mappings' \in Seq(Node)
  BY <1>1, <1>2, AtTheTag
<1> QED
  BY <1>1, <1>3, AtTheTag, MoveStep

LEMMA MappingNestedInv == Inv /\ MappingNested => Inv'
<1> SUFFICES ASSUME Inv, MappingNested PROVE Inv'
  OBVIOUS
<1>1. stack # << >> /\ More /\ UNCHANGED <<tree, mappings>>
  BY DEF MappingNested, AtTop
<1>2. DescendMapping(Tag, Top.depth + 1, Moved(Top.idx + 1))
  BY <1>1, AtTheTag DEF MappingNested
<1> QED
  BY <1>1, <1>2, AtTheTag, DescendStep

LEMMA MappingDiscriminatorInv == Inv /\ MappingDiscriminator => Inv'
<1> SUFFICES ASSUME Inv, MappingDiscriminator PROVE Inv'
  OBVIOUS
<1> DEFINE f == DiscriminatorFrame(Tag, Top.depth)
<1>1. /\ stack # << >> /\ More /\ Top.type = "mapping"
      /\ stack' = Append(Advanced, f) /\ UNCHANGED <<tree, mappings, cut>>
  BY DEF MappingDiscriminator, AtTop
<1>2. Top.depth \in Nat
  BY <1>1, AtTheTag DEF Frame
<1>3. f \in Frame /\ f.type = "discriminator" /\ f.depth = Top.depth
  BY <1>1, <1>2, AtTheTag DEF Frame, Holder, DiscriminatorFrame
<1>4. Top.depth < DepthLimit
  <2>1. stack \in Seq(Frame)
    BY DEF Inv, TypeOK
  <2>2. Booked(stack, Len(stack))
    BY <1>1, TopTyped, BookedMeans DEF Inv
  <2> QED
    BY <2>2, Zenon DEF Booked, Top
<1> HIDE DEF f
<1>5. FitsOnTop(f)
  BY <1>1, <1>3, <1>4 DEF FitsOnTop
<1> QED
  BY <1>1, <1>3, <1>5, AtTheTag, PushStep

LEMMA DiscriminatorCaseInv == Inv /\ DiscriminatorCase => Inv'
<1> SUFFICES ASSUME Inv, DiscriminatorCase PROVE Inv'
  OBVIOUS
<1>1. stack # << >> /\ UNCHANGED <<tree, mappings>>
  BY DEF DiscriminatorCase, AtTop
<1>2. PICK i \in CaseAhead : DescendMapping(Kids[i], Top.depth + 1, Moved(i + 1))
  BY DEF DiscriminatorCase, Moved
<1>3. Top \in Frame /\ Kids \in Seq(Node)
  BY <1>1, TopTyped DEF Inv
<1>4. Top.idx \in Nat \ {0} /\ i \in Top.idx .. Len(Kids)
  BY <1>3 DEF Frame, CaseAhead
<1>5. i + 1 \in Nat \ {0} /\ Kids[i] \in Node
  BY <1>3, <1>4
<1> QED
  BY <1>1, <1>2, <1>5, DescendStep

LEMMA FinishedInv == Inv /\ Finished => Inv'
BY PopStep DEF Finished

LEMMA NextInv == Inv /\ [Next]_vars => Inv'
<1> SUFFICES ASSUME Inv, [Next]_vars PROVE Inv'
  OBVIOUS
<1>1. CASE Next
  BY <1>1, MappingPassesInv, MappingColumnInv, MappingNestedInv, MappingDiscriminatorInv,
     DiscriminatorCaseInv, FinishedInv DEF Next
<1>2. CASE UNCHANGED vars
  BY <1>2 DEF vars, Inv, TypeOK, DepthCountsBodies, PlaceWithinLevel, BodiesBelow
<1> QED
  BY <1>1, <1>2

LEMMA SpecInv == Spec => []Inv
BY InitInv, NextInv, PTL DEF Spec

-------------------------------------------------------------------------------
(* The worklist holds well-formed frames, and what is gathered, columns    *)
(* and cut bodies alike, are tags of the resultMap.                        *)
THEOREM TypeCorrect == Spec => []TypeOK
<1>1. Inv => TypeOK
  BY DEF Inv
<1> QED
  BY <1>1, SpecInv, PTL

(* The level handed from frame to frame is the number of bodies below, a   *)
(* discriminator counting as none, and it stays under DEPTH_LIMIT.         *)
THEOREM DepthCorrect == Spec => []DepthCountsBodies
<1>1. Inv => DepthCountsBodies
  BY DEF Inv
<1> QED
  BY <1>1, SpecInv, PTL

(* However deep the resultMap is nested, collect_mappings never holds more *)
(* than two frames for each level the limit lets it into.                  *)
THEOREM WorklistCorrect == Spec => []WorklistBounded
<1>1. Inv => WorklistBounded
  <2> SUFFICES ASSUME Inv PROVE WorklistBounded
    OBVIOUS
  <2>1. stack \in Seq(Frame) /\ DepthLimit \in Nat \ {0}
    BY LimitAssumption DEF Inv, TypeOK
  <2>2. CASE stack = << >>
    BY <2>1, <2>2 DEF WorklistBounded
  <2>3. CASE stack # << >>
    <3>1. Len(stack) \in DOMAIN stack /\ Top \in Frame /\ Len(stack) \in Nat
      BY <2>3, TopTyped DEF Inv
    <3>2. Booked(stack, Len(stack))
      BY <3>1, BookedMeans DEF Inv
    <3>3. /\ Len(stack) <= 2 * Top.depth + (IF Top.type = "mapping" THEN 1 ELSE 2)
          /\ Top.depth < DepthLimit
      BY <3>2, Zenon DEF Booked, Top
    <3>4. Top.depth \in Nat
      BY <3>1 DEF Frame
    <3> QED
      BY <2>1, <3>1, <3>3, <3>4 DEF WorklistBounded
  <2> QED
    BY <2>2, <2>3
<1> QED
  BY <1>1, SpecInv, PTL

-------------------------------------------------------------------------------
(* The walk against the tree.                                              *)

(* Everything inside h.                                                    *)
Inside(t, h) ==
  {n \in Node : h < n /\ \A m \in h + 1 .. n : h <= ParentOf(t, m)}

(* Where the k-th tag of h starts, or past the end.                        *)
From(t, h, k) == IF k \in DOMAIN t.kids[h] THEN t.kids[h][k] ELSE NodeCount + 1

(* What a frame has yet to look at, tags within tags included, and what    *)
(* all frames have.                                                        *)
Left(t, f) == {n \in Inside(t, f.node) : From(t, f.node, f.idx) <= n}

Ahead(t, s) == UNION {Left(t, s[j]) : j \in DOMAIN s}

Wanted(t) == Columns(t) \cup AtLimit(t)

(* A frame is on the level of its node.                                    *)
Placed(t, f) ==
  /\ Level(t)[f.node] = f.depth /\ f.depth # NotWalked
  /\ f.type = "mapping" <=> ~ IsDiscriminator(t, f.node)

(* What a frame was reached from resumes behind everything inside it.      *)
Nested(t, s) ==
  \A j, k \in DOMAIN s : j < k => \A n \in Inside(t, s[k].node) : n < From(t, s[j].node, s[j].idx)

(* What is recorded is what there was to record, but for what is ahead,    *)
(* and what there was is all behind it.                                    *)
Recorded(t, s, m, c) ==
  /\ Lists(m, Columns(t) \ Ahead(t, s))
  /\ Lists(c, AtLimit(t) \ Ahead(t, s))
  /\ \A n \in Wanted(t) \ Ahead(t, s), x \in Ahead(t, s) : n < x

Walk ==
  /\ tree \in Trees
  /\ \A k \in DOMAIN stack : Placed(tree, stack[k])
  /\ Nested(tree, stack)
  /\ Recorded(tree, stack, mappings, cut)

-------------------------------------------------------------------------------
(* The numbering of the tags.                                              *)

(* Every tag stands in one place, behind its parent.                       *)
LEMMA ParentKnown ==
  ASSUME NEW t \in Tree, Numbered(t), NEW n \in Node
  PROVE  /\ ParentOf(t, n) \in Holder /\ ParentOf(t, n) < n
         /\ \E i \in DOMAIN t.kids[ParentOf(t, n)] : t.kids[ParentOf(t, n)][i] = n
         /\ \A h \in Holder : \A i \in DOMAIN t.kids[h] : t.kids[h][i] = n => h = ParentOf(t, n)
<1>1. PICK h \in Holder : h < n /\ \A g \in Holder : n \in Holds(t, g) <=> g = h
  BY DEF Numbered
<1>2. ParentOf(t, n) \in Holder /\ n \in Holds(t, ParentOf(t, n))
  BY <1>1, Zenon DEF ParentOf
<1>3. ParentOf(t, n) = h
  BY <1>1, <1>2
<1> QED
  BY <1>1, <1>2, <1>3 DEF Holds

(* The tags of h, in their order.                                          *)
LEMMA TagsOf ==
  ASSUME NEW t \in Tree, Numbered(t), NEW h \in Holder
  PROVE  /\ t.kids[h] \in Seq(Node) /\ DOMAIN t.kids[h] = 1 .. Len(t.kids[h])
         /\ \A i \in DOMAIN t.kids[h] :
              t.kids[h][i] \in Node /\ h < t.kids[h][i] /\ ParentOf(t, t.kids[h][i]) = h
         /\ \A i, j \in DOMAIN t.kids[h] : i < j => t.kids[h][i] < t.kids[h][j]
         /\ \A n \in Node : ParentOf(t, n) = h => \E i \in DOMAIN t.kids[h] : t.kids[h][i] = n
<1>1. t.kids[h] \in Seq(Node)
  BY DEF Tree
<1>2. DOMAIN t.kids[h] = 1 .. Len(t.kids[h]) /\ \A i \in DOMAIN t.kids[h] : t.kids[h][i] \in Node
  BY <1>1
<1>3. \A i \in DOMAIN t.kids[h] : h < t.kids[h][i] /\ ParentOf(t, t.kids[h][i]) = h
  <2> TAKE i \in DOMAIN t.kids[h]
  <2>1. t.kids[h][i] \in Node
    BY <1>2
  <2>2. ParentOf(t, t.kids[h][i]) = h
    BY <2>1, ParentKnown
  <2> QED
    BY <2>1, <2>2, ParentKnown
<1>4. \A i, j \in DOMAIN t.kids[h] : i < j => t.kids[h][i] < t.kids[h][j]
  BY DEF Numbered
<1>5. \A n \in Node : ParentOf(t, n) = h => \E i \in DOMAIN t.kids[h] : t.kids[h][i] = n
  BY ParentKnown
<1> QED
  BY <1>1, <1>2, <1>3, <1>4, <1>5

(* What lies between a tag and its parent hangs from that parent or from   *)
(* something further in.                                                   *)
LEMMA Between ==
  ASSUME NEW t \in Tree, Numbered(t), NEW n \in Node, NEW m \in Node,
         ParentOf(t, n) < m, m < n
  PROVE  ParentOf(t, n) <= ParentOf(t, m)
BY DEF Numbered

(* A tag is inside what it hangs from, with all that is inside it; and     *)
(* that is over when the next one starts.                                  *)
LEMMA TagInside ==
  ASSUME NEW t \in Tree, Numbered(t), NEW h \in Holder, NEW i \in DOMAIN t.kids[h]
  PROVE  /\ t.kids[h][i] \in Inside(t, h)
         /\ Inside(t, t.kids[h][i]) \subseteq Inside(t, h)
         /\ \A n \in Inside(t, t.kids[h][i]) : t.kids[h][i] < n /\ n < From(t, h, i + 1)
<1> DEFINE c == t.kids[h][i]
<1>0. NodeCount \in Nat
  BY LimitAssumption
<1>1. c \in Node /\ h < c /\ ParentOf(t, c) = h /\ i \in Nat \ {0}
  BY TagsOf
<1> HIDE DEF c
<1>2. h \in Nat /\ c \in Nat
  BY <1>0, <1>1 DEF Holder, Node, Root
<1>3. \A m \in h + 1 .. c : m \in Node /\ h <= ParentOf(t, m)
  <2> TAKE m \in h + 1 .. c
  <2>1. m \in Node
    BY <1>0, <1>1, <1>2 DEF Node
  <2>2. CASE m = c
    BY <1>1, <1>2, <2>2
  <2>3. CASE m < c
    BY <1>1, <1>2, <2>1, <2>3, Between
  <2> QED
    BY <1>2, <2>1, <2>2, <2>3
<1>4. c \in Inside(t, h)
  BY <1>1, <1>3 DEF Inside
<1>5. ASSUME NEW n \in Inside(t, c)
      PROVE  n \in Inside(t, h) /\ c < n /\ n < From(t, h, i + 1)
  <2>1. n \in Node /\ c < n /\ \A m \in c + 1 .. n : c <= ParentOf(t, m)
    BY DEF Inside
  <2>1a. n \in Nat /\ n <= NodeCount
    BY <1>0, <2>1 DEF Node
  <2>2. \A m \in h + 1 .. n : h <= ParentOf(t, m)
    <3> TAKE m \in h + 1 .. n
    <3>1. m \in Node
      BY <1>0, <1>2, <2>1a DEF Node
    <3>2. ParentOf(t, m) \in Nat
      BY <3>1, <1>0, ParentKnown DEF Holder, Node, Root
    <3>3. CASE m <= c
      BY <1>2, <1>3, <3>3
    <3>4. CASE m > c
      <4>1. c <= ParentOf(t, m)
        BY <1>2, <2>1, <2>1a, <3>4
      <4> QED
        BY <1>1, <1>2, <3>2, <4>1
    <3> QED
      BY <1>2, <3>3, <3>4
  <2>3. n \in Inside(t, h)
    BY <1>1, <1>2, <2>1, <2>1a, <2>2 DEF Inside
  <2>4. n < From(t, h, i + 1)
    <3>1. CASE i + 1 \notin DOMAIN t.kids[h]
      BY <1>0, <2>1a, <3>1 DEF From
    <3>2. CASE i + 1 \in DOMAIN t.kids[h]
      <4> DEFINE d == t.kids[h][i + 1]
      <4>1. d \in Node /\ ParentOf(t, d) = h /\ c < d
        BY <1>1, <3>2, TagsOf DEF c
      <4>2. From(t, h, i + 1) = d
        BY <3>2 DEF From
      <4> HIDE DEF d
      <4>3. d \in Nat
        BY <1>0, <4>1 DEF Node
      <4>4. ~ (d <= n)
        BY <1>1, <1>2, <2>1, <2>1a, <4>1, <4>3
      <4> QED
        BY <2>1a, <4>2, <4>3, <4>4
    <3> QED
      BY <3>1, <3>2
  <2> QED
    BY <2>1, <2>3, <2>4
<1> QED
  BY <1>4, <1>5 DEF c

(* All that is inside h is a tag of h or inside one.                       *)
LEMMA InsideATag ==
  ASSUME NEW t \in Tree, Numbered(t), NEW h \in Holder, NEW i \in DOMAIN t.kids[h],
         NEW n \in Inside(t, h), t.kids[h][i] < n, n < From(t, h, i + 1)
  PROVE  n \in Inside(t, t.kids[h][i])
<1> DEFINE c == t.kids[h][i]
<1>0. NodeCount \in Nat
  BY LimitAssumption
<1>1. c \in Node /\ h < c /\ ParentOf(t, c) = h /\ i \in Nat \ {0} /\ c < n
  BY TagsOf
<1>2. n \in Node /\ h < n /\ \A m \in h + 1 .. n : h <= ParentOf(t, m)
  BY DEF Inside
<1>3. \A j \in DOMAIN t.kids[h] : i < j => From(t, h, i + 1) <= t.kids[h][j]
  <2> SUFFICES ASSUME NEW j \in DOMAIN t.kids[h], i < j PROVE From(t, h, i + 1) <= t.kids[h][j]
    OBVIOUS
  <2>1. i + 1 \in DOMAIN t.kids[h] /\ (i + 1 = j \/ i + 1 < j)
    BY TagsOf
  <2>2. t.kids[h][i + 1] \in Nat /\ t.kids[h][j] \in Nat
    BY <1>0, <2>1, TagsOf, SMTT(30) DEF Node
  <2>3. i + 1 < j => t.kids[h][i + 1] < t.kids[h][j]
    BY <2>1, TagsOf
  <2> QED
    BY <2>1, <2>2, <2>3 DEF From
<1>4. \A j \in DOMAIN t.kids[h] : j < i => t.kids[h][j] < c
  BY TagsOf
<1>5. DOMAIN t.kids[h] \subseteq Nat
  BY TagsOf
<1> HIDE DEF c
<1>6. h \in Nat /\ c \in Nat /\ n \in Nat /\ n <= NodeCount
  BY <1>0, <1>1, <1>2 DEF Holder, Node, Root
<1>7. \A m \in c + 1 .. n : c <= ParentOf(t, m)
  <2> SUFFICES ASSUME NEW m \in c + 1 .. n, ~ (c <= ParentOf(t, m)) PROVE FALSE
    OBVIOUS
  <2>1. m \in Node /\ m \in Nat /\ c < m /\ m <= n /\ m \in h + 1 .. n
    BY <1>0, <1>1, <1>6 DEF Node
  <2>2. ParentOf(t, m) \in Nat /\ ParentOf(t, m) < c /\ h <= ParentOf(t, m)
    <3>1. ParentOf(t, m) \in Nat
      BY <1>0, <2>1, ParentKnown DEF Holder, Node, Root
    <3> QED
      BY <1>2, <1>6, <2>1, <3>1
  <2>3. ParentOf(t, m) <= h
    BY <1>1, <2>1, <2>2, Between
  <2>4. ParentOf(t, m) = h
    BY <1>6, <2>2, <2>3
  <2>5. PICK j \in DOMAIN t.kids[h] : t.kids[h][j] = m
    BY <2>1, <2>4, TagsOf
  <2>6. t.kids[h][i] = c /\ i \in Nat /\ j \in Nat
    BY <1>1, <1>5 DEF c
  <2>7. CASE i < j
    <3>1. From(t, h, i + 1) <= m /\ n < From(t, h, i + 1)
      BY <1>3, <2>5, <2>7
    <3>2. From(t, h, i + 1) \in Nat
      BY <1>0, TagsOf DEF From, Node
    <3> QED
      BY <1>6, <2>1, <3>1, <3>2
  <2>8. CASE j < i
    BY <1>4, <1>6, <2>1, <2>5, <2>8
  <2>9. CASE i = j
    BY <1>6, <2>1, <2>5, <2>6, <2>9
  <2> QED
    BY <2>6, <2>7, <2>8, <2>9
<1>8. n \in Inside(t, c)
  BY <1>1, <1>2, <1>7 DEF Inside
<1> QED
  BY <1>8 DEF c

(* Nothing inside h is ahead of its first tag.                             *)
LEMMA FirstTag ==
  ASSUME NEW t \in Tree, Numbered(t), NEW h \in Holder, NEW n \in Inside(t, h)
  PROVE  From(t, h, 1) <= n
<1>0. NodeCount \in Nat
  BY LimitAssumption
<1>1. n \in Node /\ h < n /\ \A m \in h + 1 .. n : h <= ParentOf(t, m)
  BY DEF Inside
<1>2. h \in Nat /\ n \in Nat /\ h + 1 \in Node /\ h + 1 \in h + 1 .. n
  BY <1>0, <1>1 DEF Holder, Node, Root
<1>3. ParentOf(t, h + 1) = h
  <2>1. ParentOf(t, h + 1) \in Nat /\ ParentOf(t, h + 1) < h + 1
    BY <1>0, <1>2, ParentKnown DEF Holder, Node, Root
  <2> QED
    BY <1>1, <1>2, <2>1
<1>4. PICK j \in DOMAIN t.kids[h] : t.kids[h][j] = h + 1
  BY <1>2, <1>3, TagsOf
<1>5. 1 \in DOMAIN t.kids[h] /\ j \in Nat \ {0}
  BY TagsOf
<1>6. t.kids[h][1] \in Nat /\ (1 < j => t.kids[h][1] < h + 1)
  BY <1>0, <1>4, <1>5, TagsOf DEF Node
<1> QED
  BY <1>1, <1>2, <1>4, <1>5, <1>6 DEF From

(* All tags are inside the resultMap.                                      *)
LEMMA AllInside ==
  ASSUME NEW t \in Tree, Numbered(t)
  PROVE  Inside(t, Root) = Node
<1>0. NodeCount \in Nat
  BY LimitAssumption
<1>1. ASSUME NEW n \in Node PROVE n \in Inside(t, Root)
  <2>1. \A m \in Root + 1 .. n : m \in Node
    BY <1>0 DEF Node, Root
  <2>2. \A m \in Root + 1 .. n : Root <= ParentOf(t, m)
    BY <1>0, <2>1, ParentKnown DEF Holder, Node, Root
  <2> QED
    BY <1>0, <2>2 DEF Inside, Node, Root
<1> QED
  BY <1>1 DEF Inside

-------------------------------------------------------------------------------
(* The levels.                                                             *)

LevelRule(t, h, level) ==
  IF h = Root THEN 0 ELSE LevelWithin(t, h, level[ParentOf(t, h)])

(* The levels up to n, each made from that of a smaller number.            *)
LEMMA LevelsUpTo ==
  ASSUME NEW t \in Tree, Numbered(t)
  PROVE  \E f \in [Holder -> Nat] : f = [h \in Holder |-> LevelRule(t, h, f)]
<1>0. NodeCount \in Nat /\ Holder = 0 .. NodeCount /\ NotWalked \in Nat
  BY LimitAssumption DEF Holder, Node, Root, NotWalked
<1> DEFINE Q(m, f) == \A h \in 0 .. m : f[h] = LevelRule(t, h, f)
           P == {m \in 0 .. NodeCount : \E f \in [0 .. m -> Nat] : Q(m, f)}
<1>1. 0 \in P
  <2> DEFINE f == [h \in 0 .. 0 |-> 0]
  <2>1. f \in [0 .. 0 -> Nat] /\ Q(0, f)
    BY DEF LevelRule, Root
  <2> QED
    BY <1>0, <2>1
<1>2. ASSUME NEW m \in 1 .. NodeCount, m - 1 \in P PROVE m \in P
  <2>1. PICK g \in [0 .. m - 1 -> Nat] : Q(m - 1, g)
    BY <1>2
  <2> DEFINE v == LevelWithin(t, m, g[ParentOf(t, m)])
             f == [h \in 0 .. m |-> IF h = m THEN v ELSE g[h]]
  <2>2. m \in Node /\ m \in Nat /\ m # Root
    BY DEF Node, Root
  <2>3. \A h \in 1 .. m : ParentOf(t, h) \in 0 .. m - 1 /\ (h < m => ParentOf(t, h) \in 0 .. h - 1)
    <3> TAKE h \in 1 .. m
    <3>1. h \in Node /\ h \in Nat /\ h <= m
      BY <1>0, <2>2 DEF Node
    <3>2. ParentOf(t, h) \in Nat /\ ParentOf(t, h) < h
      BY <1>0, <3>1, ParentKnown
    <3> QED
      BY <2>2, <3>1, <3>2
  <2>4. g[ParentOf(t, m)] \in Nat
    BY <2>2, <2>3
  <2>5. v \in Nat
    BY <1>0, <2>4 DEF LevelWithin
  <2> HIDE DEF v
  <2>6. f \in [0 .. m -> Nat]
    BY <2>5
  <2>7. \A h \in 0 .. m - 1 : f[h] = g[h]
    BY <2>2
  <2>8. f[m] = v
    BY <2>2
  <2> HIDE DEF f
  <2>9. \A h \in 0 .. m : f[h] = LevelRule(t, h, f)
    <3> TAKE h \in 0 .. m
    <3>1. CASE h = Root
      <4>1. h \in 0 .. m - 1 /\ g[h] = 0
        BY <2>1, <2>2, <3>1 DEF LevelRule, Root
      <4> QED
        BY <2>7, <3>1, <4>1 DEF LevelRule
    <3>2. CASE h = m
      <4>1. f[ParentOf(t, m)] = g[ParentOf(t, m)]
        BY <2>2, <2>3, <2>7
      <4> QED
        BY <2>2, <2>8, <3>2, <4>1 DEF LevelRule, v
    <3>3. CASE h # Root /\ h # m
      <4>1. h \in 1 .. m /\ h \in 0 .. m - 1
        BY <2>2, <3>3 DEF Root
      <4>2. f[h] = g[h] /\ f[ParentOf(t, h)] = g[ParentOf(t, h)]
        BY <2>3, <2>7, <4>1
      <4>3. g[h] = LevelRule(t, h, g)
        BY <2>1, <4>1
      <4> QED
        BY <3>3, <4>2, <4>3 DEF LevelRule
    <3> QED
      BY <3>1, <3>2, <3>3
  <2>10. m \in 0 .. NodeCount
    OBVIOUS
  <2> QED
    BY <2>6, <2>9, <2>10
<1>3. \A k \in 0 .. NodeCount : k \in P
  <2> HIDE DEF P
  <2>1. \A k \in 1 .. NodeCount : k - 1 \in P => k \in P
    BY <1>2
  <2> QED
    BY <1>0, <1>1, <2>1, StepByStep, Zenon
<1>4. NodeCount \in P
  BY <1>0, <1>3
<1>5. PICK f \in [0 .. NodeCount -> Nat] : Q(NodeCount, f)
  BY <1>4
<1>6. f = [h \in Holder |-> LevelRule(t, h, f)]
  <2>1. f = [h \in 0 .. NodeCount |-> f[h]]
    OBVIOUS
  <2>2. f = [h \in Holder |-> f[h]] /\ \A h \in Holder : f[h] = LevelRule(t, h, f)
    BY <1>0, <1>5, <2>1
  <2> QED
    BY <2>2, Zenon
<1>7. f \in [Holder -> Nat]
  BY <1>0
<1> QED
  BY <1>6, <1>7

(* The level of a tag comes from that of the one it stands in, and is no   *)
(* more than its number.                                                   *)
LEMMA LevelKnown ==
  ASSUME NEW t \in Tree, Numbered(t)
  PROVE  /\ Level(t) \in [Holder -> Nat] /\ Level(t)[Root] = 0
         /\ \A n \in Node : Level(t)[n] = LevelWithin(t, n, Level(t)[ParentOf(t, n)])
         /\ \A h \in Holder : Level(t)[h] # NotWalked => Level(t)[h] <= h
<1>0. NodeCount \in Nat /\ Holder = 0 .. NodeCount /\ NotWalked \in Nat
  BY LimitAssumption DEF Holder, Node, Root, NotWalked
<1> DEFINE L == CHOOSE f : f = [h \in Holder |-> LevelRule(t, h, f)]
<1>1. \E f : f = [h \in Holder |-> LevelRule(t, h, f)]
  BY LevelsUpTo
<1>2. L = [h \in Holder |-> LevelRule(t, h, L)]
  BY <1>1, Zenon
<1>3. Level(t) = L
  BY Zenon DEF Level, LevelRule
<1> HIDE DEF L
<1>4. L[Root] = 0
  BY <1>0, <1>2 DEF LevelRule, Root
<1>5. \A n \in Node : n \in Holder /\ n # Root
  BY DEF Node, Holder, Root
<1>6. \A n \in Node : L[n] = LevelWithin(t, n, L[ParentOf(t, n)])
  <2> TAKE n \in Node
  <2>1. L[n] = LevelRule(t, n, L)
    BY <1>2, <1>5
  <2> QED
    BY <1>5, <2>1 DEF LevelRule
<1> DEFINE P == {m \in 0 .. NodeCount :
                   \A h \in 0 .. m : L[h] \in Nat /\ (L[h] # NotWalked => L[h] <= h)}
<1>7. 0 \in P
  BY <1>0, <1>4 DEF Root
<1>8. ASSUME NEW m \in 1 .. NodeCount, m - 1 \in P PROVE m \in P
  <2>1. m \in Node /\ m \in Nat
    BY DEF Node
  <2>2. ParentOf(t, m) \in 0 .. m - 1
    <3>1. ParentOf(t, m) \in Nat /\ ParentOf(t, m) < m
      BY <1>0, <2>1, ParentKnown
    <3> QED
      BY <2>1, <3>1
  <2> DEFINE o == L[ParentOf(t, m)]
  <2>3. o \in Nat /\ (o # NotWalked => o <= m - 1)
    <3>1. o \in Nat /\ (o # NotWalked => o <= ParentOf(t, m))
      BY <1>8, <2>2
    <3> QED
      BY <2>1, <2>2, <3>1
  <2>4. L[m] = LevelWithin(t, m, o)
    BY <1>6, <2>1
  <2> HIDE DEF o
  <2>5. L[m] \in Nat /\ (L[m] # NotWalked => L[m] <= m)
    BY <1>0, <2>1, <2>3, <2>4 DEF LevelWithin
  <2>6. \A h \in 0 .. m : h = m \/ h \in 0 .. m - 1
    BY <2>1
  <2> QED
    BY <1>8, <2>5, <2>6
<1> HIDE DEF P
<1>9. NodeCount \in P
  <2>1. \A k \in 1 .. NodeCount : k - 1 \in P => k \in P
    BY <1>8
  <2>2. \A k \in 0 .. NodeCount : k \in P
    BY <1>0, <1>7, <2>1, StepByStep, Zenon
  <2> QED
    BY <1>0, <2>2
<1>10. \A h \in Holder : L[h] \in Nat /\ (L[h] # NotWalked => L[h] <= h)
  BY <1>0, <1>9 DEF P
<1>11. L \in [Holder -> Nat]
  <2>1. L = [h \in Holder |-> L[h]]
    BY <1>2, Zenon
  <2> QED
    BY <1>10, <2>1
<1> QED
  BY <1>3, <1>4, <1>6, <1>10, <1>11

(* Out of the walk's reach: not gone into, or not above the limit.         *)
Deep(t, h) == Level(t)[h] = NotWalked \/ Level(t)[h] >= DepthLimit

(* Where the walk does not reach, it reaches nothing further in.           *)
LEMMA DeeperStill ==
  ASSUME NEW t \in Tree, Numbered(t), NEW n \in Node, Deep(t, ParentOf(t, n))
  PROVE  Deep(t, n) /\ n \notin Wanted(t)
<1> DEFINE o == Level(t)[ParentOf(t, n)]
           l == Level(t)[n]
<1>0. NodeCount \in Nat /\ DepthLimit \in Nat /\ NotWalked = NodeCount + 1
  BY LimitAssumption DEF NotWalked
<1>1. ParentOf(t, n) \in Holder /\ n \in Holder /\ n # Root
  BY <1>0, ParentKnown DEF Holder, Node, Root
<1>2. o \in Nat /\ l \in Nat /\ l = LevelWithin(t, n, o)
  BY <1>1, LevelKnown
<1>3. (o = NotWalked \/ o >= DepthLimit) /\ Level(t)[ParentOf(t, n)] = o /\ Level(t)[n] = l
  BY DEF Deep
<1> HIDE DEF o, l
<1>4. Deep(t, n)
  BY <1>0, <1>2, <1>3 DEF Deep, LevelWithin
<1>5. n \notin Columns(t)
  BY <1>0, <1>2, <1>3 DEF Columns, IsBody
<1>6. n \notin AtLimit(t)
  <2> SUFFICES ASSUME n \in AtLimit(t) PROVE FALSE
    OBVIOUS
  <2>1. l # NotWalked /\ l = DepthLimit /\ ~ IsDiscriminator(t, n)
    BY <1>3 DEF AtLimit, IsBody
  <2>2. ~ EntersDiscriminator(t, n)
    BY <1>1, <2>1 DEF IsDiscriminator, EntersDiscriminator
  <2> QED
    BY <1>0, <1>2, <1>3, <2>1, <2>2 DEF LevelWithin
<1> QED
  BY <1>4, <1>5, <1>6 DEF Wanted

(* A run of tags of h none of which the walk reaches into: of what they    *)
(* are and hold, it can only want the tags themselves.                     *)
LEMMA Skipped ==
  ASSUME NEW t \in Tree, Numbered(t), NEW h \in Holder, NEW i \in DOMAIN t.kids[h], NEW to \in Nat,
         \A j \in DOMAIN t.kids[h] : i <= j /\ t.kids[h][j] < to => Deep(t, t.kids[h][j])
  PROVE  \A n \in Inside(t, h) :
           From(t, h, i) <= n /\ n < to =>
             /\ Deep(t, n)
             /\ n \in Wanted(t) => \E j \in DOMAIN t.kids[h] : i <= j /\ n = t.kids[h][j]
<1> DEFINE c == t.kids[h][i]
           Good(n) == n \in Inside(t, h) /\ c <= n /\ n < to =>
             /\ Deep(t, n)
             /\ n \in Wanted(t) => \E j \in DOMAIN t.kids[h] : i <= j /\ n = t.kids[h][j]
           P == {m \in 0 .. NodeCount : \A n \in 1 .. m : Good(n)}
<1>0. NodeCount \in Nat /\ Node = 1 .. NodeCount /\ Holder = 0 .. NodeCount
  BY LimitAssumption DEF Node, Holder, Root
<1>1. c \in Node /\ h < c /\ ParentOf(t, c) = h /\ From(t, h, i) = c
  BY TagsOf DEF From
<1>2. 0 \in P
  BY <1>0
<1>3. ASSUME NEW m \in 1 .. NodeCount, m - 1 \in P PROVE m \in P
  <2>1. m \in Node /\ m \in Nat /\ \A n \in 1 .. m : n = m \/ n \in 1 .. m - 1
    BY <1>0
  <2>2. ASSUME m \in Inside(t, h), c <= m, m < to
        PROVE  Deep(t, m)
               /\ (m \in Wanted(t) => \E j \in DOMAIN t.kids[h] : i <= j /\ m = t.kids[h][j])
    <3>1. CASE ParentOf(t, m) = h
      <4>1. PICK j \in DOMAIN t.kids[h] : t.kids[h][j] = m
        BY <2>1, <3>1, TagsOf
      <4>2. i \in Nat /\ j \in Nat /\ (j < i => t.kids[h][j] < t.kids[h][i])
        BY TagsOf
      <4>3. i <= j
        BY <1>0, <1>1, <2>1, <2>2, <4>1, <4>2
      <4> QED
        BY <2>2, <4>1, <4>3
    <3>2. CASE ParentOf(t, m) # h
      <4> DEFINE p == ParentOf(t, m)
      <4>1. p \in Nat /\ p < m /\ h <= p /\ h < p /\ h \in Nat /\ c \in Nat
        <5>1. p \in Nat /\ p < m /\ h \in Nat /\ c \in Nat
          BY <1>0, <1>1, <2>1, ParentKnown
        <5>2. h <= p
          BY <2>1, <2>2, <5>1 DEF Inside
        <5> QED
          BY <3>2, <5>1, <5>2
      <4>2. p \in Inside(t, h)
        <5>1. \A x \in h + 1 .. p : x \in h + 1 .. m
          BY <2>1, <4>1
        <5>2. p \in Node
          BY <1>0, <2>1, <4>1
        <5> HIDE DEF p
        <5> QED
          BY <2>2, <4>1, <5>1, <5>2 DEF Inside
      <4>3. c <= p
        <5> SUFFICES ASSUME p < c PROVE FALSE
          BY <4>1
        <5>1. c # m
          BY <1>1, <3>2
        <5>2. ParentOf(t, m) <= ParentOf(t, c)
          BY <1>1, <2>1, <2>2, <4>1, <5>1, Between
        <5> QED
          BY <1>1, <4>1, <5>2
      <4>4. p \in 1 .. m - 1 /\ p < to
        BY <1>0, <2>1, <2>2, <4>1
      <4>5. Deep(t, p)
        BY <1>3, <4>2, <4>3, <4>4
      <4>6. Deep(t, m) /\ m \notin Wanted(t)
        BY <2>1, <4>5, DeeperStill
      <4> QED
        BY <4>6
    <3> QED
      BY <3>1, <3>2
  <2>3. Good(m)
    BY <2>2
  <2> HIDE DEF Good
  <2> QED
    BY <1>3, <2>1, <2>3
<1> HIDE DEF P, c
<1>4. NodeCount \in P
  <2>1. \A k \in 1 .. NodeCount : k - 1 \in P => k \in P
    BY <1>3
  <2>2. \A k \in 0 .. NodeCount : k \in P
    BY <1>0, <1>2, <2>1, StepByStep, Zenon
  <2> QED
    BY <1>0, <2>2
<1>5. \A n \in Node : Good(n)
  BY <1>0, <1>4 DEF P
<1> QED
  BY <1>1, <1>5 DEF Inside

(* What each tag of a walked body is: its level, whether it is wanted.     *)
LEMMA TagOfBody ==
  ASSUME NEW t \in Tree, Numbered(t), NEW n \in Node,
         Level(t)[ParentOf(t, n)] # NotWalked, Level(t)[ParentOf(t, n)] < DepthLimit,
         ~ IsDiscriminator(t, ParentOf(t, n))
  PROVE  /\ t.kind[n] \in {"text", "case", "other"} => Deep(t, n) /\ n \notin Wanted(t)
         /\ t.kind[n] = "column" => Deep(t, n) /\ n \in Columns(t) /\ n \notin AtLimit(t)
         /\ t.kind[n] = "nested" =>
              /\ Level(t)[n] = Level(t)[ParentOf(t, n)] + 1 /\ Level(t)[n] # NotWalked
              /\ ~ IsDiscriminator(t, n)
              /\ n \notin Columns(t)
              /\ n \in AtLimit(t) <=> Level(t)[n] = DepthLimit
         /\ t.kind[n] = "discriminator" =>
              /\ Level(t)[n] = Level(t)[ParentOf(t, n)]
              /\ IsDiscriminator(t, n) /\ n \notin Wanted(t)
<1> DEFINE o == Level(t)[ParentOf(t, n)]
           l == Level(t)[n]
<1>0. NodeCount \in Nat /\ DepthLimit \in Nat /\ NotWalked = NodeCount + 1
  BY LimitAssumption DEF NotWalked
<1>1. /\ ParentOf(t, n) \in Holder /\ ParentOf(t, n) < n /\ n \in Holder /\ n # Root
      /\ n \in Nat /\ n <= NodeCount /\ ParentOf(t, n) \in Nat
  BY <1>0, ParentKnown DEF Holder, Node, Root
<1>2. o \in Nat /\ l \in Nat /\ l = LevelWithin(t, n, o) /\ o # NotWalked /\ o < DepthLimit
  BY <1>1, LevelKnown
<1>3. o + 1 # NotWalked
  <2>1. o <= ParentOf(t, n)
    BY <1>1, <1>2, LevelKnown
  <2> HIDE DEF o
  <2> QED
    BY <1>0, <1>1, <1>2, <2>1
<1>4. l = IF t.kind[n] = "nested" THEN o + 1
          ELSE IF t.kind[n] = "discriminator" THEN o ELSE NotWalked
  <2> HIDE DEF o, l
  <2> QED
    BY <1>2 DEF LevelWithin, EntersBody, EntersDiscriminator
<1>5. n \in Columns(t) <=> t.kind[n] = "column"
  BY <1>2 DEF Columns, IsBody
<1>6. n \in AtLimit(t) <=> l # NotWalked /\ ~ IsDiscriminator(t, n) /\ l = DepthLimit
  BY DEF AtLimit, IsBody
<1>7. IsDiscriminator(t, n) <=> t.kind[n] = "discriminator"
  BY <1>1 DEF IsDiscriminator
<1>8. Deep(t, n) <=> l = NotWalked \/ l >= DepthLimit
  BY DEF Deep
<1>9. n \in Wanted(t) <=> n \in Columns(t) \/ n \in AtLimit(t)
  BY DEF Wanted
<1> HIDE DEF o, l
<1>10. t.kind[n] \in {"text", "case", "other"} => Deep(t, n) /\ n \notin Wanted(t)
  BY <1>4, <1>5, <1>6, <1>8, <1>9
<1>11. t.kind[n] = "column" => Deep(t, n) /\ n \in Columns(t) /\ n \notin AtLimit(t)
  BY <1>4, <1>5, <1>6, <1>8, <1>9
<1>12. t.kind[n] = "nested" =>
              /\ l = o + 1 /\ l # NotWalked
              /\ ~ IsDiscriminator(t, n)
              /\ n \notin Columns(t)
              /\ n \in AtLimit(t) <=> l = DepthLimit
  BY <1>3, <1>4, <1>5, <1>6, <1>7
<1>13. t.kind[n] = "discriminator" =>
              l = o /\ IsDiscriminator(t, n) /\ n \notin Wanted(t)
  BY <1>4, <1>5, <1>6, <1>7, <1>9
<1> QED
  BY <1>10, <1>11, <1>12, <1>13 DEF o, l

(* And each tag of a discriminator, of which only the cases count.         *)
LEMMA TagOfDiscriminator ==
  ASSUME NEW t \in Tree, Numbered(t), NEW n \in Node,
         Level(t)[ParentOf(t, n)] # NotWalked,
         IsDiscriminator(t, ParentOf(t, n))
  PROVE  /\ t.kind[n] # "case" => Deep(t, n) /\ n \notin Wanted(t)
         /\ t.kind[n] = "case" =>
              /\ Level(t)[n] = Level(t)[ParentOf(t, n)] + 1 /\ Level(t)[n] # NotWalked
              /\ ~ IsDiscriminator(t, n)
              /\ n \notin Columns(t)
              /\ n \in AtLimit(t) <=> Level(t)[n] = DepthLimit
<1> DEFINE o == Level(t)[ParentOf(t, n)]
           l == Level(t)[n]
<1>0. NodeCount \in Nat /\ DepthLimit \in Nat /\ NotWalked = NodeCount + 1
  BY LimitAssumption DEF NotWalked
<1>1. /\ ParentOf(t, n) \in Holder /\ ParentOf(t, n) < n /\ n \in Holder /\ n # Root
      /\ n \in Nat /\ n <= NodeCount /\ ParentOf(t, n) \in Nat
  BY <1>0, ParentKnown DEF Holder, Node, Root
<1>2. o \in Nat /\ l \in Nat /\ l = LevelWithin(t, n, o) /\ o # NotWalked
  BY <1>1, LevelKnown
<1>3. o + 1 # NotWalked
  <2>1. o <= ParentOf(t, n)
    BY <1>1, <1>2, LevelKnown
  <2> HIDE DEF o
  <2> QED
    BY <1>0, <1>1, <1>2, <2>1
<1>4. l = IF t.kind[n] = "case" THEN o + 1 ELSE NotWalked
  <2> HIDE DEF o, l
  <2> QED
    BY <1>2 DEF LevelWithin, EntersBody, EntersDiscriminator
<1>5. n \notin Columns(t)
  BY DEF Columns, IsBody
<1>6. n \in AtLimit(t) <=> l # NotWalked /\ ~ IsDiscriminator(t, n) /\ l = DepthLimit
  BY DEF AtLimit, IsBody
<1>7. IsDiscriminator(t, n) <=> t.kind[n] = "discriminator"
  BY <1>1 DEF IsDiscriminator
<1>8. Deep(t, n) <=> l = NotWalked \/ l >= DepthLimit
  BY DEF Deep
<1>9. n \in Wanted(t) <=> n \in Columns(t) \/ n \in AtLimit(t)
  BY DEF Wanted
<1> HIDE DEF o, l
<1>10. t.kind[n] # "case" => Deep(t, n) /\ n \notin Wanted(t)
  BY <1>4, <1>5, <1>6, <1>8, <1>9
<1>11. t.kind[n] = "case" =>
              /\ l = o + 1 /\ l # NotWalked
              /\ ~ IsDiscriminator(t, n)
              /\ n \notin Columns(t)
              /\ n \in AtLimit(t) <=> l = DepthLimit
  BY <1>3, <1>4, <1>5, <1>6, <1>7
<1> QED
  BY <1>10, <1>11 DEF o, l

-------------------------------------------------------------------------------
(* The lists.                                                              *)

(* One more, behind all others.                                            *)
LEMMA ListsOneMore ==
  ASSUME NEW s \in Seq(Node), NEW S, Lists(s, S), NEW n \in Node, \A x \in S : x < n
  PROVE  Lists(Append(s, n), S \cup {n})
<1> DEFINE r == Append(s, n)
<1>1. /\ r \in Seq(Node) /\ Len(r) = Len(s) + 1 /\ Len(s) \in Nat
      /\ \A i \in 1 .. Len(s) : r[i] = s[i]
      /\ r[Len(s) + 1] = n
      /\ DOMAIN s = 1 .. Len(s)
  BY OneMore
<1>2. DOMAIN r = 1 .. Len(s) + 1
  BY <1>1
<1> HIDE DEF r
<1>3. S = {s[i] : i \in 1 .. Len(s)} /\ \A i, j \in 1 .. Len(s) : i < j => s[i] < s[j]
  BY <1>1 DEF Lists
<1>4. \A i \in DOMAIN r : i = Len(s) + 1 \/ i \in 1 .. Len(s)
  BY <1>1, <1>2
<1>5. \A i \in 1 .. Len(s) : s[i] < n
  BY <1>3
<1>6. \A i, j \in DOMAIN r : i < j => i \in 1 .. Len(s) /\ (j = Len(s) + 1 \/ j \in 1 .. Len(s))
  BY <1>1, <1>2
<1>7. \A i, j \in DOMAIN r : i < j => r[i] < r[j]
  BY <1>1, <1>3, <1>5, <1>6
<1>8. {r[i] : i \in DOMAIN r} = S \cup {n}
  <2>1. \A i \in DOMAIN r : r[i] \in S \cup {n}
    BY <1>1, <1>3, <1>4
  <2>2. \A i \in 1 .. Len(s) : i \in DOMAIN r
    BY <1>1, <1>2
  <2>3. Len(s) + 1 \in DOMAIN r
    BY <1>1, <1>2
  <2>4. \A x \in S : \E i \in DOMAIN r : x = r[i]
    BY <1>1, <1>3, <2>2
  <2> QED
    BY <1>1, <2>1, <2>3, <2>4
<1> QED
  BY <1>7, <1>8 DEF Lists, r

(* Frames went by, and nothing that was wanted with them.                  *)
LEMMA NothingPassed ==
  ASSUME NEW t, NEW s, NEW r, NEW m, NEW c, Recorded(t, s, m, c),
         Ahead(t, r) \subseteq Ahead(t, s),
         \A n \in Ahead(t, s) \ Ahead(t, r) : n \notin Wanted(t)
  PROVE  Recorded(t, r, m, c)
<1>1. /\ Columns(t) \ Ahead(t, r) = Columns(t) \ Ahead(t, s)
      /\ AtLimit(t) \ Ahead(t, r) = AtLimit(t) \ Ahead(t, s)
      /\ Wanted(t) \ Ahead(t, r) = Wanted(t) \ Ahead(t, s)
  BY DEF Wanted
<1> QED
  BY <1>1, Zenon DEF Recorded

(* Or one tag that was, which is ahead of the rest.                        *)
LEMMA OnePassed ==
  ASSUME NEW t, NEW s, NEW r, NEW m \in Seq(Node), NEW c \in Seq(Node), Recorded(t, s, m, c),
         Ahead(t, r) \subseteq Ahead(t, s), NEW n \in Node, n \in Ahead(t, s) \ Ahead(t, r),
         \A x \in Ahead(t, r) : n < x,
         \A x \in Ahead(t, s) \ Ahead(t, r) : x \in Wanted(t) => x = n
  PROVE  /\ n \in Columns(t) /\ n \notin AtLimit(t) => Recorded(t, r, Append(m, n), c)
         /\ n \in AtLimit(t) /\ n \notin Columns(t) => Recorded(t, r, m, Append(c, n))
<1>1. \A x \in Wanted(t) \ Ahead(t, s) : x < n
  BY DEF Recorded
<1>2. \A y \in Wanted(t) \ Ahead(t, r), x \in Ahead(t, r) : y < x
  BY DEF Recorded
<1>3. ASSUME n \in Columns(t), n \notin AtLimit(t) PROVE Recorded(t, r, Append(m, n), c)
  <2>1. /\ Columns(t) \ Ahead(t, r) = (Columns(t) \ Ahead(t, s)) \cup {n}
        /\ AtLimit(t) \ Ahead(t, r) = AtLimit(t) \ Ahead(t, s)
    BY <1>3 DEF Wanted
  <2>2. Lists(Append(m, n), (Columns(t) \ Ahead(t, s)) \cup {n})
    <3>1. Lists(m, Columns(t) \ Ahead(t, s)) /\ \A x \in Columns(t) \ Ahead(t, s) : x < n
      BY <1>1, Zenon DEF Recorded, Wanted
    <3> QED
      BY <3>1, ListsOneMore
  <2>3. Lists(c, AtLimit(t) \ Ahead(t, s))
    BY Zenon DEF Recorded
  <2> QED
    BY <1>2, <2>1, <2>2, <2>3, Zenon DEF Recorded
<1>4. ASSUME n \in AtLimit(t), n \notin Columns(t) PROVE Recorded(t, r, m, Append(c, n))
  <2>1. /\ AtLimit(t) \ Ahead(t, r) = (AtLimit(t) \ Ahead(t, s)) \cup {n}
        /\ Columns(t) \ Ahead(t, r) = Columns(t) \ Ahead(t, s)
    BY <1>4 DEF Wanted
  <2>2. Lists(Append(c, n), (AtLimit(t) \ Ahead(t, s)) \cup {n})
    <3>1. Lists(c, AtLimit(t) \ Ahead(t, s)) /\ \A x \in AtLimit(t) \ Ahead(t, s) : x < n
      BY <1>1, Zenon DEF Recorded, Wanted
    <3> QED
      BY <3>1, ListsOneMore
  <2>3. Lists(m, Columns(t) \ Ahead(t, s))
    BY Zenon DEF Recorded
  <2> QED
    BY <1>2, <2>1, <2>2, <2>3, Zenon DEF Recorded
<1> QED
  BY <1>3, <1>4

-------------------------------------------------------------------------------
(* The worklist and what is ahead of it.                                   *)

(* Further on in h is further on in the document.                          *)
LEMMA FromGrows ==
  ASSUME NEW t \in Tree, Numbered(t), NEW h \in Holder, NEW i \in Nat \ {0}, NEW k \in Nat, i <= k
  PROVE  /\ From(t, h, i) \in Nat /\ From(t, h, k) \in Nat /\ From(t, h, i) <= From(t, h, k)
         /\ \A j \in DOMAIN t.kids[h] : t.kids[h][j] < From(t, h, k) => j < k
<1>0. NodeCount \in Nat /\ Node = 1 .. NodeCount
  BY LimitAssumption DEF Node
<1>1. DOMAIN t.kids[h] = 1 .. Len(t.kids[h]) /\ Len(t.kids[h]) \in Nat
  BY TagsOf
<1>2. \A j \in DOMAIN t.kids[h] : t.kids[h][j] \in Nat /\ t.kids[h][j] <= NodeCount
  BY <1>0, TagsOf
<1>3. From(t, h, i) \in Nat /\ From(t, h, k) \in Nat
  BY <1>0, <1>2 DEF From
<1>4. From(t, h, i) <= From(t, h, k)
  <2>1. CASE k \in DOMAIN t.kids[h]
    <3>1. i \in DOMAIN t.kids[h] /\ (i = k \/ i < k)
      BY <1>1, <2>1
    <3>2. i < k => t.kids[h][i] < t.kids[h][k]
      BY <2>1, <3>1, TagsOf
    <3> QED
      BY <1>2, <2>1, <3>1, <3>2 DEF From
  <2>2. CASE k \notin DOMAIN t.kids[h]
    BY <1>0, <1>2, <1>3, <2>2 DEF From
  <2> QED
    BY <2>1, <2>2
<1>5. ASSUME NEW j \in DOMAIN t.kids[h], t.kids[h][j] < From(t, h, k) PROVE j < k
  <2>1. CASE k \in DOMAIN t.kids[h]
    <3>1. k < j => t.kids[h][k] < t.kids[h][j]
      BY <2>1, TagsOf
    <3>2. j \in Nat /\ t.kids[h][j] < t.kids[h][k]
      BY <1>1, <1>5, <2>1 DEF From
    <3>3. k # j
      BY <1>2, <2>1, <3>2
    <3>4. t.kids[h][k] \in Nat /\ t.kids[h][j] \in Nat
      BY <1>2, <2>1
    <3> QED
      BY <3>1, <3>2, <3>3, <3>4
  <2>2. CASE k \notin DOMAIN t.kids[h]
    <3>1. k = 0 \/ k > Len(t.kids[h])
      BY <1>1, <2>2
    <3>2. i >= 1 /\ k >= 1
      OBVIOUS
    <3> QED
      BY <1>1, <3>1, <3>2
  <2> QED
    BY <2>1, <2>2
<1> QED
  BY <1>3, <1>4, <1>5

(* What a state of the walk starts from.                                   *)
LEMMA AtTheTop ==
  ASSUME Inv, Walk, stack # << >>
  PROVE  /\ tree \in Tree /\ Numbered(tree)
         /\ stack \in Seq(Frame) /\ DOMAIN stack = 1 .. Len(stack) /\ Len(stack) \in Nat \ {0}
         /\ Top \in Frame /\ Top = stack[Len(stack)] /\ Top.node \in Holder
         /\ Top.idx \in Nat \ {0} /\ Top.depth \in Nat
         /\ Kids = tree.kids[Top.node] /\ DOMAIN Kids = 1 .. Len(Kids) /\ Len(Kids) \in Nat
         /\ Placed(tree, Top) /\ Top.depth < DepthLimit
         /\ mappings \in Seq(Node) /\ cut \in Seq(Node)
<1>1. tree \in Tree /\ Numbered(tree)
  BY TreesAssumption DEF Walk
<1>2. /\ stack \in Seq(Frame) /\ DOMAIN stack = 1 .. Len(stack) /\ Len(stack) \in Nat \ {0}
      /\ Top \in Frame /\ Len(stack) \in DOMAIN stack
      /\ mappings \in Seq(Node) /\ cut \in Seq(Node)
  BY TopTyped DEF Inv, TypeOK
<1>3. Top.node \in Holder /\ Top.idx \in Nat \ {0} /\ Top.depth \in Nat
  BY <1>2 DEF Frame
<1>4. Kids = tree.kids[Top.node] /\ DOMAIN Kids = 1 .. Len(Kids) /\ Len(Kids) \in Nat
  BY <1>1, <1>3, TagsOf DEF Kids
<1>5. Placed(tree, Top)
  BY <1>2 DEF Walk, Top
<1>6. Top.depth < DepthLimit
  BY <1>2 DEF Inv, DepthCountsBodies, Top
<1> QED
  BY <1>1, <1>2, <1>3, <1>4, <1>5, <1>6 DEF Top

(* The index moves on: what it passes is what is between.                  *)
LEMMA MovedOn ==
  ASSUME Inv, Walk, stack # << >>, NEW k \in Nat, Top.idx <= k
  PROVE  /\ Moved(k) \in Seq(Frame) /\ Len(Moved(k)) = Len(stack)
         /\ Moved(k)[Len(stack)].node = Top.node /\ Moved(k)[Len(stack)].idx = k
         /\ \A j \in DOMAIN Moved(k) : Placed(tree, Moved(k)[j])
         /\ Nested(tree, Moved(k))
         /\ Ahead(tree, Moved(k)) \subseteq Ahead(tree, stack)
         /\ \A n \in Ahead(tree, stack) \ Ahead(tree, Moved(k)) :
              n \in Inside(tree, Top.node) /\ From(tree, Top.node, Top.idx) <= n
              /\ n < From(tree, Top.node, k)
         /\ \A y \in Inside(tree, Top.node) : y < From(tree, Top.node, k) =>
              \A x \in Ahead(tree, Moved(k)) : y < x
         /\ \A y \in Inside(tree, Top.node) :
              From(tree, Top.node, Top.idx) <= y => y \in Ahead(tree, stack)
<1> DEFINE n == Len(stack)
           h == Top.node
           s == Moved(k)
<1>1. /\ tree \in Tree /\ Numbered(tree)
      /\ stack \in Seq(Frame) /\ DOMAIN stack = 1 .. n /\ n \in Nat \ {0} /\ n \in 1 .. n
      /\ Top \in Frame /\ Top = stack[n] /\ h \in Holder
      /\ Top.idx \in Nat \ {0}
  BY AtTheTop
<1>2. \A j \in 1 .. n : Placed(tree, stack[j])
  BY <1>1 DEF Walk
<1>3. Nested(tree, stack)
  BY DEF Walk
<1>4. k \in Nat \ {0}
  BY <1>1
<1>5. s \in Seq(Frame) /\ Len(s) = n /\ \A j \in 1 .. n : j # n => s[j] = stack[j]
  BY <1>4, MovedKeepsBooks
<1>6. DOMAIN s = 1 .. n
  BY <1>5
<1>7. s[n].node = h /\ s[n].idx = k /\ s[n].type = Top.type /\ s[n].depth = Top.depth
  BY <1>1 DEF Moved, Frame
<1>8. \A x \in Inside(tree, h) : x \in Nat
  BY LimitAssumption DEF Inside, Node
<1>9. /\ From(tree, h, Top.idx) \in Nat /\ From(tree, h, k) \in Nat
      /\ From(tree, h, Top.idx) <= From(tree, h, k)
  BY <1>1, FromGrows
<1> HIDE DEF s, h, n
<1>10. \A j \in DOMAIN s : Placed(tree, s[j])
  <2> SUFFICES ASSUME NEW j \in 1 .. n PROVE Placed(tree, s[j])
    BY <1>6
  <2>1. CASE j = n
    <3>1. Placed(tree, Top)
      BY <1>1, <1>2
    <3>2. s[j].node = Top.node /\ s[j].type = Top.type /\ s[j].depth = Top.depth
      BY <1>7, <2>1 DEF h
    <3> QED
      BY <3>1, <3>2 DEF Placed
  <2>2. CASE j # n
    BY <1>2, <1>5, <2>2
  <2> QED
    BY <2>1, <2>2
<1>11. \A j \in 1 .. n : s[j].node = stack[j].node /\ (j # n => s[j].idx = stack[j].idx)
  BY <1>1, <1>5, <1>7 DEF h
<1>12. Nested(tree, s)
  <2> SUFFICES ASSUME NEW j \in 1 .. n, NEW m \in 1 .. n, j < m, NEW x \in Inside(tree, s[m].node)
               PROVE  x < From(tree, s[j].node, s[j].idx)
    BY <1>6 DEF Nested
  <2>1. j # n
    BY <1>1
  <2> QED
    BY <1>1, <1>3, <1>11, <2>1 DEF Nested
<1>13. \A j \in 1 .. n : j # n => Left(tree, s[j]) = Left(tree, stack[j])
  BY <1>5
<1>14. /\ Left(tree, s[n]) = {x \in Inside(tree, h) : From(tree, h, k) <= x}
       /\ Left(tree, stack[n]) = {x \in Inside(tree, h) : From(tree, h, Top.idx) <= x}
  BY <1>1, <1>7 DEF Left, h
<1>15. Left(tree, s[n]) \subseteq Left(tree, stack[n])
  BY <1>8, <1>9, <1>14
<1>16. \A x : x \in Ahead(tree, s) <=> \E j \in 1 .. n : x \in Left(tree, s[j])
  BY <1>6, Zenon DEF Ahead
<1>17. \A x : x \in Ahead(tree, stack) <=> \E j \in 1 .. n : x \in Left(tree, stack[j])
  BY <1>1, Zenon DEF Ahead
<1>18. Ahead(tree, s) \subseteq Ahead(tree, stack)
  BY <1>13, <1>15, <1>16, <1>17
<1>19. ASSUME NEW x \in Ahead(tree, stack) \ Ahead(tree, s)
       PROVE  x \in Inside(tree, h) /\ From(tree, h, Top.idx) <= x /\ x < From(tree, h, k)
  <2>1. x \in Left(tree, stack[n]) /\ x \notin Left(tree, s[n])
    BY <1>1, <1>13, <1>16, <1>17
  <2> QED
    BY <1>8, <1>9, <1>14, <2>1
<1>20. ASSUME NEW y \in Inside(tree, h), y < From(tree, h, k), NEW x \in Ahead(tree, s)
       PROVE  y < x
  <2>1. PICK j \in 1 .. n : x \in Left(tree, s[j])
    BY <1>16
  <2>2. x \in Nat /\ y \in Nat
    BY <1>8, <2>1, LimitAssumption DEF Left, Inside, Node
  <2>3. CASE j = n
    BY <1>9, <1>14, <1>20, <2>1, <2>2, <2>3
  <2>4. CASE j # n
    <3>1. j < n /\ x \in Left(tree, stack[j]) /\ n \in DOMAIN stack /\ j \in DOMAIN stack
      BY <1>1, <1>13, <2>1, <2>4
    <3>2. y < From(tree, stack[j].node, stack[j].idx)
      BY <1>1, <1>3, <3>1, Zenon DEF Nested, h
    <3>3. From(tree, stack[j].node, stack[j].idx) <= x
      BY <3>1 DEF Left
    <3>4. From(tree, stack[j].node, stack[j].idx) \in Nat
      <4>1. stack[j] \in Frame
        BY <1>1, <3>1
      <4>2. stack[j].node \in Holder /\ stack[j].idx \in Nat \ {0}
        BY <4>1 DEF Frame
      <4> QED
        BY <1>1, <4>2, FromGrows
    <3> QED
      BY <2>2, <3>2, <3>3, <3>4
  <2> QED
    BY <2>3, <2>4
<1>21. \A y \in Inside(tree, h) : From(tree, h, Top.idx) <= y => y \in Ahead(tree, stack)
  BY <1>1, <1>14, <1>17
<1>22. s[n].node = h /\ s[n].idx = k
  BY <1>7
<1> QED
  BY <1>5, <1>10, <1>12, <1>18, <1>19, <1>20, <1>21, <1>22 DEF s, h, n

(* A frame laid on top.                                                    *)
LEMMA OneFrameMore ==
  ASSUME NEW t, NEW s \in Seq(Frame), s # << >>, NEW f \in Frame,
         \A j \in DOMAIN s : Placed(t, s[j]), Placed(t, f), Nested(t, s),
         Inside(t, f.node) \subseteq Inside(t, s[Len(s)].node),
         \A n \in Inside(t, f.node) : n < From(t, s[Len(s)].node, s[Len(s)].idx)
  PROVE  /\ \A j \in DOMAIN Append(s, f) : Placed(t, Append(s, f)[j])
         /\ Nested(t, Append(s, f))
         /\ Ahead(t, Append(s, f)) = Ahead(t, s) \cup Left(t, f)
<1> DEFINE n == Len(s)
           r == Append(s, f)
<1>1. /\ n \in Nat \ {0} /\ DOMAIN s = 1 .. n
      /\ Len(r) = n + 1 /\ r \in Seq(Frame)
      /\ \A j \in 1 .. n : r[j] = s[j]
      /\ r[n + 1] = f
  BY OneMore
<1>2. DOMAIN r = 1 .. n + 1
  BY <1>1
<1> HIDE DEF n, r
<1>3. \A j \in DOMAIN r : j = n + 1 \/ j \in 1 .. n
  BY <1>1, <1>2
<1>4. \A j \in DOMAIN r : Placed(t, r[j])
  BY <1>1, <1>3
<1>5. Nested(t, r)
  <2> SUFFICES ASSUME NEW j \in DOMAIN r, NEW m \in DOMAIN r, j < m, NEW x \in Inside(t, r[m].node)
               PROVE  x < From(t, r[j].node, r[j].idx)
    BY DEF Nested
  <2>1. j \in 1 .. n /\ r[j] = s[j] /\ n \in 1 .. n
    BY <1>1, <1>2
  <2>2. CASE m \in 1 .. n
    BY <1>1, <2>1, <2>2 DEF Nested
  <2>3. CASE m = n + 1
    <3>1. x \in Inside(t, s[n].node) /\ x < From(t, s[n].node, s[n].idx)
      BY <1>1, <2>3 DEF n
    <3>2. j = n \/ j < n
      BY <1>1, <2>1
    <3>3. j < n => x < From(t, s[j].node, s[j].idx)
      BY <1>1, <2>1, <3>1 DEF Nested
    <3> QED
      BY <2>1, <3>1, <3>2, <3>3
  <2> QED
    BY <1>3, <2>2, <2>3
<1>6. Ahead(t, r) = Ahead(t, s) \cup Left(t, f)
  <2>1. n + 1 \in DOMAIN r /\ \A j \in 1 .. n : j \in DOMAIN r
    BY <1>1, <1>2
  <2>2. \A x : x \in Ahead(t, r) <=> \E j \in DOMAIN r : x \in Left(t, r[j])
    BY Zenon DEF Ahead
  <2>3. \A x : x \in Ahead(t, s) <=> \E j \in 1 .. n : x \in Left(t, s[j])
    BY <1>1, Zenon DEF Ahead
  <2>4. \A x \in Ahead(t, r) : x \in Ahead(t, s) \cup Left(t, f)
    BY <1>1, <1>3, <2>2, <2>3
  <2>5. \A x \in Ahead(t, s) \cup Left(t, f) : x \in Ahead(t, r)
    BY <1>1, <2>1, <2>2, <2>3
  <2> QED
    BY <2>4, <2>5
<1> QED
  BY <1>4, <1>5, <1>6 DEF r

(* And one taken off.                                                      *)
LEMMA OneFrameLess ==
  ASSUME NEW t, NEW s \in Seq(Frame), s # << >>,
         \A j \in DOMAIN s : Placed(t, s[j]), Nested(t, s)
  PROVE  LET r == SubSeq(s, 1, Len(s) - 1)
         IN  /\ \A j \in DOMAIN r : Placed(t, r[j])
             /\ Nested(t, r)
             /\ Ahead(t, s) = Ahead(t, r) \cup Left(t, s[Len(s)])
<1> DEFINE n == Len(s)
           r == SubSeq(s, 1, n - 1)
<1>1. /\ n \in Nat \ {0} /\ DOMAIN s = 1 .. n
      /\ Len(r) = n - 1
      /\ \A j \in 1 .. n - 1 : r[j] = s[j]
  <2>1. n \in Nat \ {0} /\ DOMAIN s = 1 .. n
    BY EmptySeq
  <2> QED
    BY <2>1, AllButLast, Zenon
<1>2. r \in Seq(Frame)
  <2>1. n - 1 \in Nat /\ n - 1 <= Len(s)
    BY <1>1
  <2> QED
    BY <2>1, FirstOnes, Zenon
<1>3. DOMAIN r = 1 .. n - 1
  BY <1>1, <1>2
<1>3a. s[Len(s)] = s[n]
  OBVIOUS
<1> HIDE DEF n, r
<1>4. \A j \in DOMAIN r : j \in DOMAIN s /\ r[j] = s[j]
  BY <1>1, <1>3
<1>5. \A j \in DOMAIN s : j = n \/ j \in DOMAIN r
  BY <1>1, <1>3
<1>6. n \in DOMAIN s
  BY <1>1
<1>7. \A j \in DOMAIN r : Placed(t, r[j])
  BY <1>4
<1>8. Nested(t, r)
  BY <1>4 DEF Nested
<1>9. Ahead(t, s) = Ahead(t, r) \cup Left(t, s[n])
  <2>1. \A x : x \in Ahead(t, r) <=> \E j \in DOMAIN r : x \in Left(t, r[j])
    BY Zenon DEF Ahead
  <2>2. \A x : x \in Ahead(t, s) <=> \E j \in DOMAIN s : x \in Left(t, s[j])
    BY Zenon DEF Ahead
  <2>3. \A x \in Ahead(t, s) : x \in Ahead(t, r) \cup Left(t, s[n])
    BY <1>4, <1>5, <2>1, <2>2
  <2>4. \A x \in Ahead(t, r) \cup Left(t, s[n]) : x \in Ahead(t, s)
    BY <1>4, <1>6, <2>1, <2>2
  <2> QED
    BY <2>3, <2>4
<1> QED
  BY <1>3a, <1>7, <1>8, <1>9 DEF r, n

-------------------------------------------------------------------------------
(* What a turn does to the walk.                                           *)

(* It is enough that the next worklist fits the tree and the lists.        *)
LEMMA Rewalked ==
  ASSUME Walk, tree' = tree, \A k \in DOMAIN stack' : Placed(tree, stack'[k]),
         Nested(tree, stack'), Recorded(tree, stack', mappings', cut')
  PROVE  Walk'
BY DEF Walk

(* Tags gone by that the walk does not reach into: all that it can have    *)
(* wanted of them is the tags themselves.                                  *)
LEMMA GoneBy ==
  ASSUME Inv, Walk, stack # << >>, NEW to \in Nat,
         \A j \in DOMAIN Kids : Top.idx <= j /\ Kids[j] < to => Deep(tree, Kids[j]),
         NEW n \in Wanted(tree), n \in Inside(tree, Top.node),
         From(tree, Top.node, Top.idx) <= n, n < to
  PROVE  \E j \in DOMAIN Kids : Top.idx <= j /\ n = Kids[j]
<1>1. /\ tree \in Tree /\ Numbered(tree) /\ Top.node \in Holder
      /\ Kids = tree.kids[Top.node] /\ Top.idx \in Nat \ {0}
  BY AtTheTop
<1>2. CASE Top.idx \in DOMAIN Kids
  BY <1>1, <1>2, Skipped
<1>3. CASE Top.idx \notin DOMAIN Kids
  BY <1>1, <1>3, LimitAssumption DEF From, Inside, Node
<1> QED
  BY <1>2, <1>3

(* The running frame moves on to k, past nothing it wanted.                *)
LEMMA Passes ==
  ASSUME Inv, Walk, stack # << >>, NEW k \in Nat, Top.idx <= k,
         \A j \in DOMAIN Kids :
           Top.idx <= j /\ j < k => Deep(tree, Kids[j]) /\ Kids[j] \notin Wanted(tree),
         stack' = Moved(k), UNCHANGED <<tree, mappings, cut>>
  PROVE  Walk'
<1>1. /\ tree \in Tree /\ Numbered(tree) /\ Top.node \in Holder
      /\ Kids = tree.kids[Top.node] /\ Top.idx \in Nat \ {0}
  BY AtTheTop
<1>2. /\ \A j \in DOMAIN stack' : Placed(tree, stack'[j])
      /\ Nested(tree, stack')
      /\ Ahead(tree, stack') \subseteq Ahead(tree, stack)
      /\ \A n \in Ahead(tree, stack) \ Ahead(tree, stack') :
              n \in Inside(tree, Top.node) /\ From(tree, Top.node, Top.idx) <= n
              /\ n < From(tree, Top.node, k)
  BY MovedOn
<1>3. /\ From(tree, Top.node, k) \in Nat
      /\ \A j \in DOMAIN Kids : Kids[j] < From(tree, Top.node, k) => j < k
  BY <1>1, FromGrows
<1>4. \A n \in Ahead(tree, stack) \ Ahead(tree, stack') : n \notin Wanted(tree)
  <2> SUFFICES ASSUME NEW n \in Ahead(tree, stack) \ Ahead(tree, stack'), n \in Wanted(tree)
               PROVE  FALSE
    OBVIOUS
  <2>1. PICK j \in DOMAIN Kids : Top.idx <= j /\ n = Kids[j]
    BY <1>2, <1>3, GoneBy
  <2> QED
    BY <1>2, <1>3, <2>1
<1>5. Recorded(tree, stack, mappings, cut)
  BY DEF Walk
<1>6. Recorded(tree, stack', mappings, cut)
  BY <1>2, <1>4, <1>5, NothingPassed
<1> QED
  BY <1>2, <1>6, Rewalked

(* Or past one tag that it records.                                        *)
LEMMA Records ==
  ASSUME Inv, Walk, stack # << >>, NEW i \in DOMAIN Kids, Top.idx <= i,
         \A j \in DOMAIN Kids :
           Top.idx <= j /\ j < i => Deep(tree, Kids[j]) /\ Kids[j] \notin Wanted(tree),
         Deep(tree, Kids[i]),
         stack' = Moved(i + 1), tree' = tree,
         \/ /\ Kids[i] \in Columns(tree) /\ Kids[i] \notin AtLimit(tree)
            /\ mappings' = Append(mappings, Kids[i]) /\ cut' = cut
         \/ /\ Kids[i] \in AtLimit(tree) /\ Kids[i] \notin Columns(tree)
            /\ mappings' = mappings /\ cut' = Append(cut, Kids[i])
  PROVE  Walk'
<1> DEFINE k == i + 1
           h == Top.node
           c == Kids[i]
<1>1. /\ tree \in Tree /\ Numbered(tree) /\ h \in Holder
      /\ Kids = tree.kids[h] /\ Top.idx \in Nat \ {0}
      /\ DOMAIN Kids = 1 .. Len(Kids) /\ Len(Kids) \in Nat
      /\ mappings \in Seq(Node) /\ cut \in Seq(Node)
  BY AtTheTop
<1>2. i \in Nat \ {0} /\ k \in Nat /\ Top.idx <= k
  BY <1>1
<1>3. /\ \A j \in DOMAIN stack' : Placed(tree, stack'[j])
      /\ Nested(tree, stack')
      /\ Ahead(tree, stack') \subseteq Ahead(tree, stack)
      /\ \A n \in Ahead(tree, stack) \ Ahead(tree, stack') :
              n \in Inside(tree, h) /\ From(tree, h, Top.idx) <= n /\ n < From(tree, h, k)
      /\ \A y \in Inside(tree, h) : y < From(tree, h, k) =>
              \A x \in Ahead(tree, stack') : y < x
      /\ \A y \in Inside(tree, h) : From(tree, h, Top.idx) <= y => y \in Ahead(tree, stack)
  BY <1>2, MovedOn
<1>4. /\ From(tree, h, k) \in Nat
      /\ \A j \in DOMAIN Kids : Kids[j] < From(tree, h, k) => j < k
  BY <1>1, <1>2, FromGrows
<1>5. c \in Node /\ c \in Inside(tree, h) /\ c \in Nat
  <2>1. i \in DOMAIN tree.kids[h] /\ tree.kids[h][i] = c
    BY <1>1
  <2> HIDE DEF h, c, k
  <2>2. tree.kids[h][i] \in Node
    BY <1>1, <2>1, TagsOf
  <2>3. c \in Nat
    BY <2>1, <2>2, LimitAssumption DEF Node
  <2>4. /\ tree.kids[h][i] \in Inside(tree, h)
        /\ Inside(tree, tree.kids[h][i]) \subseteq Inside(tree, h)
        /\ \A n \in Inside(tree, tree.kids[h][i]) :
              tree.kids[h][i] < n /\ n < From(tree, h, i + 1)
    BY <1>1, <2>1, TagInside
  <2>5. i + 1 = k
    BY DEF k
  <2> QED
    BY <2>1, <2>2, <2>3, <2>4, <2>5, Zenon
<1>6. From(tree, h, i) = c /\ From(tree, h, Top.idx) <= c
  BY <1>1, <1>2, FromGrows DEF From
<1>7. c < From(tree, h, k)
  <2>1. CASE k \in DOMAIN Kids
    BY <1>1, <1>2, <2>1, TagsOf DEF From
  <2>2. CASE k \notin DOMAIN Kids
    BY <1>1, <1>5, <2>2, LimitAssumption DEF From, Node
  <2> QED
    BY <2>1, <2>2
<1>8. c \in Ahead(tree, stack) /\ \A x \in Ahead(tree, stack') : c < x
  BY <1>3, <1>5, <1>6, <1>7
<1>9. c \notin Ahead(tree, stack')
  BY <1>5, <1>8
<1>10. \A x \in Ahead(tree, stack) \ Ahead(tree, stack') : x \in Wanted(tree) => x = c
  <2> SUFFICES ASSUME NEW x \in Ahead(tree, stack) \ Ahead(tree, stack'), x \in Wanted(tree), x # c
               PROVE  FALSE
    OBVIOUS
  <2>1. \A j \in DOMAIN Kids : Top.idx <= j /\ Kids[j] < From(tree, h, k) => Deep(tree, Kids[j])
    <3> TAKE j \in DOMAIN Kids
    <3>1. j \in Nat /\ (j < k => j < i \/ j = i)
      BY <1>1, <1>2
    <3> QED
      BY <1>4, <3>1
  <2>2. PICK j \in DOMAIN Kids : Top.idx <= j /\ x = Kids[j]
    BY <1>3, <1>4, <2>1, GoneBy
  <2>3. j < k
    BY <1>3, <1>4, <2>2
  <2>4. j < i \/ j = i
    BY <1>1, <1>2, <2>3
  <2> QED
    BY <2>2, <2>4
<1>11. Recorded(tree, stack, mappings, cut)
  BY DEF Walk
<1> HIDE DEF c
<1>12. Recorded(tree, stack', mappings', cut')
  <2>1. /\ c \in Columns(tree) /\ c \notin AtLimit(tree)
            => Recorded(tree, stack', Append(mappings, c), cut)
        /\ c \in AtLimit(tree) /\ c \notin Columns(tree)
            => Recorded(tree, stack', mappings, Append(cut, c))
    BY <1>1, <1>3, <1>5, <1>8, <1>9, <1>10, <1>11, OnePassed
  <2> QED
    BY <2>1 DEF c
<1> QED
  BY <1>3, <1>12, Rewalked

(* Or past nothing it wanted into a tag.                                   *)
LEMMA Enters ==
  ASSUME Inv, Walk, stack # << >>, NEW i \in DOMAIN Kids, Top.idx <= i,
         \A j \in DOMAIN Kids :
           Top.idx <= j /\ j < i => Deep(tree, Kids[j]) /\ Kids[j] \notin Wanted(tree),
         Kids[i] \notin Wanted(tree),
         NEW f \in Frame, f.node = Kids[i], f.idx = 1, Placed(tree, f),
         stack' = Append(Moved(i + 1), f), UNCHANGED <<tree, mappings, cut>>
  PROVE  Walk'
<1> DEFINE k == i + 1
           h == Top.node
           c == Kids[i]
           s == Moved(k)
<1>1. /\ tree \in Tree /\ Numbered(tree) /\ h \in Holder
      /\ Kids = tree.kids[h] /\ Top.idx \in Nat \ {0}
      /\ DOMAIN Kids = 1 .. Len(Kids) /\ Len(Kids) \in Nat
      /\ Len(stack) \in Nat \ {0}
  BY AtTheTop
<1>2. i \in Nat \ {0} /\ k \in Nat /\ Top.idx <= k
  BY <1>1
<1>3. /\ s \in Seq(Frame) /\ Len(s) = Len(stack)
      /\ s[Len(s)].node = h /\ s[Len(s)].idx = k
      /\ \A j \in DOMAIN s : Placed(tree, s[j])
      /\ Nested(tree, s)
      /\ Ahead(tree, s) \subseteq Ahead(tree, stack)
      /\ \A n \in Ahead(tree, stack) \ Ahead(tree, s) :
              n \in Inside(tree, h) /\ From(tree, h, Top.idx) <= n /\ n < From(tree, h, k)
      /\ \A y \in Inside(tree, h) : From(tree, h, Top.idx) <= y => y \in Ahead(tree, stack)
  <2> HIDE DEF h, k
  <2>1. /\ Moved(k) \in Seq(Frame) /\ Len(Moved(k)) = Len(stack)
        /\ Moved(k)[Len(stack)].node = Top.node /\ Moved(k)[Len(stack)].idx = k
        /\ \A j \in DOMAIN Moved(k) : Placed(tree, Moved(k)[j])
        /\ Nested(tree, Moved(k))
        /\ Ahead(tree, Moved(k)) \subseteq Ahead(tree, stack)
        /\ \A n \in Ahead(tree, stack) \ Ahead(tree, Moved(k)) :
              n \in Inside(tree, Top.node) /\ From(tree, Top.node, Top.idx) <= n
              /\ n < From(tree, Top.node, k)
        /\ \A y \in Inside(tree, Top.node) :
              From(tree, Top.node, Top.idx) <= y => y \in Ahead(tree, stack)
    BY <1>2, MovedOn
  <2> QED
    BY <2>1, Zenon DEF h
<1>4. c \in Node /\ c \in Inside(tree, h) /\ c \in Nat
      /\ Inside(tree, c) \subseteq Inside(tree, h)
      /\ \A n \in Inside(tree, c) : c < n /\ n < From(tree, h, k)
  <2>1. i \in DOMAIN tree.kids[h] /\ tree.kids[h][i] = c
    BY <1>1
  <2> HIDE DEF h, c, k
  <2>2. tree.kids[h][i] \in Node
    BY <1>1, <2>1, TagsOf
  <2>3. c \in Nat
    BY <2>1, <2>2, LimitAssumption DEF Node
  <2>4. /\ tree.kids[h][i] \in Inside(tree, h)
        /\ Inside(tree, tree.kids[h][i]) \subseteq Inside(tree, h)
        /\ \A n \in Inside(tree, tree.kids[h][i]) :
              tree.kids[h][i] < n /\ n < From(tree, h, i + 1)
    BY <1>1, <2>1, TagInside
  <2>5. i + 1 = k
    BY DEF k
  <2> QED
    BY <2>1, <2>2, <2>3, <2>4, <2>5, Zenon
<1>5. From(tree, h, i) = c /\ From(tree, h, Top.idx) <= c /\ From(tree, h, Top.idx) \in Nat
      /\ \A j \in DOMAIN Kids : Kids[j] < c => j < i
  BY <1>1, <1>2, FromGrows DEF From
<1>6. Left(tree, f) = Inside(tree, c)
  <2>1. \A n \in Inside(tree, c) : From(tree, c, 1) <= n
    BY <1>1, <1>4, FirstTag DEF Holder
  <2> QED
    BY <2>1 DEF Left
<1>7. /\ \A j \in DOMAIN stack' : Placed(tree, stack'[j])
      /\ Nested(tree, stack')
      /\ Ahead(tree, stack') = Ahead(tree, s) \cup Inside(tree, c)
  <2>1. s # << >>
    BY <1>1, <1>3
  <2> HIDE DEF s, c, h, k
  <2>2. f.node = c /\ stack' = Append(s, f)
    BY DEF s, c, k
  <2>3. /\ Inside(tree, f.node) \subseteq Inside(tree, s[Len(s)].node)
        /\ \A n \in Inside(tree, f.node) : n < From(tree, s[Len(s)].node, s[Len(s)].idx)
    BY <1>3, <1>4, <2>2
  <2>4. /\ s \in Seq(Frame) /\ Nested(tree, s) /\ \A j \in DOMAIN s : Placed(tree, s[j])
    BY <1>3
  <2>5. /\ \A j \in DOMAIN Append(s, f) : Placed(tree, Append(s, f)[j])
        /\ Nested(tree, Append(s, f))
        /\ Ahead(tree, Append(s, f)) = Ahead(tree, s) \cup Left(tree, f)
    BY <2>1, <2>3, <2>4, OneFrameMore
  <2> QED
    BY <1>6, <2>2, <2>5
<1>8. \A n \in Inside(tree, h) : n \in Nat
  BY LimitAssumption DEF Inside, Node
<1>9. Ahead(tree, stack') \subseteq Ahead(tree, stack)
  <2>1. \A n \in Inside(tree, c) : n \in Ahead(tree, stack)
    <3> TAKE n \in Inside(tree, c)
    <3>1. n \in Nat /\ c < n /\ n \in Inside(tree, h)
      BY <1>4, <1>8
    <3>2. From(tree, h, Top.idx) <= n
      BY <1>4, <1>5, <3>1
    <3> QED
      BY <1>3, <3>1, <3>2
  <2> QED
    BY <1>3, <1>7, <2>1
<1>10. \A n \in Ahead(tree, stack) \ Ahead(tree, stack') : n \notin Wanted(tree)
  <2> SUFFICES ASSUME NEW n \in Ahead(tree, stack) \ Ahead(tree, stack'), n \in Wanted(tree)
               PROVE  FALSE
    OBVIOUS
  <2>1. /\ n \in Inside(tree, h) /\ n \notin Inside(tree, c) /\ n \in Nat
        /\ From(tree, h, Top.idx) <= n /\ n < From(tree, h, k)
    BY <1>3, <1>7, <1>8
  <2>2. CASE n = c
    BY <2>2
  <2>3. CASE c < n
    BY <1>1, <2>1, <2>3, InsideATag
  <2>4. CASE n < c
    <3>1. \A j \in DOMAIN Kids : Top.idx <= j /\ Kids[j] < c => Deep(tree, Kids[j])
      BY <1>5
    <3>2. PICK j \in DOMAIN Kids : Top.idx <= j /\ n = Kids[j]
      BY <1>4, <2>1, <2>4, <3>1, GoneBy
    <3> QED
      BY <1>5, <2>4, <3>2
  <2> QED
    BY <1>4, <2>1, <2>2, <2>3, <2>4
<1>11. Recorded(tree, stack, mappings, cut)
  BY DEF Walk
<1>12. Recorded(tree, stack', mappings, cut)
  BY <1>9, <1>10, <1>11, NothingPassed
<1> QED
  BY <1>7, <1>12, Rewalked

(* Or it is done, with nothing left that it wanted.                        *)
LEMMA Ends ==
  ASSUME Inv, Walk, stack # << >>,
         \A j \in DOMAIN Kids :
           Top.idx <= j => Deep(tree, Kids[j]) /\ Kids[j] \notin Wanted(tree),
         stack' = SubSeq(stack, 1, Len(stack) - 1), UNCHANGED <<tree, mappings, cut>>
  PROVE  Walk'
<1>1. /\ tree \in Tree /\ Numbered(tree) /\ stack \in Seq(Frame)
      /\ Top = stack[Len(stack)] /\ Kids = tree.kids[Top.node]
  BY AtTheTop
<1>2. /\ \A j \in DOMAIN stack' : Placed(tree, stack'[j])
      /\ Nested(tree, stack')
      /\ Ahead(tree, stack) = Ahead(tree, stack') \cup Left(tree, Top)
  <2>1. (\A j \in DOMAIN stack : Placed(tree, stack[j])) /\ Nested(tree, stack)
    BY DEF Walk
  <2> QED
    BY <1>1, <2>1, OneFrameLess
<1>3. NodeCount + 1 \in Nat /\ \A n \in Node : n < NodeCount + 1
  BY LimitAssumption DEF Node
<1>4. \A n \in Left(tree, Top) : n \notin Wanted(tree)
  <2> SUFFICES ASSUME NEW n \in Left(tree, Top), n \in Wanted(tree) PROVE FALSE
    OBVIOUS
  <2>1. n \in Inside(tree, Top.node) /\ From(tree, Top.node, Top.idx) <= n /\ n < NodeCount + 1
    BY <1>3 DEF Left, Inside
  <2>2. PICK j \in DOMAIN Kids : Top.idx <= j /\ n = Kids[j]
    BY <1>3, <2>1, GoneBy
  <2> QED
    BY <2>2
<1>5. Recorded(tree, stack, mappings, cut)
  BY DEF Walk
<1>6. Recorded(tree, stack', mappings, cut)
  BY <1>2, <1>4, <1>5, NothingPassed
<1> QED
  BY <1>2, <1>6, Rewalked

-------------------------------------------------------------------------------
(* The actions.                                                            *)

(* The tag at the index of a mapping frame, and of no index ahead of it.   *)
LEMMA MappingTag ==
  ASSUME Inv, Walk, AtTop("mapping"), More
  PROVE  /\ Top.idx \in DOMAIN Kids /\ Tag = Kids[Top.idx] /\ Tag \in Node
         /\ ParentOf(tree, Tag) = Top.node /\ ~ IsDiscriminator(tree, Top.node)
         /\ Level(tree)[Top.node] = Top.depth /\ Top.depth # NotWalked /\ Top.depth < DepthLimit
         /\ \A j \in DOMAIN Kids : ~ (Top.idx <= j /\ j < Top.idx)
<1>0. stack # << >> /\ Top.type = "mapping"
  BY DEF AtTop
<1>1. /\ tree \in Tree /\ Numbered(tree) /\ Top.node \in Holder
      /\ Kids = tree.kids[Top.node] /\ Top.idx \in Nat \ {0}
      /\ DOMAIN Kids = 1 .. Len(Kids) /\ Len(Kids) \in Nat
      /\ Placed(tree, Top) /\ Top.depth < DepthLimit
  BY <1>0, AtTheTop
<1>2. Top.idx \in DOMAIN Kids
  BY <1>1 DEF More
<1>3. Tag \in Node /\ ParentOf(tree, Tag) = Top.node
  BY <1>1, <1>2, TagsOf DEF Tag
<1> QED
  BY <1>0, <1>1, <1>2, <1>3 DEF Tag, Placed

(* A tag without an arm is passed with all it holds.                       *)
LEMMA MappingPassesWalk == Inv /\ Walk /\ MappingPasses => Walk'
<1> SUFFICES ASSUME Inv, Walk, MappingPasses PROVE Walk'
  OBVIOUS
<1>1. /\ AtTop("mapping") /\ More /\ tree.kind[Tag] \in {"text", "case", "other"}
      /\ stack # << >> /\ stack' = Advanced /\ UNCHANGED <<tree, mappings, cut>>
  BY DEF MappingPasses, AtTop
<1>2. /\ Top.idx \in DOMAIN Kids /\ Tag = Kids[Top.idx] /\ Tag \in Node
      /\ Deep(tree, Tag) /\ Tag \notin Wanted(tree)
  BY <1>1, MappingTag, AtTheTop, TagOfBody
<1>3. stack' = Moved(Top.idx + 1) /\ Top.idx \in Nat /\ DOMAIN Kids \subseteq Nat
  BY <1>1, AtTheTag, AtTheTop
<1>4. \A j \in DOMAIN Kids :
        Top.idx <= j /\ j < Top.idx + 1 => Deep(tree, Kids[j]) /\ Kids[j] \notin Wanted(tree)
  BY <1>2, <1>3
<1> QED
  BY <1>1, <1>3, <1>4, Passes

(* A column is recorded, and there is nothing in it.                       *)
LEMMA MappingColumnWalk == Inv /\ Walk /\ MappingColumn => Walk'
<1> SUFFICES ASSUME Inv, Walk, MappingColumn PROVE Walk'
  OBVIOUS
<1>1. /\ AtTop("mapping") /\ More /\ tree.kind[Tag] = "column"
      /\ stack # << >> /\ stack' = Advanced /\ UNCHANGED <<tree, cut>>
      /\ mappings' = Append(mappings, Tag)
  BY DEF MappingColumn, AtTop
<1>2. /\ Top.idx \in DOMAIN Kids /\ Tag = Kids[Top.idx]
      /\ Deep(tree, Tag) /\ Tag \in Columns(tree) /\ Tag \notin AtLimit(tree)
  BY <1>1, MappingTag, AtTheTop, TagOfBody
<1>3. stack' = Moved(Top.idx + 1) /\ Top.idx \in Nat
  BY <1>1, AtTheTag, AtTheTop
<1>4. \A j \in DOMAIN Kids : ~ (Top.idx <= j /\ j < Top.idx)
  BY <1>1, MappingTag
<1> QED
  BY <1>1, <1>2, <1>3, <1>4, Records

(* Into a body, or up to the limit.                                        *)
LEMMA DescendWalk ==
  ASSUME Inv, Walk, stack # << >>, NEW i \in DOMAIN Kids, Top.idx <= i,
         \A j \in DOMAIN Kids :
           Top.idx <= j /\ j < i => Deep(tree, Kids[j]) /\ Kids[j] \notin Wanted(tree),
         Level(tree)[Kids[i]] = Top.depth + 1, Level(tree)[Kids[i]] # NotWalked,
         ~ IsDiscriminator(tree, Kids[i]), Kids[i] \notin Columns(tree),
         Kids[i] \in AtLimit(tree) <=> Level(tree)[Kids[i]] = DepthLimit,
         DescendMapping(Kids[i], Top.depth + 1, Moved(i + 1)), UNCHANGED <<tree, mappings>>
  PROVE  Walk'
<1>1. /\ Top.depth \in Nat /\ Top.depth < DepthLimit /\ Kids[i] \in Node /\ DepthLimit \in Nat
  BY AtTheTop, TagsOf, LimitAssumption
<1>2. CASE Top.depth + 1 >= DepthLimit
  <2>1. cut' = Append(cut, Kids[i]) /\ stack' = Moved(i + 1)
    BY <1>2 DEF DescendMapping
  <2>2. Kids[i] \in AtLimit(tree) /\ Deep(tree, Kids[i])
    BY <1>1, <1>2 DEF Deep
  <2> QED
    BY <2>1, <2>2, Records
<1>3. CASE ~ (Top.depth + 1 >= DepthLimit)
  <2> DEFINE f == MappingFrame(Kids[i], Top.depth + 1)
  <2>1. /\ f \in Frame /\ f.type = "mapping" /\ f.depth = Top.depth + 1
        /\ f.node = Kids[i] /\ f.idx = 1
    BY <1>1 DEF Frame, Holder, MappingFrame
  <2>2. stack' = Append(Moved(i + 1), f) /\ UNCHANGED cut
    BY <1>3 DEF DescendMapping
  <2>3. Kids[i] \notin Wanted(tree)
    BY <1>1, <1>3 DEF Wanted
  <2> HIDE DEF f
  <2>4. Placed(tree, f)
    BY <2>1 DEF Placed
  <2> QED
    BY <2>1, <2>2, <2>3, <2>4, Enters
<1> QED
  BY <1>2, <1>3

(* An association or a collection is entered, or is at the limit.          *)
LEMMA MappingNestedWalk == Inv /\ Walk /\ MappingNested => Walk'
<1> SUFFICES ASSUME Inv, Walk, MappingNested PROVE Walk'
  OBVIOUS
<1>1. /\ AtTop("mapping") /\ More /\ tree.kind[Tag] = "nested"
      /\ stack # << >> /\ UNCHANGED <<tree, mappings>>
      /\ DescendMapping(Tag, Top.depth + 1, Moved(Top.idx + 1))
  BY AtTheTag DEF MappingNested, AtTop
<1>2. /\ Top.idx \in DOMAIN Kids /\ Tag = Kids[Top.idx] /\ Top.idx \in Nat
      /\ Level(tree)[Tag] = Top.depth + 1 /\ Level(tree)[Tag] # NotWalked
      /\ ~ IsDiscriminator(tree, Tag) /\ Tag \notin Columns(tree)
      /\ Tag \in AtLimit(tree) <=> Level(tree)[Tag] = DepthLimit
  BY <1>1, MappingTag, AtTheTop, TagOfBody
<1>3. \A j \in DOMAIN Kids : ~ (Top.idx <= j /\ j < Top.idx)
  BY <1>1, MappingTag
<1> QED
  BY <1>1, <1>2, <1>3, DescendWalk

(* A discriminator is entered whatever the limit.                          *)
LEMMA MappingDiscriminatorWalk == Inv /\ Walk /\ MappingDiscriminator => Walk'
<1> SUFFICES ASSUME Inv, Walk, MappingDiscriminator PROVE Walk'
  OBVIOUS
<1> DEFINE f == DiscriminatorFrame(Tag, Top.depth)
<1>1. /\ AtTop("mapping") /\ More /\ tree.kind[Tag] = "discriminator"
      /\ stack # << >> /\ stack' = Append(Advanced, f) /\ UNCHANGED <<tree, mappings, cut>>
  BY DEF MappingDiscriminator, AtTop
<1>2. /\ Top.idx \in DOMAIN Kids /\ Tag = Kids[Top.idx] /\ Tag \in Node
      /\ Top.idx \in Nat /\ Top.depth \in Nat /\ Top.depth # NotWalked
      /\ Level(tree)[Tag] = Top.depth /\ IsDiscriminator(tree, Tag) /\ Tag \notin Wanted(tree)
  BY <1>1, MappingTag, AtTheTop, TagOfBody
<1>3. /\ f \in Frame /\ f.type = "discriminator" /\ f.depth = Top.depth
      /\ f.node = Tag /\ f.idx = 1
  BY <1>2 DEF Frame, Holder, DiscriminatorFrame
<1> HIDE DEF f
<1>4. Placed(tree, f)
  BY <1>2, <1>3 DEF Placed
<1>5. stack' = Append(Moved(Top.idx + 1), f)
  BY <1>1, AtTheTag
<1>6. \A j \in DOMAIN Kids : ~ (Top.idx <= j /\ j < Top.idx)
  BY <1>1, MappingTag
<1> QED
  BY <1>1, <1>2, <1>3, <1>4, <1>5, <1>6, Enters

(* The tags of a discriminator frame: only cases lead anywhere.            *)
LEMMA DiscriminatorTags ==
  ASSUME Inv, Walk, AtTop("discriminator")
  PROVE  \A j \in DOMAIN Kids :
           LET c == Kids[j]
           IN  /\ c \in Node
               /\ tree.kind[c] # "case" => Deep(tree, c) /\ c \notin Wanted(tree)
               /\ tree.kind[c] = "case" =>
                    /\ Level(tree)[c] = Top.depth + 1 /\ Level(tree)[c] # NotWalked
                    /\ ~ IsDiscriminator(tree, c) /\ c \notin Columns(tree)
                    /\ c \in AtLimit(tree) <=> Level(tree)[c] = DepthLimit
<1>0. stack # << >> /\ Top.type = "discriminator"
  BY DEF AtTop
<1>1. /\ tree \in Tree /\ Numbered(tree) /\ Top.node \in Holder
      /\ Kids = tree.kids[Top.node] /\ Placed(tree, Top)
  BY <1>0, AtTheTop
<1>2. IsDiscriminator(tree, Top.node) /\ Level(tree)[Top.node] = Top.depth /\ Top.depth # NotWalked
  BY <1>0, <1>1 DEF Placed
<1> SUFFICES ASSUME NEW j \in DOMAIN Kids
             PROVE  LET c == Kids[j]
                    IN  /\ c \in Node
                        /\ tree.kind[c] # "case" => Deep(tree, c) /\ c \notin Wanted(tree)
                        /\ tree.kind[c] = "case" =>
                             /\ Level(tree)[c] = Top.depth + 1 /\ Level(tree)[c] # NotWalked
                             /\ ~ IsDiscriminator(tree, c) /\ c \notin Columns(tree)
                             /\ c \in AtLimit(tree) <=> Level(tree)[c] = DepthLimit
  OBVIOUS
<1>3. Kids[j] \in Node /\ ParentOf(tree, Kids[j]) = Top.node
  BY <1>1, TagsOf
<1> QED
  BY <1>1, <1>2, <1>3, TagOfDiscriminator

(* The next case is entered, or is at the limit; what is before it leads   *)
(* nowhere.                                                                *)
LEMMA DiscriminatorCaseWalk == Inv /\ Walk /\ DiscriminatorCase => Walk'
<1> SUFFICES ASSUME Inv, Walk, DiscriminatorCase PROVE Walk'
  OBVIOUS
<1>1. AtTop("discriminator") /\ stack # << >> /\ UNCHANGED <<tree, mappings>>
  BY DEF DiscriminatorCase, AtTop
<1>2. PICK i \in CaseAhead : (\A j \in CaseAhead : i <= j)
                             /\ DescendMapping(Kids[i], Top.depth + 1, Moved(i + 1))
  BY DEF DiscriminatorCase, Moved
<1>3. /\ Top.idx \in Nat \ {0} /\ DOMAIN Kids = 1 .. Len(Kids) /\ Len(Kids) \in Nat
  BY <1>1, AtTheTop
<1>4. i \in DOMAIN Kids /\ Top.idx <= i /\ tree.kind[Kids[i]] = "case" /\ i \in Nat
  BY <1>2, <1>3 DEF CaseAhead
<1>5. \A j \in DOMAIN Kids :
        Top.idx <= j /\ j < i => Deep(tree, Kids[j]) /\ Kids[j] \notin Wanted(tree)
  <2> SUFFICES ASSUME NEW j \in DOMAIN Kids, Top.idx <= j, j < i
               PROVE  Deep(tree, Kids[j]) /\ Kids[j] \notin Wanted(tree)
    OBVIOUS
  <2>1. j \in Top.idx .. Len(Kids) /\ ~ (i <= j)
    BY <1>3, <1>4
  <2>2. tree.kind[Kids[j]] # "case"
    BY <1>2, <2>1 DEF CaseAhead
  <2> QED
    BY <1>1, <2>2, DiscriminatorTags
<1>6. /\ Level(tree)[Kids[i]] = Top.depth + 1 /\ Level(tree)[Kids[i]] # NotWalked
      /\ ~ IsDiscriminator(tree, Kids[i]) /\ Kids[i] \notin Columns(tree)
      /\ Kids[i] \in AtLimit(tree) <=> Level(tree)[Kids[i]] = DepthLimit
  BY <1>1, <1>4, DiscriminatorTags
<1> QED
  BY <1>1, <1>2, <1>4, <1>5, <1>6, DescendWalk

(* A frame is finished when nothing left in it leads anywhere.             *)
LEMMA FinishedWalk == Inv /\ Walk /\ Finished => Walk'
<1> SUFFICES ASSUME Inv, Walk, Finished PROVE Walk'
  OBVIOUS
<1>1. /\ stack # << >> /\ (IF Top.type = "mapping" THEN ~ More ELSE CaseAhead = {})
      /\ stack' = SubSeq(stack, 1, Len(stack) - 1) /\ UNCHANGED <<tree, mappings, cut>>
  BY DEF Finished
<1>2. /\ Top.idx \in Nat \ {0} /\ DOMAIN Kids = 1 .. Len(Kids) /\ Len(Kids) \in Nat
      /\ Top \in Frame
  BY <1>1, AtTheTop
<1>3. \A j \in DOMAIN Kids :
        Top.idx <= j => Deep(tree, Kids[j]) /\ Kids[j] \notin Wanted(tree)
  <2> SUFFICES ASSUME NEW j \in DOMAIN Kids, Top.idx <= j
               PROVE  Deep(tree, Kids[j]) /\ Kids[j] \notin Wanted(tree)
    OBVIOUS
  <2>1. CASE Top.type = "mapping"
    BY <1>1, <1>2, <2>1 DEF More
  <2>2. CASE Top.type # "mapping"
    <3>1. AtTop("discriminator")
      BY <1>1, <1>2, <2>2 DEF AtTop, Frame
    <3>2. j \in Top.idx .. Len(Kids)
      BY <1>2
    <3>3. tree.kind[Kids[j]] # "case"
      BY <1>1, <2>2, <3>2 DEF CaseAhead
    <3> QED
      BY <3>1, <3>3, DiscriminatorTags
  <2> QED
    BY <2>1, <2>2
<1> QED
  BY <1>1, <1>3, Ends

(* At the start everything is ahead.                                       *)
LEMMA InitWalk == Init => Walk
<1> SUFFICES ASSUME Init PROVE Walk
  OBVIOUS
<1>1. tree \in Trees /\ tree \in Tree /\ Numbered(tree)
  BY TreesAssumption DEF Init
<1> DEFINE f == MappingFrame(Root, 0)
<1>2. /\ f.node = Root /\ f.idx = 1 /\ f.depth = 0 /\ f.type = "mapping"
  BY DEF MappingFrame
<1>3. stack = <<f>> /\ mappings = << >> /\ cut = << >>
  BY DEF Init
<1>4. DOMAIN stack = {1} /\ stack[1] = f
  BY <1>3
<1> HIDE DEF f
<1>5. Placed(tree, f)
  BY <1>1, <1>2, LevelKnown, LimitAssumption DEF Placed, IsDiscriminator, NotWalked
<1>6. Nested(tree, stack)
  BY <1>4 DEF Nested
<1>7. Ahead(tree, stack) = Node
  <2>1. Inside(tree, Root) = Node /\ \A n \in Node : From(tree, Root, 1) <= n
    BY <1>1, AllInside, FirstTag DEF Holder
  <2>2. Left(tree, f) = Node
    BY <1>2, <2>1 DEF Left
  <2> QED
    BY <1>4, <2>2 DEF Ahead
<1>8. Columns(tree) \ Node = {} /\ AtLimit(tree) \ Node = {} /\ Wanted(tree) \ Node = {}
  BY DEF Columns, AtLimit, Wanted
<1>9. Lists(<< >>, {})
  BY DEF Lists
<1>10. Recorded(tree, stack, mappings, cut)
  BY <1>3, <1>7, <1>8, <1>9, Zenon DEF Recorded
<1> QED
  BY <1>1, <1>4, <1>5, <1>6, <1>10 DEF Walk

(* Every step keeps to the walk.                                           *)
LEMMA NextWalk == Inv /\ Walk /\ [Next]_vars => Walk'
<1> SUFFICES ASSUME Inv, Walk, [Next]_vars PROVE Walk'
  OBVIOUS
<1>1. CASE Next
  BY <1>1, MappingPassesWalk, MappingColumnWalk, MappingNestedWalk, MappingDiscriminatorWalk,
     DiscriminatorCaseWalk, FinishedWalk DEF Next
<1>2. CASE UNCHANGED vars
  BY <1>2 DEF vars, Walk
<1> QED
  BY <1>1, <1>2

(* When collect_mappings is done, the columns it has gathered are those of *)
(* the bodies above the limit, each once and in document order, and it has *)
(* reported each body at the limit once: whatever the resultMap.           *)
THEOREM MappingsCorrect == Spec => []MappingsExact
<1>1. Walk => MappingsExact
  <2> SUFFICES ASSUME Walk, stack = << >>
               PROVE  Lists(mappings, Columns(tree)) /\ Lists(cut, AtLimit(tree))
    BY DEF MappingsExact
  <2>1. Ahead(tree, stack) = {}
    BY DEF Ahead
  <2>2. /\ Lists(mappings, Columns(tree) \ Ahead(tree, stack))
        /\ Lists(cut, AtLimit(tree) \ Ahead(tree, stack))
    BY Zenon DEF Walk, Recorded
  <2>3. Columns(tree) \ {} = Columns(tree) /\ AtLimit(tree) \ {} = AtLimit(tree)
    OBVIOUS
  <2> QED
    BY <2>1, <2>2, <2>3
<1>2. Spec => []Walk
  BY InitWalk, NextWalk, SpecInv, PTL DEF Spec
<1> QED
  BY <1>1, <1>2, PTL
===============================================================================
