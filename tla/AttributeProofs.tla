---------------------------- MODULE AttributeProofs ----------------------------
(***************************************************************************)
(* What scan_attributes finds, for every element, opening tag and body.    *)
(*   - It stays inside the opening tag: it passes no ">" but inside the    *)
(*     quotes of a value it has taken, so nothing of a body becomes an     *)
(*     attribute (B6); and what it takes lies one behind the other, each a *)
(*     name without a stop in it and a value between two quotes of one     *)
(*     kind.                                                               *)
(*   - It finds what the tag writes, item by item: behind the m-th item    *)
(*     the scan has found as many attributes as were written up to there,  *)
(*     each with the bytes it was written with (ReadInv); so it is done    *)
(*     with exactly those written (AttributesExact).                       *)
(***************************************************************************)
EXTENDS AttributeReference, CommonLemmas, FiniteSetTheorems

-----------------------------------------------------------------------------
(* A set of naturals that holds anything has a least member, and Min is it.*)
LEMMA NatMin ==
  ASSUME NEW S, S \subseteq Nat, S # {}
  PROVE  Min(S) \in S /\ \A j \in S : Min(S) <= j
<1>1. \E x \in S : \A y \in S : x =< y
  BY NatLeast
<1> QED
  BY <1>1 DEF Min

-----------------------------------------------------------------------------
(* Until returns the first stop, or the end of the scan.                   *)
LEMMA UntilRange ==
  ASSUME tag \in Tags, NEW i \in 1 .. tag.end, NEW S
  PROVE  /\ Until(i, S) \in i .. tag.end
         /\ \A k \in i .. Until(i, S) - 1 : tag.text[k] \notin S
         /\ Until(i, S) < tag.end => tag.text[Until(i, S)] \in S
<1> DEFINE F == {tag.end} \cup {j \in i .. tag.end - 1 : tag.text[j] \in S}
<1>1. tag.end \in Nat
  BY TagsAssumption
<1>2. CASE i >= tag.end
  <2>1. Until(i, S) = i /\ i = tag.end
    BY <1>1, <1>2 DEF Until
  <2> QED
    BY <2>1, <1>1
<1>3. CASE ~ (i >= tag.end)
  <2>1. Until(i, S) = Min(F)
    BY <1>3, Zenon DEF Until
  <2>2. F \subseteq Nat /\ F # {}
    BY <1>1
  <2>3. Min(F) \in F /\ \A j \in F : Min(F) <= j
    <3> HIDE DEF F
    <3> QED
      BY <2>2, NatMin, Zenon
  <2>4. Min(F) \in i .. tag.end
    BY <2>3, <1>1, <1>3
  <2>5. \A k \in i .. Min(F) - 1 : tag.text[k] \notin S
    <3> TAKE k \in i .. Min(F) - 1
    <3>1. k \in i .. tag.end - 1 /\ ~ (Min(F) <= k)
      BY <2>4, <1>1
    <3>2. k \notin F
      BY <3>1, <2>3
    <3> QED
      BY <3>1, <3>2
  <2>6. Min(F) < tag.end => tag.text[Min(F)] \in S
    BY <2>3, <1>1
  <2> QED
    BY <2>1, <2>4, <2>5, <2>6
<1> QED
  BY <1>2, <1>3

(* Past returns the first byte that is not to be passed over.              *)
LEMMA PastRange ==
  ASSUME tag \in Tags, NEW i \in 1 .. tag.end, NEW S
  PROVE  /\ Past(i, S) \in i .. tag.end
         /\ \A k \in i .. Past(i, S) - 1 : tag.text[k] \in S
         /\ Past(i, S) < tag.end => tag.text[Past(i, S)] \notin S
<1>1. /\ Until(i, Byte \ S) \in i .. tag.end
      /\ \A k \in i .. Until(i, Byte \ S) - 1 : tag.text[k] \notin Byte \ S
      /\ Until(i, Byte \ S) < tag.end => tag.text[Until(i, Byte \ S)] \in Byte \ S
  BY UntilRange
<1>2. \A k \in 1 .. tag.end - 1 : tag.text[k] \in Byte
  BY TagsAssumption
<1>3. \A k \in i .. Until(i, Byte \ S) - 1 : k \in 1 .. tag.end - 1
  BY <1>1, TagsAssumption
<1> QED
  BY <1>1, <1>2, <1>3 DEF Past

-----------------------------------------------------------------------------
(* Types of the state.                                                     *)
TypeOK ==
  /\ tag \in Tags
  /\ pos \in 1 .. tag.end
  /\ attrs \in Seq(RawAttr)
  /\ phase \in {"element", "attributes", "done"}

InValue(k, a) == a.value[1] <= k /\ k < a.value[2]

(* The scan has passed no end of a tag but inside the quotes of a value.   *)
StaysInTag ==
  \A k \in 1 .. pos - 1 :
    tag.text[k] = ">" => \E n \in DOMAIN attrs : InValue(k, attrs[n])

(* Attributes lie one behind the other: a name, a quote, a value up to the *)
(* same quote.                                                             *)
WellFormed(a) ==
  /\ 1 <= a.name[1] /\ a.name[1] <= a.name[2] /\ a.name[2] + 1 < a.value[1]
  /\ a.value[1] <= a.value[2] /\ a.value[2] < pos
  /\ \A k \in a.name[1] .. a.name[2] - 1 : tag.text[k] \notin NameStops
  /\ tag.text[a.value[2]] \in Quote
  /\ tag.text[a.value[1] - 1] = tag.text[a.value[2]]

OneBehindTheOther ==
  /\ \A n \in DOMAIN attrs : WellFormed(attrs[n])
  /\ \A m, n \in DOMAIN attrs : m < n => attrs[m].value[2] < attrs[n].name[1]

Inv == TypeOK /\ StaysInTag /\ OneBehindTheOther

-----------------------------------------------------------------------------
(* What a turn looks at, from pos on: blanks, a name, blanks.              *)
LEMMA NameParts ==
  ASSUME TypeOK
  PROVE  /\ NameStart \in pos .. tag.end
         /\ NameEnd \in NameStart .. tag.end
         /\ AfterName \in NameEnd .. tag.end
         /\ \A k \in NameStart .. NameEnd - 1 : tag.text[k] \notin NameStops
         /\ \A k \in pos .. AfterName - 1 : tag.text[k] # ">"
<1>1. tag \in Tags /\ tag.end \in Nat /\ pos \in 1 .. tag.end
  BY TagsAssumption DEF TypeOK
<1>2. /\ NameStart \in pos .. tag.end
      /\ \A k \in pos .. NameStart - 1 : tag.text[k] \in {Blank}
  BY <1>1, PastRange DEF NameStart
<1>3. NameStart \in 1 .. tag.end
  BY <1>1, <1>2
<1>4. /\ NameEnd \in NameStart .. tag.end
      /\ \A k \in NameStart .. NameEnd - 1 : tag.text[k] \notin NameStops
  BY <1>1, <1>3, UntilRange DEF NameEnd
<1>5. NameEnd \in 1 .. tag.end
  BY <1>1, <1>3, <1>4
<1>6. /\ AfterName \in NameEnd .. tag.end
      /\ \A k \in NameEnd .. AfterName - 1 : tag.text[k] \in {Blank}
  BY <1>1, <1>5, PastRange DEF AfterName
<1>7. \A k \in pos .. AfterName - 1 : tag.text[k] # ">"
  <2> TAKE k \in pos .. AfterName - 1
  <2>1. \/ k \in pos .. NameStart - 1
        \/ k \in NameStart .. NameEnd - 1
        \/ k \in NameEnd .. AfterName - 1
    BY <1>1, <1>2, <1>4, <1>6
  <2>2. tag.text[k] = " " \/ tag.text[k] \notin NameStops
    BY <2>1, <1>2, <1>4, <1>6 DEF Blank
  <2> QED
    BY <2>2 DEF NameStops, TagEnd
<1> QED
  BY <1>2, <1>4, <1>6, <1>7

(* And, when there is a value, blanks, a quote, and the value up to it.    *)
LEMMA ValueParts ==
  ASSUME TypeOK, ~ IsBare, HasValue
  PROVE  /\ ValueQuote \in AfterName + 1 .. tag.end
         /\ ValueStart = ValueQuote + 1
         /\ ValueStart \in 1 .. tag.end
         /\ ValueEnd \in ValueStart .. tag.end - 1
         /\ tag.text[ValueQuote] \in Quote
         /\ tag.text[ValueEnd] = tag.text[ValueQuote]
         /\ \A k \in pos .. ValueQuote : tag.text[k] # ">"
<1>1. tag \in Tags /\ tag.end \in Nat /\ pos \in 1 .. tag.end
  BY TagsAssumption DEF TypeOK
<1>2. AfterName \in pos .. tag.end /\ \A k \in pos .. AfterName - 1 : tag.text[k] # ">"
  BY <1>1, NameParts
<1>3. AfterName < tag.end /\ tag.text[AfterName] = "="
  BY <1>2, <1>1 DEF IsBare, ByteAt
<1>4. AfterName + 1 \in 1 .. tag.end
  BY <1>1, <1>2, <1>3
<1>5. /\ ValueQuote \in AfterName + 1 .. tag.end
      /\ \A k \in AfterName + 1 .. ValueQuote - 1 : tag.text[k] \in {Blank}
  BY <1>1, <1>4, PastRange DEF ValueQuote
<1>6. tag.text[ValueQuote] \in Quote /\ ValueEnd < tag.end
  BY DEF HasValue, IsQuoted
<1>7. ValueStart \in 1 .. tag.end
  <2>1. CASE ValueStart > tag.end
    <3>1. ValueEnd = ValueStart
      BY <2>1, <1>1, <1>5 DEF ValueEnd, Until, ValueStart
    <3> QED
      BY <3>1, <2>1, <1>6, <1>1, <1>5 DEF ValueStart
  <2> QED
    BY <2>1, <1>1, <1>4, <1>5 DEF ValueStart
<1>8. /\ ValueEnd \in ValueStart .. tag.end
      /\ ValueEnd < tag.end => tag.text[ValueEnd] \in {tag.text[ValueQuote]}
  BY <1>1, <1>7, UntilRange DEF ValueEnd
<1>9. \A k \in pos .. ValueQuote : tag.text[k] # ">"
  <2> TAKE k \in pos .. ValueQuote
  <2>1. \/ k \in pos .. AfterName - 1 \/ k = AfterName
        \/ k \in AfterName + 1 .. ValueQuote - 1 \/ k = ValueQuote
    BY <1>1, <1>2, <1>5
  <2> QED
    BY <2>1, <1>2, <1>3, <1>5, <1>6 DEF Blank, Quote
<1>10. ValueEnd \in ValueStart .. tag.end - 1
  BY <1>1, <1>6, <1>7, <1>8
<1>11. tag.text[ValueEnd] = tag.text[ValueQuote]
  BY <1>6, <1>8
<1>12. ValueStart = ValueQuote + 1
  BY DEF ValueStart
<1> QED
  BY <1>5, <1>6, <1>7, <1>9, <1>10, <1>11, <1>12

-----------------------------------------------------------------------------
(* It holds before the first turn.                                         *)
LEMMA InitInv == Init => Inv
<1> SUFFICES ASSUME Init PROVE Inv
  OBVIOUS
<1>1. tag \in Tags /\ tag.end \in Nat /\ 1 \in 1 .. tag.end
  <2>1. tag \in Tags
    BY DEF Init
  <2> QED
    BY <2>1, TagsAssumption
<1>2. TypeOK
  BY <1>1 DEF Init, TypeOK
<1>3. StaysInTag /\ OneBehindTheOther
  BY DEF Init, StaysInTag, OneBehindTheOther
<1> QED
  BY <1>2, <1>3 DEF Inv

(* A turn that finds nothing moves on past bytes that end no tag.          *)
LEMMA MovesOn ==
  ASSUME Inv, UNCHANGED <<tag, attrs>>,
         pos' \in pos .. tag.end,
         phase' \in {"element", "attributes", "done"},
         \A k \in pos .. pos' - 1 : tag.text[k] # ">"
  PROVE  Inv'
<1>1. TypeOK /\ StaysInTag /\ OneBehindTheOther
  BY DEF Inv
<1>2. tag.end \in Nat /\ pos \in 1 .. tag.end
  BY <1>1, TagsAssumption DEF TypeOK
<1>3. TypeOK'
  BY <1>1, <1>2 DEF TypeOK
<1>4. StaysInTag'
  <2> SUFFICES ASSUME NEW k \in 1 .. pos' - 1, tag.text[k] = ">"
               PROVE  \E n \in DOMAIN attrs : InValue(k, attrs[n])
    BY DEF StaysInTag, InValue
  <2>1. k \in 1 .. pos - 1
    BY <1>2
  <2> QED
    BY <2>1, <1>1 DEF StaysInTag
<1>5. OneBehindTheOther'
  <2>1. ASSUME NEW n \in DOMAIN attrs PROVE attrs[n].value[2] < pos'
    <3>1. attrs[n] \in RawAttr
      BY <1>1 DEF TypeOK
    <3>2. attrs[n].value \in Nat \X Nat
      BY <3>1 DEF RawAttr
    <3>3. attrs[n].value[2] < pos
      BY <1>1 DEF OneBehindTheOther, WellFormed
    <3> QED
      BY <3>2, <3>3, <1>2
  <2> QED
    BY <2>1, <1>1 DEF OneBehindTheOther, WellFormed
<1> QED
  BY <1>3, <1>4, <1>5 DEF Inv

(* The element's name ends before any end of the tag.                      *)
LEMMA SkipElementNameInv == Inv /\ SkipElementName => Inv'
<1> SUFFICES ASSUME Inv, SkipElementName PROVE Inv'
  OBVIOUS
<1> DEFINE from == IF ByteAt(pos) = "<" THEN pos + 1 ELSE pos
           stops == {Blank} \cup TagEnd
<1>1. tag \in Tags /\ tag.end \in Nat /\ pos \in 1 .. tag.end
  BY TagsAssumption DEF Inv, TypeOK
<1>2. /\ from \in pos .. tag.end
      /\ \A k \in pos .. from - 1 : tag.text[k] # ">"
  <2>1. CASE ByteAt(pos) = "<"
    <3>1. pos < tag.end /\ tag.text[pos] = "<"
      BY <2>1 DEF ByteAt
    <3> QED
      BY <3>1, <2>1, <1>1
  <2>2. CASE ByteAt(pos) # "<"
    BY <2>2, <1>1
  <2> QED
    BY <2>1, <2>2
<1>3. from \in 1 .. tag.end
  BY <1>1, <1>2
<1>4. pos' = Until(from, stops)
  BY DEF SkipElementName
<1> HIDE DEF from, stops
<1>5. /\ pos' \in from .. tag.end
      /\ \A k \in from .. pos' - 1 : tag.text[k] \notin stops
  BY <1>1, <1>3, <1>4, UntilRange
<1>6. \A k \in pos .. pos' - 1 : tag.text[k] # ">"
  <2>1. from \in Int /\ pos' \in Int /\ pos \in Int
    BY <1>1, <1>3, <1>5
  <2>2. \A k \in pos .. pos' - 1 : k \in pos .. from - 1 \/ k \in from .. pos' - 1
    BY <2>1, Halves
  <2>3. \A k \in pos .. from - 1 : tag.text[k] # ">"
    BY <1>2
  <2>4. \A k \in from .. pos' - 1 : tag.text[k] # ">"
    BY <1>5 DEF stops, TagEnd
  <2> QED
    BY <2>2, <2>3, <2>4
<1>7. pos' \in pos .. tag.end
  BY <1>1, <1>2, <1>5
<1>8. UNCHANGED <<tag, attrs>> /\ phase' = "attributes"
  BY DEF SkipElementName
<1> QED
  BY <1>6, <1>7, <1>8, MovesOn

(* A bare name is passed over, and none of NameParts is a ">".             *)
LEMMA SkipBareInv == Inv /\ SkipBare => Inv'
<1> SUFFICES ASSUME Inv, SkipBare PROVE Inv'
  OBVIOUS
<1>1. TypeOK
  BY DEF Inv
<1>2. pos' = AfterName /\ UNCHANGED <<tag, attrs, phase>>
  BY DEF SkipBare
<1>3. pos \in 1 .. tag.end /\ tag.end \in Nat
  BY <1>1, TagsAssumption DEF TypeOK
<1>4. AfterName \in pos .. tag.end /\ \A k \in pos .. AfterName - 1 : tag.text[k] # ">"
  BY <1>1, <1>3, NameParts
<1>5. phase' \in {"element", "attributes", "done"}
  BY <1>1, <1>2 DEF TypeOK
<1> QED
  BY <1>2, <1>4, <1>5, MovesOn

(* The last turn moves nothing.                                            *)
LEMMA StopInv == Inv /\ Stop => Inv'
<1> SUFFICES ASSUME Inv, Stop PROVE Inv'
  OBVIOUS
<1>1. pos \in 1 .. tag.end /\ tag.end \in Nat
  BY TagsAssumption DEF Inv, TypeOK
<1>2. UNCHANGED <<tag, attrs>> /\ pos' = pos /\ phase' = "done"
  BY DEF Stop
<1>3. pos' \in pos .. tag.end /\ \A k \in pos .. pos' - 1 : tag.text[k] # ">"
  BY <1>1, <1>2
<1> QED
  BY <1>2, <1>3, MovesOn

(* A turn that finds an attribute moves on past its closing quote, with    *)
(* all of the value between the quotes.                                    *)
LEMMA TakeAttributeInv == Inv /\ TakeAttribute => Inv'
<1> SUFFICES ASSUME Inv, TakeAttribute PROVE Inv'
  OBVIOUS
<1> DEFINE a == [name |-> <<NameStart, NameEnd>>, value |-> <<ValueStart, ValueEnd>>]
           last == Len(attrs) + 1
<1>1. TypeOK /\ StaysInTag /\ OneBehindTheOther
  BY DEF Inv
<1>2. tag \in Tags /\ tag.end \in Nat /\ pos \in 1 .. tag.end /\ attrs \in Seq(RawAttr)
  BY <1>1, TagsAssumption DEF TypeOK
<1>3. /\ ~ IsBare /\ HasValue
      /\ attrs' = Append(attrs, a) /\ pos' = ValueEnd + 1
      /\ tag' = tag /\ phase' = phase
  BY DEF TakeAttribute
<1>4. /\ NameStart \in pos .. tag.end
      /\ NameEnd \in NameStart .. tag.end
      /\ AfterName \in NameEnd .. tag.end
      /\ \A k \in NameStart .. NameEnd - 1 : tag.text[k] \notin NameStops
  BY <1>1, NameParts
<1>5. /\ ValueQuote \in AfterName + 1 .. tag.end
      /\ ValueStart = ValueQuote + 1
      /\ ValueStart \in 1 .. tag.end
      /\ ValueEnd \in ValueStart .. tag.end - 1
      /\ tag.text[ValueQuote] \in Quote
      /\ tag.text[ValueEnd] = tag.text[ValueQuote]
      /\ \A k \in pos .. ValueQuote : tag.text[k] # ">"
  BY <1>1, <1>3, ValueParts
<1>6. /\ NameStart \in Nat /\ NameEnd \in Nat /\ AfterName \in Nat
      /\ ValueStart \in Nat /\ ValueEnd \in Nat
      /\ ValueQuote = ValueStart - 1 /\ AfterName < ValueQuote
  <2>1. NameStart \in Nat /\ NameEnd \in Nat /\ AfterName \in Nat
    BY <1>2, <1>4
  <2>2. ValueQuote \in Nat /\ AfterName < ValueQuote
    BY <2>1, <1>2, <1>5
  <2>3. ValueStart \in Nat /\ ValueQuote = ValueStart - 1
    BY <2>2, <1>5
  <2>4. ValueEnd \in Nat
    BY <2>3, <1>2, <1>5
  <2> QED
    BY <2>1, <2>2, <2>3, <2>4
<1> HIDE DEF a, last
<1>7. /\ a \in RawAttr
      /\ a.name[1] = NameStart /\ a.name[2] = NameEnd
      /\ a.value[1] = ValueStart /\ a.value[2] = ValueEnd
  BY <1>6 DEF a, RawAttr
<1>8. pos < pos' /\ pos' \in 1 .. tag.end
  BY <1>2, <1>3, <1>4, <1>5, <1>6
<1>9. /\ attrs' \in Seq(RawAttr)
      /\ DOMAIN attrs' = DOMAIN attrs \cup {last}
      /\ attrs'[last] = a
      /\ \A n \in DOMAIN attrs : attrs'[n] = attrs[n] /\ n < last
  BY <1>2, <1>3, <1>7 DEF last
<1>10. TypeOK'
  BY <1>1, <1>3, <1>8, <1>9 DEF TypeOK
<1>11. StaysInTag'
  <2> SUFFICES ASSUME NEW k \in 1 .. pos' - 1, tag.text[k] = ">"
               PROVE  \E n \in DOMAIN attrs' : InValue(k, attrs'[n])
    BY <1>3 DEF StaysInTag, InValue
  <2>1. CASE k < pos
    <3>1. k \in 1 .. pos - 1
      BY <2>1, <1>2
    <3>2. PICK n \in DOMAIN attrs : InValue(k, attrs[n])
      BY <3>1, <1>1 DEF StaysInTag
    <3> QED
      BY <3>2, <1>9
  <2>2. CASE pos <= k
    <3>1. ~ (k \in pos .. ValueQuote)
      BY <1>5
    <3>2. tag.text[ValueEnd] # ">"
      BY <1>5 DEF Quote
    <3>3. ValueStart <= k /\ k < ValueEnd
      BY <2>2, <3>1, <3>2, <1>2, <1>3, <1>6
    <3>4. InValue(k, a)
      BY <3>3, <1>7 DEF InValue
    <3> QED
      BY <3>4, <1>9
  <2> QED
    BY <2>1, <2>2, <1>2
<1>12. OneBehindTheOther'
  <2>1. ASSUME NEW n \in DOMAIN attrs
        PROVE  attrs[n].value[2] \in Nat /\ attrs[n].value[2] < pos /\ WellFormed(attrs[n])
    <3>1. attrs[n] \in RawAttr
      BY <1>2
    <3>2. attrs[n].value \in Nat \X Nat
      BY <3>1 DEF RawAttr
    <3> QED
      BY <3>2, <1>1 DEF OneBehindTheOther, WellFormed
  <2>2. ASSUME NEW n \in DOMAIN attrs PROVE WellFormed(attrs[n])'
    BY <2>1, <1>2, <1>3, <1>8, <1>9 DEF WellFormed
  <2>3. ASSUME NEW n \in DOMAIN attrs', n = last PROVE WellFormed(attrs[n])'
    <3>1. attrs'[n] = a
      BY <2>3, <1>9
    <3>2. 1 <= NameStart /\ NameStart <= NameEnd /\ NameEnd + 1 < ValueStart
      BY <1>2, <1>4, <1>6
    <3>3. ValueStart <= ValueEnd /\ ValueEnd < pos'
      BY <1>2, <1>3, <1>5, <1>6
    <3> QED
      BY <3>1, <3>2, <3>3, <1>3, <1>4, <1>5, <1>6, <1>7 DEF WellFormed
  <2>4. ASSUME NEW m \in DOMAIN attrs PROVE attrs[m].value[2] < a.name[1]
    BY <2>1, <1>2, <1>4, <1>6, <1>7
  <2>5. \A n \in DOMAIN attrs' : WellFormed(attrs[n])'
    BY <2>2, <2>3, <1>9
  <2>6. \A m, n \in DOMAIN attrs' : m < n => attrs'[m].value[2] < attrs'[n].name[1]
    <3> SUFFICES ASSUME NEW m \in DOMAIN attrs', NEW n \in DOMAIN attrs', m < n
                 PROVE  attrs'[m].value[2] < attrs'[n].name[1]
      OBVIOUS
    <3>1. m # last
      BY <1>2, <1>9 DEF last
    <3>2. CASE n = last
      BY <3>1, <3>2, <2>4, <1>9
    <3>3. CASE n # last
      BY <3>1, <3>3, <1>1, <1>9 DEF OneBehindTheOther
    <3> QED
      BY <3>2, <3>3
  <2> QED
    BY <2>5, <2>6 DEF OneBehindTheOther
<1> QED
  BY <1>10, <1>11, <1>12 DEF Inv

-----------------------------------------------------------------------------
(* Every turn keeps all of it.                                             *)
LEMMA NextInv == Inv /\ [Next]_vars => Inv'
<1> SUFFICES ASSUME Inv, [Next]_vars PROVE Inv'
  OBVIOUS
<1>1. CASE SkipElementName
  BY <1>1, SkipElementNameInv
<1>2. CASE SkipBare
  BY <1>2, SkipBareInv
<1>3. CASE TakeAttribute
  BY <1>3, TakeAttributeInv
<1>4. CASE Stop
  BY <1>4, StopInv
<1>5. CASE UNCHANGED vars
  BY <1>5 DEF vars, Inv, TypeOK, StaysInTag, OneBehindTheOther, WellFormed, InValue
<1> QED
  BY <1>1, <1>2, <1>3, <1>4, <1>5 DEF Next

(* No end of a tag is ever passed but inside the value of an attribute, so *)
(* a scan that is handed the whole element reads its opening tag only.     *)
THEOREM NothingFromTheBody == Spec => []StaysInTag
<1>1. Inv => StaysInTag
  BY DEF Inv
<1> QED
  BY InitInv, NextInv, <1>1, PTL DEF Spec

(* Attributes never overlap, stand in the order they were read, and their  *)
(* values are closed by the quote that opened them.                        *)
THEOREM AttributesApart == Spec => []OneBehindTheOther
<1>1. Inv => OneBehindTheOther
  BY DEF Inv
<1> QED
  BY InitInv, NextInv, <1>1, PTL DEF Spec

-----------------------------------------------------------------------------
(* The bytes of a tag's items, and where the m-th of them ends.            *)
Spells(t) == [i \in DOMAIN t.items |-> Spelled(t.items[i])]
Bound(t, m) == 2 + Len(Joins(Spells(t))[m])

(* The first byte behind the m-th item that is no blank stands at p: the   *)
(* next item's name, or the end of the tag or of the scan.                 *)
Behind(t, m, p) ==
  /\ p \in Bound(t, m) + 1 .. t.end
  /\ \A k \in Bound(t, m) + 1 .. p - 1 : t.text[k] = Blank
  /\ p < t.end => t.text[p] # Blank /\ t.text[p] # "="
  /\ m < Len(t.items) => p = Bound(t, m) + 2 /\ p < t.end
  /\ m = Len(t.items) => p = t.end \/ t.text[p] \in TagEnd

(* The first attributes that were found are the first that were written.   *)
Reads(t, as, written) ==
  \A n \in DOMAIN as :
    /\ n <= Len(written)
    /\ SubSeq(t.text, as[n].name[1], as[n].name[2] - 1) = written[n].name
    /\ SubSeq(t.text, as[n].value[1], as[n].value[2] - 1) = written[n].value
    /\ as[n].name[2] <= Len(OpenTag(t.items))

(* The scan is behind the m-th item, and has found as many attributes as   *)
(* are written up to there; where[n] is the item of the n-th.              *)
ReadUpTo(t, i, as, written, kept, m, where) ==
  /\ Picks(written, where, t.items, kept, Len(t.items))
  /\ m \in 0 .. Len(t.items)
  /\ \A k \in 1 .. m : t.items[k].form # "unquoted"
  /\ \E p : Behind(t, m, p) /\ i \in Bound(t, m) + 1 .. p
  /\ \A n \in DOMAIN written : where[n] <= m <=> n <= Len(as)

ReadInv ==
  /\ phase = "element" => pos = 1 /\ attrs = << >>
  /\ phase = "attributes" => \E m, w : ReadUpTo(tag, pos, attrs, Written, Kept, m, w)
  /\ phase = "done" => Len(attrs) = Len(Written)
  /\ Reads(tag, attrs, Written)

(* A byte behind a sequence.                                               *)
LEMMA OneBehind ==
  ASSUME NEW S, NEW s \in Seq(S), NEW x \in S
  PROVE  /\ s \o <<x>> \in Seq(S) /\ Len(s \o <<x>>) = Len(s) + 1
         /\ \A k \in 1 .. Len(s) : (s \o <<x>>)[k] = s[k]
         /\ (s \o <<x>>)[Len(s) + 1] = x
OBVIOUS

(* A byte, a name and the rest, end to end.                                *)
LEMMA ByteNameRest ==
  ASSUME NEW S, NEW b \in S, NEW name \in Seq(S), NEW rest \in Seq(S)
  PROVE  LET whole == <<b>> \o name \o rest
         IN  /\ Len(name) \in Nat /\ Len(rest) \in Nat
             /\ whole \in Seq(S) /\ Len(whole) = 1 + Len(name) + Len(rest)
             /\ whole[1] = b
             /\ \A k \in 1 .. Len(name) : whole[1 + k] = name[k]
             /\ \A k \in 1 .. Len(rest) : whole[1 + Len(name) + k] = rest[k]
<1> DEFINE c == <<b>> \o name
           whole == c \o rest
<1>1. Len(name) \in Nat /\ Len(rest) \in Nat
  OBVIOUS
<1>2. /\ c \in Seq(S) /\ Len(c) = 1 + Len(name) /\ c[1] = b
      /\ \A k \in 1 .. Len(name) : c[1 + k] = name[k]
  OBVIOUS
<1> HIDE DEF c
<1>4. /\ whole \in Seq(S) /\ Len(whole) = Len(c) + Len(rest)
      /\ \A k \in 1 .. Len(c) : whole[k] = c[k]
      /\ \A k \in 1 .. Len(rest) : whole[Len(c) + k] = rest[k]
  <2>1. c \in Seq(S) /\ rest \in Seq(S)
    BY <1>2
  <2> QED
    BY <2>1, Joined
<1> HIDE DEF whole
<1>5. whole[1] = b
  BY <1>1, <1>2, <1>4
<1>6. \A k \in 1 .. Len(name) : whole[1 + k] = name[k]
  BY <1>1, <1>2, <1>4
<1>7. \A k \in 1 .. Len(rest) : whole[1 + Len(name) + k] = rest[k]
  BY <1>1, <1>2, <1>4
<1> QED
  BY <1>1, <1>2, <1>4, <1>5, <1>6, <1>7 DEF whole, c

(* Blanks, "=", the blanks again, and a value between its quotes.          *)
LEMMA GapsAndValue ==
  ASSUME NEW S, NEW gap \in Seq(S), NEW e \in S, NEW q \in S, NEW val \in Seq(S)
  PROVE  LET rest == gap \o <<e>> \o gap \o <<q>> \o val \o <<q>>
             g == Len(gap)
             v == Len(val)
         IN  /\ g \in Nat /\ v \in Nat
             /\ rest \in Seq(S) /\ Len(rest) = g + g + v + 3
             /\ \A k \in 1 .. g : rest[k] = gap[k] /\ rest[g + 1 + k] = gap[k]
             /\ rest[g + 1] = e /\ rest[g + g + 2] = q /\ rest[g + g + v + 3] = q
             /\ \A k \in 1 .. v : rest[g + g + 2 + k] = val[k]
<1> DEFINE g == Len(gap)
           v == Len(val)
           s1 == gap \o <<e>>
           s2 == s1 \o gap
           s3 == s2 \o <<q>>
           s4 == s3 \o val
           rest == s4 \o <<q>>
<1>1. g \in Nat /\ v \in Nat
  OBVIOUS
<1>2. /\ s1 \in Seq(S) /\ Len(s1) = g + 1
      /\ \A k \in 1 .. g : s1[k] = gap[k]
      /\ s1[g + 1] = e
  OBVIOUS
<1> HIDE DEF s1
<1>4. /\ s2 \in Seq(S) /\ Len(s2) = Len(s1) + g
      /\ \A k \in 1 .. Len(s1) : s2[k] = s1[k]
      /\ \A k \in 1 .. g : s2[Len(s1) + k] = gap[k]
  BY <1>2
<1> HIDE DEF s2
<1>5. /\ s3 \in Seq(S) /\ Len(s3) = Len(s2) + 1
      /\ \A k \in 1 .. Len(s2) : s3[k] = s2[k]
      /\ s3[Len(s2) + 1] = q
  BY <1>4, OneBehind
<1> HIDE DEF s3
<1>6. /\ s4 \in Seq(S) /\ Len(s4) = Len(s3) + v
      /\ \A k \in 1 .. Len(s3) : s4[k] = s3[k]
      /\ \A k \in 1 .. v : s4[Len(s3) + k] = val[k]
  BY <1>5
<1> HIDE DEF s4
<1>7. /\ rest \in Seq(S) /\ Len(rest) = Len(s4) + 1
      /\ \A k \in 1 .. Len(s4) : rest[k] = s4[k]
      /\ rest[Len(s4) + 1] = q
  BY <1>6, OneBehind
<1> HIDE DEF rest, g, v
<1>8. /\ Len(s1) = g + 1 /\ Len(s2) = g + g + 1 /\ Len(s3) = g + g + 2
      /\ Len(s4) = g + g + v + 2 /\ Len(rest) = g + g + v + 3
  BY <1>1, <1>2, <1>4, <1>5, <1>6, <1>7
<1>9. ASSUME NEW k \in 1 .. g + g + 1 PROVE rest[k] = s2[k]
  <2>1. k \in 1 .. Len(s2) /\ k \in 1 .. Len(s3) /\ k \in 1 .. Len(s4)
    BY <1>1, <1>8
  <2> QED
    BY <1>5, <1>6, <1>7, <2>1
<1>10. ASSUME NEW k \in 1 .. g PROVE rest[k] = gap[k] /\ rest[g + 1 + k] = gap[k]
  <2>1. k \in 1 .. Len(s1) /\ k \in 1 .. g + g + 1 /\ g + 1 + k \in 1 .. g + g + 1
        /\ Len(s1) + k = g + 1 + k
    BY <1>1, <1>8
  <2> QED
    BY <1>2, <1>4, <1>9, <2>1
<1>11. rest[g + 1] = e
  <2>1. g + 1 \in 1 .. Len(s1) /\ g + 1 \in 1 .. g + g + 1
    BY <1>1, <1>8
  <2> QED
    BY <1>2, <1>4, <1>9, <2>1
<1>12. rest[g + g + 2] = q /\ rest[g + g + v + 3] = q
  <2>1. /\ g + g + 2 \in 1 .. Len(s3) /\ g + g + 2 \in 1 .. Len(s4)
        /\ Len(s2) + 1 = g + g + 2 /\ Len(s4) + 1 = g + g + v + 3
    BY <1>1, <1>8
  <2> QED
    BY <1>5, <1>6, <1>7, <2>1
<1>13. ASSUME NEW k \in 1 .. v PROVE rest[g + g + 2 + k] = val[k]
  <2>1. g + g + 2 + k \in 1 .. Len(s4) /\ Len(s3) + k = g + g + 2 + k
    BY <1>1, <1>8
  <2> QED
    BY <1>6, <1>7, <2>1
<1>14. rest = gap \o <<e>> \o gap \o <<q>> \o val \o <<q>>
  BY DEF rest, s4, s3, s2, s1
<1> QED
  BY <1>1, <1>7, <1>8, <1>10, <1>11, <1>12, <1>13, <1>14 DEF g, v

(* The name of a written item, and what it is made of.                     *)
LEMMA NameOfItem ==
  ASSUME NEW item, IsItem(item)
  PROVE  /\ item.name \in Seq(Byte) /\ Len(item.name) \in Nat /\ Len(item.name) > 0
         /\ \A k \in 1 .. Len(item.name) : item.name[k] \notin NameStops \cup Quote
         /\ Blank \in Byte /\ "=" \in Byte
<1> DEFINE name == item.name
<1>1. name \in Seq(Byte \ (NameStops \cup Quote)) /\ name # << >>
  BY DEF IsItem
<1> HIDE DEF name
<1>2. /\ name \in Seq(Byte) /\ Len(name) \in Nat /\ Len(name) > 0
      /\ \A k \in 1 .. Len(name) : name[k] \notin NameStops \cup Quote
  BY <1>1
<1> QED
  BY <1>2 DEF name, Byte

(* A valued item: blanks, "=", the blanks again, and the value between its *)
(* quotes.                                                                 *)
LEMMA SpelledValued ==
  ASSUME NEW item, IsItem(item), item.form = "valued"
  PROVE  LET a == Len(item.name)
             g == Len(item.gap)
             v == Len(item.value)
             s == Spelled(item)
         IN  /\ g \in Nat /\ v \in Nat
             /\ s \in Seq(Byte) /\ Len(s) = a + g + g + v + 4
             /\ s[1] = Blank
             /\ \A k \in 1 .. a : s[1 + k] = item.name[k]
             /\ \A k \in 1 .. g : s[1 + a + k] = Blank /\ s[a + g + 2 + k] = Blank
             /\ s[a + g + 2] = "="
             /\ s[a + g + g + 3] = item.quote /\ item.quote \in Quote
             /\ \A k \in 1 .. v : /\ s[a + g + g + 3 + k] = item.value[k]
                                  /\ item.value[k] # item.quote
             /\ s[a + g + g + v + 4] = item.quote
             /\ item.value \in Seq(Byte)
<1> DEFINE name == item.name
           gap == item.gap
           q == item.quote
           val == item.value
           rest == gap \o <<"=">> \o gap \o <<q>> \o val \o <<q>>
           s == Spelled(item)
           a == Len(name)
           g == Len(gap)
           v == Len(val)
<1>1. gap \in Seq({Blank}) /\ q \in Quote /\ val \in Seq(Byte \ {q})
  BY DEF IsItem
<1>2. name \in Seq(Byte) /\ a \in Nat /\ a > 0 /\ Blank \in Byte /\ "=" \in Byte
  BY NameOfItem
<1>3. s = <<Blank>> \o name \o rest
  BY DEF Spelled
<1>4. q \in Byte
  BY <1>1 DEF Byte
<1> HIDE DEF name, gap, q, val, s
<1>5. gap \in Seq(Byte) /\ g \in Nat /\ \A k \in 1 .. g : gap[k] = Blank
  BY <1>1, <1>2
<1>6. val \in Seq(Byte) /\ v \in Nat /\ \A k \in 1 .. v : val[k] # q
  BY <1>1
<1>7. /\ rest \in Seq(Byte) /\ Len(rest) = g + g + v + 3
      /\ \A k \in 1 .. g : rest[k] = gap[k] /\ rest[g + 1 + k] = gap[k]
      /\ rest[g + 1] = "=" /\ rest[g + g + 2] = q /\ rest[g + g + v + 3] = q
      /\ \A k \in 1 .. v : rest[g + g + 2 + k] = val[k]
  <2>1. gap \in Seq(Byte) /\ "=" \in Byte /\ q \in Byte /\ val \in Seq(Byte)
    BY <1>2, <1>4, <1>5, <1>6
  <2> QED
    BY <2>1, GapsAndValue
<1> HIDE DEF rest
<1>8. /\ s \in Seq(Byte) /\ Len(s) = 1 + a + Len(rest)
      /\ s[1] = Blank
      /\ \A k \in 1 .. a : s[1 + k] = name[k]
      /\ \A k \in 1 .. Len(rest) : s[1 + a + k] = rest[k]
  <2> DEFINE w == <<Blank>> \o name \o rest
  <2>1. Blank \in Byte /\ name \in Seq(Byte) /\ rest \in Seq(Byte)
    BY <1>2, <1>7
  <2>2. /\ w \in Seq(Byte) /\ Len(w) = 1 + Len(name) + Len(rest)
        /\ w[1] = Blank
        /\ \A k \in 1 .. Len(name) : w[1 + k] = name[k]
        /\ \A k \in 1 .. Len(rest) : w[1 + Len(name) + k] = rest[k]
    BY <2>1, ByteNameRest
  <2>3. s = w
    BY <1>3
  <2> HIDE DEF w
  <2> QED
    BY <2>2, <2>3
<1> HIDE DEF a, g, v
<1>9. Len(s) = a + g + g + v + 4
  BY <1>2, <1>5, <1>6, <1>7, <1>8
<1>10. ASSUME NEW k \in 1 .. g PROVE s[1 + a + k] = Blank /\ s[a + g + 2 + k] = Blank
  <2>1. k \in 1 .. Len(rest) /\ g + 1 + k \in 1 .. Len(rest)
        /\ 1 + a + (g + 1 + k) = a + g + 2 + k
    BY <1>2, <1>5, <1>6, <1>7
  <2> QED
    BY <1>5, <1>7, <1>8, <2>1
<1>11. s[a + g + 2] = "=" /\ s[a + g + g + 3] = q /\ s[a + g + g + v + 4] = q
  <2>1. /\ g + 1 \in 1 .. Len(rest) /\ g + g + 2 \in 1 .. Len(rest)
        /\ g + g + v + 3 \in 1 .. Len(rest)
        /\ 1 + a + (g + 1) = a + g + 2 /\ 1 + a + (g + g + 2) = a + g + g + 3
        /\ 1 + a + (g + g + v + 3) = a + g + g + v + 4
    BY <1>2, <1>5, <1>6, <1>7
  <2> QED
    BY <1>7, <1>8, <2>1
<1>12. ASSUME NEW k \in 1 .. v PROVE s[a + g + g + 3 + k] = val[k]
  <2>1. g + g + 2 + k \in 1 .. Len(rest) /\ 1 + a + (g + g + 2 + k) = a + g + g + 3 + k
    BY <1>2, <1>5, <1>6, <1>7
  <2> QED
    BY <1>7, <1>8, <2>1
<1> QED
  BY <1>1, <1>5, <1>6, <1>8, <1>9, <1>10, <1>11, <1>12 DEF s, a, g, v, name, gap, q, val

(* A bare one is its name, an unquoted one goes on with "=" and a byte     *)
(* that opens no value.                                                    *)
LEMMA SpelledOther ==
  ASSUME NEW item, IsItem(item), item.form # "valued"
  PROVE  LET a == Len(item.name)
             s == Spelled(item)
         IN  /\ item.form \in {"bare", "unquoted"}
             /\ s \in Seq(Byte) /\ s[1] = Blank
             /\ \A k \in 1 .. a : s[1 + k] = item.name[k]
             /\ item.form = "bare" => Len(s) = 1 + a
             /\ item.form = "unquoted" => /\ Len(s) \in Nat /\ Len(s) >= a + 3
                                          /\ s[a + 2] = "="
                                          /\ s[a + 3] # Blank /\ s[a + 3] \notin Quote
<1> DEFINE name == item.name
           a == Len(name)
           s == Spelled(item)
<1>1. name \in Seq(Byte) /\ a \in Nat /\ a > 0 /\ Blank \in Byte /\ "=" \in Byte
  BY NameOfItem
<1>2. CASE item.form = "bare"
  <2> DEFINE rest == << >>
  <2>1. s = <<Blank>> \o name \o rest
    BY <1>2 DEF Spelled
  <2>2. rest \in Seq(Byte) /\ Len(rest) = 0
    OBVIOUS
  <2> HIDE DEF rest, name, s
  <2>3. /\ s \in Seq(Byte) /\ Len(s) = 1 + a + Len(rest)
        /\ s[1] = Blank
        /\ \A k \in 1 .. a : s[1 + k] = name[k]
    BY <1>1, <2>1, <2>2, ByteNameRest
  <2> HIDE DEF a
  <2>4. Len(s) = 1 + a
    BY <1>1, <2>2, <2>3
  <2> QED
    BY <1>2, <2>3, <2>4 DEF a, s, name
<1>3. CASE item.form = "unquoted"
  <2> DEFINE val == item.value
             rest == <<"=">> \o val
  <2>1. s = <<Blank>> \o name \o rest
    BY <1>3 DEF Spelled
  <2>2. val \in Seq(Byte \ (Quote \cup {Blank})) /\ val # << >>
    BY <1>3 DEF IsItem
  <2> HIDE DEF val, name, s
  <2>3. val \in Seq(Byte) /\ Len(val) \in Nat /\ Len(val) > 0 /\ val[1] \notin Quote /\ val[1] # Blank
    BY <2>2
  <2>4. rest \in Seq(Byte) /\ Len(rest) = 1 + Len(val) /\ rest[1] = "=" /\ rest[2] = val[1]
    BY <1>1, <2>3
  <2> HIDE DEF rest
  <2>5. /\ s \in Seq(Byte) /\ Len(s) = 1 + a + Len(rest)
        /\ s[1] = Blank
        /\ \A k \in 1 .. a : s[1 + k] = name[k]
        /\ \A k \in 1 .. Len(rest) : s[1 + a + k] = rest[k]
    <3> DEFINE w == <<Blank>> \o name \o rest
    <3>1. Blank \in Byte /\ name \in Seq(Byte) /\ rest \in Seq(Byte)
      BY <1>1, <2>4
    <3>2. /\ w \in Seq(Byte) /\ Len(w) = 1 + Len(name) + Len(rest)
          /\ w[1] = Blank
          /\ \A k \in 1 .. Len(name) : w[1 + k] = name[k]
          /\ \A k \in 1 .. Len(rest) : w[1 + Len(name) + k] = rest[k]
      BY <3>1, ByteNameRest
    <3>3. s = w
      BY <2>1
    <3> HIDE DEF w
    <3> QED
      BY <3>2, <3>3
  <2> HIDE DEF a
  <2>6. s[a + 2] = "=" /\ s[a + 3] = val[1]
    <3>1. 1 \in 1 .. Len(rest) /\ 2 \in 1 .. Len(rest) /\ 1 + a + 1 = a + 2 /\ 1 + a + 2 = a + 3
      BY <1>1, <2>3, <2>4
    <3> QED
      BY <2>4, <2>5, <3>1
  <2>7. Len(s) \in Nat /\ Len(s) >= a + 3
    BY <1>1, <2>3, <2>4, <2>5
  <2> QED
    BY <1>3, <2>3, <2>5, <2>6, <2>7 DEF a, s, name
<1> QED
  BY <1>2, <1>3 DEF IsItem

-----------------------------------------------------------------------------
(* A written item is some bytes.                                           *)
LEMMA SpelledBytes ==
  ASSUME NEW item, IsItem(item)
  PROVE  Spelled(item) \in Seq(Byte)
BY SpelledValued, SpelledOther

(* Two bytes and the rest.                                                 *)
LEMMA TwoAndRest ==
  ASSUME NEW S, NEW x \in S, NEW y \in S, NEW s \in Seq(S)
  PROVE  LET whole == <<x, y>> \o s
         IN  /\ Len(whole) = 2 + Len(s) /\ whole[1] = x /\ whole[2] = y
             /\ \A k \in 1 .. Len(s) : whole[2 + k] = s[k]
OBVIOUS

(* The items of a tag stand in what is scanned, one behind the other, and  *)
(* what is behind the last of them begins with the tag's end.              *)
LEMMA Layout ==
  ASSUME NEW t \in Tags
  PROVE  /\ t.end \in Nat /\ t.text \in Seq(Byte) /\ Len(t.items) \in Nat
         /\ \A k \in 1 .. Len(t.items) : IsItem(t.items[k])
         /\ \A m \in 0 .. Len(t.items) :
              Bound(t, m) \in Nat /\ 2 <= Bound(t, m) /\ Bound(t, m) < t.end
              /\ Bound(t, m) <= Len(OpenTag(t.items))
         /\ Bound(t, 0) = 2 /\ Bound(t, Len(t.items)) = Len(OpenTag(t.items))
         /\ t.text[1] = "<" /\ t.text[2] = "t"
         /\ \A m \in 1 .. Len(t.items) :
              /\ Bound(t, m) = Bound(t, m - 1) + Len(Spelled(t.items[m]))
              /\ \A k \in 1 .. Len(Spelled(t.items[m])) :
                   t.text[Bound(t, m - 1) + k] = Spelled(t.items[m])[k]
         /\ \E n \in Len(OpenTag(t.items)) .. t.end - 1 :
              /\ \A k \in Len(OpenTag(t.items)) + 1 .. n : t.text[k] = Blank
              /\ n + 1 < t.end => t.text[n + 1] \in TagEnd
<1> DEFINE ss == Spells(t)
           n == Len(t.items)
           open == OpenTag(t.items)
           f == Joins(ss)
           all == f[n]
<1>1. t.end \in Nat /\ t.text \in Seq(Byte)
  BY TagsAssumption
<1>2. n \in Nat /\ DOMAIN t.items = 1 .. n /\ \A k \in 1 .. n : IsItem(t.items[k])
  <2> DEFINE items == t.items
             R == {items[k] : k \in DOMAIN items}
  <2>1. items \in Seq(R) /\ \A k \in DOMAIN items : IsItem(items[k])
    BY ItemsAssumption, Zenon
  <2> HIDE DEF R, items
  <2>2. Len(items) \in Nat /\ DOMAIN items = 1 .. Len(items)
    BY <2>1
  <2> QED
    BY <2>1, <2>2 DEF items
<1>3. PICK e \in Len(open) .. t.end - 1 :
        /\ \A k \in 1 .. Len(open) : t.text[k] = open[k]
        /\ \A k \in Len(open) + 1 .. e : t.text[k] = Blank
        /\ e + 1 < t.end => t.text[e + 1] \in TagEnd
  BY ItemsAssumption, Zenon
<1>4. /\ ss \in Seq(Seq(Byte)) /\ Len(ss) = n
      /\ \A k \in 1 .. n : ss[k] = Spelled(t.items[k])
  <2>1. \A k \in 1 .. n : Spelled(t.items[k]) \in Seq(Byte)
    BY <1>2, SpelledBytes
  <2>2. ss = [k \in 1 .. n |-> Spelled(t.items[k])]
    BY <1>2 DEF Spells
  <2> HIDE DEF ss, n
  <2>3. ss \in [1 .. n -> Seq(Byte)]
    BY <2>1, <2>2
  <2> QED
    BY <1>2, <2>2, <2>3
<1>5. open = <<"<", "t">> \o all
  <2>1. open = <<"<", "t">> \o Together([k \in DOMAIN t.items |-> Spelled(t.items[k])])
    BY DEF OpenTag
  <2>2. Together(ss) = f[Len(ss)]
    BY DEF Together
  <2> QED
    BY <1>4, <2>1, <2>2 DEF Spells
<1> HIDE DEF ss, n, f, open
<1>6. /\ f \in [0 .. n -> Seq(Byte)] /\ f[0] = << >>
      /\ \A k \in 1 .. n : f[k] = f[k - 1] \o ss[k]
      /\ \A k \in 0 .. n : \A j \in 0 .. k : Len(f[j]) <= Len(f[k])
  BY <1>4, JoinsGrow DEF f
<1>7. \A k \in 1 .. n :
        /\ Len(f[k - 1]) \in Nat /\ Len(ss[k]) \in Nat
        /\ Len(f[k]) = Len(f[k - 1]) + Len(ss[k])
        /\ \A j \in 1 .. Len(ss[k]) : all[Len(f[k - 1]) + j] = ss[k][j]
  <2> SUFFICES ASSUME NEW k \in 1 .. n
               PROVE  /\ Len(f[k - 1]) \in Nat /\ Len(ss[k]) \in Nat
                      /\ Len(f[k]) = Len(f[k - 1]) + Len(ss[k])
                      /\ \A j \in 1 .. Len(ss[k]) : all[Len(f[k - 1]) + j] = ss[k][j]
    OBVIOUS
  <2>1. /\ Len(Joins(ss)[k - 1]) \in Nat /\ Len(ss[k]) \in Nat
        /\ Len(Joins(ss)[k]) = Len(Joins(ss)[k - 1]) + Len(ss[k])
        /\ \A j \in 1 .. Len(ss[k]) : Joins(ss)[Len(ss)][Len(Joins(ss)[k - 1]) + j] = ss[k][j]
    <3>1. k \in 1 .. Len(ss)
      BY <1>4
    <3> QED
      BY <1>4, <3>1, JoinsHold
  <2> QED
    BY <1>4, <2>1, Zenon DEF f
<1>8. \A m \in 0 .. n : Bound(t, m) = 2 + Len(f[m])
  BY DEF Bound, f, ss
<1>9. n \in 0 .. n /\ 0 \in 0 .. n
  BY <1>2
<1>10. all \in Seq(Byte) /\ Len(all) \in Nat
  BY <1>6, <1>9
<1>11. /\ Len(open) = 2 + Len(all) /\ open[1] = "<" /\ open[2] = "t"
       /\ \A k \in 1 .. Len(all) : open[2 + k] = all[k]
  <2>1. all \in Seq(Byte \cup {"<", "t"})
    BY <1>10
  <2> HIDE DEF all
  <2> QED
    BY <1>5, <2>1, TwoAndRest
<1> HIDE DEF all
<1>12. Len(open) \in Nat /\ Len(open) < t.end /\ 1 \in 1 .. Len(open) /\ 2 \in 1 .. Len(open)
  BY <1>1, <1>3, <1>10, <1>11
<1>13. t.text[1] = "<" /\ t.text[2] = "t"
  BY <1>3, <1>11, <1>12
<1>14. ASSUME NEW m \in 0 .. n
       PROVE  /\ Bound(t, m) \in Nat /\ 2 <= Bound(t, m) /\ Bound(t, m) < t.end
              /\ Bound(t, m) <= Len(open)
  <2>1. Len(f[m]) \in Nat
    BY <1>6
  <2>2. Len(f[m]) <= Len(all)
    <3>1. m \in 0 .. n
      OBVIOUS
    <3> QED
      BY <1>6, <1>9, <3>1 DEF all
  <2> QED
    BY <1>1, <1>8, <1>10, <1>11, <1>12, <2>1, <2>2
<1>15. Bound(t, 0) = 2 /\ Bound(t, n) = Len(open)
  <2>1. Len(f[0]) = 0 /\ Len(f[n]) = Len(all)
    BY <1>6 DEF all
  <2> QED
    BY <1>8, <1>9, <1>10, <1>11, <2>1
<1>16. ASSUME NEW m \in 1 .. n
       PROVE  /\ Bound(t, m) = Bound(t, m - 1) + Len(ss[m])
              /\ \A k \in 1 .. Len(ss[m]) : t.text[Bound(t, m - 1) + k] = ss[m][k]
  <2>1. m \in 0 .. n /\ m - 1 \in 0 .. n
    BY <1>2
  <2> DEFINE p == Len(f[m - 1])
             l == Len(ss[m])
             at == Bound(t, m - 1)
  <2>2. p \in Nat /\ l \in Nat /\ Len(f[m]) = p + l
        /\ \A j \in 1 .. l : all[p + j] = ss[m][j]
    BY <1>7
  <2>3. at = 2 + p /\ Bound(t, m) = 2 + Len(f[m])
    BY <1>8, <2>1
  <2>4. Bound(t, m) <= Len(open)
    BY <1>14, <2>1
  <2> HIDE DEF p, l, at
  <2>5. ASSUME NEW k \in 1 .. l PROVE t.text[at + k] = ss[m][k]
    <3>1. p + k \in 1 .. Len(all) /\ at + k = 2 + (p + k) /\ at + k \in 1 .. Len(open)
      BY <1>10, <1>11, <1>12, <2>2, <2>3, <2>4
    <3>2. t.text[at + k] = open[at + k]
      BY <1>3, <3>1
    <3>3. open[2 + (p + k)] = all[p + k]
      BY <1>11, <3>1
    <3> QED
      BY <2>2, <3>1, <3>2, <3>3
  <2>6. Bound(t, m) = at + l
    BY <2>2, <2>3
  <2> QED
    BY <2>5, <2>6 DEF at, l
<1>17. ASSUME NEW m \in 1 .. n
       PROVE  /\ Bound(t, m) = Bound(t, m - 1) + Len(Spelled(t.items[m]))
              /\ \A k \in 1 .. Len(Spelled(t.items[m])) :
                   t.text[Bound(t, m - 1) + k] = Spelled(t.items[m])[k]
  BY <1>4, <1>16
<1> QED
  BY <1>1, <1>2, <1>3, <1>13, <1>14, <1>15, <1>17 DEF n, open

-----------------------------------------------------------------------------
(* Until and Past return the one place that is as they promise.            *)
LEMMA UntilIs ==
  ASSUME tag \in Tags, NEW i \in 1 .. tag.end, NEW q \in i .. tag.end, NEW S,
         \A k \in i .. q - 1 : tag.text[k] \notin S,
         q < tag.end => tag.text[q] \in S
  PROVE  Until(i, S) = q
<1> DEFINE u == Until(i, S)
<1>1. /\ u \in i .. tag.end
      /\ \A k \in i .. u - 1 : tag.text[k] \notin S
      /\ u < tag.end => tag.text[u] \in S
  BY UntilRange
<1>2. tag.end \in Nat /\ i \in Int /\ q \in Int
  BY TagsAssumption
<1> HIDE DEF u
<1>3. u \in Int
  BY <1>1, <1>2
<1>4. ~ (u < q)
  <2> SUFFICES ASSUME u < q PROVE FALSE
    OBVIOUS
  <2>1. u \in i .. q - 1 /\ u < tag.end
    BY <1>1, <1>2, <1>3
  <2> QED
    BY <1>1, <2>1
<1>5. ~ (q < u)
  <2> SUFFICES ASSUME q < u PROVE FALSE
    OBVIOUS
  <2>1. q \in i .. u - 1 /\ q < tag.end
    BY <1>1, <1>2, <1>3
  <2> QED
    BY <1>1, <2>1
<1>6. u = q
  BY <1>2, <1>3, <1>4, <1>5
<1> QED
  BY <1>6 DEF u

(* And what is passed over ends where anything else begins.                *)
LEMMA PastIs ==
  ASSUME tag \in Tags, NEW i \in 1 .. tag.end, NEW q \in i .. tag.end, NEW S,
         \A k \in i .. q - 1 : tag.text[k] \in S,
         q < tag.end => tag.text[q] \notin S
  PROVE  Past(i, S) = q
<1>1. \A k \in 1 .. tag.end - 1 : tag.text[k] \in Byte
  BY TagsAssumption
<1>2. tag.end \in Nat
  BY TagsAssumption
<1>3. \A k \in i .. q - 1 : tag.text[k] \notin Byte \ S
  OBVIOUS
<1>4. q < tag.end => tag.text[q] \in Byte \ S
  <2>1. q < tag.end => q \in 1 .. tag.end - 1
    BY <1>2
  <2> QED
    BY <1>1, <2>1
<1>5. Until(i, Byte \ S) = q
  BY <1>3, <1>4, UntilIs
<1> QED
  BY <1>5 DEF Past

(* A stretch of a text that reads as u is u.                               *)
LEMMA ReadsAs ==
  ASSUME NEW S, NEW t \in Seq(S), NEW u \in Seq(S), NEW x \in Nat, x >= 1,
         x + Len(u) <= Len(t) + 1,
         \A k \in 1 .. Len(u) : t[(x - 1) + k] = u[k]
  PROVE  SubSeq(t, x, x + Len(u) - 1) = u
<1> DEFINE n == Len(u)
           y == x + n - 1
           s == SubSeq(t, x, y)
<1>1. n \in Nat /\ Len(t) \in Nat /\ x + n <= Len(t) + 1
  OBVIOUS
<1> HIDE DEF n
<1>2. y \in Int /\ y <= Len(t) /\ y - x + 1 = n /\ (x <= y => n = y - x + 1) /\ (y < x => n = 0)
  BY <1>1
<1> HIDE DEF y
<1>3. \A j \in x .. y : t[j] \in S
  <2>1. \A j \in x .. y : j \in 1 .. Len(t)
    BY <1>1, <1>2
  <2> QED
    BY <2>1
<1>4. /\ s \in Seq(S)
      /\ Len(s) = IF x <= y THEN y - x + 1 ELSE 0
      /\ \A k \in 1 .. y - x + 1 : s[k] = t[x + k - 1]
  BY <1>2, <1>3, SubSeqProperties
<1> HIDE DEF s
<1>5. Len(s) = n
  BY <1>1, <1>2, <1>4
<1>6. ASSUME NEW k \in 1 .. n PROVE s[k] = u[k]
  <2>1. x + k - 1 = (x - 1) + k /\ k \in 1 .. y - x + 1
    BY <1>1, <1>2
  <2>2. t[(x - 1) + k] = u[k]
    BY DEF n
  <2> QED
    BY <1>4, <2>1, <2>2
<1>7. s = u
  BY <1>4, <1>5, <1>6, SeqEqual DEF n
<1> QED
  BY <1>7 DEF s, y, n

(* An item begins with a blank and its name.                               *)
LEMMA ItemStart ==
  ASSUME NEW item, IsItem(item)
  PROVE  LET a == Len(item.name)
             s == Spelled(item)
         IN  /\ a \in Nat /\ a > 0 /\ s \in Seq(Byte)
             /\ Len(s) \in Nat /\ Len(s) >= a + 1
             /\ s[1] = Blank
             /\ \A k \in 1 .. a : s[1 + k] = item.name[k]
             /\ \A k \in 1 .. a : item.name[k] \notin NameStops \cup Quote
<1> DEFINE a == Len(item.name)
           s == Spelled(item)
<1>1. /\ a \in Nat /\ a > 0 /\ item.name \in Seq(Byte)
      /\ \A k \in 1 .. a : item.name[k] \notin NameStops \cup Quote
  BY NameOfItem
<1>2. s \in Seq(Byte)
  BY SpelledBytes
<1>3. s[1] = Blank /\ \A k \in 1 .. a : s[1 + k] = item.name[k]
  <2>1. CASE item.form = "valued"
    BY <2>1, SpelledValued
  <2>2. CASE item.form # "valued"
    BY <2>2, SpelledOther
  <2> QED
    BY <2>1, <2>2
<1>4. Len(s) \in Nat
  BY <1>2
<1>5. Len(s) >= a + 1
  <2>1. CASE item.form = "valued"
    <3> DEFINE g == Len(item.gap)
               v == Len(item.value)
    <3>1. g \in Nat /\ v \in Nat /\ Len(s) = a + g + g + v + 4
      BY <2>1, SpelledValued
    <3> HIDE DEF a, g, v, s
    <3> QED
      BY <1>1, <3>1
  <2>2. CASE item.form # "valued"
    <3>1. /\ item.form \in {"bare", "unquoted"}
          /\ item.form = "bare" => Len(s) = 1 + a
          /\ item.form = "unquoted" => Len(s) >= a + 3
      BY <2>2, SpelledOther
    <3> HIDE DEF a, s
    <3> QED
      BY <1>1, <1>4, <3>1
  <2> QED
    BY <2>1, <2>2
<1> QED
  BY <1>1, <1>2, <1>3, <1>4, <1>5

-----------------------------------------------------------------------------
(* Every item has a place behind it.                                       *)
LEMMA PlaceBehind ==
  ASSUME NEW t \in Tags, NEW m \in 0 .. Len(t.items)
  PROVE  \E p : Behind(t, m, p)
<1> DEFINE n == Len(t.items)
           b == Bound(t, m)
<1>1. /\ t.end \in Nat /\ n \in Nat /\ \A k \in 1 .. n : IsItem(t.items[k])
      /\ b \in Nat /\ 2 <= b /\ b < t.end
  BY Layout
<1> HIDE DEF b
<1>2. CASE m < n
  <2> DEFINE item == t.items[m + 1]
             s == Spelled(item)
             p == b + 2
  <2>1. m + 1 \in 1 .. n /\ (m + 1) - 1 = m /\ m + 1 \in 0 .. n
    BY <1>1, <1>2
  <2>2. /\ Bound(t, m + 1) = b + Len(s)
        /\ \A k \in 1 .. Len(s) : t.text[b + k] = s[k]
    BY <2>1, Layout DEF b
  <2>3. Bound(t, m + 1) < t.end
    BY <2>1, Layout
  <2>4. /\ Len(s) \in Nat /\ Len(s) >= 2 /\ s[1] = Blank
        /\ s[2] \notin NameStops
    <3> DEFINE a == Len(item.name)
    <3>1. IsItem(item)
      BY <1>1, <2>1
    <3>2. /\ a \in Nat /\ a > 0 /\ Len(s) \in Nat /\ Len(s) >= a + 1
          /\ s[1] = Blank
          /\ \A k \in 1 .. a : s[1 + k] = item.name[k]
          /\ \A k \in 1 .. a : item.name[k] \notin NameStops \cup Quote
      BY <3>1, ItemStart
    <3> HIDE DEF a, s, item
    <3>3. 1 \in 1 .. a /\ 1 + 1 = 2
      BY <3>2
    <3> QED
      BY <3>2, <3>3
  <2> HIDE DEF s, item
  <2>5. t.text[b + 1] = Blank /\ t.text[p] \notin NameStops
    BY <2>2, <2>4
  <2>6. t.text[p] # Blank /\ t.text[p] # "="
    BY <2>5 DEF NameStops
  <2>7. p \in b + 1 .. t.end /\ p < t.end
    BY <1>1, <2>2, <2>3, <2>4
  <2>8. \A k \in b + 1 .. p - 1 : k = b + 1
    BY <1>1
  <2>9. Behind(t, m, p)
    BY <1>1, <1>2, <2>5, <2>6, <2>7, <2>8 DEF Behind, b
  <2> QED
    BY <2>9
<1>3. CASE m = n
  <2>1. PICK e \in Len(OpenTag(t.items)) .. t.end - 1 :
          /\ \A k \in Len(OpenTag(t.items)) + 1 .. e : t.text[k] = Blank
          /\ e + 1 < t.end => t.text[e + 1] \in TagEnd
    BY Layout
  <2>2. b = Len(OpenTag(t.items))
    BY <1>3, Layout DEF b
  <2> DEFINE p == e + 1
  <2>3. p \in b + 1 .. t.end
    BY <1>1, <2>1, <2>2
  <2>4. \A k \in b + 1 .. p - 1 : t.text[k] = Blank
    <3>1. p - 1 = e
      BY <1>1, <2>2
    <3> QED
      BY <2>1, <2>2, <3>1
  <2>5. p < t.end => t.text[p] \in TagEnd
    BY <2>1
  <2>6. p < t.end => t.text[p] # Blank /\ t.text[p] # "="
    BY <2>5 DEF TagEnd, Blank
  <2>7. p = t.end \/ t.text[p] \in TagEnd
    BY <1>1, <2>3, <2>5
  <2> HIDE DEF p
  <2>8. Behind(t, m, p)
    BY <1>1, <1>3, <2>3, <2>4, <2>6, <2>7 DEF Behind, b
  <2> QED
    BY <2>8
<1>4. m < n \/ m = n
  BY <1>1
<1> QED
  BY <1>2, <1>3, <1>4

(* From behind an item, the scan finds that place, and the end of the tag  *)
(* there when it was the last.                                             *)
LEMMA FindsPlace ==
  ASSUME TypeOK, NEW m \in 0 .. Len(tag.items), NEW p, Behind(tag, m, p),
         pos \in Bound(tag, m) + 1 .. p
  PROVE  /\ NameStart = p
         /\ AtTagEnd <=> m = Len(tag.items)
<1> DEFINE n == Len(tag.items)
           b == Bound(tag, m)
<1>1. tag \in Tags /\ pos \in 1 .. tag.end
  BY DEF TypeOK
<1>2. /\ tag.end \in Nat /\ n \in Nat /\ \A k \in 1 .. n : IsItem(tag.items[k])
      /\ b \in Nat /\ 2 <= b /\ b < tag.end
  BY <1>1, Layout
<1>3. /\ p \in b + 1 .. tag.end
      /\ \A k \in b + 1 .. p - 1 : tag.text[k] = Blank
      /\ p < tag.end => tag.text[p] # Blank
      /\ m < n => p = b + 2 /\ p < tag.end
      /\ m = n => p = tag.end \/ tag.text[p] \in TagEnd
      /\ pos \in b + 1 .. p
  BY DEF Behind
<1> HIDE DEF n, b
<1>4. NameStart = p
  <2>1. p \in pos .. tag.end
    BY <1>1, <1>2, <1>3
  <2>2. \A k \in pos .. p - 1 : tag.text[k] \in {Blank}
    <3>1. \A k \in pos .. p - 1 : k \in b + 1 .. p - 1
      BY <1>2, <1>3
    <3> QED
      BY <1>3, <3>1
  <2>3. p < tag.end => tag.text[p] \notin {Blank}
    BY <1>3
  <2>4. Past(pos, {Blank}) = p
    BY <1>1, <2>1, <2>2, <2>3, PastIs
  <2> QED
    BY <2>4 DEF NameStart
<1>5. CASE m = n
  <2>1. ByteAt(p) \in TagEnd \cup {"end"}
    BY <1>2, <1>3, <1>5 DEF ByteAt
  <2> QED
    BY <1>4, <1>5, <2>1 DEF AtTagEnd, n
<1>6. CASE m < n
  <2> DEFINE item == tag.items[m + 1]
             s == Spelled(item)
             a == Len(item.name)
  <2>1. m + 1 \in 1 .. n /\ (m + 1) - 1 = m
    BY <1>2, <1>6
  <2>2. \A k \in 1 .. Len(s) : tag.text[b + k] = s[k]
    BY <1>1, <2>1, Layout DEF b, n
  <2>3. IsItem(item)
    BY <1>2, <2>1
  <2>4. /\ a \in Nat /\ a > 0 /\ Len(s) \in Nat /\ Len(s) >= a + 1
        /\ \A k \in 1 .. a : s[1 + k] = item.name[k]
        /\ \A k \in 1 .. a : item.name[k] \notin NameStops \cup Quote
    BY <2>3, ItemStart
  <2> HIDE DEF a, s, item
  <2>5. 1 \in 1 .. a /\ 2 \in 1 .. Len(s) /\ 1 + 1 = 2
    BY <2>4
  <2>6. tag.text[p] \notin TagEnd
    BY <1>3, <1>6, <2>2, <2>4, <2>5 DEF NameStops
  <2>7. tag.text[p] \in Byte
    <3>1. p \in 1 .. tag.end - 1
      BY <1>2, <1>3, <1>6
    <3> QED
      BY <1>1, <3>1, TagsAssumption
  <2>8. "end" \notin Byte
    BY TagsAssumption DEF Byte, Quote, TagEnd, Blank
  <2>9. ByteAt(p) = tag.text[p]
    BY <1>3, <1>6 DEF ByteAt
  <2>10. ~ AtTagEnd
    BY <1>4, <2>6, <2>7, <2>8, <2>9 DEF AtTagEnd
  <2>11. m # n
    BY <1>2, <1>6
  <2> QED
    BY <1>4, <2>10, <2>11 DEF n
<1>7. m < n \/ m = n
  BY <1>2 DEF n
<1> QED
  BY <1>5, <1>6, <1>7

(* What stands where an item does, and how far the name goes that is read. *)
LEMMA ReadsName ==
  ASSUME TypeOK, NEW m \in 1 .. Len(tag.items), NameStart = Bound(tag, m - 1) + 2,
         Bound(tag, m - 1) + 2 + Len(tag.items[m].name) < tag.end =>
           tag.text[Bound(tag, m - 1) + 2 + Len(tag.items[m].name)] \in NameStops
  PROVE  LET e == Bound(tag, m - 1) + 2 + Len(tag.items[m].name)
         IN  /\ NameEnd = e
             /\ Text(<<NameStart, NameEnd>>) = tag.items[m].name
             /\ e <= Bound(tag, m) + 1
             /\ e \in 1 .. tag.end
<1> DEFINE e == Bound(tag, m - 1) + 2 + Len(tag.items[m].name)
           item == tag.items[m]
           a == Len(item.name)
           s == Spelled(item)
           b == Bound(tag, m - 1)
           x == NameStart
<1>1. /\ tag \in Tags /\ tag.end \in Nat /\ tag.text \in Seq(Byte) /\ IsItem(item)
      /\ tag.end <= Len(tag.text) + 1
  <2>1. tag \in Tags
    BY DEF TypeOK
  <2> QED
    BY <2>1, Layout, TagsAssumption
<1>2. /\ Bound(tag, m) = b + Len(s) /\ Bound(tag, m) < tag.end
      /\ \A k \in 1 .. Len(s) : tag.text[b + k] = s[k]
      /\ b \in Nat /\ 2 <= b
  <2>1. m \in 0 .. Len(tag.items) /\ m - 1 \in 0 .. Len(tag.items) /\ Len(tag.items) \in Nat
    BY <1>1, Layout
  <2> QED
    BY <1>1, <2>1, Layout
<1>3. /\ a \in Nat /\ a > 0 /\ Len(s) \in Nat /\ Len(s) >= a + 1
      /\ \A k \in 1 .. a : s[1 + k] = item.name[k]
      /\ \A k \in 1 .. a : item.name[k] \notin NameStops \cup Quote
      /\ item.name \in Seq(Byte)
  BY <1>1, ItemStart, NameOfItem
<1>4. e = b + 2 + a /\ x = b + 2 /\ (e < tag.end => tag.text[e] \in NameStops)
  OBVIOUS
<1> HIDE DEF item, a, s, b, x, e
<1>5. ASSUME NEW k \in 1 .. a
      PROVE  tag.text[(x - 1) + k] = item.name[k] /\ tag.text[(x - 1) + k] \notin NameStops
  <2>1. (x - 1) + k = b + (1 + k) /\ 1 + k \in 1 .. Len(s)
    BY <1>2, <1>3, <1>4
  <2> QED
    BY <1>2, <1>3, <2>1
<1>6. x \in 1 .. tag.end /\ e \in x .. tag.end /\ e \in 1 .. tag.end /\ e <= Bound(tag, m) + 1
      /\ x \in Nat /\ e = x + a
  <2>1. x \in Nat /\ e = x + a /\ e \in Nat /\ e <= Bound(tag, m) + 1
    BY <1>2, <1>3, <1>4
  <2>2. Bound(tag, m) + 1 <= tag.end
    BY <1>1, <1>2, <1>3
  <2>3. Bound(tag, m) \in Nat
    BY <1>2, <1>3
  <2>4. x >= 1 /\ e >= x /\ e <= tag.end
    BY <1>1, <1>2, <1>3, <1>4, <2>1, <2>2, <2>3
  <2> QED
    BY <1>1, <2>1, <2>4
<1>7. \A k \in x .. e - 1 : tag.text[k] \notin NameStops
  <2> TAKE k \in x .. e - 1
  <2>0. x \in Int /\ a \in Int /\ e = x + a /\ k \in Int /\ x <= k /\ k <= e - 1
    BY <1>3, <1>6
  <2>1. k - (x - 1) \in 1 .. a /\ (x - 1) + (k - (x - 1)) = k
    BY <2>0
  <2> QED
    BY <1>5, <2>1
<1>8. Until(x, NameStops) = e
  BY <1>1, <1>4, <1>6, <1>7, UntilIs
<1>9. NameEnd = e
  BY <1>8 DEF NameEnd, x
<1>10. SubSeq(tag.text, x, e - 1) = item.name
  <2> DEFINE u == item.name
  <2>1. Len(u) = a
    BY DEF a
  <2> HIDE DEF u
  <2>2. x + Len(u) <= Len(tag.text) + 1 /\ x >= 1 /\ e - 1 = x + Len(u) - 1
    <3>1. Len(tag.text) \in Nat
      BY <1>1
    <3>2. x \in Int /\ a \in Int /\ e = x + a /\ e <= tag.end /\ x >= 1
      BY <1>1, <1>3, <1>6
    <3> QED
      BY <1>1, <2>1, <3>1, <3>2
  <2>3. \A k \in 1 .. Len(u) : tag.text[(x - 1) + k] = u[k]
    BY <1>5, <2>1 DEF u
  <2>4. u \in Seq(Byte)
    BY <1>3 DEF u
  <2>5. SubSeq(tag.text, x, x + Len(u) - 1) = u
    <3> DEFINE t == tag.text
    <3>1. /\ t \in Seq(Byte) /\ x \in Nat /\ x >= 1 /\ x + Len(u) <= Len(t) + 1
          /\ \A k \in 1 .. Len(u) : t[(x - 1) + k] = u[k]
      BY <1>1, <1>6, <2>2, <2>3
    <3> HIDE DEF t, x
    <3>2. SubSeq(t, x, x + Len(u) - 1) = u
      BY <2>4, <3>1, ReadsAs
    <3> QED
      BY <3>2 DEF t
  <2> QED
    BY <2>2, <2>5 DEF u
<1>11. Text(<<x, e>>) = item.name
  BY <1>10 DEF Text
<1> QED
  BY <1>6, <1>9, <1>11 DEF x, item, e

-----------------------------------------------------------------------------
(* Where an item stands in what is scanned.                                *)
LEMMA ItemStands ==
  ASSUME tag \in Tags, NEW m \in 1 .. Len(tag.items)
  PROVE  LET b == Bound(tag, m - 1)
             s == Spelled(tag.items[m])
         IN  /\ tag.end \in Nat /\ tag.text \in Seq(Byte) /\ Len(tag.text) \in Nat
             /\ tag.end <= Len(tag.text) + 1
             /\ IsItem(tag.items[m]) /\ Len(tag.items[m].name) \in Nat
             /\ Len(tag.items[m].name) > 0 /\ s \in Seq(Byte) /\ Len(s) \in Nat
             /\ b \in Nat /\ 2 <= b /\ Bound(tag, m) = b + Len(s) /\ b + Len(s) < tag.end
             /\ \A k \in 1 .. Len(s) : tag.text[b + k] = s[k]
<1>1. /\ tag.end \in Nat /\ tag.text \in Seq(Byte) /\ IsItem(tag.items[m])
      /\ Len(tag.items) \in Nat /\ tag.end <= Len(tag.text) + 1
  BY Layout, TagsAssumption
<1>2. Len(tag.text) \in Nat
  BY <1>1
<1>3. m \in 0 .. Len(tag.items) /\ m - 1 \in 0 .. Len(tag.items)
  BY <1>1
<1>4. /\ Len(tag.items[m].name) \in Nat /\ Len(tag.items[m].name) > 0
      /\ Spelled(tag.items[m]) \in Seq(Byte) /\ Len(Spelled(tag.items[m])) \in Nat
  BY <1>1, ItemStart
<1>5. /\ Bound(tag, m - 1) \in Nat /\ 2 <= Bound(tag, m - 1)
      /\ Bound(tag, m) < tag.end
      /\ Bound(tag, m) = Bound(tag, m - 1) + Len(Spelled(tag.items[m]))
      /\ \A k \in 1 .. Len(Spelled(tag.items[m])) :
           tag.text[Bound(tag, m - 1) + k] = Spelled(tag.items[m])[k]
  BY <1>3, Layout
<1> QED
  BY <1>1, <1>2, <1>4, <1>5

(* A bare item is passed over, with the blanks behind it.                  *)
LEMMA BareItem ==
  ASSUME TypeOK, NEW m \in 1 .. Len(tag.items), tag.items[m].form = "bare",
         NameStart = Bound(tag, m - 1) + 2, NEW p, Behind(tag, m, p)
  PROVE  AfterName = p /\ IsBare
<1> DEFINE n == Len(tag.items)
           b == Bound(tag, m - 1)
           c == Bound(tag, m)
           s == Spelled(tag.items[m])
           a == Len(tag.items[m].name)
           e == b + 2 + a
<1>1. /\ tag \in Tags /\ tag.end \in Nat /\ a \in Nat /\ b \in Nat /\ 2 <= b
      /\ c = b + Len(s) /\ c < tag.end /\ IsItem(tag.items[m])
  <2>1. tag \in Tags
    BY DEF TypeOK
  <2> QED
    BY <2>1, ItemStands
<1>2. Len(s) = 1 + a
  BY <1>1, SpelledOther
<1>3. /\ p \in c + 1 .. tag.end
      /\ \A k \in c + 1 .. p - 1 : tag.text[k] = Blank
      /\ p < tag.end => tag.text[p] # Blank /\ tag.text[p] # "="
      /\ m < n => p = c + 2
      /\ m = n => p = tag.end \/ tag.text[p] \in TagEnd
  BY DEF Behind
<1>4. n \in Nat /\ m \in 1 .. n
  <2>1. tag \in Tags
    BY <1>1
  <2> QED
    BY <2>1, Layout
<1> HIDE DEF n, c, s
<1>5. e = c + 1
  <2> HIDE DEF b, a
  <2> QED
    BY <1>1, <1>2
<1>6. e < tag.end => tag.text[e] \in NameStops
  <2> SUFFICES ASSUME e < tag.end PROVE tag.text[e] \in NameStops
    OBVIOUS
  <2> HIDE DEF e
  <2>1. CASE p = e
    <3>1. m = n
      BY <1>1, <1>3, <1>4, <1>5, <2>1
    <3> QED
      BY <1>1, <1>3, <2>1, <3>1 DEF NameStops
  <2>2. CASE p # e
    <3>1. e \in c + 1 .. p - 1
      BY <1>1, <1>3, <1>5, <2>2
    <3> QED
      BY <1>3, <3>1 DEF NameStops
  <2> QED
    BY <2>1, <2>2
<1>7. NameEnd = e /\ e \in 1 .. tag.end
  BY <1>6, ReadsName
<1> HIDE DEF e
<1>8. AfterName = p
  <2>1. p \in e .. tag.end /\ \A k \in e .. p - 1 : tag.text[k] \in {Blank}
    BY <1>1, <1>3, <1>5
  <2>2. p < tag.end => tag.text[p] \notin {Blank}
    BY <1>3
  <2>3. Past(e, {Blank}) = p
    BY <1>1, <1>7, <2>1, <2>2, PastIs
  <2> QED
    BY <1>7, <2>3 DEF AfterName
<1>9. IsBare
  BY <1>3, <1>8 DEF IsBare, ByteAt
<1> QED
  BY <1>8, <1>9

(* At an unquoted item the scan ends.                                      *)
LEMMA UnquotedItem ==
  ASSUME TypeOK, NEW m \in 1 .. Len(tag.items), tag.items[m].form = "unquoted",
         NameStart = Bound(tag, m - 1) + 2
  PROVE  ~ IsBare /\ ~ HasValue
<1> DEFINE b == Bound(tag, m - 1)
           s == Spelled(tag.items[m])
           a == Len(tag.items[m].name)
           e == b + 2 + a
<1>1. /\ tag \in Tags /\ tag.end \in Nat /\ a \in Nat /\ b \in Nat /\ 2 <= b
      /\ b + Len(s) < tag.end /\ IsItem(tag.items[m]) /\ Len(s) \in Nat
      /\ \A k \in 1 .. Len(s) : tag.text[b + k] = s[k]
  <2>1. tag \in Tags
    BY DEF TypeOK
  <2> QED
    BY <2>1, ItemStands
<1>2. /\ Len(s) >= a + 3
      /\ s[a + 2] = "=" /\ s[a + 3] # Blank /\ s[a + 3] \notin Quote
  BY <1>1, SpelledOther
<1>3. e \in Nat /\ e = b + (a + 2) /\ e + 1 = b + (a + 3) /\ e + 1 < tag.end /\ 1 <= e
  <2> HIDE DEF b, s, a
  <2> QED
    BY <1>1, <1>2
<1>4. tag.text[e] = "=" /\ tag.text[e + 1] # Blank /\ tag.text[e + 1] \notin Quote
  <2> HIDE DEF b, s, a, e
  <2>1. a + 2 \in 1 .. Len(s) /\ a + 3 \in 1 .. Len(s)
    BY <1>1, <1>2
  <2> QED
    BY <1>1, <1>2, <1>3, <2>1
<1>5. tag.text[e] \in NameStops
  BY <1>4 DEF NameStops
<1>6. NameEnd = e /\ e \in 1 .. tag.end
  BY <1>5, ReadsName
<1>14. e \in Int /\ tag.end \in Int /\ e + 1 < tag.end /\ 1 <= e
  BY <1>1, <1>3
<1> HIDE DEF e, b, s, a
<1>7. AfterName = e
  <2>1. e \in e .. tag.end /\ \A k \in e .. e - 1 : tag.text[k] \in {Blank}
    BY <1>14
  <2>2. tag.text[e] \notin {Blank}
    BY <1>4 DEF Blank
  <2>3. Past(e, {Blank}) = e
    BY <1>1, <1>6, <2>1, <2>2, PastIs
  <2> QED
    BY <1>6, <2>3 DEF AfterName
<1>8. ~ IsBare
  BY <1>1, <1>3, <1>4, <1>7 DEF IsBare, ByteAt
<1>9. ValueQuote = e + 1
  <2> DEFINE f == e + 1
  <2>1. f \in 1 .. tag.end /\ f \in f .. tag.end /\ \A k \in f .. f - 1 : tag.text[k] \in {Blank}
    BY <1>14
  <2>2. tag.text[f] \notin {Blank}
    BY <1>4
  <2>3. Past(f, {Blank}) = f
    <3> HIDE DEF f
    <3> QED
      BY <1>1, <2>1, <2>2, PastIs
  <2> QED
    BY <1>7, <2>3 DEF ValueQuote
<1>10. ~ HasValue
  BY <1>4, <1>9 DEF HasValue, IsQuoted
<1> QED
  BY <1>8, <1>10

(* A valued item is read as it is spelled.                                 *)
LEMMA ValuedItem ==
  ASSUME TypeOK, NEW m \in 1 .. Len(tag.items), tag.items[m].form = "valued",
         NameStart = Bound(tag, m - 1) + 2
  PROVE  /\ ~ IsBare /\ HasValue
         /\ Text(<<NameStart, NameEnd>>) = tag.items[m].name
         /\ Text(<<ValueStart, ValueEnd>>) = tag.items[m].value
         /\ ValueEnd = Bound(tag, m)
         /\ NameEnd <= Bound(tag, m)
<1> DEFINE item == tag.items[m]
           b == Bound(tag, m - 1)
           s == Spelled(item)
           a == Len(item.name)
           g == Len(item.gap)
           v == Len(item.value)
           val == item.value
           q == item.quote
           e == b + 2 + a
           d == b + (a + g + 2)
           f == b + (a + g + g + 3)
           h == b + (a + g + g + v + 4)
<1>1. /\ tag \in Tags /\ tag.end \in Nat /\ a \in Nat /\ b \in Nat /\ 2 <= b
      /\ b + Len(s) < tag.end /\ IsItem(item) /\ Len(s) \in Nat
      /\ tag.text \in Seq(Byte) /\ Len(tag.text) \in Nat /\ tag.end <= Len(tag.text) + 1
      /\ \A k \in 1 .. Len(s) : tag.text[b + k] = s[k]
      /\ Bound(tag, m) = b + Len(s)
  <2>1. tag \in Tags
    BY DEF TypeOK
  <2> QED
    BY <2>1, ItemStands
<1>2. /\ g \in Nat /\ v \in Nat /\ Len(s) = a + g + g + v + 4
      /\ \A k \in 1 .. g : s[1 + a + k] = Blank /\ s[a + g + 2 + k] = Blank
      /\ s[a + g + 2] = "="
      /\ s[a + g + g + 3] = q /\ q \in Quote
      /\ \A k \in 1 .. v : s[a + g + g + 3 + k] = val[k] /\ val[k] # q
      /\ s[a + g + g + v + 4] = q
      /\ val \in Seq(Byte)
  BY <1>1, SpelledValued
<1>0. NameStart = b + 2 /\ v = Len(val)
  OBVIOUS
<1>3. /\ e \in Nat /\ d \in Nat /\ f \in Nat /\ h \in Nat
      /\ d = e + g /\ f = d + g + 1 /\ h = f + v + 1 /\ h = Bound(tag, m) /\ h < tag.end
      /\ 1 <= e
  <2> HIDE DEF b, s, a, g, v
  <2> QED
    BY <1>1, <1>2
<1>4. /\ tag.text[d] = "=" /\ tag.text[f] = q /\ tag.text[h] = q
      /\ \A k \in 1 .. g : tag.text[(e - 1) + k] = Blank /\ tag.text[d + k] = Blank
      /\ \A k \in 1 .. v : tag.text[f + k] = val[k]
  <2> HIDE DEF b, s, a, g, v, q, val
  <2>1. /\ a + g + 2 \in 1 .. Len(s) /\ a + g + g + 3 \in 1 .. Len(s)
        /\ a + g + g + v + 4 \in 1 .. Len(s)
    BY <1>1, <1>2
  <2>2. ASSUME NEW k \in 1 .. g
        PROVE  tag.text[(e - 1) + k] = Blank /\ tag.text[d + k] = Blank
    <3>1. /\ 1 + a + k \in 1 .. Len(s) /\ a + g + 2 + k \in 1 .. Len(s)
          /\ (e - 1) + k = b + (1 + a + k) /\ d + k = b + (a + g + 2 + k)
      BY <1>1, <1>2
    <3> HIDE DEF e, d
    <3> QED
      BY <1>1, <1>2, <3>1
  <2>3. ASSUME NEW k \in 1 .. v PROVE tag.text[f + k] = val[k]
    <3>1. a + g + g + 3 + k \in 1 .. Len(s) /\ f + k = b + (a + g + g + 3 + k)
      BY <1>1, <1>2
    <3> HIDE DEF f
    <3> QED
      BY <1>1, <1>2, <3>1
  <2> QED
    BY <1>1, <1>2, <2>1, <2>2, <2>3
<1>5. tag.text[e] \in NameStops
  <2>1. CASE g = 0
    <3>1. e = d
      BY <1>3, <2>1
    <3> QED
      BY <1>4, <3>1 DEF NameStops
  <2>2. CASE g # 0
    <3> HIDE DEF g, e, d, f, h
    <3>1. 1 \in 1 .. g /\ (e - 1) + 1 = e
      BY <1>2, <1>3, <2>2
    <3> QED
      BY <1>4, <3>1 DEF NameStops
  <2> QED
    BY <2>1, <2>2
<1>6. NameEnd = e /\ e \in 1 .. tag.end /\ Text(<<NameStart, NameEnd>>) = item.name
  BY <1>5, ReadsName
<1> HIDE DEF a, g, v, e, d, f, h, b, s, val, q
<1>14. /\ e \in Nat /\ d \in Nat /\ f \in Nat /\ h \in Nat /\ g \in Nat /\ v \in Nat
       /\ d = e + g /\ f = d + g + 1 /\ h = f + v + 1 /\ h < tag.end /\ 1 <= e
       /\ tag.end \in Nat /\ Len(tag.text) \in Nat /\ tag.end <= Len(tag.text) + 1
  BY <1>1, <1>2, <1>3
<1>7. AfterName = d
  <2>1. d \in e .. tag.end /\ \A k \in e .. d - 1 : tag.text[k] \in {Blank}
    <3>1. d \in e .. tag.end
      BY <1>14
    <3>2. ASSUME NEW k \in e .. d - 1 PROVE tag.text[k] = Blank
      <4>1. k - (e - 1) \in 1 .. g /\ (e - 1) + (k - (e - 1)) = k
        BY <1>14
      <4> QED
        BY <1>4, <4>1
    <3> QED
      BY <3>1, <3>2
  <2>2. tag.text[d] \notin {Blank}
    BY <1>4 DEF Blank
  <2>3. Past(e, {Blank}) = d
    BY <1>1, <1>6, <2>1, <2>2, PastIs
  <2> QED
    BY <1>6, <2>3 DEF AfterName
<1>8. ~ IsBare
  <2>1. d < tag.end
    BY <1>14
  <2> QED
    BY <1>4, <1>7, <2>1 DEF IsBare, ByteAt
<1>9. ValueQuote = f
  <2> DEFINE i == d + 1
  <2>1. i \in 1 .. tag.end /\ f \in i .. tag.end /\ \A k \in i .. f - 1 : tag.text[k] \in {Blank}
    <3>1. i \in 1 .. tag.end /\ f \in i .. tag.end
      BY <1>14
    <3>2. ASSUME NEW k \in i .. f - 1 PROVE tag.text[k] = Blank
      <4>1. k - d \in 1 .. g /\ d + (k - d) = k
        BY <1>14
      <4> QED
        BY <1>4, <4>1
    <3> QED
      BY <3>1, <3>2
  <2>2. tag.text[f] \notin {Blank}
    BY <1>2, <1>4 DEF Blank, Quote
  <2>3. Past(i, {Blank}) = f
    <3> HIDE DEF i
    <3> QED
      BY <1>1, <2>1, <2>2, PastIs
  <2> QED
    BY <1>7, <2>3 DEF ValueQuote
<1>10. ValueStart = f + 1 /\ ValueEnd = h
  <2> DEFINE i == f + 1
  <2>1. i \in 1 .. tag.end /\ h \in i .. tag.end /\ \A k \in i .. h - 1 : tag.text[k] \notin {q}
    <3>1. i \in 1 .. tag.end /\ h \in i .. tag.end
      BY <1>14
    <3>2. ASSUME NEW k \in i .. h - 1 PROVE tag.text[k] # q
      <4>1. k - f \in 1 .. v /\ f + (k - f) = k
        BY <1>14
      <4> QED
        BY <1>2, <1>4, <4>1
    <3> QED
      BY <3>1, <3>2
  <2>2. tag.text[h] \in {q}
    BY <1>4
  <2>3. Until(i, {q}) = h
    <3> HIDE DEF i
    <3> QED
      BY <1>1, <2>1, <2>2, UntilIs
  <2> QED
    BY <1>4, <1>9, <2>3 DEF ValueEnd, ValueStart
<1>11. HasValue
  <2>1. f <= Len(tag.text) /\ h < tag.end
    BY <1>14
  <2> QED
    BY <1>2, <1>4, <1>9, <1>10, <2>1 DEF HasValue, IsQuoted
<1>12. Text(<<ValueStart, ValueEnd>>) = val
  <2> DEFINE x == f + 1
  <2>1. x \in Nat /\ x >= 1 /\ x + Len(val) <= Len(tag.text) + 1 /\ h - 1 = x + Len(val) - 1
        /\ x - 1 = f
    BY <1>14, <1>0
  <2>2. \A k \in 1 .. Len(val) : tag.text[(x - 1) + k] = val[k]
    BY <1>0, <1>4, <2>1
  <2> HIDE DEF x
  <2>3. SubSeq(tag.text, x, x + Len(val) - 1) = val
    BY <1>1, <1>2, <2>1, <2>2, ReadsAs
  <2>4. Text(<<x, h>>) = val
    BY <2>1, <2>3 DEF Text
  <2> QED
    BY <1>10, <2>4 DEF x
<1>13. NameEnd <= Bound(tag, m) /\ ValueEnd = Bound(tag, m)
  BY <1>2, <1>3, <1>6, <1>10
<1> QED
  BY <1>6, <1>8, <1>11, <1>12, <1>13 DEF val

-----------------------------------------------------------------------------
(* What is written is picked from the items.                               *)
LEMMA WrittenPicks ==
  ASSUME tag \in Tags
  PROVE  /\ Len(Written) \in Nat /\ DOMAIN Written = 1 .. Len(Written)
         /\ \E w : Picks(Written, w, tag.items, Kept, Len(tag.items))
<1> DEFINE items == tag.items
           R == {items[k] : k \in DOMAIN items}
<1>1. items \in Seq(R)
  BY ItemsAssumption, Zenon
<1>2. Written = Only(items, Kept)
  BY DEF Written
<1> HIDE DEF items, R
<1>3. Only(items, Kept) \in Seq(R) /\ \E w : Picks(Only(items, Kept), w, items, Kept, Len(items))
  BY <1>1, OnlyPicks
<1>4. Written \in Seq(R)
  BY <1>2, <1>3
<1>5. Len(Written) \in Nat /\ DOMAIN Written = 1 .. Len(Written)
  BY <1>4
<1> QED
  BY <1>2, <1>3, <1>5, Zenon DEF items

(* What a turn does not change: what is written.                           *)
LEMMA StaysWritten ==
  ASSUME tag' = tag
  PROVE  Written' = Written /\ Kept' = Kept
<1>1. Kept' = Kept
  BY DEF Kept
<1> QED
  BY <1>1 DEF Written

(* Of the first turns: behind the element's name no attribute is written.  *)
LEMMA SkipElementNameReads == TypeOK /\ ReadInv /\ SkipElementName => ReadInv'
<1> SUFFICES ASSUME TypeOK, ReadInv, SkipElementName PROVE ReadInv'
  OBVIOUS
<1> DEFINE n == Len(tag.items)
           stops == {Blank} \cup TagEnd
<1>1. tag \in Tags
  BY DEF TypeOK
<1>2. /\ pos = 1 /\ attrs = << >> /\ tag' = tag /\ attrs' = attrs /\ phase' = "attributes"
      /\ pos' = Until(IF ByteAt(pos) = "<" THEN pos + 1 ELSE pos, stops)
  BY DEF SkipElementName, ReadInv
<1> HIDE DEF stops
<1>3. /\ tag.end \in Nat /\ n \in Nat /\ Bound(tag, 0) = 2 /\ Bound(tag, 0) < tag.end
      /\ tag.text[1] = "<" /\ tag.text[2] = "t"
  <2>1. n \in Nat
    BY <1>1, Layout
  <2>2. 0 \in 0 .. n
    BY <2>1
  <2> QED
    BY <1>1, <2>1, <2>2, Layout
<1>4. 0 \in 0 .. n
  BY <1>3
<1>5. PICK p : Behind(tag, 0, p)
  BY <1>1, <1>4, PlaceBehind
<1>6. /\ p \in 3 .. tag.end
      /\ \A k \in 3 .. p - 1 : tag.text[k] = Blank
      /\ 0 < n => p = 4
      /\ 0 = n => p = tag.end \/ tag.text[p] \in TagEnd
  <2>1. 2 + 1 = 3 /\ 2 + 2 = 4
    OBVIOUS
  <2> QED
    BY <1>3, <1>5, <2>1 DEF Behind
<1>7. pos' = 3
  <2>1. pos' = Until(2, stops)
    BY <1>2, <1>3 DEF ByteAt
  <2>2. 2 \in 1 .. tag.end /\ 3 \in 2 .. tag.end
    BY <1>3, <1>6
  <2>3. \A k \in 2 .. 3 - 1 : tag.text[k] \notin stops
    <3>1. "t" \notin stops
      BY DEF stops, Blank, TagEnd
    <3>2. \A k \in 2 .. 3 - 1 : k = 2
      OBVIOUS
    <3> QED
      BY <1>3, <3>1, <3>2
  <2>4. 3 < tag.end => tag.text[3] \in stops
    <3> SUFFICES ASSUME 3 < tag.end PROVE tag.text[3] \in stops
      OBVIOUS
    <3>1. CASE p = 3
      <4>1. 0 = n
        BY <1>3, <1>6, <3>1
      <4> QED
        BY <1>3, <1>6, <3>1, <4>1 DEF stops
    <3>2. CASE p # 3
      <4>1. 3 \in 3 .. p - 1
        BY <1>3, <1>6, <3>2
      <4> QED
        BY <1>6, <4>1 DEF stops
    <3> QED
      BY <3>1, <3>2
  <2>5. Until(2, stops) = 3
    BY <1>1, <2>2, <2>3, <2>4, UntilIs
  <2> QED
    BY <2>1, <2>5
<1>8. /\ Len(Written) \in Nat /\ DOMAIN Written = 1 .. Len(Written)
      /\ \E w : Picks(Written, w, tag.items, Kept, n)
  BY <1>1, WrittenPicks
<1>9. PICK w : Picks(Written, w, tag.items, Kept, n)
  BY <1>8
<1>10. \A k \in DOMAIN Written : w[k] <= 0 <=> k <= Len(attrs)
  <2> TAKE k \in DOMAIN Written
  <2>1. k \in 1 .. Len(Written)
    BY <1>8
  <2>2. w[k] \in 1 .. n
    BY <1>9, <2>1 DEF Picks
  <2>3. Len(attrs) = 0
    BY <1>2
  <2> QED
    BY <1>3, <2>1, <2>2, <2>3
<1>11. 3 \in Bound(tag, 0) + 1 .. p
  BY <1>3, <1>6
<1>12. ReadUpTo(tag, pos', attrs, Written, Kept, 0, w)
  BY <1>4, <1>5, <1>7, <1>9, <1>10, <1>11 DEF ReadUpTo
<1>13. Reads(tag, attrs, Written)
  BY DEF ReadInv
<1>14. Written' = Written /\ Kept' = Kept
  BY <1>2, StaysWritten
<1>15. ReadUpTo(tag', pos', attrs', Written', Kept', 0, w) /\ Reads(tag', attrs', Written')
  BY <1>2, <1>12, <1>13, <1>14
<1> QED
  BY <1>2, <1>15 DEF ReadInv

(* Where a turn among the attributes is: at the next item, or at the end.  *)
LEMMA AtItem ==
  ASSUME TypeOK, NEW m, NEW w, ReadUpTo(tag, pos, attrs, Written, Kept, m, w)
  PROVE  /\ m \in 0 .. Len(tag.items) /\ Len(tag.items) \in Nat
         /\ AtTagEnd <=> m = Len(tag.items)
         /\ m < Len(tag.items) =>
              /\ m + 1 \in 1 .. Len(tag.items) /\ (m + 1) - 1 = m
              /\ NameStart = Bound(tag, (m + 1) - 1) + 2
              /\ IsItem(tag.items[m + 1])
              /\ m + 1 \in 0 .. Len(tag.items)
<1>1. tag \in Tags
  BY DEF TypeOK
<1>2. m \in 0 .. Len(tag.items) /\ \E p : Behind(tag, m, p) /\ pos \in Bound(tag, m) + 1 .. p
  BY DEF ReadUpTo
<1>3. PICK p : Behind(tag, m, p) /\ pos \in Bound(tag, m) + 1 .. p
  BY <1>2
<1>4. NameStart = p /\ (AtTagEnd <=> m = Len(tag.items))
  BY <1>2, <1>3, FindsPlace
<1>5. Len(tag.items) \in Nat /\ \A k \in 1 .. Len(tag.items) : IsItem(tag.items[k])
  BY <1>1, Layout
<1>6. ASSUME m < Len(tag.items)
      PROVE  m + 1 \in 1 .. Len(tag.items) /\ (m + 1) - 1 = m /\ m + 1 \in 0 .. Len(tag.items)
  BY <1>2, <1>5, <1>6
<1>7. m < Len(tag.items) => p = Bound(tag, m) + 2
  BY <1>3 DEF Behind
<1> QED
  BY <1>2, <1>4, <1>5, <1>6, <1>7

(* An item that is passed over is none of the attributes written.          *)
LEMMA SkipBareReads == TypeOK /\ ReadInv /\ SkipBare => ReadInv'
<1> SUFFICES ASSUME TypeOK, ReadInv, SkipBare PROVE ReadInv'
  OBVIOUS
<1> DEFINE n == Len(tag.items)
<1>1. tag \in Tags
  BY DEF TypeOK
<1>2. /\ phase = "attributes" /\ ~ AtTagEnd /\ IsBare
      /\ pos' = AfterName /\ tag' = tag /\ attrs' = attrs /\ phase' = phase
  BY DEF SkipBare
<1>3. PICK m, w : ReadUpTo(tag, pos, attrs, Written, Kept, m, w)
  BY <1>2 DEF ReadInv
<1>4. /\ m \in 0 .. n /\ n \in Nat
      /\ AtTagEnd <=> m = n
      /\ m < n => /\ m + 1 \in 1 .. n /\ (m + 1) - 1 = m
                  /\ NameStart = Bound(tag, (m + 1) - 1) + 2
                  /\ IsItem(tag.items[m + 1])
                  /\ m + 1 \in 0 .. n
  BY <1>3, AtItem
<1>5. m < n
  BY <1>2, <1>4
<1> DEFINE j == m + 1
<1>6. /\ j \in 1 .. n /\ j \in 0 .. n /\ IsItem(tag.items[j])
      /\ NameStart = Bound(tag, j - 1) + 2
  BY <1>4, <1>5
<1>7. /\ Picks(Written, w, tag.items, Kept, n)
      /\ \A k \in 1 .. m : tag.items[k].form # "unquoted"
      /\ \A k \in DOMAIN Written : w[k] <= m <=> k <= Len(attrs)
  BY <1>3 DEF ReadUpTo
<1>8. m \in Nat /\ j \in Nat /\ m < j /\ \A k \in 1 .. j : k \in 1 .. m \/ k = j
  BY <1>4
<1>9. \A x \in Nat : x <= j /\ x # j => x <= m
  BY <1>8
<1> HIDE DEF j
<1>10. tag.items[j].form = "bare"
  <2>1. tag.items[j].form # "valued"
    BY <1>2, <1>6, ValuedItem
  <2>2. tag.items[j].form # "unquoted"
    BY <1>2, <1>6, UnquotedItem
  <2> QED
    BY <1>6, <2>1, <2>2 DEF IsItem
<1>11. PICK p : Behind(tag, j, p)
  BY <1>1, <1>6, PlaceBehind
<1>12. AfterName = p
  BY <1>6, <1>10, <1>11, BareItem
<1>13. p \in Bound(tag, j) + 1 .. p
  <2>1. Bound(tag, j) \in Nat /\ tag.end \in Nat
    BY <1>1, <1>6, Layout
  <2>2. p \in Bound(tag, j) + 1 .. tag.end
    BY <1>11 DEF Behind
  <2> QED
    BY <2>1, <2>2
<1>14. \A k \in 1 .. j : tag.items[k].form # "unquoted"
  BY <1>7, <1>8, <1>10
<1>15. \A k \in DOMAIN Written : w[k] <= j <=> k <= Len(attrs)
  <2> SUFFICES ASSUME NEW k \in DOMAIN Written PROVE w[k] <= j <=> k <= Len(attrs)
    OBVIOUS
  <2>1. k \in 1 .. Len(Written)
    BY <1>1, WrittenPicks
  <2>2. w[k] \in Kept /\ w[k] \in 1 .. n
    BY <1>7, <2>1 DEF Picks
  <2>3. w[k] # j
    BY <1>10, <2>2 DEF Kept
  <2>4. w[k] <= m <=> k <= Len(attrs)
    BY <1>7
  <2>5. w[k] <= j <=> w[k] <= m
    BY <1>4, <1>8, <1>9, <2>2, <2>3
  <2> QED
    BY <2>4, <2>5
<1>16. ReadUpTo(tag, pos', attrs, Written, Kept, j, w)
  BY <1>2, <1>6, <1>7, <1>11, <1>12, <1>13, <1>14, <1>15 DEF ReadUpTo
<1>17. Reads(tag, attrs, Written)
  BY DEF ReadInv
<1>18. Written' = Written /\ Kept' = Kept
  BY <1>2, StaysWritten
<1>19. ReadUpTo(tag', pos', attrs', Written', Kept', j, w) /\ Reads(tag', attrs', Written')
  BY <1>2, <1>16, <1>17, <1>18
<1> QED
  BY <1>2, <1>19 DEF ReadInv

-----------------------------------------------------------------------------
(* An attribute that is taken is the next of those written.                *)
LEMMA TakeAttributeReads == TypeOK /\ ReadInv /\ TakeAttribute => ReadInv'
<1> SUFFICES ASSUME TypeOK, ReadInv, TakeAttribute PROVE ReadInv'
  OBVIOUS
<1> DEFINE n == Len(tag.items)
           a == [name |-> <<NameStart, NameEnd>>, value |-> <<ValueStart, ValueEnd>>]
           q == Len(attrs) + 1
<1>1. tag \in Tags /\ attrs \in Seq(RawAttr)
  BY DEF TypeOK
<1>2. /\ phase = "attributes" /\ ~ AtTagEnd /\ ~ IsBare /\ HasValue
      /\ pos' = ValueEnd + 1 /\ tag' = tag /\ attrs' = Append(attrs, a) /\ phase' = phase
  BY DEF TakeAttribute
<1>3. PICK m, w : ReadUpTo(tag, pos, attrs, Written, Kept, m, w)
  BY <1>2 DEF ReadInv
<1>4. /\ m \in 0 .. n /\ n \in Nat
      /\ AtTagEnd <=> m = n
      /\ m < n => /\ m + 1 \in 1 .. n /\ (m + 1) - 1 = m
                  /\ NameStart = Bound(tag, (m + 1) - 1) + 2
                  /\ IsItem(tag.items[m + 1])
                  /\ m + 1 \in 0 .. n
  BY <1>3, AtItem
<1>5. m < n
  BY <1>2, <1>4
<1> DEFINE j == m + 1
           item == tag.items[j]
<1>6. /\ j \in 1 .. n /\ j \in 0 .. n /\ IsItem(item)
      /\ NameStart = Bound(tag, j - 1) + 2
  BY <1>4, <1>5
<1>7. /\ Picks(Written, w, tag.items, Kept, n)
      /\ \A k \in 1 .. m : tag.items[k].form # "unquoted"
      /\ \A k \in DOMAIN Written : w[k] <= m <=> k <= Len(attrs)
  BY <1>3 DEF ReadUpTo
<1>8. m \in Nat /\ j \in Nat /\ m < j /\ \A k \in 1 .. j : k \in 1 .. m \/ k = j
  BY <1>4
<1>9. \A x \in Nat : (x <= j <=> x <= m \/ x = j) /\ (x < j => x <= m)
  BY <1>8
<1> HIDE DEF j
<1>10. item.form = "valued"
  <2>1. PICK p : Behind(tag, j, p)
    BY <1>1, <1>6, PlaceBehind
  <2>2. item.form # "bare"
    BY <1>2, <1>6, <2>1, BareItem
  <2>3. item.form # "unquoted"
    BY <1>2, <1>6, UnquotedItem
  <2> QED
    BY <1>6, <2>2, <2>3 DEF IsItem
<1>11. /\ Text(<<NameStart, NameEnd>>) = item.name
       /\ Text(<<ValueStart, ValueEnd>>) = item.value
       /\ ValueEnd = Bound(tag, j)
       /\ NameEnd <= Bound(tag, j)
  BY <1>6, <1>10, ValuedItem
<1>12. \A k \in 1 .. j : tag.items[k].form # "unquoted"
  BY <1>7, <1>8, <1>10
<1>13. j \in Kept
  <2>1. DOMAIN tag.items = 1 .. n
    <3> DEFINE items == tag.items
               R == {items[k] : k \in DOMAIN items}
    <3>1. items \in Seq(R)
      BY <1>1, ItemsAssumption, Zenon
    <3> HIDE DEF items, R
    <3>2. DOMAIN items = 1 .. Len(items)
      BY <3>1
    <3> QED
      BY <3>2 DEF items
  <2> QED
    BY <1>6, <1>10, <1>12, <2>1 DEF Kept
<1>14. Len(Written) \in Nat /\ DOMAIN Written = 1 .. Len(Written) /\ Len(attrs) \in Nat
  BY <1>1, WrittenPicks
<1>15. PICK r \in 1 .. Len(Written) : w[r] = j
  BY <1>6, <1>7, <1>13 DEF Picks
<1>16. \A k \in 1 .. Len(Written) : w[k] \in Nat /\ w[k] \in Kept
  <2> TAKE k \in 1 .. Len(Written)
  <2>1. w[k] \in Kept \cap (1 .. n)
    BY <1>7 DEF Picks
  <2> QED
    BY <2>1
<1>17. r = q
  <2>1. r > Len(attrs)
    <3>1. ~ (w[r] <= m)
      BY <1>8, <1>15
    <3> QED
      BY <1>7, <1>14, <1>15, <3>1
  <2>2. ~ (q < r)
    <3> SUFFICES ASSUME q < r PROVE FALSE
      OBVIOUS
    <3>1. q \in 1 .. Len(Written)
      BY <1>14, <1>15
    <3> HIDE DEF q
    <3>2. w[q] < w[r]
      BY <1>7, <1>15, <3>1 DEF Picks
    <3>3. w[q] <= m
      BY <1>9, <1>15, <1>16, <3>1, <3>2
    <3>4. q <= Len(attrs)
      BY <1>7, <1>14, <3>1, <3>3
    <3> QED
      BY <1>14, <3>4 DEF q
  <2> QED
    BY <1>14, <2>1, <2>2
<1>18. q \in 1 .. Len(Written) /\ w[q] = j /\ Written[q] = item
  <2>1. q \in 1 .. Len(Written) /\ w[q] = j
    BY <1>15, <1>17
  <2> QED
    BY <1>7, <2>1 DEF Picks
<1> HIDE DEF a
<1>19. /\ Len(attrs') = q /\ DOMAIN attrs' = 1 .. q /\ attrs'[q] = a
       /\ \A k \in 1 .. Len(attrs) : attrs'[k] = attrs[k]
       /\ DOMAIN attrs = 1 .. Len(attrs)
  BY <1>1, <1>2
<1>20. /\ a.name = <<NameStart, NameEnd>> /\ a.value = <<ValueStart, ValueEnd>>
       /\ a.name[1] = NameStart /\ a.name[2] = NameEnd
       /\ a.value[1] = ValueStart /\ a.value[2] = ValueEnd
  BY DEF a
<1>21. /\ SubSeq(tag.text, a.name[1], a.name[2] - 1) = item.name
       /\ SubSeq(tag.text, a.value[1], a.value[2] - 1) = item.value
  BY <1>11, <1>20 DEF Text
<1>22. a.name[2] <= Len(OpenTag(tag.items))
  <2>1. /\ Bound(tag, j) <= Len(OpenTag(tag.items)) /\ Bound(tag, j) \in Nat
        /\ Bound(tag, n) = Len(OpenTag(tag.items))
    BY <1>1, <1>6, Layout
  <2>2. n \in 0 .. n
    BY <1>4
  <2>3. Bound(tag, n) \in Nat
    BY <1>1, <2>2, Layout
  <2>4. NameEnd \in Int
    BY <1>1, NameParts, TagsAssumption DEF TypeOK
  <2> QED
    BY <1>11, <1>20, <2>1, <2>3, <2>4
<1>23. Reads(tag, attrs', Written)
  <2> SUFFICES ASSUME NEW k \in DOMAIN attrs'
               PROVE  /\ k <= Len(Written)
                      /\ SubSeq(tag.text, attrs'[k].name[1], attrs'[k].name[2] - 1)
                           = Written[k].name
                      /\ SubSeq(tag.text, attrs'[k].value[1], attrs'[k].value[2] - 1)
                           = Written[k].value
                      /\ attrs'[k].name[2] <= Len(OpenTag(tag.items))
    BY DEF Reads
  <2>1. CASE k = q
    <3>1. /\ attrs'[k] = a /\ Written[k] = item /\ k <= Len(Written)
      <4>1. q <= Len(Written)
        BY <1>14, <1>18
      <4> QED
        BY <1>18, <1>19, <2>1, <4>1
    <3> QED
      BY <1>21, <1>22, <3>1
  <2>2. CASE k # q
    <3>1. k \in DOMAIN attrs /\ attrs'[k] = attrs[k]
      BY <1>14, <1>19, <2>2
    <3> QED
      BY <3>1 DEF ReadInv, Reads
  <2> QED
    BY <2>1, <2>2
<1>24. \A k \in DOMAIN Written : w[k] <= j <=> k <= Len(attrs')
  <2> SUFFICES ASSUME NEW k \in 1 .. Len(Written) PROVE w[k] <= j <=> k <= q
    BY <1>14, <1>19
  <2>1. w[k] <= j <=> w[k] <= m \/ w[k] = j
    BY <1>9, <1>16
  <2>2. w[k] <= m <=> k <= Len(attrs)
    BY <1>7, <1>14
  <2>3. w[k] = j <=> k = q
    <3>1. k # q => w[k] < w[q] \/ w[q] < w[k]
      <4>1. k < q \/ q < k \/ k = q
        BY <1>14
      <4> HIDE DEF q
      <4> QED
        BY <1>7, <1>18, <4>1 DEF Picks
    <3> HIDE DEF q
    <3>2. k # q => w[k] # j
      BY <1>8, <1>16, <1>18, <3>1
    <3> QED
      BY <1>18, <3>2
  <2>4. k <= q <=> k <= Len(attrs) \/ k = q
    BY <1>14
  <2> QED
    BY <2>1, <2>2, <2>3, <2>4
<1>25. PICK p : Behind(tag, j, p)
  BY <1>1, <1>6, PlaceBehind
<1>26. pos' \in Bound(tag, j) + 1 .. p
  <2>1. Bound(tag, j) \in Nat /\ tag.end \in Nat
    BY <1>1, <1>6, Layout
  <2>2. p \in Bound(tag, j) + 1 .. tag.end
    BY <1>25 DEF Behind
  <2> QED
    BY <1>2, <1>11, <2>1, <2>2
<1>27. ReadUpTo(tag, pos', attrs', Written, Kept, j, w)
  BY <1>6, <1>7, <1>12, <1>24, <1>25, <1>26 DEF ReadUpTo
<1>28. Written' = Written /\ Kept' = Kept
  BY <1>2, StaysWritten
<1>29. ReadUpTo(tag', pos', attrs', Written', Kept', j, w) /\ Reads(tag', attrs', Written')
  BY <1>2, <1>23, <1>27, <1>28
<1> QED
  BY <1>2, <1>29 DEF ReadInv

(* Where the scan stops nothing more is written.                           *)
LEMMA StopReads == TypeOK /\ ReadInv /\ Stop => ReadInv'
<1> SUFFICES ASSUME TypeOK, ReadInv, Stop PROVE ReadInv'
  OBVIOUS
<1> DEFINE n == Len(tag.items)
<1>1. tag \in Tags /\ attrs \in Seq(RawAttr)
  BY DEF TypeOK
<1>2. /\ phase = "attributes" /\ (AtTagEnd \/ (~ IsBare /\ ~ HasValue))
      /\ tag' = tag /\ attrs' = attrs /\ phase' = "done"
  BY DEF Stop
<1>3. PICK m, w : ReadUpTo(tag, pos, attrs, Written, Kept, m, w)
  BY <1>2 DEF ReadInv
<1>4. /\ m \in 0 .. n /\ n \in Nat
      /\ AtTagEnd <=> m = n
      /\ m < n => /\ m + 1 \in 1 .. n /\ (m + 1) - 1 = m
                  /\ NameStart = Bound(tag, (m + 1) - 1) + 2
                  /\ IsItem(tag.items[m + 1])
                  /\ m + 1 \in 0 .. n
  BY <1>3, AtItem
<1>5. /\ Picks(Written, w, tag.items, Kept, n)
      /\ \A k \in DOMAIN Written : w[k] <= m <=> k <= Len(attrs)
  BY <1>3 DEF ReadUpTo
<1>6. Len(Written) \in Nat /\ DOMAIN Written = 1 .. Len(Written) /\ Len(attrs) \in Nat
      /\ DOMAIN attrs = 1 .. Len(attrs)
  BY <1>1, WrittenPicks
<1>7. \A k \in 1 .. Len(Written) : w[k] \in 1 .. n /\ w[k] \in Kept
  <2> TAKE k \in 1 .. Len(Written)
  <2>1. w[k] \in Kept \cap (1 .. n)
    BY <1>5 DEF Picks
  <2> QED
    BY <2>1
<1>8. \A k \in 1 .. Len(Written) : w[k] <= m
  <2>1. CASE m = n
    BY <1>4, <1>7, <2>1
  <2>2. CASE m < n
    <3> DEFINE j == m + 1
    <3>1. /\ j \in 1 .. n /\ j \in 0 .. n /\ IsItem(tag.items[j])
          /\ NameStart = Bound(tag, j - 1) + 2
      BY <1>4, <2>2
    <3>2. ~ IsBare /\ ~ HasValue
      BY <1>2, <1>4, <2>2
    <3>3. \A x \in 1 .. n : x <= m \/ j \in 1 .. x
      BY <1>4
    <3> HIDE DEF j
    <3>4. tag.items[j].form = "unquoted"
      <4>1. PICK p : Behind(tag, j, p)
        BY <1>1, <3>1, PlaceBehind
      <4>2. tag.items[j].form # "bare"
        BY <3>1, <3>2, <4>1, BareItem
      <4>3. tag.items[j].form # "valued"
        BY <3>1, <3>2, ValuedItem
      <4> QED
        BY <3>1, <4>2, <4>3 DEF IsItem
    <3>5. \A x \in Kept : ~ (j \in 1 .. x)
      BY <3>4 DEF Kept
    <3> QED
      BY <1>7, <3>3, <3>5
  <2> QED
    BY <1>4, <2>1, <2>2
<1>9. \A k \in 1 .. Len(Written) : k <= Len(attrs)
  BY <1>5, <1>6, <1>8
<1>10. \A k \in 1 .. Len(attrs) : k <= Len(Written)
  BY <1>6 DEF ReadInv, Reads
<1>11. Len(attrs) = Len(Written)
  <2>1. Len(Written) > 0 => Len(Written) \in 1 .. Len(Written)
    BY <1>6
  <2>2. Len(attrs) > 0 => Len(attrs) \in 1 .. Len(attrs)
    BY <1>6
  <2>3. Len(Written) <= Len(attrs)
    <3>1. Len(Written) > 0 => Len(Written) <= Len(attrs)
      BY <1>9, <2>1
    <3> QED
      BY <1>6, <3>1
  <2>4. Len(attrs) <= Len(Written)
    <3>1. Len(attrs) > 0 => Len(attrs) <= Len(Written)
      BY <1>10, <2>2
    <3> QED
      BY <1>6, <3>1
  <2>5. Len(Written) \in Nat /\ Len(attrs) \in Nat
    BY <1>6
  <2> QED
    BY <2>3, <2>4, <2>5
<1>12. Written' = Written
  BY <1>2, StaysWritten
<1>13. Reads(tag, attrs, Written)
  BY DEF ReadInv
<1>14. Reads(tag', attrs', Written') /\ Len(attrs') = Len(Written')
  BY <1>2, <1>11, <1>12, <1>13
<1> QED
  BY <1>2, <1>14 DEF ReadInv

(* Before the first turn nothing is read yet.                              *)
LEMMA InitReads == Init => ReadInv
BY DEF Init, ReadInv, Reads

(* Every turn keeps what is read what is written.                          *)
LEMMA NextReads == TypeOK /\ ReadInv /\ [Next]_vars => ReadInv'
<1> SUFFICES ASSUME TypeOK, ReadInv, [Next]_vars PROVE ReadInv'
  OBVIOUS
<1>1. CASE SkipElementName
  BY <1>1, SkipElementNameReads
<1>2. CASE SkipBare
  BY <1>2, SkipBareReads
<1>3. CASE TakeAttribute
  BY <1>3, TakeAttributeReads
<1>4. CASE Stop
  BY <1>4, StopReads
<1>5. CASE UNCHANGED vars
  <2>1. tag' = tag /\ pos' = pos /\ attrs' = attrs /\ phase' = phase
    BY <1>5 DEF vars
  <2>2. Written' = Written /\ Kept' = Kept
    BY <2>1, StaysWritten
  <2> QED
    BY <2>1, <2>2 DEF ReadInv
<1> QED
  BY <1>1, <1>2, <1>3, <1>4, <1>5 DEF Next

-----------------------------------------------------------------------------
(* What is picked begins with the first position's element, and goes on    *)
(* with those of the positions that have another before them.              *)
LEMMA OnlyFirstAndLater ==
  ASSUME NEW S, NEW s \in Seq(S), NEW K \in SUBSET (1 .. Len(s))
  PROVE  /\ Only(s, K) \in Seq(S)
         /\ Only(s, K) = << >> <=> K = {}
         /\ \A k \in K : (\A j \in K : k <= j) => Head(Only(s, K)) = s[k]
         /\ \A i \in 2 .. Len(Only(s, K)) :
              \E k \in K : (\E j \in K : j < k) /\ Only(s, K)[i] = s[k]
         /\ \A k \in K : (\E j \in K : j < k) =>
              \E i \in 2 .. Len(Only(s, K)) : Only(s, K)[i] = s[k]
<1> DEFINE r == Only(s, K)
           n == Len(r)
<1>1. r \in Seq(S)
  BY OnlyPicks
<1>2. PICK w : Picks(r, w, s, K, Len(s))
  BY OnlyPicks
<1>3. K \cap (1 .. Len(s)) = K /\ K \subseteq Nat
  <2>1. 1 .. Len(s) \subseteq Nat
    OBVIOUS
  <2> HIDE DEF r, n
  <2> QED
    BY <2>1, Zenon
<1> HIDE DEF r
<1>4. /\ n \in Nat /\ (r = << >> <=> n = 0) /\ (n > 0 => Head(r) = r[1])
  BY <1>1
<1>5. /\ \A p \in 1 .. n : w[p] \in K /\ r[p] = s[w[p]]
      /\ \A p, j \in 1 .. n : p < j => w[p] < w[j]
      /\ \A k \in K : \E p \in 1 .. n : w[p] = k
  BY <1>2, <1>3 DEF Picks
<1> HIDE DEF n
<1>6. \A p \in 1 .. n : p = 1 \/ (1 \in 1 .. n /\ 1 < p /\ p \in 2 .. n)
  BY <1>4
<1>7. r = << >> <=> K = {}
  <2>1. n # 0 => 1 \in 1 .. n
    BY <1>4
  <2>2. n = 0 => 1 .. n = {}
    OBVIOUS
  <2> QED
    BY <1>4, <1>5, <2>1, <2>2
<1>8. ASSUME NEW k \in K, \A j \in K : k <= j PROVE Head(r) = s[k]
  <2>1. PICK p \in 1 .. n : w[p] = k
    BY <1>5
  <2>2. p = 1
    <3> SUFFICES ASSUME 1 \in 1 .. n, 1 < p PROVE FALSE
      BY <1>6
    <3>1. w[1] < k /\ w[1] \in K
      BY <1>5, <2>1
    <3> QED
      BY <1>3, <1>8, <3>1
  <2>3. n > 0
    BY <1>4, <2>1
  <2> QED
    BY <1>4, <1>5, <2>1, <2>2, <2>3
<1>9. ASSUME NEW i \in 2 .. n PROVE \E k \in K : (\E j \in K : j < k) /\ r[i] = s[k]
  <2>1. i \in 1 .. n /\ 1 \in 1 .. n /\ 1 < i
    BY <1>4
  <2>2. w[i] \in K /\ w[1] \in K /\ w[1] < w[i] /\ r[i] = s[w[i]]
    BY <1>5, <2>1
  <2> QED
    BY <2>2
<1>10. ASSUME NEW k \in K, NEW j \in K, j < k PROVE \E i \in 2 .. n : r[i] = s[k]
  <2>1. PICK p \in 1 .. n : w[p] = k
    BY <1>5
  <2>2. PICK q \in 1 .. n : w[q] = j
    BY <1>5
  <2>3. p # 1
    <3> SUFFICES ASSUME p = 1 PROVE FALSE
      OBVIOUS
    <3>1. q # 1
      BY <1>3, <1>10, <2>1, <2>2
    <3>2. w[p] < w[q]
      BY <1>5, <1>6, <3>1
    <3> QED
      BY <1>3, <1>10, <2>1, <2>2, <3>2
  <2>4. p \in 2 .. n
    BY <1>6, <2>3
  <2>5. r[p] = s[k]
    BY <1>5, <2>1
  <2> QED
    BY <2>4, <2>5
<1> QED
  BY <1>1, <1>7, <1>8, <1>9, <1>10 DEF r, n

(* Where the scan is done: as many attributes as are written, and in each  *)
(* place one of the same name and value.                                   *)
LEMMA DoneReads ==
  ASSUME Inv, ReadInv, phase = "done"
  PROVE  /\ Len(attrs) \in Nat /\ DOMAIN attrs = 1 .. Len(attrs)
         /\ DOMAIN Written = 1 .. Len(attrs) /\ Len(Written) = Len(attrs)
         /\ \A k \in 1 .. Len(attrs) : /\ Text(attrs[k].name) = Written[k].name
                                       /\ Text(attrs[k].value) = Written[k].value
                                       /\ attrs[k].name[2] <= Len(OpenTag(tag.items))
<1>1. tag \in Tags /\ attrs \in Seq(RawAttr)
  BY DEF Inv, TypeOK
<1>2. /\ Len(attrs) \in Nat /\ DOMAIN attrs = 1 .. Len(attrs)
      /\ DOMAIN Written = 1 .. Len(attrs) /\ Len(Written) = Len(attrs)
  BY <1>1, WrittenPicks DEF ReadInv
<1>3. \A k \in 1 .. Len(attrs) : /\ Text(attrs[k].name) = Written[k].name
                                 /\ Text(attrs[k].value) = Written[k].value
                                 /\ attrs[k].name[2] <= Len(OpenTag(tag.items))
  BY <1>2 DEF ReadInv, Reads, Text
<1> QED
  BY <1>2, <1>3

(* Where an attribute of a name stands, and where it stands a second time. *)
Of(name) == {i \in 1 .. Len(attrs) : Written[i].name = name}
Again(name) == {k \in Of(name) : \E j \in Of(name) : j < k}

(* The first of a name is the first written, and its duplicates are those  *)
(* written again.                                                          *)
LEMMA NamedAgrees ==
  ASSUME Inv, ReadInv, phase = "done", NEW name
  PROVE  /\ Named(name) = << >> <=> WrittenAs(name) = << >>
         /\ FirstValue(name) = IF WrittenAs(name) = << >> THEN {}
                               ELSE {Head(WrittenAs(name)).value}
         /\ Duplicates(name) = {attrs[k].name : k \in Again(name)}
<1> DEFINE K == Of(name)
           R == {tag.items[i] : i \in DOMAIN tag.items}
<1>1. /\ Len(attrs) \in Nat /\ DOMAIN attrs = 1 .. Len(attrs)
      /\ DOMAIN Written = 1 .. Len(attrs) /\ Len(Written) = Len(attrs)
      /\ \A k \in 1 .. Len(attrs) : /\ Text(attrs[k].name) = Written[k].name
                                    /\ Text(attrs[k].value) = Written[k].value
  BY DoneReads
<1>2. Named(name) = Only(attrs, K)
  <2>1. {i \in DOMAIN attrs : Text(attrs[i].name) = name} = K
    BY <1>1 DEF Of
  <2> QED
    BY <2>1 DEF Named
<1>3. WrittenAs(name) = Only(Written, K)
  <2>1. {i \in DOMAIN Written : Written[i].name = name} = K
    BY <1>1 DEF Of
  <2> QED
    BY <2>1 DEF WrittenAs
<1>4. K \in SUBSET (1 .. Len(attrs)) /\ K \in SUBSET (1 .. Len(Written)) /\ K \subseteq Nat
  BY <1>1 DEF Of
<1>5. attrs \in Seq(RawAttr) /\ tag \in Tags
  BY DEF Inv, TypeOK
<1>6. Written \in Seq(R)
  <2>1. tag.items \in Seq(R)
    BY <1>5, ItemsAssumption, Zenon
  <2> HIDE DEF R
  <2> QED
    BY <2>1, OnlyPicks DEF Written
<1> HIDE DEF K, R
<1>7. /\ Only(attrs, K) = << >> <=> K = {}
      /\ \A k \in K : (\A j \in K : k <= j) => Head(Only(attrs, K)) = attrs[k]
      /\ \A i \in 2 .. Len(Only(attrs, K)) :
           \E k \in K : (\E j \in K : j < k) /\ Only(attrs, K)[i] = attrs[k]
      /\ \A k \in K : (\E j \in K : j < k) =>
           \E i \in 2 .. Len(Only(attrs, K)) : Only(attrs, K)[i] = attrs[k]
  BY <1>4, <1>5, OnlyFirstAndLater
<1>8. /\ Only(Written, K) = << >> <=> K = {}
      /\ \A k \in K : (\A j \in K : k <= j) => Head(Only(Written, K)) = Written[k]
  BY <1>4, <1>6, OnlyFirstAndLater
<1>9. FirstValue(name) = IF WrittenAs(name) = << >> THEN {}
                         ELSE {Head(WrittenAs(name)).value}
  <2>1. CASE K = {}
    BY <1>2, <1>3, <1>7, <1>8, <2>1 DEF FirstValue
  <2>2. CASE K # {}
    <3>1. PICK k \in K : \A j \in K : k <= j
      BY <1>4, <2>2, NatLeast, Zenon
    <3>2. Head(Named(name)) = attrs[k] /\ Head(WrittenAs(name)) = Written[k]
      BY <1>2, <1>3, <1>7, <1>8, <3>1
    <3>3. Text(attrs[k].value) = Written[k].value
      BY <1>1, <1>4
    <3> QED
      BY <1>2, <1>3, <1>7, <1>8, <2>2, <3>2, <3>3 DEF FirstValue
  <2> QED
    BY <2>1, <2>2
<1>10. Duplicates(name) = {attrs[k].name : k \in Again(name)}
  <2>1. Again(name) = {k \in K : \E j \in K : j < k}
    BY DEF Again, K
  <2>2. \A i \in 2 .. Len(Named(name)) : \E k \in Again(name) : Named(name)[i] = attrs[k]
    BY <1>2, <1>7, <2>1
  <2>3. \A k \in Again(name) : \E i \in 2 .. Len(Named(name)) : Named(name)[i] = attrs[k]
    BY <1>2, <1>7, <2>1
  <2> QED
    BY <2>2, <2>3 DEF Duplicates
<1> QED
  BY <1>2, <1>3, <1>7, <1>8, <1>9, <1>10

(* Of two names the preferred one is used where it is there.               *)
LEMMA PreferredFirst ==
  ASSUME NEW p, NEW o
  PROVE  LET ref == ClassRef(<<p, o>>)
         IN  /\ ref.value = IF Named(p) # << >> THEN FirstValue(p)
                            ELSE IF Named(o) # << >> THEN FirstValue(o) ELSE {}
             /\ ref.duplicates = Duplicates(p) \cup Duplicates(o)
<1> DEFINE names == <<p, o>>
           present == {i \in DOMAIN names : Named(names[i]) # << >>}
<1>1. DOMAIN names = {1, 2} /\ names[1] = p /\ names[2] = o
  OBVIOUS
<1>2. /\ ClassRef(names).value =
           IF present = {} THEN {} ELSE FirstValue(names[Min(present)])
      /\ ClassRef(names).duplicates = UNION {Duplicates(names[i]) : i \in DOMAIN names}
  BY DEF ClassRef
<1> HIDE DEF names
<1>3. /\ 1 \in present <=> Named(p) # << >>
      /\ 2 \in present <=> Named(o) # << >>
      /\ present \subseteq {1, 2}
  BY <1>1
<1>4. ClassRef(names).duplicates = Duplicates(p) \cup Duplicates(o)
  BY <1>1, <1>2
<1> HIDE DEF present
<1>5. present # {} => Min(present) \in present /\ \A j \in present : Min(present) <= j
  <2>1. present \subseteq Nat
    BY <1>3
  <2> QED
    BY <2>1, NatMin, Zenon
<1>6. CASE Named(p) # << >>
  <2>1. Min(present) = 1 /\ present # {}
    <3>1. 1 \in present
      BY <1>3, <1>6
    <3>2. Min(present) \in {1, 2} /\ Min(present) <= 1
      BY <1>3, <1>5, <3>1
    <3> QED
      BY <3>1, <3>2
  <2> QED
    BY <1>1, <1>2, <1>4, <1>6, <2>1 DEF names
<1>7. CASE Named(p) = << >> /\ Named(o) # << >>
  <2>1. Min(present) = 2 /\ present # {}
    BY <1>3, <1>5, <1>7
  <2> QED
    BY <1>1, <1>2, <1>4, <1>7, <2>1 DEF names
<1>8. CASE Named(p) = << >> /\ Named(o) = << >>
  <2>1. present = {}
    BY <1>3, <1>8
  <2> QED
    BY <1>2, <1>4, <1>8, <2>1 DEF names
<1> QED
  BY <1>6, <1>7, <1>8

(* No two attributes have the same place.                                  *)
LEMMA NamesApart ==
  ASSUME Inv, NEW m \in DOMAIN attrs, NEW n \in DOMAIN attrs, attrs[m].name = attrs[n].name
  PROVE  m = n
<1>1. ASSUME NEW k \in DOMAIN attrs, NEW l \in DOMAIN attrs, k < l
      PROVE  attrs[k].name # attrs[l].name
  <2>1. attrs[k] \in RawAttr /\ attrs[l] \in RawAttr
    BY DEF Inv, TypeOK
  <2>2. /\ attrs[k].name[1] \in Nat /\ attrs[k].name[2] \in Nat /\ attrs[k].value[1] \in Nat
        /\ attrs[k].value[2] \in Nat /\ attrs[l].name[1] \in Nat
    BY <2>1 DEF RawAttr
  <2>3. /\ attrs[k].name[1] <= attrs[k].name[2]
        /\ attrs[k].name[2] + 1 < attrs[k].value[1]
        /\ attrs[k].value[1] <= attrs[k].value[2]
        /\ attrs[k].value[2] < attrs[l].name[1]
    BY <1>1 DEF Inv, OneBehindTheOther, WellFormed
  <2>4. attrs[k].name[1] < attrs[l].name[1]
    BY <2>2, <2>3
  <2> QED
    BY <2>2, <2>4
<1>2. m \in Nat /\ n \in Nat
  <2>1. DOMAIN attrs \subseteq Nat
    BY DEF Inv, TypeOK
  <2> QED
    BY <2>1
<1>3. m < n \/ n < m \/ m = n
  BY <1>2
<1> QED
  BY <1>1, <1>3

(* What is found where the scan is done is what is written.                *)
LEMMA DoneExact == Inv /\ ReadInv => AttributesExact
<1> SUFFICES ASSUME Inv, ReadInv, phase = "done" PROVE AttributesExact
  BY DEF AttributesExact
<1>1. /\ Len(attrs) \in Nat /\ DOMAIN attrs = 1 .. Len(attrs)
      /\ DOMAIN Written = 1 .. Len(attrs)
      /\ \A k \in 1 .. Len(attrs) : /\ Text(attrs[k].name) = Written[k].name
                                    /\ Text(attrs[k].value) = Written[k].value
                                    /\ attrs[k].name[2] <= Len(OpenTag(tag.items))
  BY DoneReads
<1>2. [i \in DOMAIN attrs |-> <<Text(attrs[i].name), Text(attrs[i].value)>>]
        = [i \in DOMAIN Written |-> <<Written[i].name, Written[i].value>>]
  BY <1>1
<1>3. ASSUME NEW preferred, NEW other
      PROVE  LET ref == ClassRef(<<preferred, other>>)
                 used == IF WrittenAs(preferred) # << >> THEN WrittenAs(preferred)
                         ELSE WrittenAs(other)
             IN  /\ ref.value = IF used = << >> THEN {} ELSE {Head(used).value}
                 /\ Cardinality(ref.duplicates) =
                      Cardinality({i \in DOMAIN Written :
                         /\ Written[i].name \in {preferred, other}
                         /\ \E j \in 1 .. i - 1 : Written[j].name = Written[i].name})
                 /\ \A span \in ref.duplicates : span[2] <= Len(OpenTag(tag.items))
  <2> DEFINE ref == ClassRef(<<preferred, other>>)
             used == IF WrittenAs(preferred) # << >> THEN WrittenAs(preferred)
                     ELSE WrittenAs(other)
             D == {i \in DOMAIN Written :
                     /\ Written[i].name \in {preferred, other}
                     /\ \E j \in 1 .. i - 1 : Written[j].name = Written[i].name}
             f == [k \in D |-> attrs[k].name]
  <2>1. /\ ref.value = IF Named(preferred) # << >> THEN FirstValue(preferred)
                       ELSE IF Named(other) # << >> THEN FirstValue(other) ELSE {}
        /\ ref.duplicates = Duplicates(preferred) \cup Duplicates(other)
    BY PreferredFirst
  <2>2. ASSUME NEW name
        PROVE  /\ Named(name) = << >> <=> WrittenAs(name) = << >>
               /\ FirstValue(name) = IF WrittenAs(name) = << >> THEN {}
                                     ELSE {Head(WrittenAs(name)).value}
               /\ Duplicates(name) = {attrs[k].name : k \in Again(name)}
    BY NamedAgrees
  <2> HIDE DEF ref
  <2>3. ref.value = IF used = << >> THEN {} ELSE {Head(used).value}
    BY <2>1, <2>2
  <2>4. D = Again(preferred) \cup Again(other)
    <3>1. \A i \in 1 .. Len(attrs) : \A j : j \in 1 .. i - 1 <=> j \in 1 .. Len(attrs) /\ j < i
      BY <1>1
    <3>2. \A name : \A k : k \in Again(name) <=>
            /\ k \in 1 .. Len(attrs) /\ Written[k].name = name
            /\ \E j \in 1 .. Len(attrs) : Written[j].name = name /\ j < k
      BY DEF Again, Of
    <3>3. \A k : k \in D <=>
            /\ k \in 1 .. Len(attrs) /\ Written[k].name \in {preferred, other}
            /\ \E j \in 1 .. Len(attrs) : Written[j].name = Written[k].name /\ j < k
      BY <1>1, <3>1
    <3> HIDE DEF D
    <3> QED
      BY <3>2, <3>3
  <2>5. D \subseteq 1 .. Len(attrs)
    BY <1>1
  <2> HIDE DEF D
  <2>6. ref.duplicates = {attrs[k].name : k \in D}
    BY <2>1, <2>2, <2>4
  <2>7. f \in Bijection(D, ref.duplicates)
    <3>1. \A k, l \in D : attrs[k].name = attrs[l].name => k = l
      BY <1>1, <2>5, NamesApart
    <3>2. f \in [D -> ref.duplicates]
      BY <2>6
    <3>3. \A x \in ref.duplicates : \E k \in D : f[k] = x
      BY <2>6
    <3> QED
      BY <3>1, <3>2, <3>3 DEF Bijection, Injection, Surjection, IsInjective
  <2>8. IsFiniteSet(D)
    <3>1. IsFiniteSet(1 .. Len(attrs))
      BY <1>1, FS_Interval
    <3> QED
      BY <2>5, <3>1, FS_Subset
  <2>9. Cardinality(ref.duplicates) = Cardinality(D)
    <3>1. ExistsBijection(D, ref.duplicates)
      BY <2>7, Zenon DEF ExistsBijection
    <3> QED
      BY <2>8, <3>1, FS_Bijection
  <2>10. \A span \in ref.duplicates : span[2] <= Len(OpenTag(tag.items))
    BY <1>1, <2>5, <2>6
  <2> QED
    BY <2>3, <2>9, <2>10 DEF ref, D
<1> QED
  BY <1>2, <1>3 DEF AttributesExact

(* However its opening tag is spelled and whatever stands behind it, an    *)
(* element has exactly the attributes its tag writes, in their order and   *)
(* with their own bytes; of a name written twice the first is used and the *)
(* others are reported, and of two names for one thing the preferred one.  *)
THEOREM AttributesAreThoseWritten == Spec => []AttributesExact
<1>1. Inv /\ ReadInv /\ [Next]_vars => (Inv /\ ReadInv)'
  BY NextInv, NextReads DEF Inv
<1>2. Init => Inv /\ ReadInv
  BY InitInv, InitReads
<1>3. Inv /\ ReadInv => AttributesExact
  BY DoneExact
<1> QED
  BY <1>1, <1>2, <1>3, PTL DEF Spec
===============================================================================
