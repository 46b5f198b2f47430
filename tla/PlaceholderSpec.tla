---------------------------- MODULE PlaceholderSpec ----------------------------
(***************************************************************************)
(* What a caller of placeholder normalisation sees: a text goes in, and    *)
(* from its first character to its last each one is copied or begins a     *)
(* stretch that gives way to a marker.  Which runs the text is made of,    *)
(* what has been copied when, and where anything comes from play no part.  *)
(***************************************************************************)
EXTENDS Integers, Sequences, FiniteSets

CONSTANT DynMarker

VARIABLES
  dialect,
  input,   \* the text, spelled out
  at,      \* how much of it is dealt with
  out,     \* what has come of that
  found    \* the property paths met so far, spelled out

vars == <<dialect, input, at, out, found>>

Rest(o) == o + 1 .. Len(input)
Count(c, from, to) == Cardinality({k \in from .. to : input[k] = c})

(* A brace closes the one opened at `from` when there are as many of one   *)
(* kind as of the other for the first time.                                *)
Balanced(from, to) == Count("{", from, to) = Count("}", from, to)
Closes(from, to) == Balanced(from, to) /\ \A k \in from .. to - 1 : ~ Balanced(from, k)

Opening(o) == o + 2 \in Rest(o) /\ input[o + 1] \in {"#", "$"} /\ input[o + 2] = "{"

BracedStretch(o) ==
  {[to |-> c, new |-> input[o + 1], inner |-> SubSeq(input, o + 3, c - 1), separator |-> ","] :
     c \in {k \in Rest(o) : Opening(o) /\ k > o + 1 /\ Closes(o + 2, k)}}

(* iBatis: two delimiters of one kind, and nothing like them or blank      *)
(* between them; with nothing between them they are an escape.             *)
LegacyStretch(o) ==
  {[to |-> c, new |-> input[o + 1], inner |-> SubSeq(input, o + 2, c - 1), separator |-> ":"] :
     c \in {k \in Rest(o) :
              /\ dialect = "Ibatis" /\ ~ Opening(o)
              /\ k > o + 1 /\ input[o + 1] \in {"#", "$"} /\ input[k] = input[o + 1]
              /\ \A j \in o + 2 .. k - 1 : input[j] \notin {input[k], " "}}}

Stretch(o) == BracedStretch(o) \cup LegacyStretch(o)

Escape(s) == s.separator = ":" /\ s.inner = << >>

NewText(s) ==
  IF Escape(s) THEN <<s.new>> ELSE IF s.new = "#" THEN <<"?">> ELSE DynMarker

(* The path of an expression runs to the first separator and is neither    *)
(* empty nor blank at its ends.                                            *)
IsPath(p, s) ==
  \E a, b \in 1 .. Len(s.inner) :
    /\ p = SubSeq(s.inner, a, b) /\ a <= b
    /\ \A k \in 1 .. b : s.inner[k] # s.separator
    /\ p[1] # " " /\ p[Len(p)] # " "
    /\ \A k \in 1 .. a - 1 : s.inner[k] = " "
    /\ \A k \in b + 1 .. Len(s.inner) :
         s.inner[k] = " " \/ \E j \in b + 1 .. k : s.inner[j] = s.separator

HasPath(s) ==
  \E k \in DOMAIN s.inner :
    s.inner[k] # " " /\ \A j \in 1 .. k : s.inner[j] # s.separator

Init ==
  /\ dialect \in {"Mybatis", "Ibatis"}
  /\ input = << >> /\ at = 0 /\ out = << >> /\ found = << >>

(* Another text, when the last one is done with.                           *)
Begin ==
  /\ at = Len(input)
  /\ at' = 0 /\ out' = << >>
  /\ UNCHANGED <<dialect, found>>

Copy ==
  /\ at < Len(input) /\ Stretch(at) = {} /\ ~ Opening(at)
  /\ at' = at + 1 /\ out' = Append(out, input[at + 1])
  /\ UNCHANGED <<dialect, input, found>>

Substitute ==
  /\ at < Len(input)
  /\ \E s \in Stretch(at) :
       /\ at' = s.to /\ out' = out \o NewText(s)
       /\ IF HasPath(s)
          THEN /\ Len(found') = Len(found) + 1
               /\ SubSeq(found', 1, Len(found)) = found
               /\ IsPath(found'[Len(found')], s)
          ELSE UNCHANGED found
  /\ UNCHANGED <<dialect, input>>

(* An expression that is never closed: nothing after it is recognised.     *)
GiveUp ==
  /\ at < Len(input) /\ Opening(at) /\ Stretch(at) = {}
  /\ at' = Len(input) /\ out' = out \o SubSeq(input, at + 1, Len(input))
  /\ UNCHANGED <<dialect, input, found>>

Next == Begin \/ Copy \/ Substitute \/ GiveUp

Spec == Init /\ [][Next]_vars
===============================================================================
