-------------------------------- MODULE Selection --------------------------------
(***************************************************************************)
(* What a filter or a retain keeps of a sequence, and sequences laid end   *)
(* to end.                                                                 *)
(***************************************************************************)
EXTENDS Integers, Sequences

(* The elements of s at the positions in K, in their order.  (SelectSeq is *)
(* without a definition that proofs could use.)                            *)
Only(s, K) ==
  LET upTo[k \in 0 .. Len(s)] ==
        IF k = 0 THEN << >>
        ELSE IF k \in K THEN Append(upTo[k - 1], s[k]) ELSE upTo[k - 1]
  IN  upTo[Len(s)]

(* The first k of a sequence of sequences, end to end, for every k.        *)
Joins(ss) ==
  LET upTo[k \in 0 .. Len(ss)] == IF k = 0 THEN << >> ELSE upTo[k - 1] \o ss[k]
  IN  upTo

(* All of them.                                                            *)
Together(ss) == Joins(ss)[Len(ss)]
===============================================================================
