------------------------------ MODULE FlattenSpec ------------------------------
(***************************************************************************)
(* What a caller of `flatten_body` sees: a body goes in, one of the        *)
(* results FlattenReference permits comes out, in one step and once.       *)
(***************************************************************************)
EXTENDS FlattenReference

VARIABLES tree, result

Init == tree \in Tree /\ result = [kind |-> "none"]

Answer ==
  /\ result = [kind |-> "none"]
  /\ result' # result
  /\ result' \in Permitted(tree)
  /\ UNCHANGED tree

Spec == Init /\ [][Answer]_<<tree, result>>
===============================================================================
