-------------------------------- MODULE MCMarkup --------------------------------
(***************************************************************************)
(* MarkupWalk on all short documents of four families.                     *)
(***************************************************************************)
EXTENDS MarkupReference

CONSTANTS
  MCLength,      \* the longest document, not counting the root's start tag
  MCShort,       \* the longest document with faults
  MCFamilies     \* which families

MCTokens(starts, empties, ends, others) ==
  [type : {"start"}, name : starts] \cup [type : {"empty"}, name : empties]
    \cup [type : {"end"}, name : ends] \cup [type : others, name : {"none"}]

MCInRoot(tokens) ==
  {<<[type |-> "start", name |-> "mapper"]>> \o d : d \in BoundedSeq(tokens, MCLength)}

(* Tags in a root, closed in any order or not at all.                      *)
MCTagged == MCInRoot(MCTokens({"select", "other"}, {"select"},
                              {"mapper", "select", "other"}, {}))

(* The same, with text and self-closed tags between them.                  *)
MCNested == MCInRoot(MCTokens({"select", "other"}, {"select", "other"},
                              {"mapper", "select", "other"}, {"text"}))

(* Statements only, and end tags that may belong to none of them.          *)
MCStatements == MCInRoot(MCTokens({"select"}, {"select"}, {"mapper", "select", "other"}, {}))

(* Faulty markup before, in and after the root.                            *)
MCFaulty ==
  BoundedSeq(MCTokens({"sqlMap", "select", "cache"}, {"sqlMap", "resultMap", "cache", "other"},
                      {"sqlMap", "cache"}, {"amp", "comment", "bad", "stuck"}),
             MCShort)

MCDocs ==
  (IF "tagged" \in MCFamilies THEN MCTagged ELSE {})
    \cup (IF "nested" \in MCFamilies THEN MCNested ELSE {})
    \cup (IF "statements" \in MCFamilies THEN MCStatements ELSE {})
    \cup (IF "faulty" \in MCFamilies THEN MCFaulty ELSE {})
===============================================================================
