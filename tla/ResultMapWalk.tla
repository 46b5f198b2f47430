----------------------------- MODULE ResultMapWalk -----------------------------
(***************************************************************************)
(* collect_mappings (src/src/parse.rs): the worklist that gathers the      *)
(* columns of a resultMap, those of nested associations, collections and   *)
(* discriminator cases included, into one list.  Its frames share the two  *)
(* lists they append to, so nothing is handed back when one is finished;   *)
(* unlike the engines of flatten.rs it checks the nesting limit where a    *)
(* body is entered and a discriminator is not one.                         *)
(*                                                                         *)
(* A node is a number, in document order.                                  *)
(***************************************************************************)
EXTENDS Naturals, Sequences, FiniteSets

CONSTANTS
  NodeCount,    \* how many tags and pieces of text the body holds
  DepthLimit,   \* DEPTH_LIMIT
  Trees         \* the resultMaps under consideration

Root == 0
Node == 1 .. NodeCount
Holder == {Root} \cup Node

(* "column" is an id or a result, "nested" an association or a collection, *)
(* "other" any tag without an arm, and a case but for a discriminator's.   *)
Kind == {"text", "column", "nested", "discriminator", "case", "other"}

Tree == [kind : [Node -> Kind], kids : [Holder -> Seq(Node)]]

Holds(t, h) == {t.kids[h][i] : i \in DOMAIN t.kids[h]}

ParentOf(t, n) == CHOOSE h \in Holder : n \in Holds(t, h)

(* Every node stands in one place, its number behind its parent's, its     *)
(* older siblings' and all that these hold: what lies between a node and   *)
(* its parent hangs from that parent or from something further in.         *)
Numbered(t) ==
  /\ \A n \in Node : \E h \in Holder : h < n /\ \A g \in Holder : n \in Holds(t, g) <=> g = h
  /\ \A h \in Holder : \A i, j \in DOMAIN t.kids[h] : i < j => t.kids[h][i] < t.kids[h][j]
  /\ \A m, n \in Node :
       ParentOf(t, n) < m /\ m < n => ParentOf(t, n) <= ParentOf(t, m)

ASSUME LimitAssumption == NodeCount \in Nat /\ DepthLimit \in Nat \ {0}
ASSUME TreesAssumption == \A t \in Trees : t \in Tree /\ Numbered(t)

VARIABLES
  tree,
  stack,       \* the worklist, its top last
  mappings,    \* the columns found
  cut          \* the bodies the limit kept out, one diagnostic each

vars == <<tree, stack, mappings, cut>>

Frame ==
  [type : {"mapping", "discriminator"}, node : Holder, idx : Nat \ {0}, depth : Nat]

MappingFrame(n, depth) == [type |-> "mapping", node |-> n, idx |-> 1, depth |-> depth]
DiscriminatorFrame(n, depth) ==
  [type |-> "discriminator", node |-> n, idx |-> 1, depth |-> depth]

Top == stack[Len(stack)]
Kids == tree.kids[Top.node]
AtTop(type) == stack # << >> /\ Top.type = type
More == Top.idx <= Len(Kids)
Tag == Kids[Top.idx]

(* The top frame with its index moved on.                                  *)
Advanced == [stack EXCEPT ![Len(stack)].idx = @ + 1]

\* Mutated: the limit is noticed one body late.
DescendMappingLate(n, depth, rest) ==
  IF depth > DepthLimit
  THEN cut' = Append(cut, n) /\ stack' = rest
  ELSE stack' = Append(rest, MappingFrame(n, depth)) /\ UNCHANGED cut

(* descend_mapping: rest is the stack once the tag n is behind it.         *)
DescendMapping(n, depth, rest) ==
  IF depth >= DepthLimit
  THEN cut' = Append(cut, n) /\ stack' = rest
  ELSE stack' = Append(rest, MappingFrame(n, depth)) /\ UNCHANGED cut

-------------------------------------------------------------------------------
(* MappingFrame::step.                                                     *)

\* Mutated: what has no arm is looked at for ever.
MappingPassesStuck ==
  /\ AtTop("mapping") /\ More /\ tree.kind[Tag] \in {"text", "case", "other"}
  /\ UNCHANGED vars

MappingPasses ==
  /\ AtTop("mapping") /\ More /\ tree.kind[Tag] \in {"text", "case", "other"}
  /\ stack' = Advanced
  /\ UNCHANGED <<tree, mappings, cut>>

\* Mutated: what is recorded is where the column stands.
MappingColumnOfHolder ==
  /\ AtTop("mapping") /\ More /\ tree.kind[Tag] = "column"
  /\ stack' = Advanced
  /\ mappings' = Append(mappings, Top.node)
  /\ UNCHANGED <<tree, cut>>

MappingColumn ==
  /\ AtTop("mapping") /\ More /\ tree.kind[Tag] = "column"
  /\ stack' = Advanced
  /\ mappings' = Append(mappings, Tag)
  /\ UNCHANGED <<tree, cut>>

MappingNested ==
  /\ AtTop("mapping") /\ More /\ tree.kind[Tag] = "nested"
  /\ DescendMapping(Tag, Top.depth + 1, Advanced)
  /\ UNCHANGED <<tree, mappings>>

\* Mutated: a discriminator counts as a body of its own.
MappingDiscriminatorDeeper ==
  /\ AtTop("mapping") /\ More /\ tree.kind[Tag] = "discriminator"
  /\ stack' = Append(Advanced, DiscriminatorFrame(Tag, Top.depth + 1))
  /\ UNCHANGED <<tree, mappings, cut>>

MappingDiscriminator ==
  /\ AtTop("mapping") /\ More /\ tree.kind[Tag] = "discriminator"
  /\ stack' = Append(Advanced, DiscriminatorFrame(Tag, Top.depth))
  /\ UNCHANGED <<tree, mappings, cut>>

-------------------------------------------------------------------------------
(* DiscriminatorFrame::step: one call goes on to the next case, or to the  *)
(* end.                                                                    *)
CaseAhead ==
  {i \in Top.idx .. Len(Kids) : tree.kind[Kids[i]] = "case"}

DiscriminatorCase ==
  /\ AtTop("discriminator")
  /\ \E i \in CaseAhead :
       /\ \A j \in CaseAhead : i <= j
       /\ DescendMapping(Kids[i], Top.depth + 1, [stack EXCEPT ![Len(stack)].idx = i + 1])
  /\ UNCHANGED <<tree, mappings>>

\* Mutated: the frame under the finished one goes with it.
FinishedWithParent ==
  /\ stack # << >>
  /\ IF Top.type = "mapping" THEN ~ More ELSE CaseAhead = {}
  /\ stack' = SubSeq(stack, 1, IF Len(stack) > 1 THEN Len(stack) - 2 ELSE 0)
  /\ UNCHANGED <<tree, mappings, cut>>

Finished ==
  /\ stack # << >>
  /\ IF Top.type = "mapping" THEN ~ More ELSE CaseAhead = {}
  /\ stack' = SubSeq(stack, 1, Len(stack) - 1)
  /\ UNCHANGED <<tree, mappings, cut>>

(* The resultMap's own body is entered at depth 0.                         *)
Init ==
  /\ tree \in Trees
  /\ stack = <<MappingFrame(Root, 0)>>
  /\ mappings = << >> /\ cut = << >>

Next ==
  \/ MappingPasses \/ MappingColumn \/ MappingNested \/ MappingDiscriminator
  \/ DiscriminatorCase
  \/ Finished

Spec == Init /\ [][Next]_vars /\ WF_vars(Next)

-------------------------------------------------------------------------------
(* Types of the state; what is gathered are tags of the body.              *)
TypeOK ==
  /\ tree \in Tree
  /\ stack \in Seq(Frame)
  /\ mappings \in Seq(Node) /\ cut \in Seq(Node)

(* A frame's depth, handed from frame to frame, is the number of bodies    *)
(* below it, discriminators aside, and the limit holds: the worklist is    *)
(* never more than two frames a level.                                     *)
BodiesBelow(i) == Cardinality({j \in 1 .. i - 1 : stack[j].type = "mapping"})

DepthCountsBodies ==
  \A i \in DOMAIN stack :
    /\ stack[i].depth = BodiesBelow(i) - (IF stack[i].type = "discriminator" THEN 1 ELSE 0)
    /\ stack[i].depth < DepthLimit

WorklistBounded == Len(stack) <= 2 * DepthLimit

(* Every walk ends.                                                        *)
Termination == <>(stack = << >>)

-------------------------------------------------------------------------------
(* The tree by itself: the level of each body that would be walked if      *)
(* there were no limit, a discriminator's being that of the body it is in. *)
NotWalked == NodeCount + 1

IsDiscriminator(t, h) == h # Root /\ t.kind[h] = "discriminator"

(* The tags the walk goes into: a case in a discriminator, an association  *)
(* or a collection anywhere else, and there a discriminator.               *)
EntersBody(t, n) ==
  t.kind[n] = IF IsDiscriminator(t, ParentOf(t, n)) THEN "case" ELSE "nested"

EntersDiscriminator(t, n) ==
  t.kind[n] = "discriminator" /\ ~ IsDiscriminator(t, ParentOf(t, n))

(* What a tag's level is when the one it stands in has the level outer.    *)
LevelWithin(t, n, outer) ==
  IF outer # NotWalked /\ EntersBody(t, n) THEN outer + 1
  ELSE IF outer # NotWalked /\ EntersDiscriminator(t, n) THEN outer
  ELSE NotWalked

Level(t) ==
  LET level[h \in Holder] ==
        IF h = Root THEN 0 ELSE LevelWithin(t, h, level[ParentOf(t, h)])
  IN  level

IsBody(t, h) == Level(t)[h] # NotWalked /\ ~ IsDiscriminator(t, h)

(* The columns of the bodies above the limit, and the bodies at it.        *)
Columns(t) ==
  {n \in Node :
     /\ t.kind[n] = "column"
     /\ IsBody(t, ParentOf(t, n)) /\ Level(t)[ParentOf(t, n)] < DepthLimit}

AtLimit(t) == {n \in Node : IsBody(t, n) /\ Level(t)[n] = DepthLimit}

(* The tags of S, all of them and each once, in document order.            *)
Lists(s, S) ==
  /\ \A i, j \in DOMAIN s : i < j => s[i] < s[j]
  /\ {s[i] : i \in DOMAIN s} = S

(* Whatever order the frames come and go in, the columns are those of the  *)
(* bodies above the limit, in document order; and there is one             *)
(* NestingLimitExceeded for each body at the limit, none for what is below.*)
MappingsExact ==
  stack = << >> => Lists(mappings, Columns(tree)) /\ Lists(cut, AtLimit(tree))
===============================================================================
