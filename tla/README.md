# A TLA+ model of batis-xml

batis-xml reads MyBatis and iBatis mapper files. It finds the statements, SQL
fragments and resultMaps in them, flattens the dynamic SQL of each into the
list of its variants, and never fails: whatever is wrong with a file becomes a
diagnostic. One thread, no I/O, nothing persisted. What is hard in it is not
concurrency but long walks that keep several pieces of bookkeeping in step over
input that may be broken anywhere: two explicit worklists that replaced
recursion, a pass that is abandoned half way and started over, five loops that
share one XML reader and disagree with it about nesting, ids and includes found
by several passes in different orders, span maps that are cut and shifted at every
level of nesting, and limits checked in one place for things that grow in
another.

Source paths below are relative to `src/` of the repository, line numbers are
those of the commit the project was written against.

## The system

| component | source | state it keeps | operations |
|---|---|---|---|
| markup walk and recovery | `src/parse.rs` | the reader's position and open names; per loop the last error position; the depth of a skip; segments, elements, diagnostics | the five loops `parse_str`, `build_mapper`, `capture_body`, `skip_subtree`, `scan_trailing_content`; `capture_subtree` |
| mapper building | `src/parse.rs` | statements, fragments, resultMaps; three sets of ids seen; diagnostics | `build_mapper`'s arms, `build_statement`, `extract_select_keys`, `build_fragment`, `build_result_map`, `lift_includes`, `merge_includes`, `check_dangling_local_refids`, `dedup_diagnostics` |
| flattening engines | `src/flatten.rs` | a worklist of frames, the alternatives of each, `Ctx` (depth, diagnostics, includes, paths, the unknown-element flag) | `flatten_body`, `run`, `BodyFrame`/`ChooseFrame` step and deliver, `finish_pending`, `run_union`, `UnionFrame`/`UnionChooseFrame` |
| resultMap mappings | `src/parse.rs` | a worklist of frames, the columns found | `collect_mappings`, `MappingFrame`, `DiscriminatorFrame` |
| SQL text and span maps | `src/flatten.rs` | the pieces of every open tag | `assemble`, `with_prefix`, `with_suffix`, strip helpers |
| placeholders | `src/placeholder.rs` | the scan's offsets, the text and span map so far, property paths | `normalize_merged` |
| attribute scanning | `src/parse.rs` | the scan's offset, the attributes found | `scan_attributes`, `attr_value_spanned`, `read_class_ref` |
| encoding detection | `src/encoding.rs` | none | `decode` |
| entry points | `src/lib.rs`, `src/parse.rs` | the result put together; a second reader | `parse`, `parse_bytes`, `detect_dialect`, `detect_dialect_str` |
| result model, wasm binding | `src/model.rs`, `wasm/` | none | data types, conversion |

How they interact: an entry point decodes and hands a string to `parse_str`.
The walk delivers, per child of the root, a list of segments: text, or the span
of a dynamic tag it has skipped over. Mapper building takes the selectKeys and
top-level includes from the segments and passes the rest to `flatten_body` or
`collect_mappings`, which read one skipped tag at a time with
`capture_subtree`, a second reading of the same bytes with a reader of its own.
Diagnostics and includes are side channels of every one of these calls.

What makes each correct:

- walk: well-nested input yields its nesting, anything else at least one
  diagnostic; spans nest; the second reading of a tag ends where the first did;
  it ends.
- building: every repeated id is reported and nothing else is; each include has
  one owner; dangling includes are reported whatever the order of elements; an
  anomaly seen by two passes is one diagnostic.
- flattening: the variants are those the tags mean, in order, never more than
  32; past that, the union; depth is counted right through every exit; what the
  abandoned pass said is forgotten.
- mappings: the columns above the nesting limit in document order.
- text: every character of the SQL traces back, through the span map, to the
  byte it is from, however often it was merged, stripped and wrapped; what a
  wrapper adds stays whole; placeholders are found wherever segments part them.
- attributes: those the opening tag writes, none from the body behind it.
- encoding: a file that is what it says is read so; the decoder reported is one
  that makes this text of this file.
- entry points: a cheap look at the root answers what a full parse does; no
  result without a mapper is silent.

`PROJECT.json` lists the hazards line by line with the properties that cover
them.

## Modules

```
XmlReader -> MarkupWalk -> MarkupReference -> MCMarkup
                                              MarkupProofs
ResultMapWalk -> MCResultMap, ResultMapProofs
Selection -> Attributes -> AttributeReference -> MCAttributes
                                                 AttributeProofs
BodyTree -> FlattenState -> CartesianEngine, UnionEngine -> FlattenBody
            FlattenBody -> FlattenProofs
            FlattenReference -> FlattenSpec (abstract)
            FlattenBody + FlattenSpec + TreeShapes -> MCFlatten
Selection -> Placeholder, SqlText -> TextPipeline -> TextReference -> MCText
                                                     TextProofs
            PlaceholderSpec (abstract), instantiated by TextReference
            MapperBuild -> MapperReference -> MCMapper
                                              MapperProofs
Encoding + MarkupWalk + XmlReader -> EntryPoints -> EntryReference -> MCEntry
                                                       EntryProofs
CommonLemmas: minima of sets of naturals, stacks, selections, sequences end to
            end, and what is made step by step, for MarkupProofs,
            AttributeProofs, EntryProofs, TextProofs, MapperProofs and
            ResultMapProofs
```

The interface between the groups is the segment list. `MarkupWalk` shows which
elements and segments are found; `MapperBuild` starts from elements whose
segments are given, `FlattenBody` and `ResultMapWalk` from the tree of segments
below one element. `TextPipeline` follows one of the alternatives of
`FlattenBody` and looks at its characters. `EntryPoints` is composed of
`Encoding`, the whole of `MarkupWalk` and a reader of its own.

### Markup walk

`XmlReader` is the external quick-xml reader: a cursor over tokens and a stack
of open names. Two facts about it matter and both come from the repository: a
mismatched end tag is an error *and* takes a name off the stack (recorded in
`fixtures/mybatis/orphan_closing_tag_recovery.expected.json`), and the reader
is past the fault when it reports it (comments at `src/parse.rs:230-238`). The
token "stuck" is markup at which it is not, the case all five stuck guards are
there for.

`MarkupWalk` has one action per arm of each loop. `loop` names the innermost
loop under way, `element` and `child` are the start offsets the callers
remember, `depth` is `skip_subtree`'s counter, `lastErr` holds every loop's
`last_err_pos`. `CaptureSubtree` re-reads any captured tag from a fresh reader,
in any order, since the engines ask for them in theirs. Names are reduced to
what the loops tell apart: the two roots, the captured elements, one
known-ignorable element, and "other". `diags` is a set, so how often something
is reported is not part of this module but of `MapperBuild`.

`MarkupReference` tells the expected result from the tokens alone. `Nesting` is
a recursive function over the document, the stack of names open after each
token, instead of the loops' counters; `End`, `Children` and `InOrder` are told
from it. A function and no RECURSIVE operator, so that it can be proved about.

### Mapper building

`MapperBuild` has one action per kind of child and one for what follows the
loop. Places are paths, so that document order is the lexicographic one. What
`build_statement` makes of the child the reader is at is a handful of operators
on its number: `SelectKeys` are taken out of its segments, `OwnBody` is what is
made of the rest, `BuildStatements` is the statement with those of its
selectKeys behind it, and `Registered` registers each after the ones before it.
`Body` runs `lift_includes`, the includes of `flatten_body` and
`merge_includes` over the same segments, with the diagnostics of each pass in
the order they are appended; `Dedup` is `dedup_diagnostics`. Ids are sequences
of words and signs: `x!selectKey` written by hand is the same id as the derived
one, and a dot or `${` in a refid is what `classify_include` looks for. Bodies
are assumed to be within the flattener's nesting limit, where it visits every
include; `capped` marks one that exceeds the cap of variants.

### Flattening

`BodyTree` is the body of a statement as a tree of nodes, numbered in document
order (`Numbered`, part of the assumption on `Trees`).
`FlattenState` has the state of both engines; `CartesianEngine` the frames,
`finish_pending`, `try_combine` and `run`; `UnionEngine` the fallback;
`FlattenBody` the two in sequence. One action is one turn of the worklist loop
for one arm of `step` or `deliver`. Texts are node numbers and wrapper texts
are markers: what is wrapped, stripped or dropped is kept, its characters are
not. BRANCH_LIMIT and DEPTH_LIMIT are constants, so that small instances reach
both.

`FlattenSpec` is the abstract specification: one step from a body to an answer,
which must be one `FlattenReference` permits. The reference is the recursive
meaning of each tag, without worklist, frames or depth counter. `MCFlatten`
instantiates it on the body and the result of `FlattenBody`, and the run checks
that every step is a step of it or a stutter, as the property `PromiseKept`.

### resultMap mappings

`ResultMapWalk` is `collect_mappings`: mapping frames and discriminator frames
on one worklist, the level handed from frame to frame. `Level` gives from the
tree alone the level of each body, `Columns` and `AtLimit` which columns must be
found and which bodies reported, and `MappingsExact` says that the lists hold
these, in document order. That tags are numbered in document order is an
assumption on the trees (`Numbered`), the same as on a body of SQL: what lies
between a tag and its parent hangs from that parent or from something further in.

### Text, placeholders and span maps

Characters are model values of a small alphabet that carry, beside what they
are, where they are from: `at`, the source offset, and `kind`: "exact" for a
byte of a verbatim segment, "coarse" for one of a segment whose decoded length
differs, "tag" for text a wrapper or an include makes up, "mark" and "inner"
for the characters of a placeholder's marker. The code keeps no such thing; no
action reads it, it is there for the properties.

`Placeholder` is `normalize_merged`: one action per arm of its loop, the copy
in stretches of `flush_literal`, `raw_offset`, `layout_for`, `push_path`, the
final retain. A letter stands for any byte that is none of the delimiters,
braces, separators or a blank. `SqlText` has the operations on assembled text:
`push_span_entry`, `assemble`, `with_prefix` with its check of the split point
against the source, `with_suffix`, `with_suffix_strip`, the strip lengths, and
what `finish_pending` makes of them for each wrapper. `TextPipeline` reads the
events of one body: runs of text, CDATA and references are scanned, tags open
and close, and at each close the pieces inside are assembled and wrapped. A body
is any sequence of events in which no tag closes that did not open, which is
what the walk hands on, and whose segments are as `capture_body` makes them
(`Captured`): text is not empty, and a reference is one character, or itself if
it cannot be resolved. What a wrapper adds on account of an attribute is a slice
of the file, and holds no "<" (`AttributesAssumption`). `Selection` has the operators on sequences that these
modules and `MapperBuild` are built from, as recursive functions, which the
provers can unfold: what a `retain` or a `filter` keeps, and sequences laid end
to end.

`PlaceholderSpec` is the abstract specification of the scan: a text goes in and
each character is copied or begins a stretch that gives way to a marker.
Segments, stretches and spans play no part in it. `TextReference` instantiates
it with a refinement mapping (the text is the spelling of the merged runs, the
output what has been copied and what would be if the copy were made now) and
the run checks `PromiseKept`.

### Attributes

`Attributes` is `scan_attributes`, one action per turn of its loop, over the
bytes that matter to it; `FirstValue`, `Duplicates` and `ClassRef` are what
`attr_value_spanned` and `read_class_ref` pick from the result. The input says
where the scan is to end: behind the opening tag, as for statements, or behind
the whole element, as for dynamic tags. `AttributeReference` puts elements
together from written items, so that what must be found is known beforehand:
an item has a quoted value, no value, or one without quotes (`IsItem`), and what
is scanned begins with the items spelled out, behind which come blanks and the
tag's end, or nothing more (`ItemsAssumption`).

### Encoding and entry points

A file is a sequence of units (byte order marks, markup, Hangul, a lone byte),
each written in one of five encodings. `Unit` says which units there are: markup
is ASCII or in a UTF-16, Hangul in an encoding that has it. `Encoding` has the
chain of `decode`, one definition per step, of which the first that returns
anything counts;
what encoding_rs makes of a unit in a foreign encoding is `Reads`, an external
definition that keeps what the chain depends on: which decoders fail, and how
wide the text becomes. Units are not split: a UTF-16 decoder reads a foreign
unit of even width as other characters and fails on an odd one.

`EntryPoints` is a call of `parse_bytes` and then one of `detect_dialect` on
the same file. The walk between the gates is an instance of `MarkupWalk` with
its own variables; the loop of `detect_dialect_str` runs over an instance of
`XmlReader`.

## Runs

| run | instance | question | states |
|---|---|---|---|
| `flatten` | all bodies of 4 nodes over the branching tags; and over wrappers, chooses, iBatis conditionals with prepends, blank text, binds, includes without refid, each followed by a bind; all bodies of 5 over ifs and a choose with strays in it, the last an if; cap 4, nesting limit 3 | are depth, frames, cap, flag, side channels and the result right through both limits and the fallback? does it end? | 328,656 |
| `flatten_boundary` | wrappers with includes, over the cap | violated, see findings | |
| `markup` | an opened root and all sequences of up to 5 tokens, two names, any end tag anywhere; all sequences of up to 4 tokens with malformed and stuck markup, before, in and after the root | structure or report, spans, agreement of reader and loops, second readings, stray elements, termination | 446,535 |
| `markup_rule1`, `markup_rule2` | an opened root and all sequences of up to 5 tokens: two names, and for rule 2 statements with end tags of any name | violated, see findings | |
| `mapper` | up to 3 statements over ids, databaseIds and selectKeys; up to 2 children over every kind of include at every level | duplicates, includes, dangling refids, deduplication | 331,172 |
| `result_map` | all resultMaps of 5 nodes, nesting limit 2 | levels, worklist, columns, termination | 246,996 |
| `text` | all texts of up to 4 characters in two segments of any type, of 3 in three; wrappers, and wrappers in wrappers, around up to three words, references, CDATA, comments and includes | is the scan independent of segments? do span maps stay sound and true, and the spans of paths exact? do wrappers stay whole? | 331,696 |
| `text_boundary` | as `text`, the scan only | violated, see findings | |
| `attributes` | all opening tags of up to 3 items, 3 ways to close, 3 bodies, both ends of the scan | are the attributes those written? | 143,880 |
| `entry` | all files of up to 4 tokens at the root; every byte order mark and declaration over up to 3 units in any encoding; up to 3 byte order marks before text of up to 24 bytes; size limit 22 | do the two entry points agree, is the encoding right, is anything kept quiet? | 250,451 |
| `entry_guarantee` | byte order marks only | violated, see findings | |

Why these bounds. Flattening: with a cap of 4 two ifs side by side meet it
exactly (2 by 2, the smallest product whose order shows) and a third exceeds
it. With a nesting limit of 3 wrappers stand in wrappers, and a tag in a tag in
a tag is cut; the bodies that hold two of those and exceed the cap as well are
cut in both passes. A choose with something in it that is no branch takes two
more ifs to exceed the cap, hence the fifth node. Markup: five tokens
hold an element, a tag in it, one wrong or missing end tag and something after
it, which is what every anomaly here needs. Mapper: three statements are needed
for a duplicate of a duplicate, two children for a fragment before and after
its include. resultMap: four frames fill the worklist at limit 2, the fifth
node is what is cut. Text: four characters are the shortest placeholder with a
path, cut anywhere; three words are one to strip at either end and one to stay,
or one that both ends claim. Attributes: three items are a name, the same name
again, and another between or after them. Entry: the limit of 22 bytes lies
between the width of the longer texts in their encoding and in UTF-8, so each
gate is the only one to refuse some file; four tokens are something ahead of a
fault ahead of a root and one more.

Deadlock is not checked: every one of these walks is meant to stop.

Every property of a passing run has a mutant in `PROJECT.json`: a definition of
the model changed as a bug would change the code, under which the run finds the
property violated. Mutated definitions stand before the one they replace and
are marked so.

## Fairness

Each specification assumes weak fairness of its next-state relation and no
more. The code is one thread in a loop without waiting, so an enabled turn is
taken. Termination is the only liveness property there is to check; it is
checked for the walk, with a reader that stays put as well, for both flattening
passes, for the resultMap worklist, and for the two entry points together,
where `detect_dialect_str` has a stuck guard of its own.

## Findings

- `flatten_boundary`: README.md:156 says `IncludeAtWrapperBoundary` "is emitted
  whenever" an include stands at the edge of a wrapper. Over the cap it is not:
  the fallback forgets the first pass's diagnostics and its own arm for
  wrappers does not make the check.
- `markup_rule1`: recovery rule 1 (`src/parse.rs:14`) says an unclosed tag is
  closed when its parent closes. `skip_subtree` counts events and does not look
  at names: in `<mapper><select><other></select><select/></mapper>` the first
  `</select>` is an error to the reader and closes nothing, so the statement
  behind it is skipped as part of the unclosed tag.
- `markup_rule2`: recovery rule 2 (`src/parse.rs:16`) says an orphan end tag is
  ignored. The loops ignore it, the reader has lost a name to it. Between
  statements this does no harm, as the test `mm_13` shows; in a statement it
  does: in `<mapper><select></other></select><select/></mapper>` the
  statement's own end tag mismatches too, and the second statement is read as
  part of the first one's body.

  Both runs ask only for the statements between the mapper's start tag and the
  end tag that closes it, of documents with exactly that one fault. What is
  behind the root is trailing content and is ignored by design
  (`scan_trailing_content`).
- `text_boundary`: `src/placeholder.rs:131` says every original segment
  boundary gets an entry of the span map. A segment that starts where a stretch
  is copied from gets none (`l.merged_start > pos`): behind an empty CDATA
  section, text is mapped into the section. `TracesBack` therefore leaves out
  bodies with an empty section.
- `entry_guarantee`: `src/lib.rs:57` guarantees that `detect_dialect` agrees
  with `parse_bytes`. `parse_str` measures the text without leading U+FEFF,
  `detect_dialect_str` with it, so a file that only redundant byte order marks
  take over the limit gets two answers. `DialectsAgree` shows that this is the
  only way they can differ.

Four more places where the text and the code part, seen while modelling and not
turned into runs:

- `src/model.rs:134` says `DanglingRefid` is "Never emitted for iBatis", and
  README.md:163 that it is "only ever emitted for MyBatis". Of a refid without a
  fragment that holds, and `DanglingExact` says so. An include with no refid at
  all is reported with the same code by `lift_includes` (`src/parse.rs:1594`),
  which does not ask for the dialect, and the model does the same. Whether
  iBatis includes of that kind ought to be reported `DanglingExact` leaves
  open: there it only says that nothing else is.
- `src/model.rs:147` says `OversizeInput` is emitted before any decoding, so
  that the cap is on the raw size. `parse_str` measures the decoded text again
  (`src/parse.rs:71`, `ParseStrRefuses`), and a file within the limit whose text
  is longer than its bytes is refused there.
- `src/lib.rs:29` speaks of `mapper: None` for encoding failures, while text
  decoded lossily is walked and yields a mapper if it has a root.
- `src/encoding.rs:50` promises a decoder to reproduce offsets with, which holds
  only for files without a byte order mark of another encoding than the one
  reported (`MarkedAsReported` in `DecoderReproduces`).

What does hold in place of rules 1 and 2 is `StructureOrReport` with
`ReaderAgrees`: such a file never passes without an `UnclosedTag` at the tag
where the two went apart.

## Proofs

TLAPS proves, for every body, cap and nesting limit (`FlattenProofs`):

| theorem | property | argument |
|---|---|---|
| `TypeCorrect` | `TypeOK` | inductive as it stands, one step per action; the lemmas at the head of the module type what `finish_pending` and `try_combine` return |
| `DepthCorrect` | `DepthCountsLevels` | the depth equals the number of body frames; a push adds a frame and one, a pop takes both, the error path takes all frames and their number |
| `DeliveryCorrect` | `WaitingFrames` | a frame is pushed in the same turn its parent starts to wait, and popped in the turn whose answer ends the wait |
| `WorklistCorrect` | `WorklistBounded` | a choose frame always lies on a body frame, so there are at most as many of them as there are levels |
| `CapCorrect` | `AlternativesWithinCap` | every place a list of alternatives comes from checks it or combines under the check |
| `FlagCorrect` | `UnknownFlagIsScoped` | every frame that waits remembers whether the flag was up on account of the frames below it, so what it puts back is right whatever the frames above did |
| `SideChannelsCorrect` | `SideChannelsInDocumentOrder` | everything recorded precedes everything any frame still has ahead, and a frame that waits goes on behind all that the frames above it hold; rests on the numbering of the body |

for every resultMap and nesting limit (`ResultMapProofs`):

| theorem | property | argument |
|---|---|---|
| `TypeCorrect` | `TypeOK` | part of the invariant below |
| `DepthCorrect` | `DepthCountsBodies` | what is pushed is one level down, or, for a discriminator, on a mapping frame of its own level; moving an index on or taking a frame off changes nothing below |
| `WorklistCorrect` | `WorklistBounded` | the levels alone do not bound the worklist, so the invariant adds `PlaceWithinLevel`: a mapping frame is at most at place 2d + 1 for its level d, a discriminator at 2d + 2 |
| `MappingsCorrect` | `MappingsExact` | `Walk`: each frame is on the level of its node, what a frame was reached from resumes behind everything inside that node (`Nested`), and what was wanted is either recorded, and then behind all that is ahead, or ahead (`Recorded`); what a turn passes is never wanted, since below a tag the walk does not reach it reaches nothing (`DeeperStill`, `Skipped`) |

for every element, opening tag and body (`AttributeProofs`):

| theorem | property or invariant | argument |
|---|---|---|
| `NothingFromTheBody` | `StaysInTag`: the scan passes no `>` but inside the quotes of a value it has taken | a name, and what is passed over around it and around the `=`, holds no end of a tag; only a value may, and it is taken whole |
| `AttributesApart` | `OneBehindTheOther`: attributes do not overlap and keep their order, a name holds no stop, a value is closed by the quote that opened it | inductive together with the first; rests on what `Until` and `Past` return, the least of a set of naturals |
| `AttributesAreThoseWritten` | `AttributesExact` | `ReadInv`: behind the m-th item the scan has found as many attributes as are written up to there, in their order and with their bytes |

for every set of documents (`MarkupProofs`):

| theorem | property | argument |
|---|---|---|
| `WellTyped` | `TypeOK` | part of `Framing` |
| `ReaderAlwaysAgrees` | `ReaderAgrees` | part of `Framing`: the loops under way and the levels a skip has counted account for every name the reader has open, unless an end tag has been blamed (`Levels`, `Blamed`) |
| `SpansAlwaysNest` | `SpansNest` | what has been found lies behind one another or inside one another and ends where the walk stands or before; what is still open starts behind all that is closed at its level (`SegmentsNest`, `ElementsNest`) |
| `SubtreesReadToTheirEnd` | `SubtreeReadToItsEnd` | the names opened since a skip began are the same for a reader that starts at the skipped tag (`SkipRun`), so a tag that was closed without blame is closed at the same place (`TagsClosed`, `SubtreeRun`) |
| `NothingBlamedThatNests` | `NoFalseAlarm` | a tag that nests lies on top of the reader's stack, whatever lies below (`OnTop`), and the loop that began at it, or skips over it, counts what it has open (`Counted`); so nothing fails and no loop is cut short in it |
| `StructureIsReportedOrRight` | `StructureOrReport` | in a root that nests the elements and segments gathered are those the walk is done with (`ElementsTold`, `SegmentsTold`), and spans that nest can be in one order only (`ToldInOrder`); as long as nothing is reported the reader's stack is the nesting (`Plain`) |
| `StraysAlwaysReported` | `StrayElementsReported` | the same of what is skipped or self-closed (`StraysTold`), each up to where its tag ends |

for every set of bodies, alphabet and marker (`TextProofs`):

| theorem | property | argument |
|---|---|---|
| `TextTyped` | `TypeOK` | part of the invariant `IInv` |
| `SpanMapsAlwaysSound` | `SpanMapsSound` | every operator of `SqlText` makes a sound text of sound texts (`AppendedSound`, `WithPrefixSound`, `WithoutSuffixSound`, ...), and so does the scan |
| `PathSpansAlwaysExact` | `PathSpansExact` | a scan's runs are segments of one text behind another (`CutFrom`), so what a position in the merged text is from, and what two positions in a row are from, can be read off the source (`PathInv`) |
| `TracesAlwaysBack` | `TracesBack` | the entries of every text fit it (`Fits`): a character has an entry that says where it is from, or goes on where the one before it left off; the scan begins so, and every operator of `SqlText` keeps it so (`TraceInv`) |
| `ScanKeepsPromise` | `PromiseKept` | the scan implements `PlaceholderSpec`, step by step: a plain character is `Copy`, an unterminated expression `GiveUp`, the three replacements are `Substitute`, either end of a scan is `Begin`, and every other step stutters |

for every set of documents, in either dialect (`MapperProofs`):

| theorem | property | argument |
|---|---|---|
| `ResultWellTyped` | `TypeOK` | follows from the invariant below |
| `DuplicatesAsTheyAre` | `DuplicatesReported` | the keys seen are those of the statements so far, and a turn reports the j-th statement it makes exactly if its key is among those or of one before it in the same turn; no two statements share a place, so nobody else's report is taken for it |
| `DialectsKeptApart` | `DialectsApart` | under the hypothesis on the document two statements with one key stand at one place, whether children or selectKeys (`PlacesTold`); so none is a repeated one |
| `DocumentOrder` | `ResultInDocumentOrder` | what a turn adds stands behind all that is there, and lists exactly the places in one child; a sequence in order that lists a set of places is that set in order (`ListedInOrder`) |
| `DanglingAsTheyAre` | `DanglingExact` | the ids registered at the end are those of the fragments of the file, and each owner's includes are its own; what is said while the loop runs is said of missing refids only, so in iBatis, where nothing is added at the end, no refid is reported |
| `AnomaliesOnce` | `EachAnomalyOnce` | `Dedup` keeps the first of each located diagnostic and all the others, and one without a span was added for each capped body and no other |

and for every file and size limit (`EntryProofs`):

| theorem | property | argument |
|---|---|---|
| `DialectsAlwaysAgree` | `DialectsAgree` | a document has one answer: that of its first root or stuck markup. Both loops stand before it or have come to it (`AtRoot`, `WalkInv`), whatever the rest of the walk does, and U+FEFF taken off the front does not move it; nor does it widen the text, so only a text let in by one gate alone is excepted |
| `DecoderAlwaysReproduces` | `DecoderReproduces` | the first step of the chain that returns anything, step by step |
| `TruthAlwaysBelieved` | `TruthBelieved` | every earlier step fails on such a file, and the one of its own encoding reads each unit as written |
| `NothingEverKeptQuiet` | `NothingKeptQuiet` | a walk behind the root without a mapper has reported it (`WalkInv`), and what decoding reports is kept from phase to phase |

The invariant of the text pipeline is `Reading /\ ScanTyped /\ FramesSound /\
Depth`. `ScanTyped` is what makes the scan end in a sound text: the entries so
far increase, the first is at 0, and none lies behind the text copied so far,
so that the junctions of the next stretch come behind all of them; an entry
right at the end is possible, and the last `retain` takes it off (B20).
`FramesSound` says that the pieces of every open tag are sound. That is not
enough for `Close`, which takes a frame off and writes to the one below: it
must not be the body's own. `Depth` says why not: there is one frame more than
tags that opened and did not close, and the tags of a body nest.

A path's span is computed from the offsets of its first and last character in
the merged text; whether they are of one run is read off where the runs start
there, and an empty run starts where the next one does. `PathInv` adds to `IInv`
what settles it: the runs of a scan are the text segments of the body, in order
(`CutFrom`), no byte of the source is in two of them (`OneSegment`), so a path
whose bytes are all of one segment is within one run (`WithinRun`) and the bytes
are the source's own (`OwnByte`); and every path so far is true (`AllTrue`),
which stays so because the body does not change.

`TracesBack` looks at one character and the entry in force there, which may lie
far before it. `Fits` says the same character by character: one right at an
entry is from where the entry says (`Entered`); one without an entry of its own
is the byte right behind its predecessor's, or of the same tag (`Continues`);
and a character of a verbatim segment is the byte it says, one that a tag made
up never is (`Own`). From an entry on, character by character, that gives
`TracesBack` (`ExactStretch`, `TagStretch`). In the scan the junctions of the
runs have entries, so a copied stretch fits as long as no run is empty
(`SliceFits`), which is why bodies with an empty CDATA section are left out.
Stripping is the hard case: the text left begins at a new entry that
`with_prefix` extrapolates from the one in force if the text stripped reads as
the source does (B21). What is copied always does; what is made up never does,
since the source has the tag's "<" where the first character made up has
another (`WithPrefixFits`). For that the characters made up must hold no "<"
(`AttributesAssumption`): they are raw slices of attribute values, in which
entities stay as they are written, and well-formed XML has no "<" there. The
invariant `TraceInv` is `PathInv` and, for these bodies, that all pieces inside
the open tags fit (`FramesFit`) and so does what the scan has copied
(`ScanFits`). TLC checked it on the run's bodies before it was proved.

`ScanKeepsPromise` is a refinement, under the mapping of `TextReference`: the
abstract text is the merged one spelled out, and what has come of it is what
`flush_literal` would have copied by now, so that copying late is no difference
(`FlushedFurther`). What remains is that both find the same stretches and paths.
The abstract specification says where an expression closes by counting: as many
braces of one kind as of the other for the first time. `consume_braced` keeps a
depth, and looks at it at closing braces only. The depth is the difference of
the counts (`BracesCounted`), it moves by one at a time, and so, as long as no
closing brace brings it to zero, it is at least one (`StaysUp`,
`BracesStayUp`). With that, the first closing brace at depth zero is where the
expression closes (`BracedThere`), and if there is none it closes nowhere
(`BracedNot`). Between two delimiters of iBatis the code looks for the next of
its kind and then for a blank before it, the specification for a place with
neither between (`LegacyIs`, `PlainNot`). And what `extract_path` finds between
its cut and the blanks is the path the specification describes by what stands
around it (`PathParts`, `PathPromised`).

`MapperReference` speaks of a finished loop only. The invariant of
`MapperProofs` therefore tells the same of the children passed: the statements
so far list, in document order, the places of the statements and selectKeys in
these children, each is what the document says at its place (id, databaseId,
its own includes), and so for fragments and resultMaps; the three sets of ids
are those of the lists (`StatementsSound`, `FragmentsSound`, `ResultMapsSound`);
and what the diagnostics so far say is exactly what is to be said of these
children (`DiagnosticsSound`), once the loop is over also of what dangles.
Includes need two facts. The first pass sees those at the top of a body, the
second all of them in document order; merging the first into the second gives
back the second (`MergeAbsorbs`), so no include is lost, doubled or out of
place. And the two passes report the same anomaly at the same place, so that
`Dedup`, which keeps all that is said (`DedupSaid`), leaves one. TLC checked the
invariant on the run's documents before it was proved.

`AttributesExact` speaks of a finished scan, `ReadInv` of every turn: there is an
m such that the scan is behind the m-th item, none of the first m is unquoted,
and the attributes found are those that `Written` picks from the first m. Where
the m-th item ends (`Bound`) is a sum of lengths, so an item's bytes are found in
the tag by what is known of sequences end to end (`JoinsHold`, `ItemStands`), and
what a turn computes from them by showing that nothing before is a stop and the
next byte is one (`UntilIs`, `PastIs`). One lemma per form then says what a turn
does behind that item: a bare one is passed over (`BareItem`), a valued one is
taken with its own bytes (`ValuedItem`), at an unquoted one the scan stops
(`UnquotedItem`), and behind the last item only the tag's end is ahead
(`AtItem`). The rest is about picking: the first of a name among the attributes
stands where the first written stands, its duplicates are those written again
(`NamedAgrees`), and since attributes do not overlap, none of these is counted
twice (`NamesApart`). TLC checked `ReadInv` on the run's tags before it was
proved.

For the last three theorems on the markup, `ReaderAgrees` is not enough: it
says how many names are open, and what nests is a matter of which. `Encloses(a,
b)` is the nesting of one tag by itself, whatever stands around it, and the
invariant `Keeps` ties the two stacks the code has, the reader's names and the
loops' counts, to `Nesting(a)` for every tag that encloses the position, not
only for the root. It has to speak of all of them: the tag being skipped, the
ones inside it that are only counted, and on a second reading the tag it began
at, above which the fresh reader knows nothing. Closed tags need a clause too,
that no loop which began there goes on, or an end tag could be counted twice.
`Tale` builds on it: where the walk stands in a root that nests (`Placed`,
`RootPast`), and that what it has told is the part of the reference behind it.
The reference numbers children by counting those before, so a set of spans, in
order, is turned into its sequence by counting (`FirstsCounted`). TLC checked
`Keeps` and `Tale` on the run's documents before they were proved.

`EntryProofs` reasons about sums over a text of any length (`Total`),
`TextProofs` about texts made character by character and run by run. Since no
theorem of induction can be instantiated, the least index that breaks the claim
is taken instead (`NatLeast` and `StepByStep` of `CommonLemmas`).

The assumptions are the named ones of the modules: the limits are positive
naturals or naturals, the bodies are trees of the stated type numbered in
document order, files consist of units, letters are no markup, a scan ends
within its text, the marker is not empty, an attribute or span that is not there
is none of the ids, databaseIds and places, and the characters a wrapper makes up
are in the alphabet and, where they are from an attribute, no "<". For
`AttributesAreThoseWritten` a tag is made of items, each of one of the three
forms, and the scan sees all of it (`ItemsAssumption`); the other two theorems on
attributes hold of any bytes. The listed properties are also checked by TLC in a
run; `StaysInTag` and `OneBehindTheOther`, which hold of every turn, are not, but
`AttributesExact`, which needs the second, is.

Only model-checked: the result of flattening (`PromiseKept` of
`MCFlatten`) and that wrappers stay whole (`WrapsWhole`). Not provable with the
installed provers: termination (liveness under fairness), and what the recursive
reference definitions compute for every input (induction over data).

## Not modelled

- Of the text: letter case (`AND` and `and` are one word), tabs and newlines,
  what the comment left for an include says, and the multiplication of
  alternatives, which is `FlattenBody`'s. In the union pass wrappers are
  transparent and nothing is stripped. `with_prefix`'s check of the split point
  compares text with source; that text made up reads as the source does by
  chance, which takes an attribute with a raw "<" in its value, is outside the
  inputs, for it is no well-formed XML.
- Of the attributes: tags with a quote that belongs to no value. For these
  quick-xml and `scan_attributes` pair quotes differently and so may see the
  opening tag end in different places.
- Of a statement: its kind and the attribute values other than ids, databaseIds
  and refids, which are copied into the result.
- Of the encodings: all but five, and how a decoder resynchronises within a
  unit.
- `src/model.rs` and the wasm binding have no behaviour of their own. Tests,
  fixtures, examples and benches are no part of the program.

## Plan

Done, in this order, the most important behaviour first: the flattening engines
with their abstract specification and proofs; the markup walk with the recovery
rules; mapper building; the resultMap worklist; SQL text, placeholders and span
maps; encoding and the entry points; attributes.

The proofs followed in the same order. What is left is named at the end of
"Proofs".
