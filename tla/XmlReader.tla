------------------------------- MODULE XmlReader -------------------------------
(***************************************************************************)
(* The pull reader of the quick-xml crate, as src/src/parse.rs uses it: a  *)
(* cursor over a document cut into tokens, and a stack of the names it     *)
(* holds open.  External code: what is stated here is what the recovery    *)
(* comments of parse.rs and the recorded results under src/fixtures show   *)
(* of it (fixtures/mybatis/orphan_closing_tag_recovery.expected.json: a    *)
(* closing tag that does not match is an error and closes what is open).   *)
(*                                                                         *)
(* A token is one position wide.  What text says is left out, and so are   *)
(* attributes.                                                             *)
(***************************************************************************)
EXTENDS Integers, Sequences

(* Element names as far as the walk over the markup tells them apart;      *)
(* "other" is anything it has no arm for, dynamic tags included.           *)
RootName == {"mapper", "sqlMap"}
CapturedName == {"select", "sql", "resultMap"}
IgnorableName == {"cache"}
TagName == RootName \cup CapturedName \cup IgnorableName \cup {"other"}

TagType == {"start", "empty", "end"}

(***************************************************************************)
(* "text" is an event that yields text and nothing to report: plain text,  *)
(* CDATA, a reference that resolves.  "amp" is a dangling & or a reference *)
(* that does not resolve.  "comment" stands for the events every loop      *)
(* ignores.  "bad" is malformed markup the reader gets past; "stuck" is    *)
(* markup at which every read fails, which the loops guard against.        *)
(***************************************************************************)
Token ==
  [type : TagType, name : TagName]
    \cup [type : {"text", "amp", "comment", "bad", "stuck"}, name : {"none"}]

VARIABLES
  doc,     \* the document
  limit,   \* where the source handed to the reader ends
  pos,     \* buffer_position: how many tokens are consumed
  open     \* the names of the elements the reader holds open

AtEof == pos = limit
Tok == doc[pos + 1]

Sees(types) == ~ AtEof /\ Tok.type \in types

(* read_event answers Ok(End) only to the name that was opened last.       *)
Closes == Sees({"end"}) /\ open # << >> /\ Tok.name = open[Len(open)]

Fails == Sees({"bad", "stuck"}) \/ (Sees({"end"}) /\ ~ Closes)

(* One read_event that is not at the end of the source.  A closing tag     *)
(* drops the innermost open name whether or not it matches it.             *)
Read ==
  /\ pos' = IF Tok.type = "stuck" THEN pos ELSE pos + 1
  /\ open' = IF Tok.type = "start" THEN Append(open, Tok.name)
             ELSE IF Tok.type = "end" /\ open # << >>
             THEN SubSeq(open, 1, Len(open) - 1)
             ELSE open
  /\ UNCHANGED <<doc, limit>>

(* A fresh Reader over tokens from + 1 .. to, whose first read_event gave  *)
(* Ok(Start).                                                              *)
OpenOver(from, to) ==
  /\ limit' = to
  /\ pos' = from + 1
  /\ open' = <<doc[from + 1].name>>
  /\ UNCHANGED doc
===============================================================================
