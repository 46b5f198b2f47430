------------------------------ MODULE TextPipeline ------------------------------
(***************************************************************************)
(* How the body of a statement becomes SQL text: capture_body's text       *)
(* segments (src/src/parse.rs) are scanned run by run, and at the end tag  *)
(* of each wrapper the pieces inside it are assembled and wrapped, in the  *)
(* order in which the engines of src/src/flatten.rs come to it.  One       *)
(* alternative is followed; how alternatives multiply is FlattenBody's.    *)
(***************************************************************************)
EXTENDS Placeholder, SqlText

CONSTANT Bodies    \* the bodies under consideration

TextType == {"text", "cdata", "ref"}

Wrapper ==
  [kind : {"where", "set", "foreach", "dynamic"}, prefix : Chars, suffix : Chars]
    \cup [kind : {"trim"}, prefix : Chars, suffix : Chars,
          leading : Seq(Chars), trailing : Seq(Chars)]
    \cup [kind : {"is"}, prefix : Chars, prepends : BOOLEAN]

(* A body is text, CDATA, references, comments, includes, and tags that    *)
(* open and close.                                                         *)
BodyEvent ==
  [type : TextType, chars : Chars] \cup [type : {"comment", "include", "close"}]
    \cup [type : {"open"}, wrapper : Wrapper]

(* No tag closes that did not open.                                        *)
Nests(b) ==
  \A n \in 0 .. Len(b) :
    Cardinality({k \in 1 .. n : b[k].type = "close"})
      <= Cardinality({k \in 1 .. n : b[k].type = "open"})

(* How an event is spelled: delimiters are one character wide, a reference *)
(* three.                                                                  *)
Raw(e) ==
  CASE e.type = "text" -> e.chars
    [] e.type = "cdata" -> <<"<">> \o e.chars \o <<">">>
    [] e.type = "ref" -> <<"&", "r", ";">>
    [] OTHER -> <<"<">>

(* Text is never empty, and a reference stands for one character; one that *)
(* cannot be resolved stands for itself.                                   *)
Captured(b) ==
  \A k \in DOMAIN b :
    /\ b[k].type = "text" => b[k].chars # << >>
    /\ b[k].type = "ref" => Len(b[k].chars) = 1 \/ b[k].chars = Raw(b[k])

ASSUME BodiesAssumption == \A b \in Bodies : b \in Seq(BodyEvent) /\ Nests(b) /\ Captured(b)
ASSUME AlphabetAssumption == {" ", "/*", "*/"} \subseteq Alphabet
ASSUME AndOrAssumption == AndOr \subseteq Chars

(* No attribute of well-formed XML has a "<" in its value.                 *)
ASSUME AttributesAssumption ==
  \A b \in Bodies : \A k \in DOMAIN b :
    b[k].type = "open" =>
      LET w == b[k].wrapper
      IN  /\ \A n \in DOMAIN w.prefix : w.prefix[n] # "<"
          /\ w.kind # "is" => \A n \in DOMAIN w.suffix : w.suffix[n] # "<"

VARIABLES
  body,     \* the events of the body
  next,     \* how many are read
  frames,   \* the open tags, each with the pieces inside it so far
  sql       \* the finished text

vars == <<dialect, scanVars, paths, diags, body, next, frames, sql>>

NoSql == [text |-> << >>, map |-> << >>]

-------------------------------------------------------------------------------
SourceUpTo == Joins([k \in DOMAIN body |-> Raw(body[k])])
Source == SourceUpTo[Len(body)]
StartOf(k) == Len(SourceUpTo[k - 1])

(* The text arms of capture_body: the span of CDATA is its content's.      *)
Segment(k) ==
  LET delimiter == IF body[k].type = "cdata" THEN 1 ELSE 0
  IN  [decoded |-> body[k].chars,
       start |-> StartOf(k) + delimiter,
       end |-> StartOf(k) + Len(Raw(body[k])) - delimiter]

Here == body[next + 1]
AtEvent(type) == ~ scanning /\ next < Len(body) /\ Here.type = type

(* Where the run of text that starts here ends; a comment does not part it.*)
RunEnd ==
  Min({Len(body)} \cup {k \in next .. Len(body) - 1 :
                          body[k + 1].type \notin TextType \cup {"comment"}})

TextsIn(from, to) ==
  Only([k \in 1 .. to |-> k], {k \in from + 1 .. to : body[k].type \in TextType})

Top == frames[Len(frames)]
Push(piece) == [frames EXCEPT ![Len(frames)].pieces = Append(@, piece)]

-------------------------------------------------------------------------------
Scan == ScanStep /\ UNCHANGED <<body, next, frames, sql>>

BeginRun ==
  /\ \E type \in TextType : AtEvent(type)
  /\ LET ks == TextsIn(next, RunEnd)
     IN  BeginScan([n \in DOMAIN ks |-> Segment(ks[n])])
  /\ next' = RunEnd
  /\ UNCHANGED <<dialect, paths, diags, body, frames, sql>>

EndRun ==
  /\ scanning /\ i = Len(Merged)
  /\ frames' = Push(NormalizedPiece(Normalized))
  /\ EndScan
  /\ UNCHANGED <<dialect, paths, diags, body, next, sql>>

(* A comment ahead of the text is no event of the body.                    *)
Comment ==
  /\ AtEvent("comment")
  /\ next' = next + 1
  /\ UNCHANGED <<dialect, scanVars, paths, diags, body, frames, sql>>

Include ==
  /\ AtEvent("include")
  /\ frames' = Push(IncludePiece(StartOf(next + 1)))
  /\ next' = next + 1
  /\ UNCHANGED <<dialect, scanVars, paths, diags, body, sql>>

Open ==
  /\ AtEvent("open")
  /\ frames' = Append(frames, [wrapper |-> Here.wrapper, start |-> StartOf(next + 1),
                               pieces |-> << >>])
  /\ next' = next + 1
  /\ UNCHANGED <<dialect, scanVars, paths, diags, body, sql>>

Close ==
  /\ AtEvent("close")
  /\ LET outer == Front(frames)
         closed == ClosedPieces(Source, Top.wrapper, Top.pieces, Top.start)
     IN  frames' = [outer EXCEPT ![Len(outer)].pieces = @ \o closed]
  /\ next' = next + 1
  /\ UNCHANGED <<dialect, scanVars, paths, diags, body, sql>>

(* flatten_body assembles what the body itself holds.                      *)
Finish ==
  /\ ~ scanning /\ next = Len(body) /\ frames # << >>
  /\ sql' = Assembled(Top.pieces)
  /\ frames' = << >>
  /\ UNCHANGED <<dialect, scanVars, paths, diags, body, next>>

Init ==
  /\ dialect \in Dialect
  /\ body \in Bodies
  /\ next = 0
  /\ frames = <<[wrapper |-> [kind |-> "body"], start |-> 0, pieces |-> << >>]>>
  /\ sql = NoSql
  /\ scanning = FALSE /\ runs = << >> /\ i = 0 /\ copyStart = 0
  /\ text = << >> /\ map = << >> /\ paths = << >> /\ diags = << >>

Next ==
  \/ Scan \/ BeginRun \/ EndRun
  \/ Comment \/ Include \/ Open \/ Close
  \/ Finish

(* One thread does it all, so an enabled step is taken.                    *)
Spec == Init /\ [][Next]_vars /\ WF_vars(Next)
===============================================================================
