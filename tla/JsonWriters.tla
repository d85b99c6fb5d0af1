------------------------------ MODULE JsonWriters ------------------------------
(***************************************************************************)
(* The three writers, each called once for a value: FastWriter, which      *)
(* writes a single line, StyledWriter, and what StreamWriterBuilder makes. *)
(***************************************************************************)
EXTENDS JsonWritten

CONSTANTS
  FastRoots, StyledRoots,   \* the values that are written
  StreamCases,              \* values, with the settings they are written with
  rightMargin_

VARIABLES writer, root, settings_, document_
vars == <<writer, root, settings_, document_>>

ASSUME MarginAssumption == rightMargin_ \in Nat

Fast == INSTANCE JsonFastWriter
Styled == INSTANCE JsonStyledWriter
Stream == INSTANCE JsonStreamWriter

Unwritten == <<"unwritten">>

Init ==
  /\ \/ writer = "Fast" /\ root \in FastRoots /\ settings_ \in Fast!Options
     \/ writer = "Styled" /\ root \in StyledRoots /\ settings_ = << >>
     \/ /\ writer = "Stream"
        /\ \E case \in StreamCases : root \in case.roots /\ settings_ \in case.settings
  /\ document_ = Unwritten

Write(name, document) ==
  /\ writer = name /\ document_ = Unwritten
  /\ document_' = document
  /\ UNCHANGED <<writer, root, settings_>>

WriteFast == Write("Fast", Fast!write(settings_, root))
WriteStyled == Write("Styled", Styled!write(root).document_)
WriteStream == Write("Stream", Stream!write(settings_, root))

Next == WriteFast \/ WriteStyled \/ WriteStream

Spec == Init /\ [][Next]_vars

-------------------------------------------------------------------------------
Written == document_ # Unwritten

(* Placeholders are dropped: a null is written as nothing at all. *)
Dropping ==
  \/ writer = "Fast" /\ settings_.dropNullPlaceholders_
  \/ writer = "Stream" /\ settings_.dropNullPlaceholders

RECURSIVE Values(_)
Values(n) == {n} \cup UNION {Values(n.items[i]) : i \in 1..size(n)}

(* Without an indentation there are no line breaks, and what follows a     *)
(* line comment is a part of it (4923).                                    *)
LineNeverEnds ==
  /\ writer = "Stream" /\ settings_.commentStyle = "All" /\ ~ settings_.indentation
  /\ \E n \in Values(root), p \in Placements : "//" \in Range(n.comments[p])

(* A blank at the end of a line comment behind a value is taken for an     *)
(* indentation, so that no line break follows (4424).                      *)
BlankIsTaken ==
  /\ writer = "Styled"
  /\ \E n \in Values(root) :
       LET comment == n.comments["commentAfterOnSameLine"]
       IN "//" \in Range(comment) /\ Last(comment) = "SP"

(* What is written reads back as the value: no comment swallows a token,   *)
(* every bracket is closed, and the layout loses or repeats no child.  But *)
(* for two cases, in which a line comment swallows what follows it, and    *)
(* for dropped placeholders: a reader that accepts them reads what was     *)
(* written, unless they do not show at all (`[null]' is `[]').             *)
ReadsBack ==
  Written =>
    \/ ReadsAs(document_, root, Dropping)
    \/ Dropping /\ (root.kind = "null" \/ ~ Shown(root))
    \/ LineNeverEnds
    \/ BlankIsTaken

(* "If the Value have comments then they are outputed" by StyledWriter,    *)
(* the comment style "All" is to "keep all comments", "None" to "drop all  *)
(* comments", and FastWriter is without: each comment is written once, or  *)
(* none of them.                                                           *)
IsComment(piece) == piece \in {"//", "/**/"}
CommentsOf(pieces) == Len(SelectSeq(pieces, IsComment))
RECURSIVE Comments(_)
Comments(n) ==
  MapThenSumSet(LAMBDA p : CommentsOf(n.comments[p]), Placements)
    + FoldLeft(LAMBDA sum, child : sum + Comments(child), 0, n.items)

Commenting ==
  \/ writer = "Styled"
  \/ writer = "Stream" /\ settings_.commentStyle = "All"

CommentsAreWritten ==
  Written => CommentsOf(document_) = IF Commenting THEN Comments(root) ELSE 0
===============================================================================
