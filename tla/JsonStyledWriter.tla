--------------------------- MODULE JsonStyledWriter ---------------------------
(***************************************************************************)
(* Json::StyledWriter: one child on a line, indented, with the comments;   *)
(* short arrays of scalars on one line.  The members of the writer are a   *)
(* record that the functions hand on.                                      *)
(***************************************************************************)
EXTENDS JsonWritten, Integers

CONSTANT rightMargin_

Fresh == [document_ |-> << >>, indent |-> 0, childValues_ |-> << >>, addChildValues_ |-> FALSE]

Put(w, pieces) == [w EXCEPT !.document_ = @ \o pieces]

pushValue(w, pieces) ==
  IF w.addChildValues_ THEN [w EXCEPT !.childValues_ = Append(@, pieces)] ELSE Put(w, pieces)

(* A blank at the end is taken for an indentation. *)
writeIndent(w) ==
  LET last == IF w.document_ = << >> THEN "NL" ELSE Last(w.document_)
      tabs == IF w.indent > 0 THEN <<"SP">> ELSE << >>
  IN CASE last = "SP" -> w
       [] last = "NL" -> Put(w, tabs)
       [] last \notin {"SP", "NL"} -> Put(w, <<"NL">> \o tabs)

writeWithIndent(w, pieces) == Put(writeIndent(w), pieces)

Open(w, bracket) == [writeWithIndent(w, <<bracket>>) EXCEPT !.indent = @ + 1]
Close(w, bracket) == writeWithIndent([w EXCEPT !.indent = @ - 1], <<bracket>>)

(* A line of the comment that begins with a comment is indented. *)
writeCommentBeforeValue(w, n) ==
  LET comment == n.comments["commentBefore"]
      Piece(x, i) ==
        LET y == Put(x, <<comment[i]>>)
        IN IF comment[i] = "NL" /\ i < Len(comment) /\ comment[i + 1] \in {"//", "/**/"}
           THEN writeIndent(y) ELSE y
  IN IF comment = << >> THEN w
     ELSE Put(FoldLeftDomain(Piece, writeIndent(Put(w, <<"NL">>)), comment), <<"NL">>)

After(w, n) ==
  IF hasComment(n, "commentAfter")
  THEN Put(w, <<"NL">> \o n.comments["commentAfter"] \o <<"NL">>) ELSE w

writeCommentAfterValueOnSameLine(w, n) ==
  After(IF hasComment(n, "commentAfterOnSameLine")
        THEN Put(w, <<"SP">> \o n.comments["commentAfterOnSameLine"]) ELSE w, n)

-------------------------------------------------------------------------------
Width(piece) == CASE piece = "null" -> 4 [] piece = "a" -> 3 [] OTHER -> 1
Length(pieces) == FoldLeft(LAMBDA sum, piece : sum + Width(piece), 0, pieces)

IsContainer(n) == n.kind \in {"array", "object"}

RECURSIVE writeValue(_, _)

(* The layout: the children of an array that may fit on a line are written *)
(* to childValues_ for that.                                               *)
Children(w, n) ==
  [FoldLeft(writeValue, [w EXCEPT !.childValues_ = << >>, !.addChildValues_ = TRUE], n.items)
     EXCEPT !.addChildValues_ = FALSE]

TooMany(n) == size(n) * 3 >= rightMargin_
Nested(n) == \E i \in 1..size(n) : IsContainer(n.items[i]) /\ size(n.items[i]) > 0

lineLength(w, n) ==
  4 + (size(n) - 1) * 2 + FoldLeft(LAMBDA sum, child : sum + Length(child), 0, w.childValues_)

isMultineArray(w, n) ==
  \/ TooMany(n) \/ Nested(n)
  \/ \E i \in 1..size(n) : hasCommentForValue(n.items[i])
  \/ lineLength(Children(w, n), n) >= rightMargin_

AfterLayout(w, n) ==
  IF TooMany(n) \/ Nested(n) THEN [w EXCEPT !.childValues_ = << >>] ELSE Children(w, n)

Comma(w, n, i) == IF i < size(n) THEN Put(w, <<",">>) ELSE w

(* Mutant: the comment is written before the comma. *)
ChildCommentFirst(w, n, i, hasChildValue) ==
  LET child == n.items[i]
      x == writeCommentBeforeValue(w, child)
      y == IF hasChildValue THEN writeWithIndent(x, x.childValues_[i])
           ELSE writeValue(writeIndent(x), child)
  IN Comma(writeCommentAfterValueOnSameLine(y, child), n, i)

Child(w, n, i, hasChildValue) ==
  LET child == n.items[i]
      x == writeCommentBeforeValue(w, child)
      y == IF hasChildValue THEN writeWithIndent(x, x.childValues_[i])
           ELSE writeValue(writeIndent(x), child)
  IN writeCommentAfterValueOnSameLine(Comma(y, n, i), child)

OnOneLine(w) ==
  Put(w, <<"[", "SP">>
           \o FoldLeftDomain(LAMBDA s, i : s \o (IF i > 1 THEN <<",", "SP">> ELSE << >>) \o w.childValues_[i],
                             << >>, w.childValues_)
           \o <<"SP", "]">>)

writeArrayValue(w, n) ==
  LET x == AfterLayout(w, n)
      hasChildValue == x.childValues_ # << >>
  IN IF size(n) = 0 THEN pushValue(w, <<"[", "]">>)
     ELSE IF isMultineArray(w, n)
     THEN Close(FoldLeftDomain(LAMBDA y, i : Child(y, n, i, hasChildValue), Open(x, "["), n.items), "]")
     ELSE OnOneLine(x)

Member(w, n, i) ==
  LET child == n.items[i]
      x == writeWithIndent(writeCommentBeforeValue(w, child), <<n.names[i]>>)
      y == writeValue(Put(x, <<"SP", ":", "SP">>), child)
  IN writeCommentAfterValueOnSameLine(Comma(y, n, i), child)

writeObjectValue(w, n) ==
  IF size(n) = 0 THEN pushValue(w, <<"{", "}">>)
  ELSE Close(FoldLeftDomain(LAMBDA y, i : Member(y, n, i), Open(w, "{"), n.items), "}")

writeValue(w, n) ==
  CASE n.kind \in Scalar -> pushValue(w, <<n.kind>>)
    [] n.kind = "array" -> writeArrayValue(w, n)
    [] n.kind = "object" -> writeObjectValue(w, n)

write(n) ==
  Put(writeCommentAfterValueOnSameLine(writeValue(writeCommentBeforeValue(Fresh, n), n), n), <<"NL">>)
===============================================================================
