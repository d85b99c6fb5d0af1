--------------------------- MODULE JsonStreamWriter ---------------------------
(***************************************************************************)
(* Json::StreamWriterBuilder and the writer it makes: what was written is  *)
(* out of reach, so indented_ remembers whether the line is indented, and  *)
(* without an indentation there are no line breaks at all.                 *)
(***************************************************************************)
EXTENDS JsonWritten, Integers

CONSTANT rightMargin_

(* The settings: indentation says whether there is one.                    *)
AllSettings ==
  [indentation : BOOLEAN, commentStyle : {"All", "None"},
   enableYAMLCompatibility : BOOLEAN, dropNullPlaceholders : BOOLEAN]

setDefaults == [indentation |-> TRUE, commentStyle |-> "All",
                enableYAMLCompatibility |-> FALSE, dropNullPlaceholders |-> FALSE]

colonSymbol(s) ==
  CASE s.enableYAMLCompatibility -> <<":", "SP">>
    [] ~ s.enableYAMLCompatibility /\ ~ s.indentation -> <<":">>
    [] ~ s.enableYAMLCompatibility /\ s.indentation -> <<"SP", ":", "SP">>

newStreamWriter(s) ==
  [indentation_ |-> s.indentation, cs_ |-> s.commentStyle, colonSymbol_ |-> colonSymbol(s),
   nullSymbol_ |-> IF s.dropNullPlaceholders THEN << >> ELSE <<"null">>,
   document |-> << >>, indent |-> 0, indented_ |-> FALSE, childValues_ |-> << >>, addChildValues_ |-> FALSE]

-------------------------------------------------------------------------------
Put(w, pieces) == [w EXCEPT !.document = @ \o pieces]

pushValue(w, pieces) ==
  IF w.addChildValues_ THEN [w EXCEPT !.childValues_ = Append(@, pieces)] ELSE Put(w, pieces)

indentString(w) == IF w.indentation_ /\ w.indent > 0 THEN <<"SP">> ELSE << >>

writeIndent(w) == IF w.indentation_ THEN Put(w, <<"NL">> \o indentString(w)) ELSE w

IndentOnce(w) == IF w.indented_ THEN w ELSE writeIndent(w)
Indented(w, yes) == [w EXCEPT !.indented_ = yes]

writeWithIndent(w, pieces) == Indented(Put(IndentOnce(w), pieces), FALSE)

indent(w) == [w EXCEPT !.indent = @ + 1]
unindent(w) == [w EXCEPT !.indent = @ - 1]

(* A line of the comment that begins with a comment is indented. *)
writeCommentBeforeValue(w, n) ==
  LET comment == n.comments["commentBefore"]
      Piece(x, i) ==
        Put(x, <<comment[i]>> \o IF comment[i] = "NL" /\ i < Len(comment) /\ comment[i + 1] \in {"//", "/**/"}
                                 THEN indentString(x) ELSE << >>)
  IN IF w.cs_ = "None" \/ comment = << >> THEN w
     ELSE Indented(FoldLeftDomain(Piece, IndentOnce(w), comment), FALSE)

(* Mutant: the comment behind the value is written in any style. *)
writeCommentBehindAlways(w, n) ==
  IF hasComment(n, "commentAfter") THEN Put(writeIndent(w), n.comments["commentAfter"]) ELSE w

writeCommentAfterValueOnSameLine(w, n) ==
  LET SameLine(x) == IF hasComment(n, "commentAfterOnSameLine")
                     THEN Put(x, <<"SP">> \o n.comments["commentAfterOnSameLine"]) ELSE x
      After(x) == IF hasComment(n, "commentAfter")
                  THEN Put(writeIndent(x), n.comments["commentAfter"]) ELSE x
  IN IF w.cs_ = "None" THEN w ELSE After(SameLine(w))

-------------------------------------------------------------------------------
Width(piece) == CASE piece = "null" -> 4 [] piece = "a" -> 3 [] OTHER -> 1
Length(pieces) == FoldLeft(LAMBDA sum, piece : sum + Width(piece), 0, pieces)

RECURSIVE writeValue(_, _)

(* Whether the array takes several lines, and the writer that found out: the *)
(* children of one that may fit on a line are left in childValues_.          *)
isMultineArray(w, n) ==
  LET cleared == [w EXCEPT !.childValues_ = << >>]
      written == [FoldLeft(writeValue, [cleared EXCEPT !.addChildValues_ = TRUE], n.items)
                    EXCEPT !.addChildValues_ = FALSE]
      lineLength == 4 + (size(n) - 1) * 2
                      + FoldLeft(LAMBDA sum, child : sum + Length(child), 0, written.childValues_)
  IN IF \/ size(n) * 3 >= rightMargin_
        \/ \E i \in 1..size(n) : n.items[i].kind \in {"array", "object"} /\ size(n.items[i]) > 0
     THEN [yes |-> TRUE, writer |-> cleared]
     ELSE [yes |-> lineLength >= rightMargin_ \/ \E i \in 1..size(n) : hasCommentForValue(n.items[i]),
           writer |-> written]

(* With all comments kept, every array takes several lines. *)
Layout(w, n) == IF w.cs_ = "All" THEN [yes |-> TRUE, writer |-> w] ELSE isMultineArray(w, n)

Comma(w, n, i) == IF i < size(n) THEN Put(w, <<",">>) ELSE w

Child(w, n, i, hasChildValue) ==
  LET child == n.items[i]
      x == writeCommentBeforeValue(w, child)
      y == IF hasChildValue THEN writeWithIndent(x, x.childValues_[i])
           ELSE Indented(writeValue(Indented(IndentOnce(x), TRUE), child), FALSE)
  IN writeCommentAfterValueOnSameLine(Comma(y, n, i), child)

OnOneLine(w) ==
  LET margin == IF w.indentation_ THEN <<"SP">> ELSE << >>
  IN Put(w, <<"[">> \o margin
               \o FoldLeftDomain(LAMBDA s, i : s \o (IF i > 1 THEN <<",", "SP">> ELSE << >>) \o w.childValues_[i],
                                 << >>, w.childValues_)
               \o margin \o <<"]">>)

writeArrayValue(w, n) ==
  LET layout == Layout(w, n)
      x == layout.writer
      hasChildValue == x.childValues_ # << >>
  IN IF size(n) = 0 THEN pushValue(w, <<"[", "]">>)
     ELSE IF ~ layout.yes THEN OnOneLine(x)
     ELSE writeWithIndent(unindent(FoldLeftDomain(LAMBDA y, i : Child(y, n, i, hasChildValue),
                                                  indent(writeWithIndent(x, <<"[">>)), n.items)), <<"]">>)

Member(w, n, i) ==
  LET child == n.items[i]
      x == writeWithIndent(writeCommentBeforeValue(w, child), <<n.names[i]>>)
      y == writeValue(Put(x, x.colonSymbol_), child)
  IN writeCommentAfterValueOnSameLine(Comma(y, n, i), child)

writeObjectValue(w, n) ==
  IF size(n) = 0 THEN pushValue(w, <<"{", "}">>)
  ELSE writeWithIndent(unindent(FoldLeftDomain(LAMBDA y, i : Member(y, n, i),
                                               indent(writeWithIndent(w, <<"{">>)), n.items)), <<"}">>)

writeValue(w, n) ==
  CASE n.kind = "null" -> pushValue(w, w.nullSymbol_)
    [] n.kind = "a" -> pushValue(w, <<"a">>)
    [] n.kind = "array" -> writeArrayValue(w, n)
    [] n.kind = "object" -> writeObjectValue(w, n)

(* The builder's endingLineFeedSymbol_ is empty. *)
write(s, n) ==
  LET w == writeCommentBeforeValue(Indented(newStreamWriter(s), TRUE), n)
  IN writeCommentAfterValueOnSameLine(writeValue(Indented(IndentOnce(w), TRUE), n), n).document
===============================================================================
