------------------------------- MODULE JsonScan -------------------------------
(***************************************************************************)
(* The lexical half of Json::Reader: where a token that begins at a place  *)
(* of the document ends.  A document is a sequence of bytes; the functions *)
(* return [ok, current], the new current_.                                 *)
(***************************************************************************)
EXTENDS SequencesExt, FiniteSetsExt, Integers

CONSTANT Beyond        \* the byte behind the document, which the code looks at

NUL == 0   TAB == 9   LF == 10   CR == 13   SP == 32   QUOTE == 34   STAR == 42
PLUS == 43   COMMA == 44   MINUS == 45   POINT == 46   SLASH == 47   COLON == 58   BACKSLASH == 92
DIGITS == 48..57

end(d) == Len(d) + 1
At(d, i) == IF i < end(d) THEN d[i] ELSE Beyond      \* *i
Next_(d, i) == IF i < end(d) THEN d[i] ELSE NUL       \* getNextChar()

After(d, i) == Min({i + 1, end(d)})                   \* and current_ after it

Found(ok, i) == [ok |-> ok, current |-> i]

(* The first place from i on where Stop holds, or the end. *)
FirstFrom(d, i, Stop(_)) == Min({j \in i..Len(d) : Stop(j)} \cup {end(d)})

skipSpaces(d, i) == FirstFrom(d, i, LAMBDA j : d[j] \notin {SP, TAB, CR, LF})

match(d, i, word) ==
  IF i + Len(word) <= end(d) /\ SubSeq(d, i, i + Len(word) - 1) = word
  THEN Found(TRUE, i + Len(word)) ELSE Found(FALSE, i)

(* Mutant: a backslash escapes the quote only. *)
readStringQuoteOnly(d, i) ==
  LET close == FirstFrom(d, i, LAMBDA j : d[j] = QUOTE /\ ~ (j > i /\ d[j - 1] = BACKSLASH))
  IN Found(close < end(d), After(d, close))

readString(d, i) ==
  LET from[j \in i..end(d)] ==
        IF j = end(d) THEN Found(FALSE, j)
        ELSE IF d[j] = BACKSLASH THEN from[After(d, j + 1)]
        ELSE IF d[j] = QUOTE THEN Found(TRUE, j + 1)
        ELSE from[j + 1]
  IN from[i]

(* The star is looked at together with the byte behind it. *)
readCStyleComment(d, i) ==
  LET star == FirstFrom(d, i, LAMBDA j : d[j] = STAR /\ At(d, j + 1) = SLASH)
      close == After(d, star)
  IN Found(Next_(d, close) = SLASH, After(d, close))

(* The line end belongs to the comment, the one of two bytes too. *)
readCppStyleComment(d, i) ==
  LET eol == FirstFrom(d, i, LAMBDA j : d[j] \in {CR, LF})
  IN Found(TRUE, IF Next_(d, eol) = CR /\ Next_(d, eol + 1) = LF THEN eol + 2 ELSE After(d, eol))

readComment(d, i) ==
  CASE Next_(d, i) = STAR -> readCStyleComment(d, i + 1)
    [] Next_(d, i) = SLASH -> readCppStyleComment(d, i + 1)
    [] OTHER -> Found(FALSE, After(d, i))

(* Digits, a fraction and an exponent, each of which may lack its digits. *)
readNumber(d, i) ==
  LET Digits(j) == FirstFrom(d, j, LAMBDA k : d[k] \notin DIGITS)
      integral == Digits(i)
      fraction == IF Next_(d, integral) = POINT THEN Digits(integral + 1) ELSE integral
      sign == IF Next_(d, fraction + 1) \in {PLUS, MINUS} THEN 1 ELSE 0
  IN IF Next_(d, fraction) \in {69, 101} THEN Digits(fraction + 1 + sign) ELSE fraction

-------------------------------------------------------------------------------
Structural ==
  [c \in {123, 125, 91, 93, COMMA, COLON, NUL} |->
     CASE c = 123 -> "ObjectBegin" [] c = 125 -> "ObjectEnd"
       [] c = 91 -> "ArrayBegin" [] c = 93 -> "ArrayEnd"
       [] c = COMMA -> "ArraySeparator" [] c = COLON -> "MemberSeparator" [] c = NUL -> "EndOfStream"]
Words ==
  [c \in {116, 102, 110} |->
     CASE c = 116 -> [type |-> "True", rest |-> <<114, 117, 101>>]
       [] c = 102 -> [type |-> "False", rest |-> <<97, 108, 115, 101>>]
       [] c = 110 -> [type |-> "Null", rest |-> <<117, 108, 108>>]]

Token(type, start, i) == [type_ |-> type, start_ |-> start, end_ |-> i]
Checked(type, start, found) == Token(IF found.ok THEN type ELSE "Error", start, found.current)

(* The token from i on; a byte that begins none is an error by itself. *)
readToken(d, i) ==
  LET start == skipSpaces(d, i)
      c == Next_(d, start)
      next == After(d, start)
  IN CASE c \in DOMAIN Structural -> Token(Structural[c], start, next)
       [] c \in DOMAIN Words -> Checked(Words[c].type, start, match(d, next, Words[c].rest))
       [] c = QUOTE -> Checked("String", start, readString(d, next))
       [] c = SLASH -> Checked("Comment", start, readComment(d, next))
       [] c \in DIGITS \cup {MINUS} -> Token("Number", start, readNumber(d, next))
       [] OTHER -> Token("Error", start, next)
===============================================================================
