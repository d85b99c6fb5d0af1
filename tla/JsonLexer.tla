------------------------------ MODULE JsonLexer -------------------------------
(***************************************************************************)
(* Json::Reader takes a document apart token by token, and says at which   *)
(* line and column a token is.                                             *)
(***************************************************************************)
EXTENDS JsonScan

CONSTANT Documents

(* A pair of carriage return and line feed is whole: of a std::string the  *)
(* byte behind it is NUL.                                                  *)
LexerAssumption == Beyond # LF /\ Documents \subseteq Seq(Int)

VARIABLES document_, current_, tokens
vars == <<document_, current_, tokens>>

Init == document_ \in Documents /\ current_ = 1 /\ tokens = << >>

AtEnd == tokens # << >> /\ Last(tokens).type_ = "EndOfStream" /\ current_ = end(document_)

ReadToken ==
  /\ ~ AtEnd
  /\ Len(tokens) <= Len(document_)        \* the bound of a lexer that stays
  /\ LET token == readToken(document_, current_)
     IN tokens' = Append(tokens, token) /\ current_' = token.end_
  /\ UNCHANGED document_

Next == ReadToken

Spec == Init /\ [][Next]_vars

-------------------------------------------------------------------------------
normalizeEOL(d) ==
  FoldLeftDomain(LAMBDA s, i :
      IF d[i] = LF /\ i > 1 /\ d[i - 1] = CR THEN s
      ELSE Append(s, IF d[i] = CR THEN LF ELSE d[i]),
    << >>, d)

(* Mutant: the line begins with the line feed of the two. *)
LineStartsAtFeed(d, i) ==
  {1} \cup {j + 1 : j \in {k \in 1..i - 1 : d[k] \in {CR, LF}}}

(* Where the lines up to i start; a pair is left as one. *)
LineStarts(d, i) ==
  {1} \cup {j + (IF d[j] = CR /\ At(d, j + 1) = LF THEN 2 ELSE 1) :
              j \in {k \in 1..i - 1 : d[k] = CR \/ (d[k] = LF /\ ~ (k > 1 /\ d[k - 1] = CR))}}

getLocationLineAndColumn(d, i) ==
  [line |-> Cardinality(LineStarts(d, i)), column |-> i - Max(LineStarts(d, i)) + 1]

-------------------------------------------------------------------------------
(* Lexemes, and documents of them. *)
Lexemes ==
  {[type |-> "ArrayBegin", text |-> <<91>>], [type |-> "MemberSeparator", text |-> <<COLON>>],
   [type |-> "Null", text |-> <<110, 117, 108, 108>>],
   [type |-> "String", text |-> <<QUOTE, BACKSLASH, QUOTE, QUOTE>>],
   [type |-> "String", text |-> <<QUOTE, BACKSLASH, BACKSLASH, QUOTE>>],
   [type |-> "Number", text |-> <<MINUS, 49>>],
   [type |-> "Number", text |-> <<49, POINT, 48, 101, PLUS, 49>>],
   [type |-> "Comment", text |-> <<SLASH, STAR, SLASH, STAR, STAR, SLASH>>],
   [type |-> "Comment", text |-> <<SLASH, SLASH, QUOTE, LF>>],
   [type |-> "Comment", text |-> <<SLASH, SLASH, CR, LF>>],
   [type |-> "Comment", text |-> <<SLASH, SLASH, CR>>]}
Blanks == {<< >>, <<SP>>, <<CR, LF>>}
Written(blank, lexemes) == FoldLeft(LAMBDA s, l : s \o l.text \o blank, blank, lexemes)
Separable(blank, lexemes) ==
  blank # << >> \/ \A i \in 1..Len(lexemes) - 1 :
                     /\ ~ (lexemes[i].type = "Number" /\ lexemes[i + 1].type = "Number")
                     /\ ~ (lexemes[i].type = "Null" /\ lexemes[i + 1].type = "Null")
LexemeLists == BoundedSeq(Lexemes, 2)
WrittenDocuments == {Written(b, l) : b \in Blanks, l \in LexemeLists}

(* Lexemes with or without blanks between them are found again as the      *)
(* tokens they are, whatever strings and comments contain.                 *)
LexesWhatWasWritten ==
  AtEnd /\ document_ \in WrittenDocuments =>
           \A blank \in Blanks, l \in LexemeLists :
             Written(blank, l) = document_ /\ Separable(blank, l) =>
               /\ Len(tokens) = Len(l) + 1
               /\ \A i \in 1..Len(l) :
                    /\ tokens[i].type_ = l[i].type
                    /\ tokens[i].end_ - tokens[i].start_ = Len(l[i].text)

(* A token is on the line that the line ends before it make, the same that *)
(* comments are normalised to, and its column counts from one.             *)
LocationsAreRight ==
  \A i \in 1..Len(tokens) :
    LET before == normalizeEOL(SubSeq(document_, 1, tokens[i].start_ - 1))
        location == getLocationLineAndColumn(document_, tokens[i].start_)
        feeds == {j \in 1..Len(before) : before[j] = LF}
    IN /\ location.line = Cardinality(feeds) + 1
       /\ location.column = Len(before) - Max(feeds \cup {0}) + 1
===============================================================================
