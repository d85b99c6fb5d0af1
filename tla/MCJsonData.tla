------------------------------ MODULE MCJsonData ------------------------------
(* The parts of JsonData for TLC.  In a behaviour one of them is at work; the *)
(* variables of the others stay as they are before a call.                    *)
EXTENDS JsonData

VARIABLE part

lexer_vars == <<current_, tokens>>
text_vars == <<written, decoded>>
convert_vars == <<operand, answer>>
path_vars == <<path, in, current, args_, call>>

NoLexer == document_ = << >> /\ current_ = 1 /\ tokens = << >>
NoText == written = Text!Nothing /\ decoded = Text!Nothing
NoConvert == operand = [type |-> "null", twice |-> 0] /\ answer = Convert!Unasked
NoPath == path = << >> /\ in = << >> /\ current = 1 /\ args_ = << >> /\ call = Path!NoCall

MCInit ==
  /\ Init
  /\ \/ part \in {"value", "text"} /\ NoLexer /\ NoText /\ NoConvert /\ NoPath
     \/ part = "lexer" /\ Lexer!Init /\ NoText /\ NoConvert /\ NoPath
     \/ part = "convert" /\ Convert!Init /\ NoLexer /\ NoText /\ NoPath
     \/ part = "path" /\ Path!Init /\ NoLexer /\ NoText /\ NoConvert

MCNext ==
  \/ part = "value" /\ Next
       /\ UNCHANGED <<part, document_, lexer_vars, text_vars, convert_vars, path_vars>>
  \/ part = "lexer" /\ Lexer!Next
       /\ UNCHANGED <<part, vars, text_vars, convert_vars, path_vars>>
  \/ part = "text" /\ Text!Next
       /\ UNCHANGED <<part, vars, lexer_vars, convert_vars, path_vars>>
  \/ part = "convert" /\ Convert!Next
       /\ UNCHANGED <<part, vars, document_, lexer_vars, text_vars, path_vars>>
  \/ part = "path" /\ Path!Next
       /\ UNCHANGED <<part, vars, document_, lexer_vars, text_vars, convert_vars>>

MCSpec ==
  MCInit /\ [][MCNext]_<<part, vars, document_, lexer_vars, text_vars, convert_vars, path_vars>>

-------------------------------------------------------------------------------
(* What the instances are given, made with their own operators. *)
LexerInput == INSTANCE JsonLexer WITH Documents <- {}
TextInput == INSTANCE JsonText WITH Values <- {}, Texts <- {}
PathInput == INSTANCE JsonPath WITH Paths <- {}, Parameters <- {}, Roots <- {}

(* Documents of lexemes, and any four of the bytes that matter.               *)
MCDocuments ==
  LexerInput!WrittenDocuments \cup
    BoundedSeq({LexerInput!QUOTE, LexerInput!BACKSLASH, LexerInput!SLASH,
                LexerInput!STAR, LexerInput!CR, LexerInput!LF,
                LexerInput!POINT, LexerInput!MINUS, LexerInput!NUL, 49, 101, 110}, 4)

(* The integers around the edges (16 bits instead of 64, 8 instead of 32),    *)
(* and strings of all kinds of bytes.                                         *)
Edges == {TextInput!minLargestInt, -maxInt - 1, 0, maxInt, maxLargestInt, TextInput!maxLargestUInt}
Bytes == {TextInput!NUL, 1, 31, TextInput!LF, TextInput!QUOTE, TextInput!BACKSLASH,
          TextInput!SLASH, 117, 48, 200}
MCValues ==
  {[type |-> "integer", value |-> n] :
     n \in UNION {e - 12..e + 12 : e \in Edges} \cap TextInput!minLargestInt..TextInput!maxLargestUInt}
    \cup {[type |-> t, value |-> s] : t \in {"string", "name"}, s \in BoundedSeq(Bytes, 3)}

(* Digits with and without a sign or a zero in front, around the edges and    *)
(* with one digit too many; numbers of all shapes, and such as an exponent    *)
(* moves to either side of the largest double; escapes, whole and not.        *)
Around ==
  UNION {e - 12..e + 12 :
           e \in {12} \cup {f * t : f \in {1, 10}, t \in {maxLargestInt, TextInput!maxLargestUInt}}}
Units ==
  {<< >>, <<92>>, <<92, 117, 48, 48>>, <<65>>}
    \cup {TextInput!UnicodeEscape(u) : u \in {65, 55357, 56832}}
MCTexts ==
  {sign \o zero \o TextInput!uintToString(n) :
     sign \in {<< >>, <<TextInput!MINUS>>}, zero \in {<< >>, <<48>>}, n \in Around}
    \cup {<<b>> \o s : b \in {TextInput!MINUS, 49}, s \in BoundedSeq({48, 46, 101, 43, 45}, 3)}
    \cup {s \o <<101>> \o e : s \in {<<51>>, <<52>>, <<51, 46, 51>>, <<45, 46, 51, 50>>},
                             e \in {<<53>>, <<43, 53>>, <<45, 53>>, <<54>>}}
    \cup {TextInput!Quoted(a \o b) : a, b \in Units}
    \cup {TextInput!Escapes(cp) : cp \in TextInput!CodePoints}

(* Doubles lie further apart the larger they are; an integer between two of   *)
(* them is rounded to the nearest.                                            *)
Step(n) ==
  CASE n \in -Exact..Exact -> 1
    [] n \in -2 * Exact..2 * Exact /\ n \notin -Exact..Exact -> 2
    [] n \notin -2 * Exact..2 * Exact -> 4
MCdouble(n) == ((n + Step(n) \div 2) \div Step(n)) * Step(n)
MCReals ==
  {2 * n : n \in {k \in -maxInt64OfValue - 5..2 * maxInt64OfValue + 6 : MCdouble(k) = k}}
    \cup {2 * n + 1 : n \in -(Exact \div 2)..Exact \div 2 - 1}

ASSUME LexerAssumption == Lexer!LexerAssumption
ASSUME TextAssumption == Text!TextAssumption
ASSUME ConvertAssumption == Convert!ConvertAssumption
ASSUME PathAssumption == Path!PathAssumption

(* Documented expressions, with parameters and without.                       *)
MCPaths ==
  {PathInput!Text(s) : s \in BoundedSeq(PathInput!Segments, 3)}
    \cup {PathInput!Text(s) : s \in
            BoundedSeq(PathInput!Segments \cup {[kind |-> k, text |-> <<"%">>] : k \in {"key", "index"}}, 2)}
MCParameters ==
  LET name == PathInput!MemberName(<<"a">>)
      index == PathInput!Index(1)
  IN  {<<name, index>>, <<index, name>>}

(* Scalars, a member or elements, and one more below those.                   *)
Flat == {<< >> :> kind : kind \in {"null", "scalar", "array", "object"}}
Below(arg, root) == [p \in {<<arg>> \o q : q \in DOMAIN root} |-> root[Tail(p)]]
AroundValues(roots) ==
  {(<< >> :> "object") @@ Below(PathInput!MemberName(<<"a">>), r) : r \in roots}
    \cup {(<< >> :> "array") @@ Below(PathInput!Index(0), r) @@ Below(PathInput!Index(1), s) :
             r \in Flat, s \in roots}
MCRoots == Flat \cup AroundValues(Flat) \cup AroundValues(AroundValues(Flat))
===============================================================================
