------------------------------- MODULE JsonText -------------------------------
(***************************************************************************)
(* How numbers and strings become text and text becomes numbers and        *)
(* strings again: what the writers print, what Json::Reader decodes.       *)
(***************************************************************************)
EXTENDS JsonScan

CONSTANTS
  Values,              \* the values that are written
  Texts,               \* the documents of one token that come from elsewhere
  maxLargestInt,       \* 2^63 - 1
  maxInt,              \* 2^31 - 1
  maxDouble            \* the largest integer that does not overflow a double

VARIABLES written, document_, decoded
vars == <<written, document_, decoded>>

maxLargestUInt == 2 * maxLargestInt + 1
minLargestInt == -maxLargestInt - 1

Byte == 0..255

(* Limits of two's complement; values of their types, texts of bytes.      *)
TextAssumption ==
  /\ maxLargestInt \in Nat /\ maxLargestInt >= 10 /\ maxInt \in Nat /\ maxDouble \in Nat
  /\ Values \subseteq [type : {"integer"}, value : minLargestInt..maxLargestUInt]
                        \cup [type : {"string", "name"}, value : Seq(Byte)]
  /\ Texts \subseteq Seq(Byte)

Nothing == [type |-> "nothing"]
Number(type, n) == [type |-> type, value |-> n]
String(bytes) == [type |-> "string", value |-> bytes]
Error == [type |-> "error"]

-------------------------------------------------------------------------------
uintToString(n) ==
  LET digits[i \in 0..n] == (IF i < 10 THEN << >> ELSE digits[i \div 10]) \o <<48 + (i % 10)>>
  IN digits[n]

valueToString(n) ==
  CASE n = minLargestInt -> <<MINUS>> \o uintToString(maxLargestInt + 1)
    [] minLargestInt < n /\ n < 0 -> <<MINUS>> \o uintToString(-n)
    [] n >= 0 -> uintToString(n)

Letter ==
  [c \in {8, 12, LF, CR, TAB} |->
     CASE c = 8 -> 98 [] c = 12 -> 102 [] c = LF -> 110 [] c = CR -> 114 [] c = TAB -> 116]
isControlCharacter(c) == c \in 1..31

HexDigit(n) == IF n < 10 THEN 48 + n ELSE 55 + n
UnicodeEscape(n) ==
  <<BACKSLASH, 117>> \o [i \in 1..4 |-> HexDigit((n \div <<4096, 256, 16, 1>>[i]) % 16)]

escaped(c) ==
  IF c \in {QUOTE, BACKSLASH} THEN <<BACKSLASH, c>>
  ELSE IF c \in DOMAIN Letter THEN <<BACKSLASH, Letter[c]>>
  ELSE IF isControlCharacter(c) \/ c = NUL THEN UnicodeEscape(c)
  ELSE <<c>>

(* Mutant: the backslash is missing in the list. *)
needsEscapesNoBackslash(s) ==
  \E i \in 1..Len(s) : s[i] \in {QUOTE, NUL} \cup DOMAIN Letter \/ isControlCharacter(s[i])

(* Whether the bytes have to be looked at one by one. *)
needsEscapes(s) ==
  \E i \in 1..Len(s) :
    s[i] \in {QUOTE, BACKSLASH, NUL} \cup DOMAIN Letter \/ isControlCharacter(s[i])

Quoted(s) == <<QUOTE>> \o s \o <<QUOTE>>
valueToQuotedStringN(s) ==
  Quoted(IF needsEscapes(s) THEN FlattenSeq([i \in 1..Len(s) |-> escaped(s[i])]) ELSE s)

(* The string ends at its first zero. *)
CString(s) == SubSeq(s, 1, FirstFrom(s, 1, LAMBDA i : s[i] = NUL) - 1)
valueToQuotedString(s) == valueToQuotedStringN(CString(s))

-------------------------------------------------------------------------------
(* The value of digits that count from zero.                               *)
Positional(digits, base, zero) == FoldLeft(LAMBDA n, c : (n * base) + (c - zero), 0, digits)

(* operator>> of a stream: digits on one side of the point, and in the     *)
(* exponent if there is one.                                               *)
Exponents(text) == {i \in 1..Len(text) : text[i] \in {69, 101}}
Mantissa(text) ==
  IF Exponents(text) = {} THEN text ELSE SubSeq(text, 1, Min(Exponents(text)) - 1)
IsDouble(text) ==
  /\ \E i \in 1..Len(Mantissa(text)) : Mantissa(text)[i] \in DIGITS
  /\ Exponents(text) # {} => Last(text) \in DIGITS

(* The whole part of the number without its sign: the exponent moves the   *)
(* point, and zeros fill the places behind the last digit.                 *)
Unsigned(text) == IF text[1] \in {PLUS, MINUS} THEN Tail(text) ELSE text
Exponent(text) ==
  LET e == SubSeq(text, Min(Exponents(text)) + 1, Len(text))
      n == Positional(Unsigned(e), 10, 48)
  IN IF Exponents(text) = {} THEN 0 ELSE IF e[1] = MINUS THEN -n ELSE n
WholePart(text) ==
  LET s == Unsigned(Mantissa(text))
      point == FirstFrom(s, 1, LAMBDA i : s[i] = POINT)
      digits == SubSeq(s, 1, point - 1) \o SubSeq(s, point + 1, Len(s))
  IN Positional([i \in 1..point - 1 + Exponent(text) |-> IF i <= Len(digits) THEN digits[i] ELSE 48],
                10, 48)

(* A number beyond the largest double fails as one that is none. *)
decodeDouble(text) ==
  IF IsDouble(text) /\ WholePart(text) <= maxDouble THEN [type |-> "real"] ELSE Error

(* Mutant: the last digit is not compared with what is left. *)
decodeNumberLastDigit(text) ==
  LET isNegative == text[1] = MINUS
      digits == IF isNegative THEN Tail(text) ELSE text
      n == Positional(digits, 10, 48)
  IN IF n \div 10 > maxLargestUInt \div 10 THEN decodeDouble(text)
     ELSE Number(IF n > maxInt THEN "uint" ELSE "int", IF isNegative THEN -n ELSE n)

(* Digit by digit, until it is clear that the integer does not fit. *)
TooLarge(maxIntegerValue, n, digit, isLast) ==
  LET threshold == maxIntegerValue \div 10
  IN n >= threshold /\ (n > threshold \/ ~ isLast \/ digit > maxIntegerValue % 10)

readInteger(digits, maxIntegerValue) ==
  LET Digit(s, i) ==
        IF \/ ~ s.integer \/ digits[i] \notin DIGITS
           \/ TooLarge(maxIntegerValue, s.n, digits[i] - 48, i = Len(digits))
        THEN [s EXCEPT !.integer = FALSE] ELSE [s EXCEPT !.n = (@ * 10) + (digits[i] - 48)]
  IN FoldLeftDomain(Digit, [integer |-> TRUE, n |-> 0], digits)

decodeNumber(text) ==
  LET isNegative == text[1] = MINUS
      read == IF isNegative THEN readInteger(Tail(text), maxLargestInt + 1)
              ELSE readInteger(text, maxLargestUInt)
  IN IF ~ read.integer THEN decodeDouble(text)
     ELSE IF isNegative THEN Number("int", -read.n)
     ELSE Number(IF read.n <= maxInt THEN "int" ELSE "uint", read.n)

-------------------------------------------------------------------------------
(* codePointToUTF8(): six bits in each byte but the first. *)
codePointToUTF8(cp) ==
  LET Six(bits) == 128 + (bits % 64)
  IN IF cp <= 127 THEN <<cp>>
     ELSE IF cp <= 2047 THEN <<192 + cp \div 64, Six(cp)>>
     ELSE IF cp <= 65535 THEN <<224 + cp \div 4096, Six(cp \div 64), Six(cp)>>
     ELSE IF cp <= 1114111
     THEN <<240 + cp \div 262144, Six(cp \div 4096), Six(cp \div 64), Six(cp)>>
     ELSE << >>

HexValue(c) ==
  CASE c \in DIGITS -> c - 48 [] c \in 97..102 -> c - 87 [] c \in 65..70 -> c - 55 [] OTHER -> -1

(* The escape sequence whose digits begin at i; stop is the closing quote. *)
decodeUnicodeEscapeSequence(d, i, stop) ==
  LET digits == [k \in 1..4 |-> HexValue(d[i + k - 1])]
      ok == stop - i >= 4 /\ \A k \in 1..4 : digits[k] >= 0
  IN [ok |-> ok, unicode |-> IF ok THEN Positional(digits, 16, 0) ELSE 0,
      current |-> i + 4]

(* A first half takes any escape behind it for its second half. *)
decodeUnicodeCodePoint(d, i, stop) ==
  LET first == decodeUnicodeEscapeSequence(d, i, stop)
      paired == stop - i >= 10 /\ d[i + 4] = BACKSLASH /\ d[i + 5] = 117
      second == decodeUnicodeEscapeSequence(d, i + 6, stop)
  IN IF ~ first.ok \/ first.unicode \notin 55296..56319 THEN first
     ELSE IF ~ paired THEN [first EXCEPT !.ok = FALSE]
     ELSE [second EXCEPT !.unicode = 65536 + ((first.unicode % 1024) * 1024) + (@ % 1024)]

(* What stands behind a backslash; stop - i = 0 is the "empty escape". *)
Escape(d, i, stop) ==
  LET Short(byte) == [ok |-> TRUE, bytes |-> <<byte>>, current |-> i + 1]
      letters == {c \in DOMAIN Letter : Letter[c] = d[i]}
      point == decodeUnicodeCodePoint(d, i + 1, stop)
  IN IF i < stop /\ d[i] \in {QUOTE, SLASH, BACKSLASH} THEN Short(d[i])
     ELSE IF i < stop /\ letters # {} THEN Short(CHOOSE c \in letters : TRUE)
     ELSE IF i < stop /\ d[i] = 117
     THEN [ok |-> point.ok, bytes |-> codePointToUTF8(point.unicode), current |-> point.current]
     ELSE [ok |-> FALSE, bytes |-> << >>, current |-> i]

decodeString(d) ==
  LET stop == Len(d)
      from[i \in 2..stop] ==
        IF i = stop \/ d[i] = QUOTE THEN String(<< >>)
        ELSE LET read == IF d[i] = BACKSLASH THEN Escape(d, i + 1, stop)
                         ELSE [ok |-> TRUE, bytes |-> <<d[i]>>, current |-> i + 1]
             IN IF ~ read.ok \/ from[read.current] = Error THEN Error
                ELSE String(read.bytes \o from[read.current].value)
  IN from[2]

-------------------------------------------------------------------------------
(* Writing: a name is written by valueToQuotedString() in StyledWriter.    *)
Write ==
  /\ document_ = << >>
  /\ \E v \in Values :
       /\ written' = v
       /\ document_' = CASE v.type = "integer" -> valueToString(v.value)
                         [] v.type = "string" -> valueToQuotedStringN(v.value)
                         [] v.type = "name" -> valueToQuotedString(v.value)
  /\ UNCHANGED decoded

Receive ==
  /\ document_ = << >>
  /\ document_' \in Texts
  /\ UNCHANGED <<written, decoded>>

(* Tokens of other types are the parser's business. *)
Decode ==
  /\ document_ # << >> /\ decoded = Nothing
  /\ LET token == readToken(document_, 1)
         text == SubSeq(document_, token.start_, token.end_ - 1)
     IN decoded' = CASE token.type_ = "Number" -> decodeNumber(text)
                     [] token.type_ = "String" -> decodeString(text)
                     [] token.type_ \notin {"Number", "String"} -> Error
  /\ UNCHANGED <<written, document_>>

Init == written = Nothing /\ document_ = << >> /\ decoded = Nothing
Next == Write \/ Receive \/ Decode

Spec == Init /\ [][Next]_vars

-------------------------------------------------------------------------------
Done == decoded # Nothing

(* The escapes of a code point, or of its two halves.                      *)
CodePoints == {0, 65, 127, 128, 233, 2047, 2048, 8364, 55295, 57344, 65535, 65536, 128512, 1114111}
Escapes(cp) ==
  Quoted(IF cp < 65536 THEN UnicodeEscape(cp)
         ELSE UnicodeEscape(55296 + (cp - 65536) \div 1024) \o UnicodeEscape(56320 + ((cp - 65536) % 1024)))

Encodes(bytes, cp) ==
  LET rest == Positional(Tail(bytes), 64, 128)
      first == bytes[1]
  IN /\ \A i \in 2..Len(bytes) : bytes[i] \in 128..191
     /\ \/ Len(bytes) = 1 /\ cp = first /\ cp < 128
        \/ Len(bytes) = 2 /\ cp = (first - 192) * 64 + rest /\ cp >= 128 /\ cp < 2048
        \/ Len(bytes) = 3 /\ cp = (first - 224) * 4096 + rest /\ cp >= 2048 /\ cp < 65536
        \/ Len(bytes) = 4 /\ cp = (first - 240) * 262144 + rest /\ cp >= 65536

(* What is written is read back: an integer at any edge of its width, a    *)
(* string with any bytes, and a name up to its first zero; and the escapes *)
(* of a code point are decoded to its UTF-8 encoding in the shortest form. *)
RoundTrip ==
  Done =>
    /\ CASE written.type = "integer" ->
              decoded = Number(IF written.value <= maxInt THEN "int" ELSE "uint", written.value)
         [] written.type = "string" -> decoded = String(written.value)
         [] written.type = "name" -> decoded = String(CString(written.value))
         [] written = Nothing -> TRUE
    /\ \A cp \in CodePoints :
         document_ = Escapes(cp) => decoded.type = "string" /\ Encodes(decoded.value, cp)

(* Digits are an integer exactly when it fits into 64 bits, and then that  *)
(* one; otherwise they are a double, and an error when that overflows.     *)
Digits == IF document_[1] = MINUS THEN Tail(document_) ELSE document_
IsInteger == Digits # << >> /\ \A i \in 1..Len(Digits) : Digits[i] \in DIGITS
Magnitude == Positional(Digits, 10, 48)
Integer == IF document_[1] = MINUS THEN -Magnitude ELSE Magnitude
ExactOrReal ==
  Done /\ IsInteger =>
    IF Integer \in minLargestInt..maxLargestUInt
    THEN decoded.type \in {"int", "uint"} /\ decoded.value = Integer
    ELSE decoded.type = IF Magnitude <= maxDouble THEN "real" ELSE "error"
===============================================================================
