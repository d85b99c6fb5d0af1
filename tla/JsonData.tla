------------------------------- MODULE JsonData -------------------------------
(***************************************************************************)
(* The parts of the JSON library that work on data, side by side: the      *)
(* value as a container, the lexer, text for numbers and strings and back, *)
(* the conversions, and paths.  What they promise is stated here for the   *)
(* run and for the proofs.                                                 *)
(***************************************************************************)
EXTENDS JsonValue

CONSTANTS
  Beyond, Documents,                             \* of JsonScan and JsonLexer
  Values, Texts, maxLargestInt, maxInt, maxDouble,   \* of JsonText
  maxIntOfValue, maxInt64OfValue,                \* maxInt and maxInt64 of JsonConvert
  Exact, double(_), Reals,                       \* of JsonConvert
  Characters, Paths, Parameters, Roots, ArrayIndexes   \* of JsonPath

VARIABLES
  document_, current_, tokens,     \* the lexer; the document is also that of
  written, decoded,                \* numbers and strings
  operand, answer,                 \* the conversions
  path, in, current, args_, call   \* paths

Lexer == INSTANCE JsonLexer
Text == INSTANCE JsonText
Convert == INSTANCE JsonConvert WITH maxInt <- maxIntOfValue, maxInt64 <- maxInt64OfValue
Path == INSTANCE JsonPath

-------------------------------------------------------------------------------
(* What the parts promise.                                                    *)

(* A token is on the line and in the column that the line ends before it make *)
(* (getLocationLineAndColumn).                                                *)
LocationsAreRight == Lexer!LocationsAreRight

(* Written tokens are found again by readToken().                             *)
LexesWhatWasWritten == Lexer!LexesWhatWasWritten

(* Integers, strings and names that are written are read back, and escapes    *)
(* are decoded to UTF-8.                                                      *)
RoundTrip == Text!RoundTrip

(* decodeNumber() makes an integer of digits exactly when it fits.            *)
ExactOrReal == Text!ExactOrReal

(* What isConvertibleTo() allows, the as...() functions do.                   *)
ConvertibleConverts == Convert!ConvertibleConverts

(* Path::make() creates what the expression names, or nothing.                *)
MakeIsAllOrNothing == Path!MakeIsAllOrNothing
===============================================================================
