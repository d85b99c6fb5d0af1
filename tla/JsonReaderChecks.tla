--------------------------- MODULE JsonReaderChecks ---------------------------
(* What Json::Reader promises of the documents it reads. *)
EXTENDS JsonReader, JsonGrammar

CommentFree == SelectSeq(doc, LAMBDA t : t \notin Comments)

(* The grammar the reader follows, and that of JSON. *)
Scalars == Strings \cup Numbers \cup Literals
Names == Strings \cup (IF features_["allowNumericKeys"] THEN Numbers ELSE {})
Read == Document(Grammar(Scalars, Names, TRUE, features_["allowDroppedNullPlaceholders"]), CommentFree)
StrictRead == Document(Grammar(Scalars, Strings, FALSE, FALSE), CommentFree)

(* A comment where readValue(), readObject() or readArray() skip comments. *)
WellPlaced ==
  \A i \in 1..Len(doc) - 1 : doc[i] \in Comments =>
    /\ doc[i + 1] # ":"
    /\ ~ \E j \in 1..i : doc[j] = "[" /\ SubSeq(doc, j + 1, i) \in Seq(Comments)

(* Without comments, parse() accepts the documents of the grammar and no   *)
(* others, and root is the value they stand for: the last of several       *)
(* members of one name, with nothing left of the earlier ones.             *)
(* Two things are outside the grammar of JSON: the comma behind a member   *)
(* named "", and the byte behind the document (`beyond').                  *)
(* Comments change nothing in what is read, unless they stand before a ":" *)
(* or first in an array: JSON with comments is accepted, and its value is  *)
(* the same.                                                               *)
ReadsItsGrammar ==
  pc = "done" /\ ~ beyond =>
    /\ doc = CommentFree =>
         /\ ok <=> /\ Read.next # 0
                   /\ features_["strictRoot"] => tree[Root] \in {"object", "array"}
         /\ ok => tree = Read.tree
    /\ (/\ features_["allowComments"] /\ ~ features_["strictRoot"]
        /\ StrictRead.next # 0 /\ WellPlaced)
         => ok /\ tree = StrictRead.tree
===============================================================================
