----------------------------- MODULE MCJsonWriters -----------------------------
(* Values of two and three levels, with comments of every placement, for       *)
(* JsonWriters.  A line of thirteen characters holds two short values and not  *)
(* three.                                                                      *)
EXTENDS JsonWriters

Before(c) == [NoComments EXCEPT !["commentBefore"] = c]
SameLine(c) == [NoComments EXCEPT !["commentAfterOnSameLine"] = c]
Behind(c) == [NoComments EXCEPT !["commentAfter"] = c]

Few == {NoComments, Before(<<"//">>), SameLine(<<"//">>)}
Lines ==
  Few \cup {Before(<<"//", "NL", "//">>), Behind(<<"//">>)}
    \cup {Before(<<"//", "SP">>), SameLine(<<"//", "SP">>), Behind(<<"//", "SP">>)}
Blocks == {NoComments, Before(<<"/**/">>), SameLine(<<"/**/">>)}

Small == Leaves \cup Containers(Leaves, 2)
MCFastRoots == Small \cup Containers(Small, 1)

MCStyledRoots ==
  Containers(Leaves, 3)
    \cup Commented(Containers(Commented(Leaves, Lines \cup Blocks), 2), Few)
    \cup Commented(Containers(Commented(Containers(Leaves, 1), Few), 2), {NoComments, Behind(<<"//">>)})

Nested(comments) ==
  Containers(Leaves, 3) \cup Commented(Containers(Commented(Leaves, comments), 2), comments)
    \cup Containers(Commented(Containers(Leaves, 1), Few \cap comments), 2)

MCStreamCases == {[roots |-> Nested(Lines \cup Blocks), settings |-> Stream!AllSettings]}
===============================================================================
