------------------------------ MODULE JsonWritten ------------------------------
(***************************************************************************)
(* Values to be written, and documents that are sequences of pieces:       *)
(* tokens, blanks, line breaks and comments, which end where a line ends   *)
(* or by themselves.                                                       *)
(***************************************************************************)
EXTENDS JsonGrammar, FiniteSetsExt

Placements == {"commentBefore", "commentAfterOnSameLine", "commentAfter"}
NoComments == [p \in Placements |-> << >>]

(* A value: a scalar, or a container with its children in order. *)
Scalar == {"null", "a"}
Node(kind, names, items, comments) ==
  [kind |-> kind, names |-> names, items |-> items, comments |-> comments]

size(n) == Len(n.items)
hasComment(n, placement) == n.comments[placement] # << >>
hasCommentForValue(n) == \E p \in Placements : hasComment(n, p)

(* The kinds at the paths of a value. *)
RECURSIVE Tree(_, _)
Tree(n, p) ==
  FoldFunction(LAMBDA t, u : t @@ u, p :> n.kind,
    [i \in 1..size(n) |->
       Tree(n.items[i], Append(p, IF n.kind = "array" THEN "#" \o ToString(i - 1) ELSE n.names[i]))])

(* The tokens of a document: a line comment takes the rest of its line.    *)
Step(s, piece) ==
  CASE s.commented -> [s EXCEPT !.commented = piece # "NL"]
    [] ~ s.commented /\ piece = "//" -> [s EXCEPT !.commented = TRUE]
    [] ~ s.commented /\ piece \in {"SP", "NL", "/**/"} -> s
    [] OTHER -> [s EXCEPT !.tokens = Append(@, piece)]
Tokens(document) == FoldLeft(Step, [commented |-> FALSE, tokens |-> << >>], document).tokens

(* A reader that accepts comments finds in the document the value that was *)
(* written, and nothing else.                                              *)
ReadsAs(document, n, dropped) ==
  LET found == Document(Grammar(Scalar, {"a", "b"}, FALSE, dropped), Tokens(document))
  IN found.next = Len(Tokens(document)) + 1 /\ found.tree = Tree(n, << >>)

(* Values that a document without placeholders still shows: `[null]' is    *)
(* written as `[]', and null as nothing at all.                            *)
RECURSIVE Shown(_)
Shown(n) ==
  /\ ~ (n.kind = "array" /\ size(n) = 1 /\ n.items[1].kind = "null")
  /\ \A i \in 1..size(n) : Shown(n.items[i])

-------------------------------------------------------------------------------
(* Values for the runs: leaves, and containers of up to Breadth children.  *)

Commented(nodes, Comment) ==
  {[n EXCEPT !.comments = c] : n \in nodes, c \in Comment}

Leaves == {Node(k, << >>, << >>, NoComments) : k \in Scalar \cup {"array", "object"}}

Containers(children, breadth) ==
  {Node("array", << >>, s, NoComments) : s \in BoundedSeq(children, breadth)}
    \cup {Node("object", SubSeq(<<"a", "b">>, 1, Len(s)), s, NoComments) : s \in BoundedSeq(children, Min({2, breadth}))}
===============================================================================
