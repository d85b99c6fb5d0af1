------------------------------- MODULE JsonPath -------------------------------
(***************************************************************************)
(* Json::Path: an expression such as .name[0] is taken apart once, a turn  *)
(* of makePath's loop at a time, and then looked up or created in values.  *)
(***************************************************************************)
EXTENDS SequencesExt, FiniteSetsExt, Integers

CONSTANTS
  Characters,          \* of expressions and of names
  Paths,               \* the expressions
  Parameters,          \* the five arguments of the constructor
  Roots,               \* the values it is applied to
  ArrayIndexes         \* 2^32

VARIABLES path, in, current, args_, call
vars == <<path, in, current, args_, call>>

DigitOf == [c \in {"0", "1", "2"} |-> CASE c = "0" -> 0 [] c = "1" -> 1 [] c = "2" -> 2]

MemberName(name) == [kind_ |-> "key", key_ |-> name, index_ |-> 0]
Index(i) == [kind_ |-> "index", key_ |-> << >>, index_ |-> i]
NoArgument == [kind_ |-> "none", key_ |-> << >>, index_ |-> 0]

(* The characters from current on that Class contains. *)
RunOf(Class(_)) ==
  LET rest == SubSeq(path, current, Len(path))
      stops == {i \in 1..Len(rest) : ~ Class(rest[i])}
  IN IF stops = {} THEN rest ELSE SubSeq(rest, 1, Min(stops) - 1)

char(i) == IF i <= Len(path) THEN path[i] ELSE "NUL"
More == current <= Len(path)

(* The first argument every time: itInArg is never advanced. *)
addPathInArg(kind) ==
  args_' = IF in[1].kind_ = kind THEN Append(args_, in[1]) ELSE args_

NoCall == [op |-> "none"]

Init ==
  /\ path \in Paths /\ in \in Parameters
  /\ current = 1 /\ args_ = << >> /\ call = NoCall

-------------------------------------------------------------------------------
(* [%: the sign itself stands where the bracket should close. *)
IndexParameter ==
  /\ More /\ char(current) = "[" /\ char(current + 1) = "%"
  /\ addPathInArg("index")
  /\ current' = current + 2
  /\ UNCHANGED <<path, in, call>>

indexAt(digits) ==
  FoldLeft(LAMBDA index, c : (index * 10 + DigitOf[c]) % ArrayIndexes, 0, digits)

Digits ==
  LET rest == SubSeq(path, current + 1, Len(path))
      stops == {i \in 1..Len(rest) : rest[i] \notin DOMAIN DigitOf}
  IN IF stops = {} THEN rest ELSE SubSeq(rest, 1, Min(stops) - 1)

(* What is read instead of the closing bracket is lost. *)
IndexInPath ==
  /\ More /\ char(current) = "[" /\ char(current + 1) # "%"
  /\ args_' = Append(args_, Index(indexAt(Digits)))
  /\ current' = Min({current + Len(Digits) + 2, Len(path) + 1})
  /\ UNCHANGED <<path, in, call>>

KeyParameter ==
  /\ More /\ char(current) = "%"
  /\ addPathInArg("key")
  /\ current' = current + 1
  /\ UNCHANGED <<path, in, call>>

Dot ==
  /\ More /\ char(current) = "."
  /\ current' = current + 1
  /\ UNCHANGED <<path, in, args_, call>>

(* strchr() finds the NUL that ends "[." as well. *)
InName(c) == c \notin {"[", ".", "NUL"}

(* A zero in the path is an empty name, and the loop stays there. *)
Name ==
  /\ More /\ char(current) \notin {"[", "%", "."}
  /\ Len(args_) <= Len(path)          \* the bound of a loop that stays
  /\ args_' = Append(args_, MemberName(RunOf(InName)))
  /\ current' = current + Len(RunOf(InName))
  /\ UNCHANGED <<path, in, call>>

makePath == IndexParameter \/ IndexInPath \/ KeyParameter \/ Dot \/ Name

-------------------------------------------------------------------------------
(* A value: the kinds at the places in it.                                 *)
Container == [index |-> "array", key |-> "object"]

(* A tree: what has elements or members is an array or an object. *)
Argument == [kind_ : {"none", "index", "key"}, key_ : Seq(Characters), index_ : 0..ArrayIndexes - 1]
IsValue(root) ==
  /\ root \in [DOMAIN root -> {"null", "scalar", "array", "object"}]
  /\ DOMAIN root \subseteq Seq(Argument) /\ << >> \in DOMAIN root
  /\ \A p \in DOMAIN root \ {<< >>} :
       /\ Last(p).kind_ \in DOMAIN Container
       /\ Front(p) \in DOMAIN root /\ root[Front(p)] = Container[Last(p).kind_]

PathAssumption ==
  /\ ArrayIndexes \in Nat /\ 10 < ArrayIndexes
  /\ {".", "[", "]", "a", "b"} \cup DOMAIN DigitOf \subseteq Characters
  /\ Paths \subseteq Seq(Characters)
  /\ \A arguments \in Parameters : arguments \in Seq(Argument) /\ arguments # << >>
  /\ \A root \in Roots : IsValue(root)

Places(root, at) == {p \in DOMAIN root : Len(p) = Len(at) + 1 /\ IsPrefix(at, p)}
isValidIndex(root, at, i) == \E p \in Places(root, at) : Last(p).index_ >= i

Nowhere == [found |-> FALSE, threw |-> FALSE, at |-> << >>]
At(at) == [found |-> TRUE, threw |-> FALSE, at |-> at]
Threw == [found |-> FALSE, threw |-> TRUE, at |-> << >>]

(* The kind of a node: a missing one is Value::nullRef. *)
kindOf(root, node) == IF node.found THEN root[node.at] ELSE "null"

Child(root, node, arg) ==
  LET p == Append(node.at, arg)
  IN IF node.found /\ p \in DOMAIN root THEN At(p) ELSE Nowhere

(* The errors are comments: operator[] itself throws at a wrong kind. *)
resolve(root) ==
  LET Turn(node, arg) ==
        IF node.threw \/ kindOf(root, node) \notin {"null", Container[arg.kind_]}
        THEN Threw ELSE Child(root, node, arg)
  IN FoldLeft(Turn, At(<< >>), args_)

(* The other resolve: Nowhere is the default value.  (An element that is    *)
(* missing below a later one would be a null: the arrays of Roots are dense.) *)
resolveOr(root) ==
  LET Turn(node, arg) ==
        IF ~ node.found \/ kindOf(root, node) # Container[arg.kind_] THEN Nowhere
        ELSE IF arg.kind_ = "index" /\ ~ isValidIndex(root, node.at, arg.index_) THEN Nowhere
        ELSE Child(root, node, arg)
  IN FoldLeft(Turn, At(<< >>), args_)

(* The value with a node of this kind at the place p. *)
With(root, p, kind) == [q \in DOMAIN root \cup {p} |-> IF q = p THEN kind ELSE root[q]]
kindAt(root, p) == IF p \in DOMAIN root THEN root[p] ELSE "null"

(* Mutant: the child is made before the kind of its parent is looked at. *)
makeEarly(root) ==
  LET Turn(made, arg) ==
        LET p == Append(made.at, arg)
            child == With(made.root, p, kindAt(made.root, p))
        IN IF made.threw \/ made.root[made.at] \notin {"null", Container[arg.kind_]}
           THEN [made EXCEPT !.threw = TRUE, !.root = child]
           ELSE [threw |-> FALSE, at |-> p, root |-> With(child, made.at, Container[arg.kind_])]
  IN FoldLeft(Turn, [threw |-> FALSE, at |-> << >>, root |-> root], args_)

(* A null becomes the container that is asked for. *)
make(root) ==
  LET Turn(made, arg) ==
        LET p == Append(made.at, arg)
            parent == With(made.root, made.at, Container[arg.kind_])
        IN IF made.threw \/ made.root[made.at] \notin {"null", Container[arg.kind_]}
           THEN [made EXCEPT !.threw = TRUE]
           ELSE [threw |-> FALSE, at |-> p, root |-> With(parent, p, kindAt(made.root, p))]
  IN FoldLeft(Turn, [threw |-> FALSE, at |-> << >>, root |-> root], args_)

(* The Path is constant: every call sees a value of its own. *)
Call(op, root, answer) == call' = [op |-> op, root |-> root, answer |-> answer]

Apply ==
  /\ ~ More /\ call = NoCall
  /\ \E root \in Roots :
       \/ Call("resolve", root, resolve(root))
       \/ Call("resolveOr", root, resolveOr(root))
       \/ Call("make", root, make(root))
  /\ UNCHANGED <<path, in, current, args_>>

Next == makePath \/ Apply

Spec == Init /\ [][Next]_vars

-------------------------------------------------------------------------------
(* The documented syntax without parameters: members and elements.         *)
Segments == {[kind |-> "key", text |-> <<c>>] : c \in {"a", "b"}}
              \cup {[kind |-> "index", text |-> t] : t \in {<<"0">>, <<"1">>, <<"1", "0">>}}

Text(segments) ==
  IF segments = << >> THEN <<".">>
  ELSE FoldLeftDomain(LAMBDA s, i :
           s \o (IF segments[i].kind = "key" \/ i = 1 THEN <<".">> ELSE << >>)
             \o (IF segments[i].kind = "index" THEN <<"[">> \o segments[i].text \o <<"]">> ELSE segments[i].text),
         << >>, segments)

Named(segment) ==
  IF segment.kind = "key" THEN MemberName(segment.text)
  ELSE Index(FoldLeft(LAMBDA n, c : n * 10 + DigitOf[c], 0, segment.text))

(* make() is all or nothing: it creates the node that the expression names *)
(* by the documentation, the one that the path then finds, and what was    *)
(* there before is still there; or it throws, half way down the path, and  *)
(* has created nothing.                                                    *)
MakeIsAllOrNothing ==
  call.op = "make" =>
    IF call.answer.threw THEN call.answer.root = call.root
    ELSE /\ resolve(call.answer.root) = At(call.answer.at)
         /\ resolveOr(call.answer.root) = At(call.answer.at)
         /\ \A p \in DOMAIN call.root : call.root[p] \in {"null", call.answer.root[p]}
         /\ \A s \in BoundedSeq(Segments, 3) :
              Text(s) = path => call.answer.at = [i \in 1..Len(s) |-> Named(s[i])]
===============================================================================
