------------------------------ MODULE JsonGrammar ------------------------------
(***************************************************************************)
(* The JSON grammar over tokens, and the value that a document stands for: *)
(* what Json::Reader promises to read.  A value is a function from paths   *)
(* to kinds, as in JsonReader; of two members of the same name the later   *)
(* one counts.                                                             *)
(***************************************************************************)
EXTENDS Integers, Sequences, SequencesExt

At(d, i) == IF i \in 1..Len(d) THEN d[i] ELSE "none"

(* Nothing can be read: position 0. *)
Nothing == [next |-> 0, tree |-> << >>]

(* The tree t after the value at p became one of the given kind. *)
Replaced(t, p, kind) ==
  (p :> kind) @@ [q \in {r \in DOMAIN t : ~ IsPrefix(p, r)} |-> t[q]]

(* The value, the members, the elements of d that begin at position i, and *)
(* where they end.  Scalar holds the tokens that are values, Name those    *)
(* that are names.  Lax allows one comma too many behind a member "",      *)
(* dropped a value of no tokens.                                           *)
RECURSIVE Value(_, _, _, _, _), Members(_, _, _, _, _), Elements(_, _, _, _, _, _)

Grammar(Scalar, Name, lax, dropped) ==
  [scalars |-> Scalar, names |-> Name, lax |-> lax, dropped |-> dropped]

Value(g, d, i, p, t) ==
  CASE g.dropped /\ At(d, i) \in {",", "]", "}"} -> [next |-> i, tree |-> Replaced(t, p, "null")]
    [] At(d, i) \in g.scalars -> [next |-> i + 1, tree |-> Replaced(t, p, d[i])]
    [] At(d, i) = "{" ->
         IF At(d, i + 1) = "}" THEN [next |-> i + 2, tree |-> Replaced(t, p, "object")]
         ELSE Members(g, d, i + 1, p, Replaced(t, p, "object"))
    [] At(d, i) = "[" ->
         IF At(d, i + 1) = "]" THEN [next |-> i + 2, tree |-> Replaced(t, p, "array")]
         ELSE Elements(g, d, i + 1, 0, p, Replaced(t, p, "array"))
    [] OTHER -> Nothing

Members(g, d, i, p, t) ==
  IF At(d, i) \notin g.names \/ At(d, i + 1) # ":" THEN Nothing
  ELSE LET v == Value(g, d, i + 2, Append(p, d[i]), t)
           more == At(d, v.next) = ","
       IN CASE At(d, v.next) = "}" -> [v EXCEPT !.next = @ + 1]
            [] more /\ g.lax /\ d[i] = "empty" /\ At(d, v.next + 1) = "}" -> [v EXCEPT !.next = @ + 2]
            [] more /\ ~ (g.lax /\ d[i] = "empty" /\ At(d, v.next + 1) = "}") ->
                 Members(g, d, v.next + 1, p, v.tree)
            [] OTHER -> Nothing

Elements(g, d, i, index, p, t) ==
  LET v == Value(g, d, i, Append(p, "#" \o ToString(index)), t)
  IN CASE At(d, v.next) = "]" -> [v EXCEPT !.next = @ + 1]
       [] At(d, v.next) = "," -> Elements(g, d, v.next + 1, index + 1, p, v.tree)
       [] OTHER -> Nothing

(* What the reader reads first; what follows it is not looked at. *)
Document(g, d) == Value(g, d, 1, << >>, << >>)
===============================================================================
