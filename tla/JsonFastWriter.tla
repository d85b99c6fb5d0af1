---------------------------- MODULE JsonFastWriter ----------------------------
(* Json::FastWriter: a value on a single line, without its comments. *)
EXTENDS JsonWritten

Options == [yamlCompatiblityEnabled_ : BOOLEAN, dropNullPlaceholders_ : BOOLEAN,
            omitEndingLineFeed_ : BOOLEAN]

RECURSIVE writeValue(_, _)

Joined(o, n) ==
  FoldLeftDomain(LAMBDA s, i :
      s \o (IF i > 1 THEN <<",">> ELSE << >>)
        \o (IF n.kind = "object"
            THEN <<n.names[i], ":">> \o (IF o.yamlCompatiblityEnabled_ THEN <<"SP">> ELSE << >>)
            ELSE << >>)
        \o writeValue(o, n.items[i]),
    << >>, n.items)

writeValue(o, n) ==
  CASE n.kind = "null" -> IF o.dropNullPlaceholders_ THEN << >> ELSE <<"null">>
    [] n.kind = "a" -> <<"a">>
    [] n.kind = "array" -> <<"[">> \o Joined(o, n) \o <<"]">>
    [] n.kind = "object" -> <<"{">> \o Joined(o, n) \o <<"}">>

write(o, n) == writeValue(o, n) \o (IF o.omitEndingLineFeed_ THEN << >> ELSE <<"NL">>)
===============================================================================
