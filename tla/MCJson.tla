-------------------------------- MODULE MCJson --------------------------------
(***************************************************************************)
(* The TLC instance of JsonApi: trees built and edited by hand, values     *)
(* that are parsed, compared and printed, texts over the tokens of JSON,   *)
(* strings over the bytes of the escapes and comments.                     *)
(***************************************************************************)
EXTENDS JsonApi

\* Names that differ in case alone, and a string that needs an escape.
MCNames == {<<97>>}
MCConstNames == {<<65>>}
V(tag) == [tag |-> tag, num |-> 0, str |-> NoStr, ref |-> FALSE]
MCValues == {V("Array"), V("Object"), [V("String") EXCEPT !.str = <<34>>]}
MCDocs == {<<P("{"), Str(<<97>>), P(":"), Str(<<92, 34>>), P("}")>>}

\* Values of every kind, alone, as members and as elements: pairs that differ in the order
\* of the members, in a name, in one member's or element's value, and in how many there are.
A == Str(<<97>>)
B == Str(<<98>>)
Object1(n, v) == <<P("{"), n, P(":"), v, P("}")>>
Object2(n, v, m, w) == <<P("{"), n, P(":"), v, P(","), m, P(":"), w, P("}")>>
Nested(n, v) == <<P("{"), n, P(":")>> \o v \o <<P("}")>>
Array2(v, w) == <<P("["), v, P(","), w, P("]")>>
MCSamples ==
  {<<A>>, <<B>>, <<Num(1)>>, <<Num(2)>>, <<P("true")>>, <<P("false")>>, <<P("null")>>}
  \cup {Object1(A, v) : v \in {A, B, Num(1), Num(-12), P("true"), P("null")}}
  \cup {Object1(B, A), Object2(A, A, B, B), Object2(B, B, A, A), Object2(A, B, B, A),
        Object2(A, A, B, Num(1)), Nested(A, Object1(A, A)), Nested(A, Object1(A, B)),
        Nested(A, Array2(A, B))}
  \cup {Array2(v, w) : v, w \in {A, B, P("false")}}
  \cup {Array2(Str(<<92, 34>>), Num(7)), <<Str(<<92, 34>>)>>, <<P("["), P("["), P("]"), P("]")>>}

MCMarks == {P("["), P("]"), P("{"), P("}"), P(","), P(":")}
MCTokens == MCMarks \cup {Str(<<97>>), Ws(<<32>>)}

Escaped(hex) == <<92, 117>> \o hex
MCPieces ==
  {<<34>>, <<92>>, <<110>>, <<10>>, <<31>>, <<195, 169>>, <<47>>, <<47, 42>>, <<42, 47>>,
   Escaped(<<48, 48, 101, 57>>), Escaped(<<50, 48, 65, 67>>),
   Escaped(<<100, 56, 51, 100>>), Escaped(<<100, 101, 48, 48>>), Escaped(<<90, 90, 90, 90>>)}

===============================================================================
