---------------------------- MODULE MCSettlement ----------------------------
(* Small instances of Settlement for TLC. *)
EXTENDS Settlement, TLC

CONSTANTS a, b, o1, o2, o3, h1, h2

Line(c, n) == [category |-> c, quantity |-> n]
Row(n) == [quantity |-> n, price |-> 1, hide |-> FALSE, version |-> 1]
OneRow == a :> Row(1)
TwoRows == a :> Row(1) @@ b :> Row(0)

\* Two orders that name two categories in opposite orders.
Opposite == o1 :> <<Line(a, 1), Line(b, 1)>> @@ o2 :> <<Line(b, 2), Line(a, 1)>>

\* An order that names a category twice, as retries make them.
Repeated == o1 :> <<Line(a, 1), Line(a, 2)>> @@ o2 :> <<Line(a, 1)>>

\* Handlers are interchangeable.
HandlerSymmetry == Permutations({h1, h2})

One == o1 :> <<Line(a, 1)>>
=============================================================================
