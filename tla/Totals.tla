---- MODULE Totals ----
(***************************************************************************)
(* The total of a function from a finite set to the naturals, defined by   *)
(* counting instead of by recursion so that it can be reasoned about: x    *)
(* contributes the f[x] pairs <<x, 1>>, ..., <<x, f[x]>>.  So are powers:  *)
(* b to the n counts the words of n letters over b.                        *)
(***************************************************************************)
EXTENDS Integers, FiniteSets

Pile(f, x) == {x} \X (1..f[x])

Piles(f) == UNION {Pile(f, x) : x \in DOMAIN f}

Total(f) == Cardinality(Piles(f))

Words(b, n) == [1..n -> 1..b]

Power(b, n) == Cardinality(Words(b, n))
====
