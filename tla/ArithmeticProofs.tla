---- MODULE ArithmeticProofs ----
(***************************************************************************)
(* Totals, from their counting definition: a total is a natural number, no *)
(* element contributes more than it, and replacing the value of one        *)
(* element changes it by the difference.  Then the arithmetic of the share *)
(* price (assets + 1) / (supply + 1000), for every amount: what rounding   *)
(* down in contracts/vault protects; there S stands for supply + 1000 and  *)
(* A for assets + 1.                                                       *)
(***************************************************************************)
EXTENDS Totals, FiniteSetTheorems, TLAPS

(* A pile is finite and has as many elements as the value it stands for.   *)
LEMMA PileSize ==
    ASSUME NEW S, NEW f \in [S -> Nat], NEW x \in S
    PROVE  /\ IsFiniteSet(Pile(f, x))
           /\ Cardinality(Pile(f, x)) = f[x]
<1>1. IsFiniteSet({x}) /\ Cardinality({x}) = 1
  BY FS_Singleton
<1>2. /\ IsFiniteSet(1..f[x])
      /\ Cardinality(1..f[x]) = IF 1 > f[x] THEN 0 ELSE f[x] - 1 + 1
  BY FS_Interval
<1>3. Cardinality(1..f[x]) = f[x]
  BY <1>2
<1>4. /\ IsFiniteSet({x} \X (1..f[x]))
      /\ Cardinality({x} \X (1..f[x])) = Cardinality({x}) * Cardinality(1..f[x])
  BY <1>1, <1>2, FS_Product
<1> QED
  BY <1>1, <1>3, <1>4 DEF Pile

(* The piles of a function over a finite set are finite together.          *)
LEMMA PilesFinite ==
    ASSUME NEW S, IsFiniteSet(S), NEW f \in [S -> Nat]
    PROVE  IsFiniteSet(Piles(f))
<1> DEFINE T == {Pile(f, x) : x \in S}
           g == [x \in S |-> Pile(f, x)]
<1>1. g \in Surjection(S, T)
  BY DEF Surjection
<1>2. IsFiniteSet(T)
  BY <1>1, FS_Surjection
<1>3. \A p \in T : IsFiniteSet(p)
  BY PileSize
<1>4. IsFiniteSet(UNION T)
  BY <1>2, <1>3, FS_UNION
<1> QED
  BY <1>4 DEF Piles

(* A total is a natural number that bounds every value.                    *)
LEMMA TotalBounds ==
    ASSUME NEW S, IsFiniteSet(S), NEW f \in [S -> Nat]
    PROVE  /\ Total(f) \in Nat
           /\ \A x \in S : f[x] <= Total(f)
<1>1. IsFiniteSet(Piles(f))
  BY PilesFinite
<1>2. Total(f) \in Nat
  BY <1>1, FS_CardinalityType DEF Total
<1>3. ASSUME NEW x \in S
      PROVE  f[x] <= Total(f)
  <2>1. Pile(f, x) \in SUBSET Piles(f)
    BY DEF Piles
  <2>2. Cardinality(Pile(f, x)) <= Cardinality(Piles(f))
    BY <1>1, <2>1, FS_Subset
  <2> QED
    BY <2>2, PileSize DEF Total
<1> QED
  BY <1>2, <1>3

(* Changing one value changes the total by the difference.                 *)
LEMMA TotalUpdate ==
    ASSUME NEW S, IsFiniteSet(S), NEW f \in [S -> Nat], NEW x \in S, NEW v \in Nat
    PROVE  Total([f EXCEPT ![x] = v]) = Total(f) - f[x] + v
<1> DEFINE g == [f EXCEPT ![x] = v]
           Rest == UNION {Pile(f, y) : y \in S \ {x}}
<1>1. g \in [S -> Nat] /\ g[x] = v /\ \A y \in S \ {x} : g[y] = f[y]
  OBVIOUS
<1>2. Piles(f) = Rest \cup Pile(f, x)
  BY DEF Piles
<1>3. Piles(g) = Rest \cup Pile(g, x)
  <2>1. \A y \in S \ {x} : Pile(g, y) = Pile(f, y)
    BY <1>1 DEF Pile
  <2> QED
    BY <1>1, <2>1 DEF Piles
<1>4. Rest \cap Pile(f, x) = {} /\ Rest \cap Pile(g, x) = {}
  BY DEF Pile
<1>5. IsFiniteSet(Rest)
  <2>1. IsFiniteSet(Piles(f)) /\ Rest \in SUBSET Piles(f)
    BY <1>2, PilesFinite
  <2> QED
    BY <2>1, FS_Subset
<1>6. Total(f) = Cardinality(Rest) + f[x]
  <2>1. Cardinality(Rest \cup Pile(f, x))
          = Cardinality(Rest) + Cardinality(Pile(f, x)) - Cardinality(Rest \cap Pile(f, x))
    BY <1>5, PileSize, FS_Union
  <2>2. Cardinality(Rest \cap Pile(f, x)) = 0 /\ Cardinality(Pile(f, x)) = f[x]
    BY <1>4, PileSize, FS_EmptySet
  <2>3. Total(f) = Cardinality(Rest \cup Pile(f, x))
    BY <1>2 DEF Total
  <2>4. Cardinality(Rest) \in Nat
    BY <1>5, FS_CardinalityType
  <2> HIDE DEF Rest
  <2> QED
    BY <2>1, <2>2, <2>3, <2>4
<1>7. Total(g) = Cardinality(Rest) + v
  <2>1. IsFiniteSet(Pile(g, x)) /\ Cardinality(Pile(g, x)) = v
    BY <1>1, PileSize
  <2>2. Cardinality(Rest \cup Pile(g, x))
          = Cardinality(Rest) + Cardinality(Pile(g, x)) - Cardinality(Rest \cap Pile(g, x))
    BY <1>5, <2>1, FS_Union
  <2>3. Cardinality(Rest \cap Pile(g, x)) = 0
    BY <1>4, FS_EmptySet
  <2>4. Total(g) = Cardinality(Rest \cup Pile(g, x))
    BY <1>3 DEF Total
  <2>5. Cardinality(Rest) \in Nat
    BY <1>5, FS_CardinalityType
  <2> HIDE DEF Rest, g
  <2> QED
    BY <2>1, <2>2, <2>3, <2>4, <2>5
<1> QED
  BY <1>5, <1>6, <1>7, FS_CardinalityType

(* A total grows with the values.                                          *)
LEMMA TotalMonotone ==
    ASSUME NEW S, IsFiniteSet(S), NEW f \in [S -> Nat], NEW g \in [S -> Nat],
           \A x \in S : f[x] <= g[x]
    PROVE  Total(f) <= Total(g)
<1>1. \A x \in S : Pile(f, x) \subseteq Pile(g, x)
  BY DEF Pile
<1>2. Piles(f) \in SUBSET Piles(g)
  BY <1>1 DEF Piles
<1>3. IsFiniteSet(Piles(g))
  BY PilesFinite
<1> QED
  BY <1>2, <1>3, FS_Subset DEF Total

(* A function that is zero everywhere totals zero.                         *)
LEMMA TotalZero ==
    ASSUME NEW S, NEW f \in [S -> Nat], \A x \in S : f[x] = 0
    PROVE  Total(f) = 0
<1>1. \A x \in S : Pile(f, x) = {}
  BY DEF Pile
<1>2. Piles(f) = {}
  BY <1>1 DEF Piles
<1> QED
  BY <1>2, FS_EmptySet DEF Total

(* The total of a sum is the sum of the totals.                            *)
LEMMA TotalOfSum ==
    ASSUME NEW S, IsFiniteSet(S), NEW f \in [S -> Nat], NEW g \in [S -> Nat]
    PROVE  Total([x \in S |-> f[x] + g[x]]) = Total(f) + Total(g)
<1> DEFINE h == [x \in S |-> f[x] + g[x]]
           raise == [p \in Piles(g) |-> <<p[1], f[p[1]] + p[2]>>]
           Raised == {raise[p] : p \in Piles(g)}
<1>1. h \in [S -> Nat]
  OBVIOUS
<1>2. /\ \A p \in Piles(f) : p = <<p[1], p[2]>> /\ p[1] \in S /\ p[2] \in 1..f[p[1]]
      /\ \A p \in Piles(g) : p = <<p[1], p[2]>> /\ p[1] \in S /\ p[2] \in 1..g[p[1]]
      /\ \A p \in Piles(h) : p = <<p[1], p[2]>> /\ p[1] \in S /\ p[2] \in 1..h[p[1]]
  BY DEF Piles, Pile
<1>3. /\ \A x \in S : \A k \in 1..f[x] : <<x, k>> \in Piles(f)
      /\ \A x \in S : \A k \in 1..g[x] : <<x, k>> \in Piles(g)
      /\ \A x \in S : \A k \in 1..h[x] : <<x, k>> \in Piles(h)
  BY DEF Piles, Pile
<1>4. Raised \cap Piles(f) = {}
  <2> SUFFICES ASSUME NEW p \in Piles(g), raise[p] \in Piles(f) PROVE FALSE
    OBVIOUS
  <2>1. p[1] \in S /\ p[2] \in 1..g[p[1]]
    BY <1>2
  <2>2. raise[p] = <<p[1], f[p[1]] + p[2]>>
    OBVIOUS
  <2>3. f[p[1]] + p[2] \in 1..f[p[1]]
    BY <1>2, <2>2
  <2> QED
    BY <2>1, <2>3
<1>5. Piles(h) = Piles(f) \cup Raised
  <2>1. ASSUME NEW p \in Piles(h) PROVE p \in Piles(f) \cup Raised
    <3>1. p = <<p[1], p[2]>> /\ p[1] \in S /\ p[2] \in 1..(f[p[1]] + g[p[1]])
      BY <1>2
    <3>2. CASE p[2] \in 1..f[p[1]]
      BY <1>3, <3>1, <3>2
    <3>3. CASE p[2] > f[p[1]]
      <4> DEFINE q == <<p[1], p[2] - f[p[1]]>>
      <4>1. p[2] - f[p[1]] \in 1..g[p[1]]
        BY <3>1, <3>3
      <4>2. q \in Piles(g)
        BY <1>3, <3>1, <4>1
      <4>3. raise[q] = <<p[1], f[p[1]] + (p[2] - f[p[1]])>>
        BY <4>2
      <4>4. f[p[1]] + (p[2] - f[p[1]]) = p[2]
        BY <3>1
      <4> QED
        BY <3>1, <4>2, <4>3, <4>4
    <3> QED
      BY <3>1, <3>2, <3>3
  <2>2. ASSUME NEW p \in Piles(f) PROVE p \in Piles(h)
    <3>1. p = <<p[1], p[2]>> /\ p[1] \in S /\ p[2] \in 1..f[p[1]]
      BY <1>2
    <3>2. p[2] \in 1..h[p[1]]
      BY <3>1
    <3> QED
      BY <1>3, <3>1, <3>2
  <2>3. ASSUME NEW p \in Piles(g) PROVE raise[p] \in Piles(h)
    <3>1. p[1] \in S /\ p[2] \in 1..g[p[1]]
      BY <1>2
    <3>2. f[p[1]] + p[2] \in 1..h[p[1]]
      BY <3>1
    <3> QED
      BY <1>3, <3>1, <3>2
  <2> QED
    BY <2>1, <2>2, <2>3
<1>6. IsFiniteSet(Piles(f)) /\ IsFiniteSet(Piles(g)) /\ IsFiniteSet(Piles(h))
  BY <1>1, PilesFinite
<1>7. IsFiniteSet(Raised) /\ Cardinality(Raised) = Cardinality(Piles(g))
  <2>1. ASSUME NEW p \in Piles(g), NEW q \in Piles(g), raise[p] = raise[q]
        PROVE  p = q
    <3>1. /\ p = <<p[1], p[2]>> /\ p[1] \in S /\ p[2] \in 1..g[p[1]]
          /\ q = <<q[1], q[2]>> /\ q[1] \in S /\ q[2] \in 1..g[q[1]]
      BY <1>2
    <3>2. p[1] = q[1] /\ f[p[1]] + p[2] = f[q[1]] + q[2]
      BY <2>1
    <3>3. p[2] = q[2]
      BY <3>1, <3>2
    <3> QED
      BY <3>1, <3>2, <3>3
  <2>2. raise \in Bijection(Piles(g), Raised)
    <3>1. DOMAIN raise = Piles(g) /\ raise = [p \in DOMAIN raise |-> raise[p]]
      OBVIOUS
    <3> HIDE DEF raise
    <3>2. raise \in [Piles(g) -> Raised]
      BY <3>1
    <3>3. raise \in Injection(Piles(g), Raised)
      BY <2>1, <3>2 DEF Injection, IsInjective
    <3>4. raise \in Surjection(Piles(g), Raised)
      BY <3>2 DEF Surjection
    <3> QED
      BY <3>3, <3>4 DEF Bijection
  <2>3. ExistsBijection(Piles(g), Raised)
    BY <2>2 DEF ExistsBijection
  <2> QED
    BY <1>6, <2>3, FS_Bijection
<1>8. Cardinality(Piles(f) \cup Raised)
        = Cardinality(Piles(f)) + Cardinality(Raised) - Cardinality(Piles(f) \cap Raised)
  BY <1>6, <1>7, FS_Union
<1>9. Cardinality(Piles(f) \cap Raised) = 0
  BY <1>4, FS_EmptySet
<1>10. Cardinality(Piles(f)) \in Nat /\ Cardinality(Piles(g)) \in Nat
  BY <1>6, FS_CardinalityType
<1> HIDE DEF h, Raised
<1>11. Cardinality(Piles(h)) = Cardinality(Piles(f)) + Cardinality(Piles(g))
  BY <1>5, <1>7, <1>8, <1>9, <1>10
<1> QED
  BY <1>11 DEF Total, h

(* A function with one more element totals what it did without it plus the *)
(* value of that element.                                                  *)
LEMMA TotalExtend ==
    ASSUME NEW S, IsFiniteSet(S), NEW x, x \notin S,
           NEW f \in [S -> Nat], NEW g \in [S \cup {x} -> Nat],
           \A y \in S : g[y] = f[y]
    PROVE  Total(g) = Total(f) + g[x]
<1> DEFINE T == S \cup {x}
<1>1. Piles(g) = Piles(f) \cup Pile(g, x)
  <2>1. \A y \in S : Pile(g, y) = Pile(f, y)
    BY DEF Pile
  <2> QED
    BY <2>1 DEF Piles
<1>2. Piles(f) \cap Pile(g, x) = {}
  BY DEF Piles, Pile
<1>3. IsFiniteSet(Piles(f))
  BY PilesFinite
<1>4. IsFiniteSet(Pile(g, x)) /\ Cardinality(Pile(g, x)) = g[x]
  <2>1. g \in [T -> Nat] /\ x \in T
    OBVIOUS
  <2> HIDE DEF T
  <2> QED
    BY <2>1, PileSize
<1>5. Cardinality(Piles(f) \cup Pile(g, x))
        = Cardinality(Piles(f)) + Cardinality(Pile(g, x)) - Cardinality(Piles(f) \cap Pile(g, x))
  BY <1>3, <1>4, FS_Union
<1>6. Cardinality(Piles(f) \cap Pile(g, x)) = 0
  BY <1>2, FS_EmptySet
<1>7. Cardinality(Piles(f)) \in Nat /\ g[x] \in Nat
  BY <1>3, FS_CardinalityType
<1> QED
  BY <1>1, <1>4, <1>5, <1>6, <1>7 DEF Total

(* What the elements are called does not matter to a total.                *)
LEMMA TotalReindex ==
    ASSUME NEW S, IsFiniteSet(S), NEW f \in [S -> Nat], NEW b \in Bijection(S, S)
    PROVE  Total([x \in S |-> f[b[x]]]) = Total(f)
<1> DEFINE g == [x \in S |-> f[b[x]]]
           m == [pair \in Piles(g) |-> <<b[pair[1]], pair[2]>>]
<1>1. /\ b \in [S -> S]
      /\ \A x, y \in S : b[x] = b[y] => x = y
      /\ \A y \in S : \E x \in S : b[x] = y
  BY DEF Bijection, Injection, Surjection, IsInjective
<1>2. g \in [S -> Nat]
  BY <1>1
<1>3. /\ \A x, k : <<x, k>> \in Piles(g) <=> x \in S /\ k \in 1..f[b[x]]
      /\ \A x, k : <<x, k>> \in Piles(f) <=> x \in S /\ k \in 1..f[x]
      /\ \A pair \in Piles(g) : pair = <<pair[1], pair[2]>>
  BY DEF Piles, Pile
<1>4. m \in Bijection(Piles(g), Piles(f))
  <2>1. m \in [Piles(g) -> Piles(f)]
    <3>1. \A pair \in Piles(g) : <<b[pair[1]], pair[2]>> \in Piles(f)
      BY <1>1, <1>3
    <3> QED
      BY <3>1
  <2>2. ASSUME NEW p \in Piles(g), NEW q \in Piles(g), m[p] = m[q]
        PROVE  p = q
    <3>1. p[1] \in S /\ q[1] \in S
      BY <1>3
    <3>2. b[p[1]] = b[q[1]] /\ p[2] = q[2]
      BY <2>2
    <3> QED
      BY <1>1, <1>3, <3>1, <3>2
  <2>3. ASSUME NEW q \in Piles(f)
        PROVE  \E p \in Piles(g) : m[p] = q
    <3>1. q = <<q[1], q[2]>> /\ q[1] \in S /\ q[2] \in 1..f[q[1]]
      BY DEF Piles, Pile
    <3>2. PICK x \in S : b[x] = q[1]
      BY <1>1, <3>1
    <3>3. <<x, q[2]>> \in Piles(g)
      BY <1>3, <3>1, <3>2
    <3>4. m[<<x, q[2]>>] = <<b[x], q[2]>>
      BY <3>3
    <3> QED
      BY <3>1, <3>2, <3>3, <3>4
  <2> HIDE DEF m
  <2> QED
    BY <2>1, <2>2, <2>3 DEF Bijection, Injection, Surjection, IsInjective
<1>5. IsFiniteSet(Piles(g))
  BY <1>2, PilesFinite
<1> HIDE DEF m, g
<1>6. Cardinality(Piles(g)) = Cardinality(Piles(f))
  BY <1>4, <1>5, FS_Bijection DEF ExistsBijection
<1> QED
  BY <1>6 DEF Total, g

----
(* The share price                                                         *)

(* Division rounds down: the quotient is the largest that fits.            *)
LEMMA DivFloor ==
    ASSUME NEW a \in Nat, NEW b \in Nat \ {0}
    PROVE  /\ a \div b \in Nat
           /\ (a \div b) * b <= a
           /\ a < ((a \div b) + 1) * b
  BY Z3

(* A quotient is at most a bound whose product covers the dividend.        *)
LEMMA DivAtMost ==
    ASSUME NEW a \in Nat, NEW b \in Nat \ {0}, NEW c \in Nat, a < (c + 1) * b
    PROVE  a \div b <= c
<1>1. (a \div b) * b <= a /\ a \div b \in Nat
  BY DivFloor
<1>2. (a \div b) * b < (c + 1) * b
  BY <1>1, Z3
<1> DEFINE q == a \div b
<1>3. SUFFICES ASSUME q > c PROVE FALSE
  BY <1>1, Z3
<1>4. q >= c + 1 /\ q \in Nat
  BY <1>1, <1>3, Z3
<1>5. q * b < (c + 1) * b
  BY <1>2
<1> HIDE DEF q
<1>6. q * b >= (c + 1) * b
  BY <1>4, Z3
<1> QED
  BY <1>4, <1>5, <1>6, Z3

(* Rounded down, a share of a total that is due after e of d ledgers is a  *)
(* part of it and grows with e.                                            *)
LEMMA LinearShare ==
    ASSUME NEW t \in Nat, NEW d \in Nat \ {0}, NEW e \in Nat, e <= d
    PROVE  /\ (t * e) \div d \in 0..t
           /\ e < d => (t * e) \div d <= (t * (e + 1)) \div d
<1>1. t * e \in Nat /\ t * (e + 1) \in Nat /\ t * e <= t * (e + 1)
  BY Z3
<1>2. t * e <= t * d /\ t * d < (t + 1) * d
  BY Z3
<1> DEFINE low == t * e
           high == t * (e + 1)
           q == high \div d
<1>3. q \in Nat /\ high < (q + 1) * d
  BY <1>1, DivFloor
<1>4. t * d \in Int /\ (t + 1) * d \in Int /\ (q + 1) * d \in Int
  BY <1>3, Z3
<1>5. low < (t + 1) * d
  <2> HIDE DEF low
  <2> QED
    BY <1>1, <1>2, <1>4 DEF low
<1>6. low < (q + 1) * d
  <2> HIDE DEF low, high, q
  <2> QED
    BY <1>1, <1>3, <1>4 DEF low, high
<1> HIDE DEF low, high, q
<1>7. low \div d <= t
  BY <1>1, <1>5, DivAtMost DEF low
<1>8. low \div d <= q
  BY <1>1, <1>3, <1>6, DivAtMost DEF low
<1>9. low \div d \in Nat
  BY <1>1, DivFloor DEF low
<1> QED
  BY <1>7, <1>8, <1>9 DEF low, high, q

(* Minting k shares for m assets, rounded down, does not lower the price.  *)
LEMMA DepositKeepsPrice ==
    ASSUME NEW A \in Nat, NEW S \in Nat, NEW m \in Nat, NEW k \in Nat,
           k * A <= m * S
    PROVE  A * (S + k) <= (A + m) * S
<1>1. A * (S + k) = A * S + k * A
  BY Z3
<1>2. (A + m) * S = A * S + m * S
  BY Z3
<1> DEFINE X == A * S
           Y == k * A
           Z == m * S
<1>3. X \in Int /\ Y \in Int /\ Z \in Int
  BY Z3
<1> HIDE DEF X, Y, Z
<1> QED
  BY <1>1, <1>2, <1>3 DEF X, Y, Z

(* Burning k shares for m assets, rounded down, does not lower the price.  *)
LEMMA WithdrawKeepsPrice ==
    ASSUME NEW A \in Nat, NEW S \in Nat, NEW m \in 0..A, NEW k \in 0..S,
           m * S <= k * A
    PROVE  A * (S - k) <= (A - m) * S
<1>1. A * (S - k) = A * S - k * A
  BY Z3
<1>2. (A - m) * S = A * S - m * S
  BY Z3
<1> DEFINE X == A * S
           Y == k * A
           Z == m * S
<1>3. X \in Int /\ Y \in Int /\ Z \in Int
  BY Z3
<1> HIDE DEF X, Y, Z
<1> QED
  BY <1>1, <1>2, <1>3 DEF X, Y, Z

(* More assets behind the same supply do not lower the price.              *)
LEMMA GrowthKeepsPrice ==
    ASSUME NEW A \in Nat, NEW B \in Nat, NEW S \in Nat, A <= B
    PROVE  A * S <= B * S
  BY Z3

(* The k shares minted for m assets are worth at most m right afterwards.  *)
LEMMA RoundTripFloor ==
    ASSUME NEW A \in Nat \ {0}, NEW S \in Nat \ {0}, NEW m \in Nat, NEW k \in Nat,
           k * A <= m * S
    PROVE  (k * (A + m)) \div (S + k) <= m
<1>1. k * (A + m) = k * A + m * k
  BY Z3
<1>2. (m + 1) * (S + k) = m * S + m * k + (S + k)
  BY Z3
<1> DEFINE X == k * A
           Y == m * k
           Z == m * S
<1>3. X \in Nat /\ Y \in Nat /\ Z \in Nat
  BY Z3
<1>4. k * (A + m) \in Nat /\ S + k \in Nat \ {0}
  BY Z3
<1>5. k * (A + m) < (m + 1) * (S + k)
  <2> HIDE DEF X, Y, Z
  <2> QED
    BY <1>1, <1>2, <1>3 DEF X, Y, Z
<1> QED
  BY <1>4, <1>5, DivAtMost
----
(* Powers                                                                  *)

(* There are finitely many words of n letters: they are relations.         *)
LEMMA WordsFinite ==
    ASSUME NEW b \in Nat, NEW n \in Nat
    PROVE  IsFiniteSet(Words(b, n)) /\ Power(b, n) \in Nat
<1> DEFINE A == 1..n
           B == 1..b
           graph == [w \in [A -> B] |-> {<<i, w[i]>> : i \in A}]
<1>1. IsFiniteSet(A) /\ IsFiniteSet(B)
  BY FS_Interval
<1> HIDE DEF A, B
<1>2. IsFiniteSet(A \X B)
  BY <1>1, FS_Product
<1>3. IsFiniteSet(SUBSET (A \X B))
  BY <1>2, FS_SUBSET
<1>4. graph \in [[A -> B] -> SUBSET (A \X B)]
  OBVIOUS
<1>5. ASSUME NEW v \in [A -> B], NEW w \in [A -> B], graph[v] = graph[w]
      PROVE  v = w
  <2>1. ASSUME NEW i \in A PROVE v[i] = w[i]
    <3>1. <<i, v[i]>> \in graph[v]
      OBVIOUS
    <3>2. <<i, v[i]>> \in graph[w]
      BY <1>5, <3>1
    <3>3. PICK j \in A : <<i, v[i]>> = <<j, w[j]>>
      BY <3>2
    <3> QED
      BY <3>3
  <2> QED
    BY <2>1
<1> HIDE DEF graph
<1>6. graph \in Injection([A -> B], SUBSET (A \X B))
  BY <1>4, <1>5 DEF Injection, IsInjective
<1>7. IsFiniteSet([A -> B])
  BY <1>3, <1>6, FS_Injection
<1> QED
  BY <1>7, FS_CardinalityType DEF A, B, Words, Power

(* There is one word of no letters.                                        *)
LEMMA PowerZero ==
    ASSUME NEW b \in Nat
    PROVE  Power(b, 0) = 1
<1>1. 1..0 = {}
  OBVIOUS
<1>2. Words(b, 0) = {[i \in {} |-> i]}
  BY <1>1 DEF Words
<1> QED
  BY <1>2, FS_Singleton DEF Power

(* One letter more, and there are b times as many words.                   *)
LEMMA PowerStep ==
    ASSUME NEW b \in Nat, NEW n \in Nat
    PROVE  Power(b, n + 1) = Power(b, n) * b
<1> DEFINE W == Words(b, n)
           B == 1..b
           V == Words(b, n + 1)
           longer == [p \in W \X B |->
                        [i \in 1..(n + 1) |-> IF i = n + 1 THEN p[2] ELSE p[1][i]]]
<1>1. 1..(n + 1) = (1..n) \cup {n + 1} /\ n + 1 \notin 1..n
  OBVIOUS
<1>2. longer \in [W \X B -> V]
  BY <1>1 DEF Words
<1>3. ASSUME NEW p \in W \X B, NEW q \in W \X B, longer[p] = longer[q]
      PROVE  p = q
  <2>1. longer[p][n + 1] = p[2] /\ longer[q][n + 1] = q[2]
    BY <1>1
  <2>2. \A i \in 1..n : longer[p][i] = p[1][i] /\ longer[q][i] = q[1][i]
    BY <1>1
  <2>3. p[1] \in [1..n -> 1..b] /\ q[1] \in [1..n -> 1..b]
    BY DEF Words
  <2> HIDE DEF longer
  <2>4. p[1] = q[1] /\ p[2] = q[2]
    BY <1>3, <2>1, <2>2, <2>3
  <2> QED
    BY <2>4
<1>4. ASSUME NEW v \in V PROVE \E p \in W \X B : longer[p] = v
  <2> DEFINE p == <<[i \in 1..n |-> v[i]], v[n + 1]>>
  <2>1. v \in [1..(n + 1) -> B]
    BY DEF Words
  <2>2. p \in W \X B
    BY <1>1, <2>1 DEF Words
  <2>3. longer[p] = [i \in 1..(n + 1) |-> IF i = n + 1 THEN p[2] ELSE p[1][i]]
    BY <2>2
  <2>4. \A i \in 1..(n + 1) : longer[p][i] = v[i]
    BY <1>1, <2>3
  <2>5. longer[p] \in [1..(n + 1) -> B]
    BY <1>2, <2>2 DEF Words
  <2> HIDE DEF longer, p
  <2>6. longer[p] = v
    BY <2>1, <2>4, <2>5
  <2> QED
    BY <2>2, <2>6
<1>5. IsFiniteSet(W) /\ Cardinality(W) \in Nat
  BY WordsFinite DEF Power
<1>6. IsFiniteSet(B) /\ Cardinality(B) = b
  BY FS_Interval
<1> HIDE DEF W, B, V, longer
<1>7. longer \in Bijection(W \X B, V)
  BY <1>2, <1>3, <1>4 DEF Bijection, Injection, Surjection, IsInjective
<1>8. ExistsBijection(W \X B, V)
  BY <1>7 DEF ExistsBijection
<1>9. IsFiniteSet(W \X B) /\ Cardinality(W \X B) = Cardinality(W) * Cardinality(B)
  BY <1>5, <1>6, FS_Product
<1>10. Cardinality(V) = Cardinality(W \X B)
  BY <1>8, <1>9, FS_Bijection
<1> QED
  BY <1>6, <1>9, <1>10 DEF Power, W, V

----
(* Least and largest elements, which is induction without an operator as a *)
(* parameter: what fails for some number fails for a least one.            *)

LEMMA LeastNatural ==
    ASSUME NEW T, T \subseteq Nat, T # {}
    PROVE  \E m \in T : \A k \in T : m <= k
<1>1. PICK m \in T : \A k \in T : <<k, m>> \notin OpToRel(<, Nat)
  BY WFMin, NatLessThanWellFounded, Zenon
<1>2. \A k \in T : ~(k < m)
  BY <1>1, Zenon DEF OpToRel
<1>3. \A k \in T : m <= k
  BY <1>2
<1> QED
  BY <1>3

(* A finite list of integers has a first largest element.                  *)
LEMMA FirstLargest ==
    ASSUME NEW n \in Nat \ {0}, NEW f \in [1..n -> Int]
    PROVE  \E i \in 1..n : /\ \A j \in 1..n : f[j] <= f[i]
                          /\ \A j \in 1..(i - 1) : f[j] < f[i]
<1> DEFINE g == [j \in 1..n |-> IF f[j] > 0 THEN f[j] ELSE 0]
           top == Total(g)
<1>1. g \in [1..n -> Nat] /\ IsFiniteSet(1..n)
  BY FS_Interval
<1>2. top \in Nat /\ \A j \in 1..n : g[j] <= top
  BY <1>1, TotalBounds
<1> HIDE DEF top
<1>3. \A j \in 1..n : f[j] <= top
  BY <1>2
<1> DEFINE Below == {top - f[j] : j \in 1..n}
<1>4. Below \subseteq Nat /\ Below # {}
  BY <1>2, <1>3
<1>5. PICK least \in Below : \A k \in Below : least <= k
  BY <1>4, LeastNatural
<1> DEFINE Best == {j \in 1..n : top - f[j] = least}
<1>6. Best \subseteq Nat /\ Best # {}
  BY <1>5
<1>7. PICK i \in Best : \A j \in Best : i <= j
  BY <1>6, LeastNatural
<1>8. \A j \in 1..n : least <= top - f[j]
  BY <1>5
<1>9. \A j \in 1..n : f[j] <= f[i]
  BY <1>2, <1>7, <1>8
<1>10. \A j \in 1..(i - 1) : f[j] < f[i]
  <2> TAKE j \in 1..(i - 1)
  <2>1. j \in 1..n /\ j < i
    BY <1>7
  <2>2. j \notin Best
    BY <1>7, <2>1
  <2> QED
    BY <1>2, <1>7, <1>8, <2>1, <2>2
<1> QED
  BY <1>7, <1>9, <1>10
====
