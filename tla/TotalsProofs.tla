---------------------------- MODULE TotalsProofs ----------------------------
(***************************************************************************)
(* Facts about Total: it is 0 for a function that is 0 everywhere, it      *)
(* follows a change of one value, it grows with the function, and it is at *)
(* least every value.  Only finitely many values need be positive.         *)
(***************************************************************************)
EXTENDS Totals, FiniteSetTheorems, TLAPS

Countable(f) == IsFiniteSet(Pieces(f))

\* The pieces of f are the pairs of an argument and a number up to its value.
LEMMA PieceOf ==
    ASSUME NEW S, NEW f \in [S -> Nat], NEW p
    PROVE  p \in Pieces(f) <=> \E x \in S : \E i \in 1 .. f[x] : p = <<x, i>>
  <1>1. DOMAIN f = S
    OBVIOUS
  <1> QED
    BY <1>1 DEF Pieces

\* A countable function has a natural total.
LEMMA TotalNat ==
    ASSUME NEW f, Countable(f)
    PROVE  Total(f) \in Nat
  BY FS_CardinalityType DEF Countable, Total

\* Nothing adds up to nothing.
LEMMA TotalZero ==
    ASSUME NEW S, NEW f \in [S -> Nat], \A x \in S : f[x] = 0
    PROVE  Countable(f) /\ Total(f) = 0
  <1>1. Pieces(f) = {}
    BY PieceOf
  <1> QED
    BY <1>1, FS_EmptySet DEF Countable, Total

\* One argument has as many pieces as its value.
LEMMA ColumnCount ==
    ASSUME NEW x, NEW n \in Nat
    PROVE  IsFiniteSet({x} \X (1 .. n)) /\ Cardinality({x} \X (1 .. n)) = n
  <1> DEFINE X == {x}
             N == 1 .. n
  <1>1. IsFiniteSet(X) /\ Cardinality(X) = 1
    BY FS_Singleton
  <1>2. IsFiniteSet(N) /\ Cardinality(N) = n
    BY FS_Interval
  <1> HIDE DEF X, N
  <1>3. IsFiniteSet(X \X N) /\ Cardinality(X \X N) = 1 * n
    BY <1>1, <1>2, FS_Product
  <1>4. IsFiniteSet(X \X N) /\ Cardinality(X \X N) = n
    BY <1>3
  <1> QED
    BY <1>4, Zenon DEF X, N

\* The total without the pieces of one argument.
LEMMA WithoutColumn ==
    ASSUME NEW S, NEW f \in [S -> Nat], NEW x \in S,
           NEW Rest, Rest = {p \in Pieces(f) : p[1] # x}, IsFiniteSet(Rest)
    PROVE  Countable(f) /\ Total(f) = Cardinality(Rest) + f[x]
  <1> DEFINE Column == {x} \X (1 .. f[x])
  <1>1. Pieces(f) = Rest \cup Column
    <2>1. ASSUME NEW p \in Pieces(f) PROVE p \in Rest \cup Column
      <3>1. PICK y \in S : \E i \in 1 .. f[y] : p = <<y, i>>
        BY <2>1, PieceOf
      <3> QED
        BY <3>1
    <2>2. ASSUME NEW p \in Column PROVE p \in Pieces(f)
      BY <2>2, PieceOf
    <2> QED
      BY <2>1, <2>2
  <1>2. Rest \cap Column = {}
    OBVIOUS
  <1>3. IsFiniteSet(Column) /\ Cardinality(Column) = f[x]
    BY ColumnCount
  <1> HIDE DEF Column
  <1>4. /\ IsFiniteSet(Rest \cup Column)
        /\ Cardinality(Rest \cup Column) =
              Cardinality(Rest) + Cardinality(Column) - Cardinality(Rest \cap Column)
    BY <1>3, FS_Union
  <1>5. Cardinality(Rest \cap Column) = 0
    BY <1>2, FS_EmptySet
  <1>6. Cardinality(Rest) \in Nat /\ f[x] \in Nat
    BY FS_CardinalityType
  <1>7. /\ IsFiniteSet(Pieces(f))
        /\ Cardinality(Pieces(f)) =
              Cardinality(Rest) + Cardinality(Column) - Cardinality(Rest \cap Column)
    BY <1>1, <1>4, Zenon
  <1> QED
    BY <1>3, <1>5, <1>6, <1>7 DEF Countable, Total

\* When one value changes, the total changes by as much.
LEMMA TotalChange ==
    ASSUME NEW S, NEW f \in [S -> Nat], NEW g \in [S -> Nat], NEW x \in S,
           \A y \in S \ {x} : g[y] = f[y], Countable(f)
    PROVE  /\ Countable(g)
           /\ Total(g) = Total(f) - f[x] + g[x]
  <1> DEFINE Rest == {p \in Pieces(f) : p[1] # x}
  <1>1. IsFiniteSet(Rest)
    BY FS_Subset DEF Countable
  <1>2. Rest = {p \in Pieces(g) : p[1] # x}
    <2>1. ASSUME NEW p PROVE p \in Rest <=> p \in Pieces(g) /\ p[1] # x
      <3>1. CASE p \in Rest
        <4>1. PICK y \in S : \E i \in 1 .. f[y] : p = <<y, i>>
          BY <3>1, PieceOf
        <4>2. g[y] = f[y]
          BY <3>1, <4>1
        <4> QED
          BY <3>1, <4>1, <4>2, PieceOf
      <3>2. CASE p \in Pieces(g) /\ p[1] # x
        <4>1. PICK y \in S : \E i \in 1 .. g[y] : p = <<y, i>>
          BY <3>2, PieceOf
        <4>2. g[y] = f[y]
          BY <3>2, <4>1
        <4> QED
          BY <3>2, <4>1, <4>2, PieceOf
      <3> QED
        BY <3>1, <3>2
    <2> QED
      BY <2>1
  <1>3. Total(f) = Cardinality(Rest) + f[x]
    BY <1>1, WithoutColumn
  <1> HIDE DEF Rest
  <1>4. Countable(g) /\ Total(g) = Cardinality(Rest) + g[x]
    BY <1>1, <1>2, WithoutColumn
  <1>5. Cardinality(Rest) \in Nat /\ f[x] \in Nat /\ g[x] \in Nat
    BY <1>1, FS_CardinalityType
  <1> QED
    BY <1>3, <1>4, <1>5

\* A function that is nowhere greater has no greater total.
LEMMA TotalMonotonic ==
    ASSUME NEW S, NEW f \in [S -> Nat], NEW g \in [S -> Nat],
           \A y \in S : g[y] <= f[y], Countable(f)
    PROVE  Countable(g) /\ Total(g) <= Total(f)
  <1>1. Pieces(g) \subseteq Pieces(f)
    <2> SUFFICES ASSUME NEW p \in Pieces(g) PROVE p \in Pieces(f)
      OBVIOUS
    <2>1. PICK y \in S : \E i \in 1 .. g[y] : p = <<y, i>>
      BY PieceOf
    <2>2. PICK i \in 1 .. g[y] : p = <<y, i>>
      BY <2>1
    <2>3. i \in 1 .. f[y]
      <3>1. f[y] \in Nat /\ g[y] \in Nat /\ g[y] <= f[y]
        OBVIOUS
      <3> QED
        BY <3>1
    <2> QED
      BY <2>2, <2>3, PieceOf
  <1> QED
    BY <1>1, FS_Subset DEF Countable, Total

\* No value exceeds the total.
LEMMA TotalBounds ==
    ASSUME NEW S, NEW f \in [S -> Nat], NEW x \in S, Countable(f)
    PROVE  f[x] <= Total(f)
  <1> DEFINE Rest == {p \in Pieces(f) : p[1] # x}
  <1>1. IsFiniteSet(Rest)
    BY FS_Subset DEF Countable
  <1>2. Total(f) = Cardinality(Rest) + f[x]
    BY <1>1, WithoutColumn
  <1> HIDE DEF Rest
  <1>3. Cardinality(Rest) \in Nat /\ f[x] \in Nat
    BY <1>1, FS_CardinalityType
  <1> QED
    BY <1>2, <1>3

\* A function of finitely many arguments is countable.
LEMMA FiniteCountable ==
    ASSUME NEW S, NEW f \in [S -> Nat], IsFiniteSet(S)
    PROVE  Countable(f)
  <1> DEFINE Columns == {{x} \X (1 .. f[x]) : x \in S}
             column == [x \in S |-> {x} \X (1 .. f[x])]
  <1>1. column \in Surjection(S, Columns)
    BY DEF Surjection
  <1>2. IsFiniteSet(Columns)
    BY <1>1, FS_Surjection
  <1>3. \A C \in Columns : IsFiniteSet(C)
    <2>1. ASSUME NEW x \in S PROVE IsFiniteSet({x} \X (1 .. f[x]))
      <3>1. f[x] \in Nat
        OBVIOUS
      <3> QED
        BY <3>1, ColumnCount
    <2> QED
      BY <2>1
  <1>4. Pieces(f) = UNION Columns
    BY DEF Pieces
  <1> HIDE DEF Columns
  <1>5. IsFiniteSet(UNION Columns)
    BY <1>2, <1>3, FS_UNION
  <1> QED
    BY <1>4, <1>5 DEF Countable

=============================================================================
