---------------------- MODULE MultiObjectTrackerProofs ----------------------
(***************************************************************************)
(* Theorems about the tracker and its assigner for tables of any size with *)
(* any weights, any stamps and any thresholds.                             *)
(***************************************************************************)
EXTENDS MultiObjectTracker, FiniteSetTheorems, TLAPS

USE CapacityAssumption, WeightAssumption, UnassignedAssumption

-----------------------------------------------------------------------------
(* Least elements and counting.                                            *)

LEMMA LeastNatural ==
  ASSUME NEW T, T \subseteq Nat, T # {}
  PROVE  \E x \in T : \A y \in T : x =< y
<1> DEFINE R == OpToRel(<, Nat)
<1>1. IsWellFoundedOn(R, Nat)
  BY NatLessThanWellFounded
<1>2. PICK x \in T : \A y \in T : ~ (<<y, x>> \in R)
  <2> HIDE DEF R
  <2> QED BY <1>1, WFMin
<1>3. \A y \in T : ~ (y < x)
  BY <1>2 DEF OpToRel
<1> QED
  BY <1>3

\* What holds of 0, and of n + 1 if of n, holds of every natural number.
LEMMA Induction ==
  ASSUME NEW T, 0 \in T, \A n \in Nat : n \in T => n + 1 \in T
  PROVE  Nat \subseteq T
<1> SUFFICES ASSUME Nat \ T # {} PROVE FALSE
  OBVIOUS
<1>1. PICK x \in Nat \ T : \A y \in Nat \ T : x =< y
  BY LeastNatural
<1>2. x # 0 /\ x - 1 \in Nat
  BY <1>1
<1>3. x - 1 \in T
  BY <1>1, <1>2
<1> QED
  BY <1>1, <1>2, <1>3

\* A finite set of integers has a least element.
LEMMA LeastInteger ==
  ASSUME NEW T, T \subseteq Int, T # {}, IsFiniteSet(T)
  PROVE  \E x \in T : \A y \in T : x =< y
<1> DEFINE Sizes == {Cardinality(U) : U \in {V \in SUBSET T : V # {} /\ \A x \in T \ V, y \in V : y < x}}
<1>1. Cardinality(T) \in Sizes
  OBVIOUS
<1>2. \A U \in SUBSET T : IsFiniteSet(U) /\ Cardinality(U) \in Nat
  BY FS_Subset, FS_CardinalityType
<1>3. Sizes \subseteq Nat
  BY <1>2
<1>4. PICK n \in Sizes : \A m \in Sizes : n =< m
  <2> HIDE DEF Sizes
  <2> QED BY <1>1, <1>3, LeastNatural
<1>5. PICK U \in SUBSET T : /\ U # {} /\ \A x \in T \ U, y \in U : y < x
                            /\ n = Cardinality(U)
  BY <1>4
<1>6. PICK x \in U : TRUE
  BY <1>5
<1> DEFINE V == {y \in U : y < x}
<1>7. CASE V = {}
  BY <1>5, <1>6, <1>7
<1>8. CASE V # {}
  <2>1. Cardinality(V) \in Sizes
    BY <1>5, <1>6, <1>8
  <2>2. V \in SUBSET U /\ V # U
    BY <1>5, <1>6
  <2>3. Cardinality(V) =< Cardinality(U) /\ Cardinality(V) # Cardinality(U)
    BY <2>2, <1>2, FS_Subset
  <2>4. Cardinality(V) \in Nat /\ Cardinality(U) \in Nat
    BY <1>2
  <2>5. n =< Cardinality(V)
    <3> HIDE DEF Sizes, V
    <3> QED BY <2>1, <1>4
  <2> QED
    BY <2>3, <2>4, <2>5, <1>5
<1> QED
  BY <1>7, <1>8

\* A finite set of naturals has a k-th element, counted from 0.
LEMMA ElementAt ==
  ASSUME NEW S, S \subseteq Nat, IsFiniteSet(S), NEW k \in Nat, k < Cardinality(S)
  PROVE  \E c \in S : Cardinality({d \in S : d < c}) = k
<1> DEFINE Below == [c \in S |-> {d \in S : d < c}]
           Bad == {j \in 0 .. k : \A c \in S : Cardinality(Below[c]) # j}
<1>1. \A c \in S : c \in Nat /\ \A d : d \in Below[c] <=> d \in S /\ d < c
  OBVIOUS
<1>2. \A j : j \in Bad <=> j \in 0 .. k /\ \A c \in S : Cardinality(Below[c]) # j
  OBVIOUS
<1> HIDE DEF Below, Bad
<1>3. \A U \in SUBSET S : IsFiniteSet(U) /\ Cardinality(U) \in Nat
  BY FS_Subset, FS_CardinalityType
<1>4. ASSUME Bad # {} PROVE FALSE
  <2>1. Bad \subseteq Nat
    BY <1>2
  <2>2. PICK j \in Bad : \A i \in Bad : j =< i
    BY <1>4, <2>1, LeastNatural
  <2>3. j \in 0 .. k /\ \A c \in S : Cardinality(Below[c]) # j
    BY <1>2
  <2>4. CASE j = 0
    <3>1. S # {}
      BY FS_EmptySet
    <3>2. PICK c \in S : \A d \in S : c =< d
      BY <3>1, LeastNatural
    <3>3. Below[c] = {}
      <4>1. \A d : d \in Below[c] <=> d \in S /\ d < c
        BY <1>1
      <4>2. \A d \in S : d \in Nat /\ c \in Nat
        OBVIOUS
      <4>3. \A d \in S : ~ (d < c)
        BY <4>2, <3>2
      <4> QED BY <4>1, <4>3
    <3> QED BY <3>3, <2>3, <2>4, FS_EmptySet
  <2>5. CASE j # 0
    <3>1. j - 1 \in 0 .. k /\ j - 1 \notin Bad
      BY <2>2, <2>3, <2>5, <2>1
    <3>2. PICK c \in S : Cardinality(Below[c]) = j - 1
      BY <3>1, <1>2
    <3>3. Below[c] \in SUBSET S /\ c \notin Below[c]
      BY <1>1
    <3>4. Cardinality(Below[c] \cup {c}) = j
      <4>1. Cardinality(Below[c] \cup {c}) = Cardinality(Below[c]) + 1
        BY <3>3, <1>3, FS_AddElement
      <4> QED BY <4>1, <3>1, <3>2, <2>3
    <3> DEFINE Above == {d \in S : c < d}
    <3>5. Above # {}
      <4>1. SUFFICES ASSUME Above = {} PROVE FALSE
        OBVIOUS
      <4>2. S = Below[c] \cup {c}
        <5>1. \A d \in S : d \in Below[c] \/ d = c
          BY <4>1, <1>1
        <5> QED BY <5>1, <3>3
      <4> QED BY <4>2, <3>4, <2>3
    <3>6. PICK x \in Above : \A d \in Above : x =< d
      <4>1. Above \subseteq Nat
        OBVIOUS
      <4> HIDE DEF Above
      <4> QED BY <3>5, <4>1, LeastNatural
    <3>7. Below[x] = Below[c] \cup {c}
      <4>1. x \in S /\ c < x /\ \A d \in S : c < d => x =< d
        BY <3>6
      <4> HIDE DEF Above
      <4>2. \A d : d \in Below[x] <=> d \in S /\ d < x
        BY <4>1, <1>1
      <4>3. \A d : d \in Below[c] <=> d \in S /\ d < c
        BY <1>1
      <4>4. \A d \in S : d \in Nat /\ c \in Nat /\ x \in Nat
        BY <4>1
      <4>5. \A d \in S : d < x <=> d < c \/ d = c
        BY <4>1, <4>4
      <4>6. c \in S
        OBVIOUS
      <4>7. \A d : d \in Below[x] <=> d \in Below[c] \cup {c}
        BY <4>2, <4>3, <4>5, <4>6
      <4> QED BY <4>7
    <3> QED BY <3>4, <3>6, <3>7, <2>3
  <2> QED BY <2>4, <2>5
<1>5. PICK c \in S : Cardinality(Below[c]) = k
  BY <1>2, <1>4
<1>6. Below[c] = {d \in S : d < c}
  BY DEF Below
<1> QED
  BY <1>5, <1>6

\* A set of slots has a first one.
LEMMA FirstSlot ==
  ASSUME NEW slots, slots # {}, slots \subseteq Nat \X Nat
  PROVE  First(slots) \in slots
<1> DEFINE Rows == {Row(s) : s \in slots}
<1>1. Rows \subseteq Nat /\ Rows # {}
  BY DEF Row
<1>2. PICK r \in Rows : \A q \in Rows : r =< q
  <2> HIDE DEF Rows
  <2> QED BY <1>1, LeastNatural
<1> DEFINE Cols == {Col(s) : s \in {t \in slots : Row(t) = r}}
<1>3. Cols \subseteq Nat /\ Cols # {}
  BY <1>2 DEF Col, Row
<1>4. PICK c \in Cols : \A d \in Cols : c =< d
  <2> HIDE DEF Cols
  <2> QED BY <1>3, LeastNatural
<1>5. PICK s \in slots : Row(s) = r /\ Col(s) = c
  BY <1>4
<1>6. \A t \in slots : Precedes(s, t)
  <2> SUFFICES ASSUME NEW t \in slots PROVE Precedes(s, t)
    OBVIOUS
  <2>1. Row(t) \in Rows /\ Row(t) \in Nat /\ r \in Nat
    BY <1>1
  <2>2. Row(t) = r => Col(t) \in Cols
    OBVIOUS
  <2>3. r =< Row(t) /\ (Row(t) = r => c =< Col(t))
    <3> HIDE DEF Rows, Cols
    <3> QED BY <2>1, <2>2, <1>2, <1>4
  <2> QED BY <2>1, <2>3, <1>5 DEF Precedes
<1> QED
  BY <1>5, <1>6 DEF First

\* A one-to-one map of 0 .. n - 1 into itself leaves nothing out.
LEMMA OneToOneIsOnto ==
  ASSUME NEW n \in Nat, NEW f \in [0 .. n - 1 -> 0 .. n - 1],
         \A a, b \in 0 .. n - 1 : f[a] = f[b] => a = b
  PROVE  \A c \in 0 .. n - 1 : \E a \in 0 .. n - 1 : f[a] = c
<1>1. f \in Injection(0 .. n - 1, 0 .. n - 1)
  BY DEF Injection, IsInjective
<1>2. IsFiniteSet(0 .. n - 1)
  BY FS_Interval
<1>3. f \in Surjection(0 .. n - 1, 0 .. n - 1)
  BY <1>1, <1>2, FS_Injection
<1> QED
  BY <1>3 DEF Surjection

\* A set of slots of which no two share a row or a column has as many slots as
\* columns, and has a slot in every column if it has one in every row.
LEMMA Matching ==
  ASSUME NEW n \in Nat, NEW S, S \subseteq (0 .. n - 1) \X (0 .. n - 1),
         \A s, t \in S : (Row(s) = Row(t) \/ Col(s) = Col(t)) => s = t
  PROVE  /\ IsFiniteSet(S) /\ Cardinality(S) \in 0 .. n
         /\ Cardinality({Col(s) : s \in S}) = Cardinality(S)
         /\ Cardinality(S) = n => {Col(s) : s \in S} = 0 .. n - 1
         /\ (\A r \in 0 .. n - 1 : \E s \in S : Row(s) = r) => {Col(s) : s \in S} = 0 .. n - 1
<1> DEFINE B == 0 .. n - 1
           Cols == {Col(s) : s \in S}
           f == [s \in S |-> Col(s)]
<1>1. IsFiniteSet(B) /\ Cardinality(B) = n
  BY FS_Interval
<1>2. Cols \subseteq B
  BY DEF Col
<1>3. IsFiniteSet(Cols) /\ Cardinality(Cols) \in Nat /\ Cardinality(Cols) =< n
  <2> HIDE DEF Cols, B
  <2> QED BY <1>1, <1>2, FS_Subset, FS_CardinalityType
<1>4. Cardinality(Cols) = n => Cols = B
  <2> HIDE DEF Cols, B
  <2> QED BY <1>1, <1>2, FS_Subset
<1>5. f \in Injection(S, Cols) /\ f \in Surjection(S, Cols)
  BY DEF Injection, Surjection, IsInjective
<1>6. IsFiniteSet(S) /\ Cardinality(S) = Cardinality(Cols)
  <2> HIDE DEF Cols, f
  <2> QED BY <1>3, <1>5, FS_Injection
<1>7. ASSUME \A r \in B : \E s \in S : Row(s) = r PROVE Cols = B
  <2> DEFINE g == [r \in B |-> CHOOSE s \in S : Row(s) = r]
             h == [r \in B |-> Col(g[r])]
  <2>1. \A r \in B : g[r] \in S /\ Row(g[r]) = r
    BY <1>7
  <2> HIDE DEF g
  <2>2. h \in [B -> B]
    BY <2>1, <1>2
  <2>3. \A a, b \in B : h[a] = h[b] => a = b
    BY <2>1
  <2>4. \A c \in B : \E a \in B : h[a] = c
    <3> HIDE DEF h
    <3> QED BY <2>2, <2>3, OneToOneIsOnto
  <2> QED
    BY <2>1, <2>4, <1>2
<1> QED
  BY <1>3, <1>4, <1>6, <1>7, SMTT(20)

-----------------------------------------------------------------------------
(* Priming: PrimeUncoveredZero and AddNewZero.                             *)

\* A round that is open has a row without a star.
LEMMA SomeRowIsFree ==
  ASSUME AssignerInv, pc \in {"prime", "path"}
  PROVE  \E r \in Block : \A s \in Stars : Row(s) # r
<1>1. m_num_cols \in Nat
  BY DEF AssignerInv, AssignerTypeOK
<1>2. Stars \subseteq (0 .. m_num_cols - 1) \X (0 .. m_num_cols - 1)
  BY DEF Stars, BlockSlots, Block
<1>3. \A s, t \in Stars : (Row(s) = Row(t) \/ Col(s) = Col(t)) => s = t
  BY DEF AssignerInv, StarsMatch
<1>4. {Col(s) : s \in Stars} # 0 .. m_num_cols - 1
  BY DEF AssignerInv, RoundIsOpen, StarCols, Block
<1>5. ~ \A r \in 0 .. m_num_cols - 1 : \E s \in Stars : Row(s) = r
  BY <1>1, <1>2, <1>3, <1>4, Matching
<1> QED
  BY <1>5 DEF Block

\* There is something to prime.
LEMMA SomethingIsUncovered ==
  ASSUME AssignerInv, pc = "prime"
  PROVE  Uncovered # {}
<1>1. PICK r \in Block : \A s \in Stars : Row(s) # r
  BY SomeRowIsFree
<1>2. r \notin m_is_row_covered
  BY <1>1 DEF AssignerInv, StarsMatch
<1>3. PICK c \in Block : c \notin StarCols
  <2>1. StarCols \subseteq Block
    BY DEF StarCols, Stars, BlockSlots, Col
  <2> QED BY <2>1 DEF AssignerInv, RoundIsOpen
<1>4. c \notin m_is_col_covered
  BY <1>3 DEF AssignerInv, StarsMatch, StarCols
<1>5. <<r, c>> \in Uncovered
  BY <1>2, <1>4 DEF Uncovered, BlockSlots, Row, Col
<1> QED
  BY <1>5

\* What priming an uncovered slot finds.
LEMMA UncoveredSlot ==
  ASSUME AssignerInv, pc = "prime", NEW loc \in Uncovered
  PROVE  /\ loc \in BlockSlots /\ loc \in Slots
         /\ m_mark_matrix[loc] \notin {"STARRED", "PRIMED"}
         /\ \A i \in 1 .. Len(m_primed_zero_locs) : Row(m_primed_zero_locs[i]) # Row(loc)
         /\ \A s \in Stars : Col(s) = Col(loc)
                => \E j \in 1 .. Len(m_primed_zero_locs) : Row(m_primed_zero_locs[j]) = Row(s)
<1>1. loc \in BlockSlots /\ Row(loc) \notin m_is_row_covered /\ Col(loc) \notin m_is_col_covered
  BY DEF Uncovered
<1>2. BlockSlots \subseteq Slots
  BY DEF AssignerInv, AssignerTypeOK, BlockSlots, Slots, Block, Index
<1>3. loc \notin Stars
  BY <1>1 DEF AssignerInv, StarsMatch
<1>4. m_is_row_covered = {Row(m_primed_zero_locs[i]) : i \in 1 .. Len(m_primed_zero_locs)}
  BY DEF AssignerInv, PrimesCover
<1>5. loc \notin Primes
  BY <1>1, <1>4 DEF Primes
<1>6. m_mark_matrix[loc] # "PRIMED"
  BY <1>1, <1>2, <1>5 DEF AssignerInv, PrimesAreKnown
<1>7. m_mark_matrix[loc] # "STARRED"
  BY <1>1, <1>3 DEF Stars
<1>8. \A s \in Stars : Col(s) = Col(loc) => Row(s) \in m_is_row_covered
  BY <1>1 DEF AssignerInv, StarsMatch
<1> QED
  BY <1>1, <1>2, <1>4, <1>6, <1>7, <1>8

LEMMA PrimeKeepsInv ==
  ASSUME AssignerInv, pc = "prime", NEW loc \in Uncovered, Prime(loc),
         m_weight_matrix' \in [Slots -> Int]
  PROVE  AssignerInv'
<1> DEFINE L == Len(m_primed_zero_locs)
           stars == StarsInRow(Row(loc)) \ {Col(loc)}
<1>1. /\ loc \in BlockSlots /\ loc \in Slots
      /\ m_mark_matrix[loc] \notin {"STARRED", "PRIMED"}
      /\ \A i \in 1 .. L : Row(m_primed_zero_locs[i]) # Row(loc)
      /\ \A s \in Stars : Col(s) = Col(loc) => \E j \in 1 .. L : Row(m_primed_zero_locs[j]) = Row(s)
  BY UncoveredSlot
<1>2. /\ AssignerTypeOK /\ StarsMatch /\ PrimesAreKnown /\ RoundIsOpen /\ PrimesCover(L)
      /\ m_augment_path = <<>>
      /\ \A r \in Block : m_assignments[r] \in Block \cup {UNASSIGNED}
  BY DEF AssignerInv
<1>3. /\ m_num_rows' = m_num_rows /\ m_num_cols' = m_num_cols
      /\ m_is_max_matrix' = m_is_max_matrix /\ m_assignments' = m_assignments /\ round' = round
      /\ m_mark_matrix' = [m_mark_matrix EXCEPT ![loc] = "PRIMED"]
      /\ m_primed_zero_locs' = Append(m_primed_zero_locs, loc)
      /\ m_is_row_covered' = m_is_row_covered \cup (IF stars = {} THEN {} ELSE {Row(loc)})
      /\ m_is_col_covered' = m_is_col_covered \ stars
      /\ stars = {} \/ L + 1 = m_num_cols => pc' = "path" /\ m_augment_path' = <<loc>>
      /\ ~ (stars = {} \/ L + 1 = m_num_cols) => pc' = pc /\ m_augment_path' = m_augment_path
  BY DEF Prime, sizes
<1>4. Block' = Block /\ BlockSlots' = BlockSlots
  BY <1>3 DEF Block, BlockSlots
<1>5. m_mark_matrix \in [Slots -> Mark] /\ BlockSlots \subseteq Slots
  BY <1>2 DEF AssignerTypeOK, BlockSlots, Slots, Block, Index
<1>6. \A s \in Slots : m_mark_matrix'[s] = IF s = loc THEN "PRIMED" ELSE m_mark_matrix[s]
  BY <1>3, <1>5
<1>7. Stars' = Stars
  BY <1>1, <1>4, <1>5, <1>6 DEF Stars
<1>8. /\ m_primed_zero_locs \in Seq(BlockSlots) /\ m_primed_zero_locs' \in Seq(BlockSlots)
      /\ L \in Nat /\ Len(m_primed_zero_locs') = L + 1
      /\ \A i \in 1 .. L : m_primed_zero_locs'[i] = m_primed_zero_locs[i]
      /\ m_primed_zero_locs'[L + 1] = loc
  BY <1>1, <1>2, <1>3 DEF AssignerTypeOK
<1>9. \A i \in 1 .. L + 1 : i \in 1 .. L \/ i = L + 1
  BY <1>8
<1>10. Primes' = Primes \cup {loc}
  BY <1>8, <1>9 DEF Primes
<1>11. \A c \in Block : c \in stars <=> Slot(Row(loc), c) \in Stars
  BY <1>1, <1>5 DEF StarsInRow, Stars, BlockSlots, Slot, Row, Col
<1>12. stars \subseteq Block
  BY DEF StarsInRow
<1>13. \A s \in Stars : s \in BlockSlots /\ Row(s) \in Block /\ Col(s) \in Block /\ s = Slot(Row(s), Col(s))
  BY DEF Stars, BlockSlots, Row, Col, Slot
<1>14. Row(loc) \in Block /\ Row(loc) \notin m_is_row_covered
  BY DEF Uncovered, BlockSlots, Row
<1>15. stars # {} => \E s \in Stars : Row(s) = Row(loc)
  BY <1>11, <1>12, ZenonT(40) DEF Slot, Row
<1>16. \A s \in Stars : (Row(s) = Row(loc) <=> Col(s) \in stars)
  <2> SUFFICES ASSUME NEW s \in Stars PROVE Row(s) = Row(loc) <=> Col(s) \in stars
    OBVIOUS
  <2>1. ASSUME Row(s) = Row(loc) PROVE Col(s) \in stars
    BY <2>1, <1>11, <1>13
  <2>2. ASSUME Col(s) \in stars PROVE Row(s) = Row(loc)
    <3>1. Slot(Row(loc), Col(s)) \in Stars
      BY <2>2, <1>11, <1>12
    <3>2. Col(Slot(Row(loc), Col(s))) = Col(s)
      BY DEF Slot, Col
    <3>3. Slot(Row(loc), Col(s)) = s
      BY <3>1, <3>2, <1>2 DEF StarsMatch
    <3> QED BY <3>3 DEF Slot, Row
  <2> QED BY <2>1, <2>2
<1> HIDE DEF stars
<1>20. AssignerTypeOK'
  <2>1. /\ m_num_rows' \in 0 .. m_num_cols' /\ m_num_cols' \in 0 .. Capacity
        /\ m_is_max_matrix' \subseteq Slots /\ round' \in 0 .. m_num_cols'
        /\ m_assignments' \in [Index -> Index \cup {UNASSIGNED}]
    BY <1>2, <1>3 DEF AssignerTypeOK
  <2>2. m_mark_matrix' \in [Slots -> Mark]
    BY <1>3, <1>5 DEF Mark
  <2>3. m_is_row_covered' \subseteq Block /\ m_is_col_covered' \subseteq Block
    BY <1>2, <1>3, <1>14 DEF AssignerTypeOK
  <2>4. m_augment_path' \in Seq(BlockSlots) /\ pc' \in {"prime", "path"}
    <3>1. CASE stars = {} \/ L + 1 = m_num_cols
      <4>1. <<loc>> \in Seq(BlockSlots)
        BY <1>1
      <4>2. m_augment_path' = <<loc>> /\ pc' = "path"
        BY <3>1, <1>3
      <4> QED BY <4>1, <4>2
    <3>2. CASE ~ (stars = {} \/ L + 1 = m_num_cols)
      BY <3>2, <1>2, <1>3 DEF AssignerTypeOK
    <3> QED BY <3>1, <3>2
  <2> QED BY <2>1, <2>2, <2>3, <2>4, <1>4, <1>8 DEF AssignerTypeOK
<1>21. StarsMatch'
  <2>1. \A r, c \in Block : Slot(r, c) \in Slots /\ Slot(r, c) \in BlockSlots
    BY <1>5 DEF Slot, BlockSlots
  <2>2. \A r, c \in Block : m_assignments'[r] = c <=> m_mark_matrix'[Slot(r, c)] = "STARRED"
    BY <2>1, <1>1, <1>2, <1>3, <1>6 DEF StarsMatch
  <2>3. \A s \in Stars : Row(s) \in m_is_row_covered <=> Col(s) \notin m_is_col_covered
    BY <1>2 DEF StarsMatch
  <2>4. \A s \in Stars : Row(s) \in m_is_row_covered' <=> Col(s) \notin m_is_col_covered'
    BY <2>3, <1>3, <1>15, <1>16
  <2>5. m_is_row_covered' \subseteq {Row(s) : s \in Stars}
    BY <1>2, <1>3, <1>15 DEF StarsMatch
  <2>6. m_is_col_covered' \subseteq {Col(s) : s \in Stars}
    BY <1>2, <1>3 DEF StarsMatch
  <2>7. \A s, t \in Stars : (Row(s) = Row(t) \/ Col(s) = Col(t)) => s = t
    BY <1>2 DEF StarsMatch
  <2> QED BY <2>2, <2>4, <2>5, <2>6, <2>7, <1>4, <1>7 DEF StarsMatch
<1>22. PrimesAreKnown'
  <2>1. \A s \in Slots : m_mark_matrix'[s] = "PRIMED" <=> s \in Primes'
    BY <1>2, <1>6, <1>10 DEF PrimesAreKnown
  <2>2. \A i, j \in 1 .. L + 1 :
            Row(m_primed_zero_locs'[i]) = Row(m_primed_zero_locs'[j]) => i = j
    BY <1>1, <1>2, <1>8, <1>9 DEF PrimesAreKnown
  <2>3. \A k \in 1 .. L + 1 : \A s \in Stars : Col(s) = Col(m_primed_zero_locs'[k])
            => \E j \in 1 .. k - 1 : Row(m_primed_zero_locs'[j]) = Row(s)
    <3> SUFFICES ASSUME NEW k \in 1 .. L + 1, NEW s \in Stars, Col(s) = Col(m_primed_zero_locs'[k])
                 PROVE  \E j \in 1 .. k - 1 : Row(m_primed_zero_locs'[j]) = Row(s)
      OBVIOUS
    <3>1. CASE k \in 1 .. L
      <4>1. PICK j \in 1 .. k - 1 : Row(m_primed_zero_locs[j]) = Row(s)
        BY <3>1, <1>2, <1>8 DEF PrimesAreKnown
      <4>2. j \in 1 .. L
        BY <3>1, <1>8
      <4> QED BY <4>1, <4>2, <1>8
    <3>2. CASE k = L + 1
      <4>1. PICK j \in 1 .. L : Row(m_primed_zero_locs[j]) = Row(s)
        BY <3>2, <1>1, <1>8
      <4>2. j \in 1 .. k - 1
        BY <3>2, <1>8
      <4> QED BY <4>1, <4>2, <1>8
    <3> QED BY <3>1, <3>2, <1>9
  <2> QED BY <2>1, <2>2, <2>3, <1>7, <1>8 DEF PrimesAreKnown
<1>23. RoundIsOpen'
  BY <1>2, <1>3, <1>4, <1>7 DEF RoundIsOpen, StarCols
<1>24. ASSUME stars # {}
      PROVE  m_is_row_covered' = {Row(m_primed_zero_locs'[i]) : i \in 1 .. L + 1}
  <2>1. m_is_row_covered' = m_is_row_covered \cup {Row(loc)}
    BY <1>24, <1>3
  <2>2. m_is_row_covered = {Row(m_primed_zero_locs[i]) : i \in 1 .. L}
    BY <1>2 DEF PrimesCover
  <2>3. \A r : r \in m_is_row_covered' <=> \E i \in 1 .. L + 1 : Row(m_primed_zero_locs'[i]) = r
    <3> SUFFICES ASSUME NEW r
                 PROVE  r \in m_is_row_covered'
                            <=> \E i \in 1 .. L + 1 : Row(m_primed_zero_locs'[i]) = r
      OBVIOUS
    <3>1. ASSUME r \in m_is_row_covered' PROVE \E i \in 1 .. L + 1 : Row(m_primed_zero_locs'[i]) = r
      <4>1. \A i \in 1 .. L : i \in 1 .. L + 1
        BY <1>8
      <4> QED BY <3>1, <4>1, <2>1, <2>2, <1>8
    <3>2. ASSUME NEW i \in 1 .. L + 1, Row(m_primed_zero_locs'[i]) = r PROVE r \in m_is_row_covered'
      BY <3>2, <2>1, <2>2, <1>8, <1>9
    <3> QED BY <3>1, <3>2
  <2> QED BY <2>3
<1>25. ASSUME stars # {}, L + 1 = m_num_cols PROVE FALSE
  <2> DEFINE B == 0 .. m_num_cols - 1
             f == [i \in B |-> Row(m_primed_zero_locs'[i + 1])]
  <2>1. m_num_cols \in Nat /\ Block = B
    BY <1>2 DEF AssignerTypeOK, Block
  <2>2. \A i \in B : i + 1 \in 1 .. L + 1
    BY <1>25, <2>1
  <2>3. \A i \in 1 .. L + 1 : m_primed_zero_locs'[i] \in BlockSlots
    BY <1>8
  <2>4. \A i \in 1 .. L + 1 : Row(m_primed_zero_locs'[i]) \in B
    BY <2>1, <2>3 DEF BlockSlots, Row
  <2>5. f \in [B -> B]
    BY <2>2, <2>4
  <2>6. \A a, b \in B : f[a] = f[b] => a = b
    <3> SUFFICES ASSUME NEW a \in B, NEW b \in B, f[a] = f[b] PROVE a = b
      OBVIOUS
    <3>1. a + 1 = b + 1
      BY <2>2, <1>8, <1>22 DEF PrimesAreKnown
    <3> QED BY <3>1, <2>1
  <2>7. \A r \in B : \E i \in B : f[i] = r
    <3> HIDE DEF f
    <3> QED BY <2>1, <2>5, <2>6, OneToOneIsOnto
  <2>8. \A r \in B : r \in m_is_row_covered'
    BY <2>2, <2>7, <1>24, <1>25, ZenonT(40)
  <2>9. m_is_row_covered' \subseteq {Row(s) : s \in Stars}
    BY <1>7, <1>21, <1>3 DEF StarsMatch
  <2> QED BY <2>1, <2>8, <2>9, SomeRowIsFree
<1>26. CASE stars = {}
  <2>1. pc' = "path" /\ m_augment_path' = <<loc>> /\ m_is_row_covered' = m_is_row_covered
    BY <1>26, <1>3
  <2>2. m_is_row_covered' = {Row(m_primed_zero_locs'[i]) : i \in 1 .. L}
    BY <2>1, <1>2, <1>8 DEF PrimesCover
  <2>3. LastPrime' = loc /\ m_primed_zero_locs' # <<>>
    BY <1>8 DEF LastPrime
  <2>4. \A s \in Stars : Row(s) # Row(loc)
    BY <1>26, <1>16
  <2>5. StarsInRow(Row(LastPrime))' = {}
    <3> SUFFICES ASSUME NEW c \in Block, m_mark_matrix'[Slot(Row(loc), c)] = "STARRED" PROVE FALSE
      BY <1>4, <2>3 DEF StarsInRow
    <3>1. Slot(Row(loc), c) \in Stars'
      BY <1>4, <1>14 DEF Stars, Slot, BlockSlots
    <3> QED BY <3>1, <2>4, <1>7 DEF Slot, Row
  <2>6. OnPath' = {loc} /\ PathEnd' = loc
    BY <2>1 DEF OnPath, PathEnd
  <2>7. PathStars' = {} /\ PathPrimes' = {loc}
    BY <2>6, <2>4, <1>7, <1>10 DEF PathStars, PathPrimes
  <2>8. PathAlternates'
    <3>1. \A i \in 1 .. L + 1 : m_primed_zero_locs'[i] \in {loc} => L + 1 =< i
      BY <1>8, <1>22 DEF PrimesAreKnown
    <3>2. L + 1 \in 1 .. L + 1 /\ Len(m_augment_path') = 1
      BY <1>8, <2>1
    <3>3. /\ PathEnd' = m_primed_zero_locs'[L + 1]
          /\ Len(m_augment_path') =< 2 * (Len(m_primed_zero_locs') - (L + 1)) + 1
      BY <1>8, <2>6, <3>2
    <3>4. m_augment_path' # <<>>
      BY <2>1
    <3> QED BY <3>1, <3>2, <3>3, <3>4, <2>3, <2>6, <2>7, <1>8, <1>10 DEF PathAlternates
  <2>9. Len(m_primed_zero_locs') - 1 = L
    BY <1>8
  <2> QED BY <1>2, <1>3, <1>4, <1>20, <1>21, <1>22, <1>23, <2>1, <2>2, <2>3, <2>5, <2>8, <2>9
          DEF AssignerInv, NeverGivesUp, PrimesCover
<1>27. CASE stars # {} /\ L + 1 # m_num_cols
  <2>1. pc' = "prime" /\ m_augment_path' = <<>>
    BY <1>27, <1>2, <1>3
  <2> QED BY <1>2, <1>3, <1>4, <1>8, <1>20, <1>21, <1>22, <1>23, <1>24, <1>27, <2>1
          DEF AssignerInv, NeverGivesUp, PrimesCover
<1> QED
  BY <1>25, <1>26, <1>27

LEMMA SlotsAreFinite == IsFiniteSet(Slots) /\ IsFiniteSet(Index)
<1>1. IsFiniteSet(Index)
  BY FS_Interval DEF Index
<1>2. IsFiniteSet(Index \X Index)
  BY <1>1, FS_Product
<1> QED
  BY <1>1, <1>2 DEF Slots

LEMMA PrimeUncoveredZeroKeepsInv ==
  ASSUME AssignerInv, PrimeUncoveredZero
  PROVE  AssignerInv'
<1> DEFINE loc == First(UncoveredZeros)
<1>1. pc = "prime" /\ Prime(loc) /\ m_weight_matrix' = m_weight_matrix
  BY DEF PrimeUncoveredZero
<1>2. UncoveredZeros # {} /\ UncoveredZeros \subseteq Uncovered
  BY DEF PrimeUncoveredZero, UncoveredZeros
<1>3. Uncovered \subseteq Nat \X Nat
  BY DEF AssignerInv, AssignerTypeOK, Uncovered, BlockSlots, Block
<1>4. loc \in Uncovered
  <2>1. UncoveredZeros \subseteq Nat \X Nat
    BY <1>2, <1>3
  <2> QED BY <1>2, <2>1, FirstSlot
<1>5. m_weight_matrix' \in [Slots -> Int]
  BY <1>1 DEF AssignerInv, AssignerTypeOK
<1> HIDE DEF loc
<1> QED
  BY <1>1, <1>4, <1>5, PrimeKeepsInv

\* The least of the uncovered weights is found, and is uncovered.
LEMMA LeastUncoveredIsLeast ==
  ASSUME AssignerInv, pc = "prime"
  PROVE  /\ LeastUncovered \in Uncovered
         /\ \A t \in Uncovered : m_weight_matrix[LeastUncovered] =< m_weight_matrix[t]
<1> DEFINE w == m_weight_matrix
           values == {w[s] : s \in Uncovered}
           least == {s \in Uncovered : \A t \in Uncovered : w[s] =< w[t]}
<1>1. Uncovered # {}
  BY SomethingIsUncovered
<1>2. w \in [Slots -> Int]
  BY DEF AssignerInv, AssignerTypeOK
<1>3. Uncovered \subseteq Slots
  BY DEF AssignerInv, AssignerTypeOK, Uncovered, BlockSlots, Block, Slots, Index
<1>4. values \subseteq Int /\ values # {}
  BY <1>1, <1>2, <1>3
<1>5. IsFiniteSet(values)
  <2> DEFINE f == [s \in Uncovered |-> w[s]]
  <2>1. f \in Surjection(Uncovered, values)
    BY DEF Surjection
  <2>2. IsFiniteSet(Uncovered)
    BY <1>3, SlotsAreFinite, FS_Subset
  <2> HIDE DEF f, values
  <2> QED BY <2>1, <2>2, FS_Surjection
<1>6. PICK v \in values : \A u \in values : v =< u
  <2> HIDE DEF values
  <2> QED BY <1>4, <1>5, LeastInteger
<1>7. least # {}
  BY <1>6
<1>8. least \subseteq Nat \X Nat
  BY <1>3 DEF Slots, Index
<1>9. First(least) \in least
  <2> HIDE DEF least
  <2> QED BY <1>7, <1>8, FirstSlot
<1> QED
  BY <1>9 DEF LeastUncovered

LEMMA AddNewZeroKeepsInv ==
  ASSUME AssignerInv, AddNewZero
  PROVE  AssignerInv'
<1>1. pc = "prime"
  BY DEF AddNewZero
<1>2. LeastUncovered \in Uncovered
  BY <1>1, LeastUncoveredIsLeast
<1>3. Prime(LeastUncovered) /\ m_weight_matrix' = Shifted(m_weight_matrix[LeastUncovered])
  BY <1>2 DEF AddNewZero
<1>4. m_weight_matrix' \in [Slots -> Int]
  <2>1. m_weight_matrix \in [Slots -> Int] /\ Uncovered \subseteq Slots
    BY DEF AssignerInv, AssignerTypeOK, Uncovered, BlockSlots, Block, Slots, Index
  <2>2. m_weight_matrix[LeastUncovered] \in Int
    BY <1>2, <2>1
  <2> QED BY <1>3, <2>1, <2>2 DEF Shifted
<1> QED
  BY <1>1, <1>2, <1>3, <1>4, PrimeKeepsInv

-----------------------------------------------------------------------------
(* The path: FollowPath and FlipPath.                                      *)

\* What is known of a path and of the primes.
LEMMA PathFacts ==
  ASSUME AssignerInv, pc = "path"
  PROVE  /\ AssignerTypeOK /\ StarsMatch /\ PrimesAreKnown /\ RoundIsOpen /\ PathAlternates
         /\ Len(m_primed_zero_locs) \in Nat /\ Len(m_augment_path) \in Nat
         /\ m_primed_zero_locs # <<>>
         /\ BlockSlots \subseteq Slots
         /\ Primes \subseteq BlockSlots /\ Stars \subseteq BlockSlots
         /\ Primes \cap Stars = {}
         /\ \A p, q \in Primes : Row(p) = Row(q) => p = q
         /\ \A s, t \in Stars : (Row(s) = Row(t) \/ Col(s) = Col(t)) => s = t
         /\ LastPrime \in Primes
         /\ \A s \in Stars : Row(s) # Row(LastPrime)
<1>1. /\ AssignerTypeOK /\ StarsMatch /\ PrimesAreKnown /\ RoundIsOpen /\ PathAlternates
      /\ m_primed_zero_locs # <<>>
      /\ StarsInRow(Row(LastPrime)) = {}
  BY DEF AssignerInv
<1>2. /\ m_primed_zero_locs \in Seq(BlockSlots) /\ m_augment_path \in Seq(BlockSlots)
      /\ Len(m_primed_zero_locs) \in Nat /\ Len(m_augment_path) \in Nat
      /\ \A i \in 1 .. Len(m_primed_zero_locs) : m_primed_zero_locs[i] \in BlockSlots
      /\ Len(m_primed_zero_locs) # 0
  BY <1>1 DEF AssignerTypeOK
<1>3. BlockSlots \subseteq Slots
  BY <1>1 DEF AssignerTypeOK, BlockSlots, Slots, Block, Index
<1>4. Primes \subseteq BlockSlots
  BY <1>2 DEF Primes
<1>5. Stars \subseteq BlockSlots
  BY DEF Stars
<1>6. Primes \cap Stars = {}
  BY <1>1, <1>3, <1>4 DEF PrimesAreKnown, Stars
<1>7. \A p, q \in Primes : Row(p) = Row(q) => p = q
  BY <1>1 DEF PrimesAreKnown, Primes
<1>8. LastPrime \in Primes
  BY <1>2 DEF LastPrime, Primes
<1>9. \A s \in Stars : Row(s) # Row(LastPrime)
  <2> SUFFICES ASSUME NEW s \in Stars, Row(s) = Row(LastPrime) PROVE FALSE
    OBVIOUS
  <2>1. s = Slot(Row(s), Col(s)) /\ Col(s) \in Block /\ m_mark_matrix[s] = "STARRED"
    BY DEF Stars, BlockSlots, Slot, Row, Col
  <2>2. Col(s) \in StarsInRow(Row(LastPrime))
    BY <2>1 DEF StarsInRow
  <2> QED BY <2>2, <1>1
<1>10. \A s, t \in Stars : (Row(s) = Row(t) \/ Col(s) = Col(t)) => s = t
  BY <1>1 DEF StarsMatch
<1> QED
  BY <1>1, <1>2, <1>3, <1>4, <1>5, <1>6, <1>7, <1>8, <1>9, <1>10

\* The star in the column of the last slot of the path, and the prime in its row.
LEMMA NextOnPath ==
  ASSUME AssignerInv, pc = "path", NEW j \in 1 .. Len(m_primed_zero_locs),
         PathEnd = m_primed_zero_locs[j], StarsInCol(Col(PathEnd)) # {}
  PROVE  LET row == Lowest(StarsInCol(Col(PathEnd)))
         IN  /\ Slot(row, Col(PathEnd)) \in Stars
             /\ PrimesInRow(row) # {}
             /\ \E i \in 1 .. j - 1 : m_primed_zero_locs[i] = Slot(row, Lowest(PrimesInRow(row)))
<1> DEFINE row == Lowest(StarsInCol(Col(PathEnd)))
           s == Slot(row, Col(PathEnd))
<1>1. /\ AssignerTypeOK /\ PrimesAreKnown /\ Primes \subseteq BlockSlots /\ BlockSlots \subseteq Slots
      /\ \A p, q \in Primes : Row(p) = Row(q) => p = q
  BY PathFacts
<1>2. \A c, r : r \in StarsInCol(c) <=> r \in Block /\ m_mark_matrix[Slot(r, c)] = "STARRED"
  BY DEF StarsInCol
<1>3. \A c, r : c \in PrimesInRow(r) <=> c \in Block /\ m_mark_matrix[Slot(r, c)] = "PRIMED"
  BY DEF PrimesInRow
<1>4. Block \subseteq Nat
  BY <1>1 DEF AssignerTypeOK, Block
<1>5. \A T : T # {} /\ T \subseteq Block => Lowest(T) \in T
  <2> SUFFICES ASSUME NEW T, T # {}, T \subseteq Block PROVE Lowest(T) \in T
    OBVIOUS
  <2>1. \E x \in T : \A y \in T : x =< y
    BY <1>4, LeastNatural
  <2> QED BY <2>1 DEF Lowest
<1>6. row \in Block /\ m_mark_matrix[s] = "STARRED"
  BY <1>2, <1>5
<1>7. PathEnd \in Primes
  BY DEF Primes
<1>8. Col(PathEnd) \in Block
  BY <1>1, <1>7 DEF BlockSlots, Col
<1>9. s \in Stars /\ Row(s) = row /\ Col(s) = Col(PathEnd)
  BY <1>6, <1>8 DEF Stars, BlockSlots, Slot, Row, Col
<1>10. PICK i \in 1 .. j - 1 : Row(m_primed_zero_locs[i]) = row
  BY <1>1, <1>9 DEF PrimesAreKnown
<1> DEFINE p == m_primed_zero_locs[i]
<1>11. p \in Primes
  <2>1. i \in 1 .. Len(m_primed_zero_locs)
    BY <1>1 DEF AssignerTypeOK
  <2> QED BY <2>1 DEF Primes
<1>12. p = Slot(row, Col(p)) /\ Col(p) \in Block /\ m_mark_matrix[p] = "PRIMED"
  <2>1. p \in BlockSlots /\ p \in Slots
    BY <1>1, <1>11
  <2>2. p = Slot(Row(p), Col(p)) /\ Col(p) \in Block
    BY <2>1 DEF BlockSlots, Slot, Row, Col
  <2> QED BY <2>1, <2>2, <1>1, <1>10, <1>11 DEF PrimesAreKnown
<1> HIDE DEF row, s
<1>13. PrimesInRow(row) # {}
  BY <1>3, <1>12
<1> DEFINE q == Slot(row, Lowest(PrimesInRow(row)))
<1>14. Lowest(PrimesInRow(row)) \in Block /\ m_mark_matrix[q] = "PRIMED"
  <2>1. PrimesInRow(row) \subseteq Block
    BY <1>3
  <2> QED BY <2>1, <1>3, <1>5, <1>13
<1>15. q \in Slots /\ Row(q) = row
  <2>1. q \in BlockSlots
    BY <1>6, <1>14 DEF BlockSlots, Slot
  <2> QED BY <2>1, <1>1 DEF Slot, Row
<1>16. q \in Primes
  BY <1>1, <1>14, <1>15 DEF PrimesAreKnown
<1>17. p = q
  BY <1>1, <1>10, <1>11, <1>15, <1>16
<1> QED
  BY <1>9, <1>13, <1>17 DEF row, s

LEMMA FollowPathKeepsInv ==
  ASSUME AssignerInv, FollowPath
  PROVE  AssignerInv'
<1> DEFINE L == Len(m_primed_zero_locs)
           prime == m_primed_zero_locs
           row == Lowest(StarsInCol(Col(PathEnd)))
           s == Slot(row, Col(PathEnd))
           q == Slot(row, Lowest(PrimesInRow(row)))
<1>1. /\ pc = "path" /\ StarsInCol(Col(PathEnd)) # {}
      /\ UNCHANGED <<m_num_rows, m_num_cols, m_weight_matrix, m_mark_matrix, m_is_max_matrix,
                     m_assignments, m_is_row_covered, m_is_col_covered, m_primed_zero_locs, round>>
  BY DEF FollowPath, PathContinues, sizes, matrices, covers
<1>2. /\ AssignerTypeOK /\ StarsMatch /\ PrimesAreKnown /\ RoundIsOpen /\ PathAlternates
      /\ L \in Nat /\ Len(m_augment_path) \in Nat
      /\ Primes \subseteq BlockSlots /\ Stars \subseteq BlockSlots /\ Primes \cap Stars = {}
      /\ \A p, r \in Primes : Row(p) = Row(r) => p = r
      /\ LastPrime \in Primes
  BY <1>1, PathFacts
<1>3. PICK j \in 1 .. L :
            /\ PathEnd = prime[j]
            /\ Len(m_augment_path) =< 2 * (L - j) + 1
            /\ \A i \in 1 .. L : prime[i] \in OnPath => j =< i
  BY <1>2 DEF PathAlternates
<1>4. s \in Stars /\ PrimesInRow(row) # {} /\ \E i \in 1 .. j - 1 : prime[i] = q
  BY <1>1, <1>3, NextOnPath
<1>5. PICK i \in 1 .. j - 1 : prime[i] = q
  BY <1>4
<1>6. pc' = "path" /\ m_augment_path' = m_augment_path \o <<s, q>>
  BY <1>1, <1>4 DEF FollowPath
<1>7. Row(s) = row /\ Col(s) = Col(PathEnd) /\ Row(q) = row
  BY DEF Slot, Row, Col
<1> HIDE DEF row, s, q
<1>8. i \in 1 .. L /\ i < j /\ q \in Primes
  <2>1. i \in 1 .. L /\ i < j
    BY <1>2
  <2> QED BY <2>1, <1>5 DEF Primes
<1>9. PathEnd \in Primes /\ PathEnd \in OnPath
  <2>1. m_augment_path # <<>> /\ m_augment_path \in Seq(BlockSlots)
    BY <1>2 DEF PathAlternates, AssignerTypeOK
  <2>2. Len(m_augment_path) \in 1 .. Len(m_augment_path)
    BY <2>1
  <2> QED BY <2>2, <1>3 DEF PathEnd, OnPath, Primes
<1>10. /\ m_augment_path' \in Seq(BlockSlots) /\ m_augment_path' # <<>>
       /\ Len(m_augment_path') = Len(m_augment_path) + 2
       /\ PathEnd' = q
       /\ OnPath' = OnPath \cup {s, q}
  <2> DEFINE m == Len(m_augment_path)
             path == m_augment_path'
  <2>1. m_augment_path \in Seq(BlockSlots) /\ s \in BlockSlots /\ q \in BlockSlots
    BY <1>2, <1>4, <1>8 DEF AssignerTypeOK
  <2>2. path \in Seq(BlockSlots) /\ Len(path) = m + 2
    BY <2>1, <1>6
  <2>3. /\ \A k \in 1 .. m : path[k] = m_augment_path[k]
        /\ path[m + 1] = s /\ path[m + 2] = q
    BY <2>1, <1>6
  <2>4. m \in Nat /\ \A k : k \in 1 .. m + 2 <=> k \in 1 .. m \/ k = m + 1 \/ k = m + 2
    BY <1>2
  <2>5. OnPath' = OnPath \cup {s, q}
    <3>1. OnPath' = {path[k] : k \in 1 .. m + 2}
      BY <2>2 DEF OnPath
    <3> HIDE DEF path, m
    <3> QED BY <3>1, <2>3, <2>4 DEF OnPath, m
  <2>6. path # <<>>
    BY <2>2, <2>4
  <2> QED BY <2>2, <2>3, <2>5, <2>6 DEF PathEnd
<1>11. Block' = Block /\ BlockSlots' = BlockSlots /\ Stars' = Stars /\ Primes' = Primes
       /\ LastPrime' = LastPrime
  BY <1>1 DEF Block, BlockSlots, Stars, Primes, LastPrime
<1>12. PathStars' = PathStars \cup {s} /\ PathPrimes' = PathPrimes \cup {q}
  BY <1>2, <1>4, <1>8, <1>10, <1>11 DEF PathStars, PathPrimes
<1>13. PathPrimes \subseteq Primes /\ PathPrimes \subseteq OnPath /\ PathEnd \in PathPrimes
       /\ PathStars \subseteq Stars
  BY <1>9 DEF PathPrimes, PathStars
<1>14. \A t \in Stars : Col(t) = Col(q) => \E k \in 1 .. i - 1 : Row(prime[k]) = Row(t)
  BY <1>2, <1>5, <1>8 DEF PrimesAreKnown
<1>15. ASSUME NEW p \in PathPrimes, Col(p) = Col(q) PROVE FALSE
  <2>1. CASE p = PathEnd
    <3>1. PICK k \in 1 .. i - 1 : Row(prime[k]) = Row(s)
      BY <2>1, <1>4, <1>7, <1>14, <1>15
    <3>2. k \in 1 .. L /\ k # i
      BY <1>2, <1>8
    <3> QED BY <3>1, <3>2, <1>2, <1>5, <1>7, <1>8 DEF PrimesAreKnown
  <2>2. CASE p # PathEnd
    <3>1. PICK t \in PathStars : Col(t) = Col(p)
      BY <2>2, <1>2 DEF PathAlternates
    <3>2. PICK k \in 1 .. i - 1 : Row(prime[k]) = Row(t)
      BY <3>1, <1>13, <1>14, <1>15
    <3>3. k \in 1 .. L /\ k < j
      BY <1>2, <1>8
    <3>4. PICK r \in PathPrimes : Row(r) = Row(t)
      BY <1>2 DEF PathAlternates
    <3>5. prime[k] = r
      <4>1. prime[k] \in Primes /\ r \in Primes
        BY <3>3, <1>13 DEF Primes
      <4> QED BY <4>1, <3>2, <3>4, <1>2
    <3>6. prime[k] \in OnPath
      BY <3>5, <1>13
    <3> QED BY <3>3, <3>6, <1>2, <1>3
  <2> QED BY <2>1, <2>2
<1>16. PathAlternates'
  <2>1. OnPath' \subseteq Stars \cup Primes /\ LastPrime \in OnPath'
    BY <1>2, <1>4, <1>8, <1>10 DEF PathAlternates
  <2>2. PathEnd' = prime[i] /\ Len(m_augment_path') =< 2 * (L - i) + 1
    BY <1>2, <1>3, <1>5, <1>8, <1>10
  <2>3. \A k \in 1 .. L : prime[k] \in OnPath' => i =< k
    <3> SUFFICES ASSUME NEW k \in 1 .. L, prime[k] \in OnPath' PROVE i =< k
      OBVIOUS
    <3>1. prime[k] \in Primes
      BY DEF Primes
    <3>2. prime[k] # s
      BY <3>1, <1>2, <1>4
    <3>3. CASE prime[k] \in OnPath
      BY <3>3, <1>3, <1>8
    <3>4. CASE prime[k] = q
      BY <3>4, <1>2, <1>5, <1>8 DEF PrimesAreKnown
    <3> QED BY <3>2, <3>3, <3>4, <1>10
  <2>4. \A t \in PathStars' : /\ \E p \in PathPrimes' : Row(p) = Row(t)
                              /\ \E p \in PathPrimes' : Col(p) = Col(t)
    BY <1>2, <1>7, <1>12, <1>13 DEF PathAlternates
  <2>5. \A p \in PathPrimes' : /\ p # PathEnd' => \E t \in PathStars' : Col(t) = Col(p)
                               /\ p # LastPrime => \E t \in PathStars' : Row(t) = Row(p)
    BY <1>2, <1>7, <1>10, <1>12, <1>13 DEF PathAlternates
  <2>6. \A p, r \in PathPrimes' : Col(p) = Col(r) => p = r
    BY <1>2, <1>12, <1>15 DEF PathAlternates
  <2> QED BY <2>1, <2>2, <2>3, <2>4, <2>5, <2>6, <1>1, <1>8, <1>10, <1>11 DEF PathAlternates
<1>17. AssignerTypeOK'
  BY <1>1, <1>2, <1>6, <1>10, <1>11 DEF AssignerTypeOK
<1>18. StarsMatch' /\ PrimesAreKnown' /\ RoundIsOpen'
  BY <1>1, <1>2, <1>6, <1>11 DEF StarsMatch, PrimesAreKnown, RoundIsOpen, StarCols
<1>19. /\ PrimesCover(Len(m_primed_zero_locs) - 1)'
       /\ StarsInRow(Row(LastPrime))' = {}
       /\ \A r \in Block' : m_assignments'[r] \in Block' \cup {UNASSIGNED}
       /\ m_primed_zero_locs' # <<>>
  BY <1>1, <1>11 DEF AssignerInv, PrimesCover, StarsInRow
<1> QED
  BY <1>6, <1>16, <1>17, <1>18, <1>19 DEF AssignerInv, NeverGivesUp

\* The path ends where the column of its last prime has no star.
LEMMA PathEndsFreely ==
  ASSUME AssignerInv, FlipPath
  PROVE  /\ \A s \in Stars : Col(s) # Col(PathEnd)
         /\ PathEnd \in PathPrimes
<1> DEFINE L == Len(m_primed_zero_locs)
<1>1. pc = "path" /\ ~PathContinues
  BY DEF FlipPath
<1>2. /\ AssignerTypeOK /\ PrimesAreKnown /\ PathAlternates /\ L \in Nat
      /\ Primes \subseteq BlockSlots /\ Stars \subseteq BlockSlots
      /\ Len(m_augment_path) \in Nat
  BY <1>1, PathFacts
<1>3. PICK j \in 1 .. L : PathEnd = m_primed_zero_locs[j] /\ Len(m_augment_path) =< 2 * (L - j) + 1
  BY <1>2 DEF PathAlternates
<1>4. L =< m_num_cols
  <2> DEFINE f == [i \in 1 .. L |-> Row(m_primed_zero_locs[i])]
  <2>1. \A i \in 1 .. L : Row(m_primed_zero_locs[i]) \in Block
    BY <1>2 DEF Primes, BlockSlots, Row
  <2>2. f \in Injection(1 .. L, Block)
    BY <2>1, <1>2 DEF PrimesAreKnown, Injection, IsInjective
  <2>3. m_num_cols \in Nat
    BY <1>2 DEF AssignerTypeOK
  <2>4. IsFiniteSet(Block) /\ Cardinality(Block) = m_num_cols
    BY <2>3, FS_Interval DEF Block
  <2>5. Cardinality(1 .. L) = L
    <3> HIDE DEF L
    <3>1. L \in Nat /\ 1 \in Int
      BY <1>2
    <3>2. Cardinality(1 .. L) = IF 1 > L THEN 0 ELSE L - 1 + 1
      BY <3>1, FS_Interval
    <3> QED BY <3>1, <3>2
  <2> HIDE DEF f
  <2>6. Cardinality(1 .. L) =< Cardinality(Block)
    BY <2>2, <2>4, FS_Injection
  <2> QED BY <2>4, <2>5, <2>6
<1>5. Len(m_augment_path) < 2 * m_num_cols + 1
  BY <1>2, <1>3, <1>4 DEF AssignerTypeOK
<1>6. StarsInCol(Col(PathEnd)) = {}
  BY <1>1, <1>5 DEF PathContinues
<1>7. \A s \in Stars : Col(s) # Col(PathEnd)
  <2> SUFFICES ASSUME NEW s \in Stars, Col(s) = Col(PathEnd) PROVE FALSE
    OBVIOUS
  <2>1. s = Slot(Row(s), Col(s)) /\ Row(s) \in Block /\ m_mark_matrix[s] = "STARRED"
    BY DEF Stars, BlockSlots, Slot, Row, Col
  <2>2. Row(s) \in StarsInCol(Col(PathEnd))
    BY <2>1 DEF StarsInCol
  <2> QED BY <2>2, <1>6
<1>8. PathEnd \in PathPrimes
  <2>1. m_augment_path # <<>> /\ m_augment_path \in Seq(BlockSlots)
    BY <1>2 DEF PathAlternates, AssignerTypeOK
  <2>2. Len(m_augment_path) \in 1 .. Len(m_augment_path)
    BY <2>1
  <2>3. PathEnd \in OnPath
    BY <2>2 DEF PathEnd, OnPath
  <2>4. PathEnd \in Primes
    BY <1>3 DEF Primes
  <2> QED BY <2>3, <2>4 DEF PathPrimes
<1> QED
  BY <1>7, <1>8

\* What flipping the path makes of the stars.
LEMMA FlippedStars ==
  ASSUME AssignerInv, FlipPath
  PROVE  /\ Block' = Block /\ BlockSlots' = BlockSlots
         /\ NewStars = PathPrimes
         /\ Stars' = (Stars \ PathStars) \cup PathPrimes
         /\ \A s \in Slots : m_mark_matrix'[s] # "PRIMED"
         /\ m_mark_matrix' \in [Slots -> Mark]
         /\ \A s, t \in Stars' : (Row(s) = Row(t) \/ Col(s) = Col(t)) => s = t
         /\ {Col(s) : s \in Stars'} = StarCols \cup {Col(PathEnd)}
         /\ Cardinality(Stars') = Cardinality(Stars) + 1 /\ Cardinality(Stars) \in Nat
         /\ Cardinality(Stars') \in 0 .. m_num_cols
         /\ Cardinality(Stars') = m_num_cols => {Col(s) : s \in Stars'} = Block
<1>1. /\ pc = "path" /\ UNCHANGED <<m_num_rows, m_num_cols>>
      /\ m_mark_matrix' = [s \in Slots |->
            IF s \in NewStars THEN "STARRED"
            ELSE IF s \in OnPath \/ (s \in Primes /\ m_mark_matrix[s] = "PRIMED") THEN "ZERO"
            ELSE m_mark_matrix[s]]
  BY DEF FlipPath, sizes
<1>2. /\ AssignerTypeOK /\ StarsMatch /\ PrimesAreKnown /\ RoundIsOpen /\ PathAlternates
      /\ BlockSlots \subseteq Slots
      /\ Primes \subseteq BlockSlots /\ Stars \subseteq BlockSlots /\ Primes \cap Stars = {}
      /\ \A p, q \in Primes : Row(p) = Row(q) => p = q
      /\ \A s, t \in Stars : (Row(s) = Row(t) \/ Col(s) = Col(t)) => s = t
      /\ LastPrime \in Primes
      /\ \A s \in Stars : Row(s) # Row(LastPrime)
  BY <1>1, PathFacts
<1>3. (\A s \in Stars : Col(s) # Col(PathEnd)) /\ PathEnd \in PathPrimes
  BY PathEndsFreely
<1>4. Block' = Block /\ BlockSlots' = BlockSlots
  BY <1>1 DEF Block, BlockSlots
<1>5. OnPath \subseteq Stars \cup Primes
  BY <1>2 DEF PathAlternates
<1>6. \A s \in BlockSlots : s \in Stars <=> m_mark_matrix[s] = "STARRED"
  BY DEF Stars
<1>7. NewStars = PathPrimes
  BY <1>2, <1>5, <1>6 DEF NewStars, PathPrimes
<1>8. \A s \in Slots : m_mark_matrix[s] = "PRIMED" <=> s \in Primes
  BY <1>2 DEF PrimesAreKnown
<1>9. \A s \in Slots : m_mark_matrix'[s] =
            IF s \in PathPrimes THEN "STARRED"
            ELSE IF s \in PathStars \/ s \in Primes THEN "ZERO" ELSE m_mark_matrix[s]
  <2>1. \A s \in Slots : s \in OnPath \/ (s \in Primes /\ m_mark_matrix[s] = "PRIMED")
                            <=> s \in PathStars \/ s \in Primes
    BY <1>5, <1>8 DEF PathStars
  <2> QED BY <2>1, <1>1, <1>7
<1>10. Stars' = (Stars \ PathStars) \cup PathPrimes
  <2>1. PathPrimes \subseteq BlockSlots
    BY <1>2 DEF PathPrimes
  <2>2. \A s \in BlockSlots : m_mark_matrix'[s] = "STARRED"
                                <=> s \in PathPrimes \/ (s \in Stars /\ s \notin PathStars)
    BY <1>2, <1>6, <1>9
  <2> QED BY <2>1, <2>2, <1>2, <1>4 DEF Stars
<1>11. \A s \in Slots : m_mark_matrix'[s] # "PRIMED"
  BY <1>8, <1>9
<1>12. m_mark_matrix' \in [Slots -> Mark]
  <2>1. m_mark_matrix \in [Slots -> Mark]
    BY <1>2 DEF AssignerTypeOK
  <2> QED BY <2>1, <1>1 DEF Mark
<1>13. /\ \A s \in PathStars : \E p \in PathPrimes : Col(p) = Col(s)
       /\ \A p \in PathPrimes : /\ p # PathEnd => \E s \in PathStars : Col(s) = Col(p)
                                /\ p # LastPrime => \E s \in PathStars : Row(s) = Row(p)
       /\ \A p, q \in PathPrimes : Col(p) = Col(q) => p = q
  BY <1>2 DEF PathAlternates
<1>14. PathStars \subseteq Stars /\ PathPrimes \subseteq Primes
  BY DEF PathStars, PathPrimes
<1>15. \A s \in Stars \ PathStars, p \in PathPrimes : Row(s) # Row(p) /\ Col(s) # Col(p)
  BY <1>2, <1>3, <1>13, <1>14
<1>16. \A s, t \in Stars' : (Row(s) = Row(t) \/ Col(s) = Col(t)) => s = t
  BY <1>2, <1>10, <1>13, <1>14, <1>15
<1>17. {Col(s) : s \in Stars'} = StarCols \cup {Col(PathEnd)}
  <2>1. \A s \in Stars' : Col(s) \in StarCols \cup {Col(PathEnd)}
    BY <1>10, <1>13, <1>14 DEF StarCols
  <2>2. \A s \in Stars : \E t \in Stars' : Col(t) = Col(s)
    BY <1>10, <1>13
  <2>3. PathEnd \in Stars'
    BY <1>3, <1>10
  <2> QED BY <2>1, <2>2, <2>3 DEF StarCols
<1>18. m_num_cols \in Nat /\ Block = 0 .. m_num_cols - 1
  BY <1>2 DEF AssignerTypeOK, Block
<1>19. Stars \subseteq (0 .. m_num_cols - 1) \X (0 .. m_num_cols - 1)
  BY <1>2, <1>18 DEF BlockSlots
<1>20. IsFiniteSet(Stars) /\ Cardinality(StarCols) = Cardinality(Stars) /\ Cardinality(Stars) \in Nat
  <2>1. \A s, t \in Stars : (Row(s) = Row(t) \/ Col(s) = Col(t)) => s = t
    BY <1>2
  <2>2. /\ IsFiniteSet(Stars) /\ Cardinality(Stars) \in 0 .. m_num_cols
        /\ Cardinality({Col(s) : s \in Stars}) = Cardinality(Stars)
    BY <2>1, <1>18, <1>19, Matching
  <2> QED BY <2>2, <1>18 DEF StarCols
<1>21. Stars' \subseteq (0 .. m_num_cols - 1) \X (0 .. m_num_cols - 1)
  BY <1>4, <1>18 DEF Stars, BlockSlots
<1>22. /\ Cardinality(Stars') \in 0 .. m_num_cols
       /\ Cardinality({Col(s) : s \in Stars'}) = Cardinality(Stars')
       /\ Cardinality(Stars') = m_num_cols => {Col(s) : s \in Stars'} = Block
  BY <1>16, <1>18, <1>21, Matching
<1>23. IsFiniteSet(StarCols) /\ Col(PathEnd) \notin StarCols
  <2>1. StarCols \subseteq Block
    BY <1>2 DEF StarCols, BlockSlots, Col
  <2>2. IsFiniteSet(Block)
    BY <1>18, FS_Interval
  <2> QED BY <2>1, <2>2, <1>3, FS_Subset DEF StarCols
<1>24. Cardinality(Stars') = Cardinality(Stars) + 1
  <2>1. Cardinality(StarCols \cup {Col(PathEnd)}) = Cardinality(StarCols) + 1
    BY <1>23, FS_AddElement
  <2> QED BY <2>1, <1>17, <1>20, <1>22
<1> QED
  BY <1>4, <1>7, <1>10, <1>11, <1>12, <1>16, <1>17, <1>20, <1>22, <1>24

LEMMA FlipPathKeepsInv ==
  ASSUME AssignerInv, FlipPath
  PROVE  AssignerInv'
<1>1. /\ pc = "path"
      /\ m_assignments' = [r \in Index |->
            IF \E s \in NewStars : Row(s) = r
            THEN Col(CHOOSE s \in NewStars : Row(s) = r) ELSE m_assignments[r]]
      /\ m_is_col_covered' = {m_assignments'[r] : r \in Block} \ {UNASSIGNED}
      /\ m_is_row_covered' = {} /\ m_primed_zero_locs' = <<>> /\ m_augment_path' = <<>>
      /\ round' = round + 1
      /\ pc' = IF m_is_col_covered' = Block THEN "assigned"
               ELSE IF round' = m_num_cols THEN "failed" ELSE "prime"
      /\ UNCHANGED <<m_num_rows, m_num_cols, m_weight_matrix, m_is_max_matrix>>
  BY DEF FlipPath, sizes
<1>2. /\ AssignerTypeOK /\ StarsMatch /\ PrimesAreKnown /\ RoundIsOpen /\ PathAlternates
      /\ BlockSlots \subseteq Slots
      /\ Primes \subseteq BlockSlots /\ Stars \subseteq BlockSlots
      /\ \A p, q \in Primes : Row(p) = Row(q) => p = q
      /\ \A s, t \in Stars : (Row(s) = Row(t) \/ Col(s) = Col(t)) => s = t
  BY <1>1, PathFacts
<1>3. \A r \in Block : m_assignments[r] \in Block \cup {UNASSIGNED}
  BY <1>1 DEF AssignerInv
<1>4. /\ Block' = Block /\ BlockSlots' = BlockSlots
      /\ NewStars = PathPrimes
      /\ Stars' = (Stars \ PathStars) \cup PathPrimes
      /\ \A s \in Slots : m_mark_matrix'[s] # "PRIMED"
      /\ m_mark_matrix' \in [Slots -> Mark]
      /\ \A s, t \in Stars' : (Row(s) = Row(t) \/ Col(s) = Col(t)) => s = t
      /\ Cardinality(Stars') = Cardinality(Stars) + 1 /\ Cardinality(Stars) \in Nat
      /\ Cardinality(Stars') \in 0 .. m_num_cols
      /\ Cardinality(Stars') = m_num_cols => {Col(s) : s \in Stars'} = Block
  BY FlippedStars
<1>5. PathPrimes \subseteq Primes /\ PathStars \subseteq Stars /\ Block \subseteq Index
  BY <1>2 DEF PathPrimes, PathStars, AssignerTypeOK, Block, Index
<1>6. \A r, c \in Block : /\ Slot(r, c) \in BlockSlots /\ Slot(r, c) \in Slots
                          /\ Row(Slot(r, c)) = r /\ Col(Slot(r, c)) = c
  BY <1>2 DEF Slot, BlockSlots, Row, Col
<1>7. \A s \in BlockSlots : Row(s) \in Block /\ Col(s) \in Block /\ s = Slot(Row(s), Col(s))
  BY DEF Slot, BlockSlots, Row, Col
<1>8. \A r, c \in Block : /\ m_mark_matrix[Slot(r, c)] = "STARRED" <=> Slot(r, c) \in Stars
                          /\ m_mark_matrix'[Slot(r, c)] = "STARRED" <=> Slot(r, c) \in Stars'
  BY <1>4, <1>6 DEF Stars
<1>9. ASSUME NEW r \in Block, NEW p \in PathPrimes, Row(p) = r
      PROVE  m_assignments'[r] = Col(p) /\ Col(p) \in Block
  <2>1. \A s \in PathPrimes : Row(s) = r => s = p
    BY <1>2, <1>5, <1>9
  <2>2. (CHOOSE s \in PathPrimes : Row(s) = r) = p
    BY <2>1, <1>9
  <2>3. Col(p) \in Block
    BY <1>2, <1>5, <1>7
  <2> QED BY <2>2, <2>3, <1>1, <1>4, <1>5, <1>9
<1>10. ASSUME NEW r \in Block, \A p \in PathPrimes : Row(p) # r
       PROVE  m_assignments'[r] = m_assignments[r]
  BY <1>1, <1>4, <1>5, <1>10
<1>11. \A r \in Block : m_assignments'[r] \in Block \cup {UNASSIGNED}
  BY <1>3, <1>9, <1>10
<1>12. \A r, c \in Block : m_assignments'[r] = c <=> m_mark_matrix'[Slot(r, c)] = "STARRED"
  <2> SUFFICES ASSUME NEW r \in Block, NEW c \in Block
               PROVE  m_assignments'[r] = c <=> Slot(r, c) \in Stars'
    BY <1>8
  <2>1. CASE \E p \in PathPrimes : Row(p) = r
    <3>1. PICK p \in PathPrimes : Row(p) = r
      BY <2>1
    <3>2. m_assignments'[r] = Col(p)
      BY <3>1, <1>9
    <3>3. p \in Stars' /\ p = Slot(r, Col(p))
      BY <3>1, <1>2, <1>4, <1>5, <1>7
    <3>4. Slot(r, c) \in Stars' => Slot(r, c) = p
      BY <3>1, <3>3, <1>4, <1>6
    <3> QED BY <3>2, <3>3, <3>4, <1>6
  <2>2. CASE \A p \in PathPrimes : Row(p) # r
    <3>1. m_assignments'[r] = c <=> Slot(r, c) \in Stars
      <4>1. m_assignments[r] = c <=> m_mark_matrix[Slot(r, c)] = "STARRED"
        BY <1>1, <1>2 DEF StarsMatch
      <4> QED BY <4>1, <2>2, <1>8, <1>10
    <3>2. Slot(r, c) \notin PathPrimes
      BY <2>2, <1>6
    <3>3. Slot(r, c) \notin PathStars
      <4>1. \A s \in PathStars : \E p \in PathPrimes : Row(p) = Row(s)
        BY <1>2 DEF PathAlternates
      <4> QED BY <4>1, <2>2, <1>6
    <3> QED BY <3>1, <3>2, <3>3, <1>4
  <2> QED BY <2>1, <2>2
<1>13. m_is_col_covered' = {Col(s) : s \in Stars'}
  <2>1. ASSUME NEW r \in Block, m_assignments'[r] # UNASSIGNED
        PROVE  \E s \in Stars' : Col(s) = m_assignments'[r]
    BY <2>1, <1>6, <1>8, <1>11, <1>12
  <2>2. ASSUME NEW s \in Stars'
        PROVE  \E r \in Block : m_assignments'[r] = Col(s) /\ Col(s) # UNASSIGNED
    <3>1. Row(s) \in Block /\ Col(s) \in Block /\ s = Slot(Row(s), Col(s))
      BY <1>4, <1>7 DEF Stars
    <3>2. m_assignments'[Row(s)] = Col(s)
      BY <3>1, <1>8, <1>12
    <3>3. Col(s) # UNASSIGNED
      BY <3>1 DEF Block
    <3> QED BY <3>1, <3>2, <3>3
  <2>3. \A x : x \in m_is_col_covered' <=> x # UNASSIGNED /\ \E r \in Block : x = m_assignments'[r]
    BY <1>1
  <2>4. \A x : x \in m_is_col_covered' <=> \E s \in Stars' : x = Col(s)
    BY <2>1, <2>2, <2>3
  <2> QED BY <2>4
<1>14. round' \in 0 .. m_num_cols /\ round' =< Cardinality(Stars')
  BY <1>1, <1>2, <1>4 DEF RoundIsOpen, AssignerTypeOK
<1>15. round' = m_num_cols => m_is_col_covered' = Block
  BY <1>4, <1>13, <1>14
<1>16. pc' \in {"assigned", "prime"} /\ (pc' = "prime" => m_is_col_covered' # Block)
  BY <1>1, <1>15
<1>17. AssignerTypeOK'
  <2>1. m_assignments' \in [Index -> Index \cup {UNASSIGNED}]
    <3> SUFFICES ASSUME NEW r \in Index PROVE m_assignments'[r] \in Index \cup {UNASSIGNED}
      BY <1>1
    <3>1. CASE \E p \in PathPrimes : Row(p) = r
      <4>1. PICK p \in PathPrimes : Row(p) = r
        BY <3>1
      <4>2. r \in Block
        BY <4>1, <1>2, <1>5, <1>7
      <4> QED BY <4>2, <1>5, <1>11
    <3>2. CASE ~ \E p \in PathPrimes : Row(p) = r
      BY <3>2, <1>1, <1>2, <1>4 DEF AssignerTypeOK
    <3> QED BY <3>1, <3>2
  <2>2. m_is_col_covered' \subseteq Block
    BY <1>1, <1>11
  <2>3. <<>> \in Seq(BlockSlots)
    OBVIOUS
  <2>4. /\ m_num_rows' \in 0 .. m_num_cols' /\ m_num_cols' \in 0 .. Capacity
        /\ m_weight_matrix' \in [Slots -> Int] /\ m_is_max_matrix' \subseteq Slots
        /\ round' \in 0 .. m_num_cols'
    BY <1>1, <1>2, <1>14 DEF AssignerTypeOK
  <2> QED BY <2>1, <2>2, <2>3, <2>4, <1>1, <1>4, <1>16 DEF AssignerTypeOK
<1>18. StarsMatch'
  <2>1. m_is_row_covered' = {}
    BY <1>1
  <2> QED BY <2>1, <1>4, <1>12, <1>13 DEF StarsMatch
<1>19. Primes' = {} /\ Len(m_primed_zero_locs') = 0
  BY <1>1 DEF Primes
<1>20. PrimesAreKnown' /\ PrimesCover(Len(m_primed_zero_locs))'
  BY <1>1, <1>4, <1>19 DEF PrimesAreKnown, PrimesCover
<1>21. pc' = "prime" => RoundIsOpen'
  BY <1>4, <1>13, <1>14, <1>16 DEF RoundIsOpen, StarCols
<1> QED
  BY <1>1, <1>4, <1>11, <1>16, <1>17, <1>18, <1>20, <1>21 DEF AssignerInv, NeverGivesUp

-----------------------------------------------------------------------------
(* The first assignment: ReduceRows.                                       *)

\* find_minimums() finds the first column of the least weight of a row.
LEMMA LeastOfRow ==
  ASSUME AssignerTypeOK, NEW r \in Index
  PROVE  /\ RowMinIdx(r) \in Index
         /\ \A d \in Index : /\ Slot(r, d) \in Slots /\ m_weight_matrix[Slot(r, d)] \in Int
                             /\ \/ m_weight_matrix[Slot(r, RowMinIdx(r))] < m_weight_matrix[Slot(r, d)]
                                \/ /\ m_weight_matrix[Slot(r, RowMinIdx(r))] = m_weight_matrix[Slot(r, d)]
                                   /\ RowMinIdx(r) =< d
<1> DEFINE w == m_weight_matrix
           Beats(c, d) == \/ w[Slot(r, c)] < w[Slot(r, d)]
                          \/ w[Slot(r, c)] = w[Slot(r, d)] /\ c =< d
           values == {w[Slot(r, c)] : c \in Index}
<1>1. Index \subseteq Nat /\ Index # {}
  BY DEF Index
<1>2. \A c \in Index : Slot(r, c) \in Slots
  BY DEF Slot, Slots
<1>3. \A c \in Index : w[Slot(r, c)] \in Int
  BY <1>2 DEF AssignerTypeOK
<1>4. values \subseteq Int /\ values # {}
  BY <1>1, <1>3
<1>5. IsFiniteSet(values)
  <2> DEFINE f == [c \in Index |-> w[Slot(r, c)]]
  <2>1. f \in Surjection(Index, values)
    BY DEF Surjection
  <2> HIDE DEF f, values
  <2> QED BY <2>1, SlotsAreFinite, FS_Surjection
<1>6. PICK v \in values : \A u \in values : v =< u
  <2> HIDE DEF values
  <2> QED BY <1>4, <1>5, LeastInteger
<1> DEFINE T == {c \in Index : w[Slot(r, c)] = v}
<1>7. T \subseteq Nat /\ T # {}
  BY <1>1, <1>6
<1>8. PICK c \in T : \A d \in T : c =< d
  <2> HIDE DEF T
  <2> QED BY <1>7, LeastNatural
<1>9. c \in Index /\ \A d \in Index : Beats(c, d)
  <2> SUFFICES ASSUME NEW d \in Index PROVE Beats(c, d)
    BY <1>8
  <2>1. v \in Int /\ w[Slot(r, d)] \in Int /\ v =< w[Slot(r, d)] /\ w[Slot(r, c)] = v
    BY <1>3, <1>4, <1>6, <1>8
  <2>2. w[Slot(r, d)] = v => c =< d
    BY <1>8
  <2> HIDE DEF T, w
  <2> QED BY <2>1, <2>2
<1>10. RowMinIdx(r) \in Index /\ \A d \in Index : Beats(RowMinIdx(r), d)
  BY <1>9 DEF RowMinIdx
<1> QED
  BY <1>2, <1>3, <1>10

\* The minimum of a row that is not padded lies in the block: outside of it
\* no weight is below the one of a pair that has none.
LEMMA MinimumIsInBlock ==
  ASSUME AssignerTypeOK, IsReady, NEW r \in 0 .. m_num_rows - 1
  PROVE  RowMinIdx(r) \in Block
<1> DEFINE w == m_weight_matrix
           m == RowMinIdx(r)
<1>1. /\ m_num_rows \in Nat /\ m_num_cols \in Nat /\ m_num_rows =< m_num_cols
      /\ m_num_cols =< Capacity /\ Index \subseteq Nat /\ r \in Index
  BY DEF AssignerTypeOK, Index
<1>2. /\ m \in Index
      /\ \A d \in Index : /\ Slot(r, d) \in Slots /\ w[Slot(r, d)] \in Int
                          /\ \/ w[Slot(r, m)] < w[Slot(r, d)]
                             \/ w[Slot(r, m)] = w[Slot(r, d)] /\ m =< d
  BY <1>1, LeastOfRow
<1>3. SUFFICES ASSUME m \notin Block PROVE FALSE
  OBVIOUS
<1>4. 0 \in Index /\ 0 \in Block /\ m \in Nat /\ ~ (m =< 0)
  BY <1>1, <1>2, <1>3 DEF Index, Block
<1>5. Col(Slot(r, m)) = m /\ Slot(r, m) \in Slots /\ Slot(r, 0) \in Slots
  BY <1>2, <1>4 DEF Slot, Col
<1>6. w[Slot(r, m)] = MAX_WEIGHT /\ w[Slot(r, 0)] =< MAX_WEIGHT
  <2>1. \A s \in Slots : w[s] =< MAX_WEIGHT /\ (Col(s) \notin Block => w[s] = MAX_WEIGHT)
    BY DEF IsReady
  <2> HIDE DEF m, w
  <2> QED BY <2>1, <1>3, <1>5
<1>7. /\ w[Slot(r, m)] < w[Slot(r, 0)] \/ (w[Slot(r, m)] = w[Slot(r, 0)] /\ m =< 0)
      /\ w[Slot(r, 0)] \in Int /\ w[Slot(r, m)] \in Int
  BY <1>2, <1>4
<1> HIDE DEF w, m
<1> QED
  BY <1>4, <1>6, <1>7

\* What a row stars.
LEMMA FirstAssignment ==
  ASSUME AssignerTypeOK, IsReady
  PROVE  /\ \A r \in Block : InitialAssignment(r) \in Block \cup {UNASSIGNED}
         /\ \A q, r \in Block : InitialAssignment(q) = InitialAssignment(r)
                                   /\ InitialAssignment(r) # UNASSIGNED => q = r
<1> DEFINE rest == Block \ ColsOfMinimums
           rows == 0 .. m_num_rows - 1
           below(c) == Cardinality({d \in rest : d < c})
<1>1. m_num_rows \in Nat /\ m_num_cols \in Nat /\ m_num_rows =< m_num_cols
  BY DEF AssignerTypeOK
<1>2. \A r \in Block : r \in rows \/ IsPadding(r)
  BY <1>1 DEF Block, IsPadding
<1>3. ColsOfMinimums \subseteq Block
  BY MinimumIsInBlock DEF ColsOfMinimums
<1>4. rest \subseteq Nat /\ IsFiniteSet(rest) /\ m_num_cols - m_num_rows =< Cardinality(rest)
      /\ Cardinality(rest) \in Nat
  <2> DEFINE f == [r \in rows |-> RowMinIdx(r)]
  <2>1. f \in Surjection(rows, ColsOfMinimums)
    BY DEF Surjection, ColsOfMinimums
  <2>2. IsFiniteSet(rows) /\ Cardinality(rows) = m_num_rows
    BY <1>1, FS_Interval
  <2> HIDE DEF f, rows
  <2>3. IsFiniteSet(ColsOfMinimums) /\ Cardinality(ColsOfMinimums) =< m_num_rows
    BY <2>1, <2>2, FS_Surjection
  <2>4. IsFiniteSet(Block) /\ Cardinality(Block) = m_num_cols /\ Block \subseteq Nat
    BY <1>1, FS_Interval DEF Block
  <2>5. IsFiniteSet(rest) /\ Cardinality(rest) \in Nat
    BY <2>4, FS_Subset, FS_CardinalityType
  <2>6. Cardinality(ColsOfMinimums) \in Nat
    BY <2>3, FS_CardinalityType
  <2>7. Cardinality(ColsOfMinimums \cup rest)
            = Cardinality(ColsOfMinimums) + Cardinality(rest) - Cardinality(ColsOfMinimums \cap rest)
    BY <2>3, <2>5, FS_Union
  <2>8. ColsOfMinimums \cup rest = Block /\ ColsOfMinimums \cap rest = {}
    BY <1>3
  <2>9. Cardinality({}) = 0
    BY FS_EmptySet
  <2>10. rest \subseteq Nat
    BY <2>4
  <2>11. m_num_cols = Cardinality(ColsOfMinimums) + Cardinality(rest)
    <3> HIDE DEF rest
    <3>1. Cardinality(ColsOfMinimums \cup rest) = m_num_cols
      BY <2>4, <2>8, Zenon
    <3>2. Cardinality(ColsOfMinimums \cap rest) = 0
      BY <2>8, <2>9, Zenon
    <3> QED BY <1>1, <2>5, <2>6, <2>7, <3>1, <3>2
  <2> HIDE DEF rest
  <2> QED BY <1>1, <2>3, <2>5, <2>6, <2>10, <2>11
<1>5. ASSUME NEW r \in Block, IsPadding(r)
      PROVE  /\ InitialAssignment(r) \in rest
             /\ below(InitialAssignment(r)) = r - m_num_rows
  <2>1. r - m_num_rows \in Nat /\ r - m_num_rows < Cardinality(rest)
    <3> HIDE DEF rest
    <3> QED BY <1>1, <1>4, <1>5 DEF IsPadding
  <2>2. \E c \in rest : below(c) = r - m_num_rows
    <3> DEFINE k == r - m_num_rows
    <3> HIDE DEF rest, k
    <3>1. k \in Nat /\ k < Cardinality(rest) /\ rest \subseteq Nat /\ IsFiniteSet(rest)
      BY <1>4, <2>1 DEF k
    <3>2. \E c \in rest : Cardinality({d \in rest : d < c}) = k
      BY <3>1, ElementAt, ZenonT(40)
    <3> QED BY <3>2 DEF k
  <2>3. InitialAssignment(r) = CHOOSE c \in rest : below(c) = r - m_num_rows
    BY <1>5 DEF InitialAssignment
  <2> HIDE DEF rest, below
  <2> QED BY <2>2, <2>3
<1>6. ASSUME NEW r \in Block, r \in rows
      PROVE  /\ InitialAssignment(r) \in {RowMinIdx(r), UNASSIGNED}
             /\ RowMinIdx(r) \in ColsOfMinimums
             /\ InitialAssignment(r) # UNASSIGNED => \A q \in 0 .. r - 1 : RowMinIdx(q) # RowMinIdx(r)
  <2>1. ~IsPadding(r)
    BY <1>1, <1>6 DEF IsPadding
  <2>2. InitialAssignment(r) = IF r < m_num_rows /\ \A q \in 0 .. r - 1 : RowMinIdx(q) # RowMinIdx(r)
                               THEN RowMinIdx(r) ELSE UNASSIGNED
    BY <2>1 DEF InitialAssignment
  <2>3. RowMinIdx(r) \in ColsOfMinimums
    BY <1>6 DEF ColsOfMinimums
  <2> QED BY <2>2, <2>3
<1>7. \A r \in Block : InitialAssignment(r) \in Block \cup {UNASSIGNED}
  BY <1>2, <1>3, <1>5, <1>6
<1>8. ASSUME NEW q \in Block, NEW r \in Block, q < r,
             InitialAssignment(q) = InitialAssignment(r), InitialAssignment(r) # UNASSIGNED
      PROVE  FALSE
  <2>1. q \in Int /\ r \in Int
    BY <1>1 DEF Block
  <2>2. CASE IsPadding(q) /\ IsPadding(r)
    <3>1. below(InitialAssignment(q)) = q - m_num_rows /\ below(InitialAssignment(r)) = r - m_num_rows
      BY <2>2, <1>5
    <3> HIDE DEF below
    <3>2. q - m_num_rows = r - m_num_rows
      BY <3>1, <1>8
    <3> QED BY <3>2, <2>1, <1>1, <1>8
  <2>3. CASE IsPadding(q) /\ r \in rows
    BY <2>3, <1>5, <1>6, <1>8
  <2>4. CASE q \in rows /\ IsPadding(r)
    BY <2>4, <1>5, <1>6, <1>8
  <2>5. CASE q \in rows /\ r \in rows
    <3>1. q \in 0 .. r - 1
      BY <2>1, <2>5, <1>8
    <3> QED BY <2>5, <3>1, <1>6, <1>8
  <2> QED BY <2>2, <2>3, <2>4, <2>5, <1>2
<1>9. \A q, r \in Block : q = r \/ q < r \/ r < q
  BY <1>1 DEF Block
<1> QED
  BY <1>7, <1>8, <1>9

LEMMA ReduceRowsKeepsInv ==
  ASSUME AssignerInv, ReduceRows
  PROVE  AssignerInv'
<1>1. /\ pc = "ready"
      /\ m_weight_matrix' = ReducedWeights
      /\ m_assignments' = [r \in Index |-> IF r \in Block THEN InitialAssignment(r)
                                           ELSE m_assignments[r]]
      /\ m_mark_matrix' = [s \in Slots |-> InitialMark(s, m_assignments')]
      /\ m_is_col_covered' = {m_assignments'[r] : r \in Block} \ {UNASSIGNED}
      /\ m_is_row_covered' = {}
      /\ pc' = IF m_is_col_covered' = Block THEN "assigned" ELSE "prime"
      /\ UNCHANGED <<m_num_rows, m_num_cols, m_is_max_matrix, m_primed_zero_locs,
                     m_augment_path, round>>
  BY DEF ReduceRows, sizes
<1>2. AssignerTypeOK /\ IsReady
  BY <1>1 DEF AssignerInv
<1>3. /\ m_num_rows \in Nat /\ m_num_cols \in Nat /\ m_num_rows =< m_num_cols /\ m_num_cols =< Capacity
      /\ Block \subseteq Index /\ BlockSlots \subseteq Slots
      /\ m_weight_matrix \in [Slots -> Int]
      /\ m_assignments \in [Index -> Index \cup {UNASSIGNED}]
      /\ \A s \in Slots : m_mark_matrix[s] = "UNMARKED"
      /\ m_primed_zero_locs = <<>> /\ m_augment_path = <<>> /\ round = 0
  BY <1>2 DEF AssignerTypeOK, IsReady, Block, Index, BlockSlots, Slots
<1>4. Block' = Block /\ BlockSlots' = BlockSlots
  BY <1>1 DEF Block, BlockSlots
<1>5. /\ \A r \in Block : InitialAssignment(r) \in Block \cup {UNASSIGNED}
      /\ \A q, r \in Block : InitialAssignment(q) = InitialAssignment(r)
                                /\ InitialAssignment(r) # UNASSIGNED => q = r
  BY <1>2, FirstAssignment
<1>6. \A r \in Block : m_assignments'[r] = InitialAssignment(r)
  BY <1>1, <1>3
<1>7. UNASSIGNED \notin Block
  BY DEF Block
<1>8. ASSUME NEW s \in Slots
      PROVE  /\ m_mark_matrix'[s] \in {"UNMARKED", "ZERO", "STARRED"}
             /\ m_mark_matrix'[s] = "STARRED" <=> s \in BlockSlots /\ m_assignments'[Row(s)] = Col(s)
  <2>1. m_mark_matrix'[s] = InitialMark(s, m_assignments')
    BY <1>1
  <2> QED BY <2>1, <1>3 DEF InitialMark
<1>9. \A r, c \in Block : /\ Slot(r, c) \in BlockSlots /\ Slot(r, c) \in Slots
                          /\ Row(Slot(r, c)) = r /\ Col(Slot(r, c)) = c
  BY <1>3 DEF Slot, BlockSlots, Row, Col
<1>10. \A s \in Stars' : /\ s \in BlockSlots /\ Row(s) \in Block /\ Col(s) \in Block
                         /\ s = Slot(Row(s), Col(s)) /\ m_assignments'[Row(s)] = Col(s)
  BY <1>3, <1>4, <1>8 DEF Stars, BlockSlots, Slot, Row, Col
<1>11. \A r, c \in Block : m_assignments'[r] = c <=> m_mark_matrix'[Slot(r, c)] = "STARRED"
  BY <1>8, <1>9
<1>12. \A s, t \in Stars' : (Row(s) = Row(t) \/ Col(s) = Col(t)) => s = t
  <2> SUFFICES ASSUME NEW s \in Stars', NEW t \in Stars', Row(s) = Row(t) \/ Col(s) = Col(t)
               PROVE  s = t
    OBVIOUS
  <2>1. Row(s) = Row(t)
    BY <1>5, <1>6, <1>7, <1>10
  <2> QED BY <2>1, <1>10
<1>13. m_is_col_covered' = {Col(s) : s \in Stars'}
  <2>1. ASSUME NEW r \in Block, m_assignments'[r] # UNASSIGNED
        PROVE  \E s \in Stars' : Col(s) = m_assignments'[r]
    <3>1. m_assignments'[r] \in Block
      BY <2>1, <1>5, <1>6
    <3>2. Slot(r, m_assignments'[r]) \in Stars'
      BY <3>1, <1>4, <1>9, <1>11 DEF Stars
    <3> QED BY <3>1, <3>2, <1>9
  <2>2. ASSUME NEW s \in Stars'
        PROVE  \E r \in Block : m_assignments'[r] = Col(s) /\ Col(s) # UNASSIGNED
    BY <1>7, <1>10
  <2>3. \A x : x \in m_is_col_covered' <=> x # UNASSIGNED /\ \E r \in Block : x = m_assignments'[r]
    BY <1>1
  <2>4. \A x : x \in m_is_col_covered' <=> \E s \in Stars' : x = Col(s)
    BY <2>1, <2>2, <2>3
  <2> QED BY <2>4
<1>14. m_weight_matrix' \in [Slots -> Int]
  <2> SUFFICES ASSUME NEW s \in Slots PROVE ReducedWeights[s] \in Int
    BY <1>1 DEF ReducedWeights
  <2>1. CASE s \in BlockSlots /\ ~IsPadding(Row(s))
    <3>1. Row(s) \in 0 .. m_num_rows - 1
      BY <2>1, <1>3 DEF IsPadding, BlockSlots, Block, Row
    <3>2. RowMinIdx(Row(s)) \in Block /\ Row(s) \in Block
      BY <2>1, <3>1, <1>2, MinimumIsInBlock DEF BlockSlots, Row
    <3>3. Slot(Row(s), RowMinIdx(Row(s))) \in Slots
      BY <3>2, <1>9
    <3> QED BY <2>1, <3>3, <1>3 DEF ReducedWeights
  <2>2. CASE ~ (s \in BlockSlots /\ ~IsPadding(Row(s)))
    BY <2>2, <1>3 DEF ReducedWeights
  <2> QED BY <2>1, <2>2
<1>15. m_mark_matrix' \in [Slots -> Mark]
  BY <1>1, <1>8 DEF Mark
<1>16. m_assignments' \in [Index -> Index \cup {UNASSIGNED}]
  <2>1. \A r \in Index : m_assignments'[r] \in Index \cup {UNASSIGNED}
    BY <1>1, <1>3, <1>5, <1>6
  <2> QED BY <2>1, <1>1
<1>17. AssignerTypeOK'
  <2>1. m_is_col_covered' \subseteq Block
    BY <1>10, <1>13
  <2>2. pc' \in {"assigned", "prime"}
    BY <1>1
  <2>3. /\ m_num_rows' \in 0 .. m_num_cols' /\ m_num_cols' \in 0 .. Capacity
        /\ m_is_max_matrix' \subseteq Slots /\ round' \in 0 .. m_num_cols'
        /\ m_primed_zero_locs' \in Seq(BlockSlots) /\ m_augment_path' \in Seq(BlockSlots)
    BY <1>1, <1>2 DEF AssignerTypeOK
  <2>4. m_is_row_covered' \subseteq Block' /\ m_is_col_covered' \subseteq Block'
    BY <1>1, <1>4, <2>1
  <2>5. m_primed_zero_locs' \in Seq(BlockSlots') /\ m_augment_path' \in Seq(BlockSlots')
    BY <2>3, <1>4
  <2> QED BY <2>2, <2>3, <2>4, <2>5, <1>14, <1>15, <1>16 DEF AssignerTypeOK
<1>18. StarsMatch'
  BY <1>1, <1>4, <1>11, <1>12, <1>13 DEF StarsMatch
<1>19. Primes' = {} /\ Len(m_primed_zero_locs') = 0
  BY <1>1, <1>3 DEF Primes
<1>20. PrimesAreKnown' /\ PrimesCover(Len(m_primed_zero_locs))'
  BY <1>1, <1>8, <1>19 DEF PrimesAreKnown, PrimesCover
<1>21. ASSUME pc' = "prime" PROVE RoundIsOpen'
  <2>1. m_is_col_covered' # Block
    BY <1>1, <1>21
  <2>2. Stars' \subseteq (0 .. m_num_cols - 1) \X (0 .. m_num_cols - 1)
    BY <1>4 DEF Stars, BlockSlots, Block
  <2>3. Cardinality(Stars') \in 0 .. m_num_cols
    BY <2>2, <1>3, <1>12, Matching
  <2>4. round' =< Cardinality(Stars')
    BY <2>3, <1>1, <1>3
  <2>5. StarCols' # Block'
    BY <2>1, <1>4, <1>13 DEF StarCols
  <2> QED BY <2>4, <2>5 DEF RoundIsOpen
<1> QED
  BY <1>1, <1>3, <1>4, <1>5, <1>6, <1>17, <1>18, <1>20, <1>21 DEF AssignerInv, NeverGivesUp

-----------------------------------------------------------------------------
(* The assigner as a whole.                                                *)

LEMMA AssignStepKeepsInv ==
  ASSUME AssignerInv, AssignStep
  PROVE  AssignerInv'
<1>1. CASE ReduceRows
  BY <1>1, ReduceRowsKeepsInv
<1>2. CASE PrimeUncoveredZero
  BY <1>2, PrimeUncoveredZeroKeepsInv
<1>3. CASE AddNewZero
  BY <1>3, AddNewZeroKeepsInv
<1>4. CASE FollowPath
  BY <1>4, FollowPathKeepsInv
<1>5. CASE FlipPath
  BY <1>5, FlipPathKeepsInv
<1> QED
  BY <1>1, <1>2, <1>3, <1>4, <1>5 DEF AssignStep

\* Nothing is assigned before the weights are set and after the result is read.
LEMMA FreshIsFine == Fresh /\ pc \in {"idle", "extracted", "pruning", "crashed"} => AssignerInv
<1> SUFFICES ASSUME Fresh, pc \in {"idle", "extracted", "pruning", "crashed"} PROVE AssignerInv
  OBVIOUS
<1>1. /\ m_num_rows = 0 /\ m_num_cols = 0 /\ round = 0
      /\ m_weight_matrix = [s \in Slots |-> MAX_WEIGHT]
      /\ m_mark_matrix = [s \in Slots |-> "UNMARKED"]
      /\ m_is_max_matrix = Slots
      /\ m_assignments = [i \in Index |-> UNASSIGNED]
      /\ m_is_row_covered = {} /\ m_is_col_covered = {}
      /\ m_primed_zero_locs = <<>> /\ m_augment_path = <<>>
  BY DEF Fresh
<1>2. m_primed_zero_locs \in Seq(BlockSlots) /\ m_augment_path \in Seq(BlockSlots)
  BY <1>1
<1>3. /\ m_num_rows \in 0 .. m_num_cols /\ m_num_cols \in 0 .. Capacity /\ round \in 0 .. m_num_cols
      /\ m_is_row_covered \subseteq Block /\ m_is_col_covered \subseteq Block
      /\ m_is_max_matrix \subseteq Slots
  BY <1>1
<1>4. /\ m_weight_matrix \in [Slots -> Int]
      /\ m_mark_matrix \in [Slots -> Mark]
      /\ m_assignments \in [Index -> Index \cup {UNASSIGNED}]
  BY <1>1 DEF Mark
<1>5. AssignerTypeOK
  BY <1>2, <1>3, <1>4 DEF AssignerTypeOK
<1> QED
  BY <1>5 DEF AssignerInv, NeverGivesUp, StarsMatch

LEMMA FreshInv ==
  ASSUME Fresh', pc' \in {"idle", "extracted", "pruning", "crashed"}
  PROVE  AssignerInv'
<1>1. (Fresh /\ pc \in {"idle", "extracted", "pruning", "crashed"} => AssignerInv)'
  BY FreshIsFine, PTL
<1> QED
  BY <1>1

LEMMA SetWeightsKeepsInv ==
  ASSUME AssignerInv, pc = "idle", pc' = "ready",
         NEW rows \in Nat, NEW cols \in Nat, NEW weights,
         DOMAIN weights \subseteq Slots,
         \A s \in DOMAIN weights : Col(s) < cols /\ weights[s] \in 0 .. MAX_WEIGHT - 1,
         SetWeights(rows, cols, weights)
  PROVE  AssignerInv'
<1>1. Fresh /\ AssignerTypeOK
  BY DEF AssignerInv
<1>2. /\ rows =< cols /\ cols =< Capacity
      /\ m_num_rows' = rows /\ m_num_cols' = cols
      /\ m_weight_matrix' = [s \in Slots |-> IF s \in DOMAIN weights THEN weights[s]
                                             ELSE m_weight_matrix[s]]
      /\ m_is_max_matrix' = m_is_max_matrix \ DOMAIN weights
      /\ m_assignments' = [i \in Index |-> IF i < cols THEN UNASSIGNED ELSE m_assignments[i]]
      /\ UNCHANGED <<m_mark_matrix, m_is_row_covered, m_is_col_covered, m_primed_zero_locs,
                     m_augment_path, round>>
  BY DEF SetWeights, FitsCapacity, covers
<1>3. /\ m_weight_matrix = [s \in Slots |-> MAX_WEIGHT]
      /\ m_mark_matrix = [s \in Slots |-> "UNMARKED"]
      /\ m_is_row_covered = {} /\ m_is_col_covered = {}
      /\ m_primed_zero_locs = <<>> /\ m_augment_path = <<>> /\ round = 0
  BY <1>1 DEF Fresh
<1>4. m_weight_matrix' \in [Slots -> Int]
  BY <1>2, <1>3
<1>5. /\ m_mark_matrix' \in [Slots -> Mark] /\ m_is_max_matrix' \subseteq Slots
      /\ m_assignments' \in [Index -> Index \cup {UNASSIGNED}]
  BY <1>1, <1>2 DEF AssignerTypeOK
<1>6. /\ m_num_rows' \in 0 .. m_num_cols' /\ m_num_cols' \in 0 .. Capacity /\ round' \in 0 .. m_num_cols'
      /\ m_is_row_covered' \subseteq Block' /\ m_is_col_covered' \subseteq Block'
  BY <1>2, <1>3
<1>7. m_primed_zero_locs' \in Seq(BlockSlots') /\ m_augment_path' \in Seq(BlockSlots')
  BY <1>2, <1>3
<1>8. AssignerTypeOK'
  BY <1>4, <1>5, <1>6, <1>7 DEF AssignerTypeOK
<1>9. IsReady'
  <2>1. ASSUME NEW s \in Slots
        PROVE  /\ m_weight_matrix'[s] =< MAX_WEIGHT
               /\ Col(s) \notin Block' => m_weight_matrix'[s] = MAX_WEIGHT
    <3>1. CASE s \in DOMAIN weights
      <4>1. Col(s) \in Block'
        BY <3>1, <1>2 DEF Slots, Index, Col, Block
      <4> QED BY <3>1, <4>1, <1>2
    <3>2. CASE s \notin DOMAIN weights
      BY <3>2, <1>2, <1>3
    <3> QED BY <3>1, <3>2
  <2> QED BY <2>1, <1>2, <1>3 DEF IsReady
<1> QED
  BY <1>8, <1>9 DEF AssignerInv, NeverGivesUp, StarsMatch

LEMMA UnchangedAssignerKeepsInv ==
  ASSUME AssignerInv, UNCHANGED assignerVars
  PROVE  AssignerInv'
<1>1. UNCHANGED <<pc, m_num_rows, m_num_cols, m_weight_matrix, m_mark_matrix, m_is_max_matrix,
                  m_assignments, m_is_row_covered, m_is_col_covered, m_primed_zero_locs,
                  m_augment_path, round>>
  BY DEF assignerVars, sizes, matrices, covers
<1>2. /\ Block' = Block /\ BlockSlots' = BlockSlots /\ Stars' = Stars /\ Primes' = Primes
      /\ OnPath' = OnPath /\ PathEnd' = PathEnd /\ LastPrime' = LastPrime
  BY <1>1 DEF Block, BlockSlots, Stars, Primes, OnPath, PathEnd, LastPrime
<1>3. StarCols' = StarCols /\ PathStars' = PathStars /\ PathPrimes' = PathPrimes
      /\ StarsInRow(Row(LastPrime))' = StarsInRow(Row(LastPrime))
  BY <1>1, <1>2 DEF StarCols, PathStars, PathPrimes, StarsInRow
<1>4. /\ AssignerTypeOK' = AssignerTypeOK /\ NeverGivesUp' = NeverGivesUp
      /\ StarsMatch' = StarsMatch /\ Fresh' = Fresh /\ IsReady' = IsReady
  BY <1>1, <1>2 DEF AssignerTypeOK, NeverGivesUp, StarsMatch, Fresh, IsReady
<1>5. PrimesAreKnown' = PrimesAreKnown /\ RoundIsOpen' = RoundIsOpen /\ PathAlternates' = PathAlternates
  BY <1>1, <1>2, <1>3 DEF PrimesAreKnown, RoundIsOpen, PathAlternates
<1> QED
  BY <1>1, <1>2, <1>3, <1>4, <1>5 DEF AssignerInv, PrimesCover

-----------------------------------------------------------------------------
(* The tracker: the result of the assigner.                                *)

\* A detection has at most one track, and a track at most one detection.
LEMMA MatchesAreOneToOne ==
  ASSUME AssignerInv, TypeOK, SizesFit, pc = "assigned",
         NEW d \in Detections, NEW t \in MatchedTrack(d)
  PROVE  /\ t \in TrackIndices
         /\ \A u \in MatchedTrack(d) : u = t
         /\ \A e \in Detections : t \in MatchedTrack(e) => e = d
<1>1. /\ m_num_rows = Smaller(m_num_detections, NumTracks)
      /\ m_num_cols = Larger(m_num_detections, NumTracks)
      /\ m_num_detections \in Nat /\ NumTracks \in Nat
  BY TrackerAssumption DEF SizesFit, TypeOK, NumTracks
<1>2. Detections \subseteq Block /\ TrackIndices \subseteq Block /\ Detections \subseteq Nat /\ TrackIndices \subseteq Nat
  BY <1>1 DEF Detections, TrackIndices, Block, Larger
<1>3. \A r, c \in Block : Assignment(r) = c => m_assignments[r] = c
  <2>1. UNASSIGNED \notin Block
    BY DEF Block
  <2> QED BY <2>1 DEF Assignment
<1>4. ASSUME NEW q \in Block, NEW r \in Block, NEW c \in Block,
             Assignment(q) = c, Assignment(r) = c
      PROVE  q = r
  <2>1. m_mark_matrix[Slot(q, c)] = "STARRED" /\ m_mark_matrix[Slot(r, c)] = "STARRED"
    BY <1>3, <1>4 DEF AssignerInv, StarsMatch
  <2>2. Slot(q, c) \in Stars /\ Slot(r, c) \in Stars
    BY <2>1 DEF Stars, BlockSlots, Slot
  <2>3. Slot(q, c) = Slot(r, c)
    <3>1. Col(Slot(q, c)) = Col(Slot(r, c))
      BY DEF Slot, Col
    <3> QED BY <2>2, <3>1 DEF AssignerInv, StarsMatch
  <2> QED BY <2>3 DEF Slot
<1>5. CASE AreTracksRows(m_num_detections)
  <2>1. \A e \in Detections : \A u \in MatchedTrack(e) : u \in TrackIndices /\ Assignment(u) = e
    BY <1>5 DEF MatchedTrack
  <2>2. ASSUME NEW u \in MatchedTrack(d) PROVE u = t
    <3>1. /\ u \in Block /\ t \in Block /\ d \in Block
          /\ Assignment(u) = d /\ Assignment(t) = d
      BY <2>1, <1>2
    <3> QED BY <3>1, <1>4
  <2>3. ASSUME NEW e \in Detections, t \in MatchedTrack(e) PROVE e = d
    BY <2>1, <2>3
  <2> QED BY <2>1, <2>2, <2>3
<1>6. CASE ~AreTracksRows(m_num_detections)
  <2>1. \A e \in Detections : \A u \in MatchedTrack(e) : u \in TrackIndices /\ Assignment(e) = u
    BY <1>6 DEF MatchedTrack
  <2>2. ASSUME NEW e \in Detections, t \in MatchedTrack(e) PROVE e = d
    <3>1. /\ e \in Block /\ d \in Block /\ t \in Block
          /\ Assignment(e) = t /\ Assignment(d) = t
      BY <2>1, <2>2, <1>2
    <3> QED BY <3>1, <1>4
  <2>3. \A u \in MatchedTrack(d) : u = t
    BY <2>1
  <2> QED BY <2>1, <2>2, <2>3
<1> QED
  BY <1>5, <1>6

LEMMA ExtractResultKeepsInv ==
  ASSUME InductiveInv, extract_result
  PROVE  InductiveInv'
<1> USE TrackerAssumption
<1>1. /\ AssignerInv /\ TypeOK /\ SizesFit /\ TargetIsAhead /\ AgesAreTrue
  BY DEF InductiveInv
<1>2. pc = "assigned"
  BY <1>1 DEF extract_result, AssignerInv, NeverGivesUp
<1>3. /\ associations' = [d \in Detections |->
            IF MatchedTrack(d) = {} THEN Nothing
            ELSE ExistingTrack(CHOOSE t \in MatchedTrack(d) : TRUE)]
      /\ m_track_associations' = [t \in TrackIndices |->
            IF MatchedDetections(t) = {} THEN Nothing
            ELSE OtherDetection(Latest(MatchedDetections(t)))]
      /\ pc' = "extracted"
      /\ Reset
      /\ UNCHANGED <<use_vision, m_odom_cache, m_vision_cache_map, m_tracks, m_last_update,
                     target_time, m_num_detections>>
  BY DEF extract_result
<1>4. /\ Detections' = Detections /\ TrackIndices' = TrackIndices /\ NumTracks' = NumTracks
      /\ Detections \subseteq Nat /\ TrackIndices \subseteq Nat
  BY <1>1, <1>3 DEF Detections, TrackIndices, NumTracks, TypeOK
<1>5. \A d \in Detections : \A t \in MatchedTrack(d) :
            /\ t \in TrackIndices
            /\ \A u \in MatchedTrack(d) : u = t
            /\ \A e \in Detections : t \in MatchedTrack(e) => e = d
  BY <1>1, <1>2, MatchesAreOneToOne
<1>6. ASSUME NEW d \in Detections, NEW t \in MatchedTrack(d)
      PROVE  associations'[d] = ExistingTrack(t)
  <2>1. (CHOOSE u \in MatchedTrack(d) : TRUE) = t
    BY <1>5, <1>6
  <2> QED BY <2>1, <1>3, <1>6
<1>7. ASSUME NEW d \in Detections, MatchedTrack(d) = {}
      PROVE  associations'[d] = Nothing
  BY <1>3, <1>7
<1>8. ASSUME NEW d \in Detections, NEW t \in TrackIndices, t \in MatchedTrack(d)
      PROVE  m_track_associations'[t] = OtherDetection(d)
  <2>1. MatchedDetections(t) = {d}
    BY <1>5, <1>8 DEF MatchedDetections
  <2>2. d \in Nat
    BY <1>4
  <2>3. Latest({d}) = d
    BY <2>2 DEF Latest
  <2> QED BY <2>1, <2>3, <1>3
<1>9. ASSUME NEW t \in TrackIndices, \A d \in Detections : t \notin MatchedTrack(d)
      PROVE  m_track_associations'[t] = Nothing
  <2>1. MatchedDetections(t) = {}
    BY <1>9 DEF MatchedDetections
  <2> QED BY <2>1, <1>3
<1>10. /\ \A t, u : ExistingTrack(t) = ExistingTrack(u) => t = u
       /\ \A d, e : OtherDetection(d) = OtherDetection(e) => d = e
       /\ \A t : Nothing # ExistingTrack(t) /\ Nothing # OtherDetection(t)
       /\ Nothing \in Match /\ \A i \in Nat : ExistingTrack(i) \in Match /\ OtherDetection(i) \in Match
  <2>1. /\ \A t : ExistingTrack(t).match_index = t /\ ExistingTrack(t).matched = "kExistingTrack"
        /\ \A t : OtherDetection(t).match_index = t /\ OtherDetection(t).matched = "kOtherDetection"
        /\ Nothing.matched = "kNothing"
    BY DEF ExistingTrack, OtherDetection, Nothing
  <2>2. Nothing \in Match /\ \A i \in Nat : ExistingTrack(i) \in Match /\ OtherDetection(i) \in Match
    BY DEF ExistingTrack, OtherDetection, Nothing, Match
  <2> QED BY <2>1, <2>2
<1>11. \A d \in Detections : /\ associations'[d] \in Match
                             /\ \A t : associations'[d] = ExistingTrack(t) => t \in MatchedTrack(d)
  <2> SUFFICES ASSUME NEW d \in Detections
               PROVE  /\ associations'[d] \in Match
                      /\ \A t : associations'[d] = ExistingTrack(t) => t \in MatchedTrack(d)
    OBVIOUS
  <2>1. CASE MatchedTrack(d) = {}
    BY <2>1, <1>7, <1>10
  <2>2. CASE MatchedTrack(d) # {}
    <3>1. PICK u \in MatchedTrack(d) : TRUE
      BY <2>2
    <3>2. associations'[d] = ExistingTrack(u) /\ u \in Nat
      BY <3>1, <1>4, <1>5, <1>6
    <3> QED BY <3>1, <3>2, <1>10
  <2> QED BY <2>1, <2>2
<1>12. \A t \in TrackIndices :
            /\ m_track_associations'[t] \in Match
            /\ m_track_associations'[t] # Nothing
                    => \E d \in Detections : /\ t \in MatchedTrack(d)
                                             /\ m_track_associations'[t] = OtherDetection(d)
  BY <1>4, <1>8, <1>9, <1>10
<1>13. EveryDetectionIsUsedOnce'
  <2>1. \A d \in Detections, t \in TrackIndices :
            associations'[d] = ExistingTrack(t) <=> m_track_associations'[t] = OtherDetection(d)
    <3> SUFFICES ASSUME NEW d \in Detections, NEW t \in TrackIndices
                 PROVE  associations'[d] = ExistingTrack(t)
                            <=> m_track_associations'[t] = OtherDetection(d)
      OBVIOUS
    <3>1. ASSUME associations'[d] = ExistingTrack(t)
          PROVE  m_track_associations'[t] = OtherDetection(d)
      BY <3>1, <1>8, <1>11
    <3>2. ASSUME m_track_associations'[t] = OtherDetection(d)
          PROVE  associations'[d] = ExistingTrack(t)
      <4>1. PICK e \in Detections : t \in MatchedTrack(e) /\ m_track_associations'[t] = OtherDetection(e)
        BY <3>2, <1>10, <1>12
      <4>2. e = d
        BY <4>1, <3>2, <1>10
      <4> QED BY <4>1, <4>2, <1>6
    <3> QED BY <3>1, <3>2
  <2> QED BY <2>1, <1>4 DEF EveryDetectionIsUsedOnce
<1>14. MissesAreTold'
  <2>1. \A t \in TrackIndices : m_track_associations'[t] # Nothing
            => \E d \in Detections : associations'[d] = ExistingTrack(t)
    BY <1>6, <1>12
  <2> QED BY <2>1, <1>4 DEF MissesAreTold, UpdatedBy
<1>15. AssignerInv'
  <2>1. Fresh'
    BY <1>3 DEF Reset, Fresh
  <2>2. pc' \in {"idle", "extracted", "pruning", "crashed"}
    BY <1>3
  <2> QED BY <2>1, <2>2, FreshInv
<1>16. TypeOK'
  <2>1. associations' \in [Detections -> Match]
    BY <1>3, <1>11
  <2>2. m_track_associations' \in [TrackIndices -> Match]
    BY <1>3, <1>12
  <2>3. AssignerTypeOK'
    BY <1>15 DEF AssignerInv
  <2> QED BY <2>1, <2>2, <2>3, <1>1, <1>3, <1>4 DEF TypeOK
<1>17. SizesFit' /\ TargetIsAhead' /\ AgesAreTrue'
  BY <1>1, <1>2, <1>3, <1>4 DEF SizesFit, TargetIsAhead, AgesAreTrue
<1> QED
  BY <1>13, <1>14, <1>15, <1>16, <1>17 DEF InductiveInv

-----------------------------------------------------------------------------
(* The tracker: detections.                                                *)

LEMMA CrashKeepsInv ==
  ASSUME AssignerInv, pc = "idle", Crash
  PROVE  AssignerInv'
<1>1. Fresh'
  BY DEF Crash, AssignerInv, Fresh, sizes, matrices, covers
<1> QED
  BY <1>1, FreshInv DEF Crash

LEMMA AssignDetectionsKeepsInv ==
  ASSUME AssignerInv, TypeOK, pc = "idle", pc' = "ready", NEW n \in 0 .. MaxDetections,
         FitsCapacity(n, NumTracks), AssignDetections(n)
  PROVE  /\ AssignerInv'
         /\ m_num_rows' = Smaller(n, NumTracks) /\ m_num_cols' = Larger(n, NumTracks)
<1> USE TrackerAssumption
<1>1. n \in Nat /\ NumTracks \in Nat /\ NumTracks \in 0 .. Capacity /\ n =< Capacity
  BY DEF NumTracks, TypeOK, FitsCapacity
<1>2. PICK considered \in SUBSET ((0 .. n - 1) \X TrackIndices) :
        \E distance \in [considered -> Distances(n, NumTracks)] :
            /\ ~IsTooFar(distance)
            /\ SetWeights(Smaller(n, NumTracks), Larger(n, NumTracks), Weights(n, distance))
  BY DEF AssignDetections, Crash
<1>3. PICK distance \in [considered -> Distances(n, NumTracks)] :
            /\ ~IsTooFar(distance)
            /\ SetWeights(Smaller(n, NumTracks), Larger(n, NumTracks), Weights(n, distance))
  BY <1>2
<1>a. \A p \in considered : distance[p] \in 0 .. MAX_WEIGHT - 1
  <2>1. \A p \in considered : distance[p] \in Nat
    BY <1>1
  <2> QED BY <1>3, <2>1, WeightAssumption DEF IsTooFar
<1> DEFINE turned(p) == IF AreTracksRows(n) THEN <<p[2], p[1]>> ELSE p
           pairs == {turned(p) : p \in DOMAIN distance}
           weights == Weights(n, distance)
<1>4. weights = [s \in pairs |-> distance[turned(s)]]
  BY DEF Weights
<1>5. Smaller(n, NumTracks) \in Nat /\ Larger(n, NumTracks) \in Nat
  BY <1>1 DEF Smaller, Larger
<1>6. ASSUME NEW s \in pairs
      PROVE  /\ s \in Slots /\ Col(s) < Larger(n, NumTracks)
             /\ distance[turned(s)] \in 0 .. MAX_WEIGHT - 1
  <2>1. PICK p \in considered : s = turned(p)
    BY <1>6
  <2>2. p[1] \in 0 .. n - 1 /\ p[2] \in TrackIndices /\ p = <<p[1], p[2]>>
    BY <2>1
  <2>3. p[1] \in Index /\ p[2] \in Index
    BY <2>2, <1>1 DEF TrackIndices, Index
  <2>4. CASE AreTracksRows(n)
    <3>1. s = <<p[2], p[1]>> /\ turned(s) = p
      BY <2>1, <2>2, <2>4
    <3>2. Col(s) < Larger(n, NumTracks) /\ s \in Slots
      BY <3>1, <2>2, <2>3, <2>4, <1>1 DEF Col, Larger, Slots, AreTracksRows
    <3> QED BY <3>1, <3>2, <2>1, <1>a
  <2>5. CASE ~AreTracksRows(n)
    <3>1. s = p /\ turned(s) = p
      BY <2>1, <2>5
    <3>2. Col(s) < Larger(n, NumTracks) /\ s \in Slots
      BY <3>1, <2>2, <2>3, <2>5, <1>1 DEF Col, Larger, Slots, AreTracksRows, TrackIndices
    <3> QED BY <3>1, <3>2, <2>1, <1>a
  <2> QED BY <2>4, <2>5
<1>7. DOMAIN weights = pairs /\ \A s \in pairs : weights[s] = distance[turned(s)]
  BY <1>4
<1> HIDE DEF weights, pairs
<1>8. /\ DOMAIN weights \subseteq Slots
      /\ \A s \in DOMAIN weights : Col(s) < Larger(n, NumTracks) /\ weights[s] \in 0 .. MAX_WEIGHT - 1
  BY <1>6, <1>7
<1>9. SetWeights(Smaller(n, NumTracks), Larger(n, NumTracks), weights)
  BY <1>3 DEF weights
<1>10. m_num_rows' = Smaller(n, NumTracks) /\ m_num_cols' = Larger(n, NumTracks)
  BY <1>9 DEF SetWeights
<1> QED
  BY <1>5, <1>8, <1>9, <1>10, SetWeightsKeepsInv

LEMMA DetectionsCallbackKeepsInv ==
  ASSUME InductiveInv, NEW stamp \in Stamps, NEW n \in 0 .. MaxDetections,
         detections_callback(stamp, n)
  PROVE  InductiveInv'
<1> USE TrackerAssumption
<1>1. /\ AssignerInv /\ TypeOK /\ AgesAreTrue
  BY DEF InductiveInv
<1>2. /\ pc = "idle" /\ stamp >= m_last_update
      /\ target_time' = stamp /\ m_num_detections' = n
      /\ m_tracks' = [i \in 1 .. NumTracks |-> predict(m_tracks[i], stamp - m_last_update)]
      /\ associations' = [d \in 0 .. n - 1 |-> Nothing]
      /\ m_track_associations' = [t \in TrackIndices |-> Nothing]
      /\ UNCHANGED <<use_vision, m_odom_cache, m_vision_cache_map, m_last_update>>
      /\ pc' \in {"ready", "crashed"}
  BY DEF detections_callback, AssignDetections, Crash
<1>3. /\ stamp \in Nat /\ m_last_update \in Nat /\ n \in Nat
      /\ m_tracks \in Seq(Track) /\ NumTracks \in Nat
  BY <1>1 DEF TypeOK, NumTracks
<1>4. \A i \in 1 .. NumTracks :
            /\ m_tracks[i] \in Track
            /\ m_tracks[i].time_since_last_seen = m_last_update - m_tracks[i].seen
  BY <1>1, <1>2, <1>3 DEF AgesAreTrue, NumTracks
<1>5. ASSUME NEW i \in 1 .. NumTracks
      PROVE  /\ m_tracks'[i] \in Track
             /\ m_tracks'[i].time_since_last_seen = stamp - m_tracks'[i].seen
  <2>1. m_tracks'[i] = [m_tracks[i] EXCEPT !.time_since_last_seen = @ + (stamp - m_last_update)]
    BY <1>2 DEF predict
  <2>2. /\ m_tracks'[i].time_since_last_seen
                = m_tracks[i].time_since_last_seen + (stamp - m_last_update)
        /\ m_tracks'[i].seen = m_tracks[i].seen
    BY <2>1, <1>4 DEF Track
  <2>3. m_tracks[i].time_since_last_seen \in Nat /\ m_tracks[i].seen \in Nat
    BY <1>4 DEF Track
  <2>4. /\ stamp \in Nat /\ m_last_update \in Nat /\ stamp >= m_last_update
        /\ m_tracks[i].time_since_last_seen = m_last_update - m_tracks[i].seen
    BY <1>2, <1>3, <1>4
  <2>5. m_tracks[i].time_since_last_seen + (stamp - m_last_update) \in Nat
    BY <2>3, <2>4
  <2>6. m_tracks[i].time_since_last_seen + (stamp - m_last_update) = stamp - m_tracks[i].seen
    BY <2>3, <2>4
  <2>7. m_tracks'[i] \in Track
    BY <2>1, <2>5, <1>4 DEF Track
  <2> QED BY <2>2, <2>6, <2>7
<1>6. m_tracks' \in Seq(Track) /\ NumTracks' = NumTracks
  BY <1>2, <1>3, <1>5 DEF NumTracks
<1>7. TrackIndices' = TrackIndices /\ Detections' = 0 .. n - 1
  BY <1>2, <1>6 DEF TrackIndices, Detections
<1>8. /\ AssignerInv'
      /\ pc' = "ready" => /\ m_num_rows' = Smaller(n, NumTracks)
                          /\ m_num_cols' = Larger(n, NumTracks)
  <2>1. CASE pc' = "ready"
    <3>1. FitsCapacity(n, NumTracks) /\ AssignDetections(n)
      BY <2>1 DEF detections_callback, Crash
    <3> QED BY <3>1, <2>1, <1>1, <1>2, AssignDetectionsKeepsInv
  <2>2. CASE pc' = "crashed"
    <3>1. Crash
      BY <2>2 DEF detections_callback, AssignDetections
    <3> QED BY <3>1, <2>2, <1>1, <1>2, CrashKeepsInv
  <2> QED BY <1>2, <2>1, <2>2
<1>9. TypeOK'
  <2>1. Nothing \in Match
    BY DEF Nothing, Match
  <2>2. AssignerTypeOK'
    BY <1>8 DEF AssignerInv
  <2>3. /\ associations' \in [Detections' -> Match]
        /\ m_track_associations' \in [TrackIndices' -> Match]
    BY <2>1, <1>2, <1>7
  <2>4. /\ use_vision' \in BOOLEAN /\ m_odom_cache' \subseteq OdometryStamps
        /\ m_vision_cache_map' \in [Cameras -> SUBSET ImageStamps]
        /\ m_last_update' \in Nat /\ target_time' \in Nat /\ m_num_detections' \in 0 .. MaxDetections
    BY <1>1, <1>2, <1>3 DEF TypeOK
  <2> QED BY <2>2, <2>3, <2>4, <1>6 DEF TypeOK
<1>10. SizesFit'
  BY <1>2, <1>6, <1>8 DEF SizesFit, Smaller, Larger
<1>11. TargetIsAhead' /\ EveryDetectionIsUsedOnce' /\ MissesAreTold'
  BY <1>2 DEF TargetIsAhead, EveryDetectionIsUsedOnce, MissesAreTold
<1>12. AgesAreTrue'
  BY <1>2, <1>5, <1>6 DEF AgesAreTrue
<1> QED
  BY <1>8, <1>9, <1>10, <1>11, <1>12 DEF InductiveInv

-----------------------------------------------------------------------------
(* The tracker: updates, creation and pruning.                             *)

LEMMA FinishUpdateKeepsInv ==
  ASSUME InductiveInv, NEW created \in SUBSET Detections, finish_update(created)
  PROVE  InductiveInv'
<1> USE TrackerAssumption
<1> DEFINE k == Cardinality(created)
           old == [i \in 1 .. NumTracks |-> Updated(i - 1)]
           new == [i \in 1 .. k |-> NewTrack(target_time)]
<1>1. /\ AssignerInv /\ TypeOK /\ AgesAreTrue /\ TargetIsAhead /\ MissesAreTold
  BY DEF InductiveInv
<1>2. /\ pc = "extracted" /\ m_tracks' = old \o new /\ pc' = "pruning"
      /\ UNCHANGED <<sizes, matrices, m_assignments, covers, m_primed_zero_locs, m_augment_path,
                     round, use_vision, m_odom_cache, m_vision_cache_map, m_last_update,
                     target_time, m_num_detections, associations, m_track_associations>>
  BY DEF finish_update
<1>3. /\ m_tracks \in Seq(Track) /\ NumTracks \in Nat
      /\ target_time \in Stamps /\ target_time \in Nat /\ m_last_update =< target_time
      /\ m_num_detections \in Nat
  BY <1>1, <1>2 DEF TypeOK, NumTracks, TargetIsAhead
<1>4. k \in Nat
  <2>1. IsFiniteSet(Detections)
    BY <1>3, FS_Interval DEF Detections
  <2>2. IsFiniteSet(created)
    BY <2>1, FS_Subset
  <2> QED BY <2>2, FS_CardinalityType
<1>5. NewTrack(target_time) \in Track
  BY <1>3 DEF NewTrack, Track
<1>6. ASSUME NEW i \in 1 .. NumTracks
      PROVE  /\ Updated(i - 1) \in Track
             /\ Updated(i - 1).time_since_last_seen = target_time - Updated(i - 1).seen
             /\ Updated(i - 1).time_since_last_seen > 0 => Updated(i - 1).ticks_since_last_seen > 0
  <2> DEFINE t == i - 1
             track == m_tracks[i]
             corrected == IF UpdatedBy(t) # {} THEN update(track, target_time) ELSE track
  <2>1. /\ track \in Track /\ t \in TrackIndices
        /\ track.time_since_last_seen = target_time - track.seen
    BY <1>1, <1>2, <1>3 DEF AgesAreTrue, NumTracks, TrackIndices
  <2>2. /\ track.time_since_last_seen \in Nat /\ track.ticks_since_last_seen \in Nat
        /\ track.seen \in Stamps
    BY <2>1 DEF Track
  <2>3. Updated(t) = IF m_track_associations[t] = Nothing THEN no_update(corrected) ELSE corrected
    <3>1. t + 1 = i
      BY <1>3
    <3> QED BY <3>1 DEF Updated
  <2>4. CASE UpdatedBy(t) # {}
    <3>1. corrected = [time_since_last_seen |-> 0, ticks_since_last_seen |-> 0, seen |-> target_time]
      BY <2>4 DEF update, NewTrack
    <3> HIDE DEF corrected
    <3>2. /\ Updated(t) \in Track
          /\ Updated(t).time_since_last_seen = 0 /\ Updated(t).seen = target_time
      BY <2>3, <3>1, <1>3, SMTT(20) DEF no_update, Track
    <3> QED BY <3>2, <1>3
  <2>5. CASE UpdatedBy(t) = {}
    <3>1. m_track_associations[t] = Nothing
      BY <2>1, <2>5, <1>1, <1>2 DEF MissesAreTold
    <3>2. Updated(t) = [track EXCEPT !.ticks_since_last_seen = @ + 1]
      BY <2>3, <2>5, <3>1 DEF no_update
    <3> HIDE DEF track
    <3>3. /\ Updated(t) \in Track
          /\ Updated(t).time_since_last_seen = track.time_since_last_seen
          /\ Updated(t).seen = track.seen
          /\ Updated(t).ticks_since_last_seen = track.ticks_since_last_seen + 1
      BY <3>2, <2>1, <2>2 DEF Track
    <3> QED BY <3>3, <2>1, <2>2
  <2> QED BY <2>4, <2>5
<1>7. /\ NewTrack(target_time).time_since_last_seen = 0
      /\ NewTrack(target_time).seen = target_time
  BY DEF NewTrack
<1>8. old \in Seq(Track) /\ Len(old) = NumTracks /\ \A i \in 1 .. NumTracks : old[i] = Updated(i - 1)
  BY <1>3, <1>6
<1>9. new \in Seq(Track) /\ Len(new) = k /\ \A i \in 1 .. k : new[i] = NewTrack(target_time)
  BY <1>4, <1>5
<1> HIDE DEF old, new, k
<1>10. m_tracks' \in Seq(Track) /\ NumTracks' = NumTracks + k
  <2>1. old \in Seq(Track) /\ new \in Seq(Track) /\ Len(old) = NumTracks /\ Len(new) = k
    BY <1>8, <1>9
  <2>2. old \o new \in Seq(Track) /\ Len(old \o new) = NumTracks + k
    BY <2>1
  <2> QED BY <2>2, <1>2 DEF NumTracks
<1>11. ASSUME NEW i \in 1 .. NumTracks'
       PROVE  /\ m_tracks'[i].time_since_last_seen = target_time - m_tracks'[i].seen
              /\ m_tracks'[i].time_since_last_seen > 0 => m_tracks'[i].ticks_since_last_seen > 0
  <2>1. CASE i \in 1 .. NumTracks
    <3>1. m_tracks'[i] = Updated(i - 1)
      BY <2>1, <1>2, <1>8, <1>9
    <3> QED BY <3>1, <2>1, <1>6
  <2>2. CASE i \notin 1 .. NumTracks
    <3>1. i - NumTracks \in 1 .. k
      BY <2>2, <1>3, <1>4, <1>10
    <3>2. m_tracks'[i] = new[i - NumTracks]
      BY <2>2, <3>1, <1>2, <1>3, <1>4, <1>8, <1>9, <1>10
    <3>3. m_tracks'[i] = NewTrack(target_time)
      BY <3>1, <3>2, <1>9
    <3> QED BY <3>3, <1>3, <1>7
  <2> QED BY <2>1, <2>2
<1>12. AgesAreTrue'
  BY <1>2, <1>11 DEF AgesAreTrue
<1>13. AssignerInv'
  <2>1. Fresh
    BY <1>1, <1>2 DEF AssignerInv
  <2>2. Fresh'
    BY <2>1, <1>2 DEF Fresh, sizes, matrices, covers
  <2> QED BY <2>2, <1>2, FreshInv
<1>14. TypeOK'
  <2>1. AssignerTypeOK'
    BY <1>13 DEF AssignerInv
  <2> QED BY <2>1, <1>1, <1>2, <1>10 DEF TypeOK
<1>15. SizesFit' /\ TargetIsAhead' /\ EveryDetectionIsUsedOnce' /\ MissesAreTold'
  BY <1>2, <1>3 DEF SizesFit, TargetIsAhead, EveryDetectionIsUsedOnce, MissesAreTold
<1> QED
  BY <1>12, <1>13, <1>14, <1>15 DEF InductiveInv

LEMMA RemoveTrackKeepsInv ==
  ASSUME InductiveInv, remove_track
  PROVE  InductiveInv'
<1> USE TrackerAssumption
<1> DEFINE k == Lowest(Removable)
<1>1. AssignerInv /\ TypeOK /\ AgesAreTrue /\ TargetIsAhead
  BY DEF InductiveInv
<1>2. /\ pc = "pruning" /\ Removable # {} /\ m_tracks' = Without(m_tracks, k)
      /\ UNCHANGED <<assignerVars, use_vision, m_odom_cache, m_vision_cache_map, m_last_update,
                     target_time, m_num_detections, associations, m_track_associations>>
      /\ pc' = pc
  BY DEF remove_track, assignerVars
<1>3. m_tracks \in Seq(Track) /\ NumTracks \in Nat /\ NumTracks = Len(m_tracks)
  BY <1>1 DEF TypeOK, NumTracks
<1>4. k \in 1 .. NumTracks
  <2>1. Removable \subseteq 1 .. NumTracks
    BY DEF Removable
  <2>2. Removable \subseteq Nat
    BY <2>1, <1>3
  <2>3. \E i \in Removable : \A j \in Removable : i =< j
    BY <2>2, <1>2, LeastNatural
  <2>4. k \in Removable
    BY <2>3 DEF Lowest
  <2> QED BY <2>1, <2>4
<1> HIDE DEF k
<1>5. NumTracks - 1 \in Nat
  BY <1>3, <1>4
<1>6. m_tracks' = [i \in 1 .. NumTracks - 1 |-> IF i < k THEN m_tracks[i] ELSE m_tracks[i + 1]]
  BY <1>2, <1>3 DEF Without
<1>7. ASSUME NEW i \in 1 .. NumTracks - 1
      PROVE  \E j \in 1 .. NumTracks : m_tracks'[i] = m_tracks[j]
  <2>1. i \in 1 .. NumTracks /\ i + 1 \in 1 .. NumTracks
    BY <1>3
  <2> QED BY <2>1, <1>6
<1>8. \A j \in 1 .. NumTracks : m_tracks[j] \in Track
  BY <1>3
<1>9. m_tracks' \in Seq(Track) /\ NumTracks' = NumTracks - 1
  BY <1>5, <1>6, <1>7, <1>8 DEF NumTracks
<1>10. AgesAreTrue'
  <2>1. \A j \in 1 .. NumTracks :
            /\ m_tracks[j].time_since_last_seen = target_time - m_tracks[j].seen
            /\ m_tracks[j].time_since_last_seen > 0 => m_tracks[j].ticks_since_last_seen > 0
    BY <1>1, <1>2 DEF AgesAreTrue
  <2>2. \A i \in 1 .. NumTracks - 1 :
            /\ m_tracks'[i].time_since_last_seen = target_time - m_tracks'[i].seen
            /\ m_tracks'[i].time_since_last_seen > 0 => m_tracks'[i].ticks_since_last_seen > 0
    BY <2>1, <1>7
  <2> QED BY <2>2, <1>2, <1>9 DEF AgesAreTrue
<1>11. AssignerInv'
  BY <1>1, <1>2, UnchangedAssignerKeepsInv
<1>12. TypeOK'
  <2>1. AssignerTypeOK'
    BY <1>11 DEF AssignerInv
  <2> QED BY <2>1, <1>1, <1>2, <1>9 DEF TypeOK
<1>13. SizesFit' /\ TargetIsAhead' /\ EveryDetectionIsUsedOnce' /\ MissesAreTold'
  BY <1>1, <1>2 DEF SizesFit, TargetIsAhead, EveryDetectionIsUsedOnce, MissesAreTold
<1> QED
  BY <1>10, <1>11, <1>12, <1>13 DEF InductiveInv

LEMMA SetLastUpdateKeepsInv ==
  ASSUME InductiveInv, set_last_update
  PROVE  InductiveInv'
<1> USE TrackerAssumption
<1>1. AssignerInv /\ TypeOK /\ AgesAreTrue /\ TargetIsAhead
  BY DEF InductiveInv
<1>2. /\ pc = "pruning" /\ m_last_update' = target_time /\ m_num_detections' = 0 /\ pc' = "idle"
      /\ UNCHANGED <<sizes, matrices, m_assignments, covers, m_primed_zero_locs, m_augment_path,
                     round, use_vision, m_odom_cache, m_vision_cache_map, m_tracks, target_time>>
  BY DEF set_last_update
<1>3. AssignerInv'
  <2>1. Fresh
    BY <1>1, <1>2 DEF AssignerInv
  <2>2. Fresh'
    BY <2>1, <1>2 DEF Fresh, sizes, matrices, covers
  <2> QED BY <2>2, <1>2, FreshInv
<1>4. TypeOK'
  <2>1. AssignerTypeOK'
    BY <1>3 DEF AssignerInv
  <2> QED BY <2>1, <1>1, <1>2 DEF TypeOK
<1>5. AgesAreTrue'
  BY <1>1, <1>2 DEF AgesAreTrue, NumTracks
<1>6. SizesFit' /\ TargetIsAhead' /\ EveryDetectionIsUsedOnce' /\ MissesAreTold'
  BY <1>2 DEF SizesFit, TargetIsAhead, EveryDetectionIsUsedOnce, MissesAreTold
<1> QED
  BY <1>3, <1>4, <1>5, <1>6 DEF InductiveInv

-----------------------------------------------------------------------------
(* The inductive invariant.                                                *)

LEMMA InitHolds == Init => InductiveInv
<1> SUFFICES ASSUME Init PROVE InductiveInv
  OBVIOUS
<1> USE TrackerAssumption
<1>1. /\ pc = "idle" /\ Fresh /\ use_vision \in BOOLEAN /\ m_odom_cache = {}
      /\ m_vision_cache_map = [c \in Cameras |-> {}] /\ m_tracks = <<>>
      /\ m_last_update = 0 /\ target_time = 0 /\ m_num_detections = 0
  BY DEF Init
<1>2. AssignerInv
  BY <1>1, FreshIsFine
<1>3. TypeOK
  <2>1. AssignerTypeOK
    BY <1>2 DEF AssignerInv
  <2>2. m_tracks \in Seq(Track)
    BY <1>1
  <2>3. m_vision_cache_map \in [Cameras -> SUBSET ImageStamps]
    BY <1>1
  <2> QED BY <2>1, <2>2, <2>3, <1>1 DEF TypeOK
<1>4. AgesAreTrue
  BY <1>1 DEF AgesAreTrue, NumTracks
<1> QED
  BY <1>1, <1>2, <1>3, <1>4
     DEF InductiveInv, SizesFit, TargetIsAhead, EveryDetectionIsUsedOnce, MissesAreTold

LEMMA NextKeepsInv ==
  ASSUME InductiveInv, [Next]_vars
  PROVE  InductiveInv'
<1> USE TrackerAssumption
<1>1. /\ AssignerInv /\ TypeOK /\ AgesAreTrue /\ TargetIsAhead /\ SizesFit
      /\ EveryDetectionIsUsedOnce /\ MissesAreTold
  BY DEF InductiveInv
<1>2. \A cache, stamp, size : CacheAdd(cache, stamp, size) \subseteq cache \cup {stamp}
  BY DEF CacheAdd
<1>3. ASSUME UNCHANGED <<assignerVars, use_vision, m_tracks, m_last_update, target_time,
                         m_num_detections, associations, m_track_associations>>,
             m_odom_cache' \subseteq OdometryStamps,
             m_vision_cache_map' \in [Cameras -> SUBSET ImageStamps]
      PROVE  InductiveInv'
  <2>1. AssignerInv'
    BY <1>1, <1>3, UnchangedAssignerKeepsInv
  <2>2. /\ NumTracks' = NumTracks /\ TrackIndices' = TrackIndices /\ Detections' = Detections
        /\ UNCHANGED <<pc, m_num_rows, m_num_cols>>
    BY <1>3 DEF NumTracks, TrackIndices, Detections, assignerVars, sizes
  <2>3. TypeOK'
    <3>1. AssignerTypeOK'
      BY <2>1 DEF AssignerInv
    <3> QED BY <3>1, <2>2, <1>1, <1>3 DEF TypeOK
  <2>4. AgesAreTrue' /\ TargetIsAhead' /\ SizesFit'
    BY <2>2, <1>1, <1>3 DEF AgesAreTrue, TargetIsAhead, SizesFit
  <2>5. EveryDetectionIsUsedOnce' /\ MissesAreTold'
    BY <2>2, <1>1, <1>3 DEF EveryDetectionIsUsedOnce, MissesAreTold, UpdatedBy
  <2> QED BY <2>1, <2>3, <2>4, <2>5 DEF InductiveInv
<1>4. ASSUME NEW s \in OdometryStamps, odometry_callback(s) PROVE InductiveInv'
  <2>1. m_odom_cache' \subseteq OdometryStamps
    <3>1. m_odom_cache' = CacheAdd(m_odom_cache, s, PoseHistoryDepth)
      BY <1>4 DEF odometry_callback
    <3>2. m_odom_cache \subseteq OdometryStamps
      BY <1>1 DEF TypeOK
    <3>3. CacheAdd(m_odom_cache, s, PoseHistoryDepth) \subseteq m_odom_cache \cup {s}
      BY DEF CacheAdd
    <3> QED BY <3>1, <3>2, <3>3
  <2> QED BY <2>1, <1>1, <1>3, <1>4 DEF odometry_callback, TypeOK
<1>5. ASSUME NEW c \in Cameras, NEW s \in ImageStamps, classified_roi_callback(c, s)
      PROVE  InductiveInv'
  <2>1. CacheAdd(m_vision_cache_map[c], s, VisionCacheSize) \in SUBSET ImageStamps
    BY <1>1, <1>2 DEF TypeOK
  <2>2. m_vision_cache_map' = [m_vision_cache_map EXCEPT
            ![c] = CacheAdd(m_vision_cache_map[c], s, VisionCacheSize)]
    BY <1>5 DEF classified_roi_callback
  <2>3. m_vision_cache_map' \in [Cameras -> SUBSET ImageStamps]
    BY <2>1, <2>2, <1>1 DEF TypeOK
  <2> QED BY <2>3, <1>1, <1>3, <1>5 DEF classified_roi_callback, TypeOK
<1>6. ASSUME NEW s \in Stamps, NEW n \in 0 .. MaxDetections, detections_callback(s, n)
      PROVE  InductiveInv'
  BY <1>6, DetectionsCallbackKeepsInv
<1>7. CASE Assign
  <2>1. AssignStep /\ UNCHANGED trackerVars
    BY <1>7 DEF Assign
  <2>2. AssignerInv'
    BY <2>1, <1>1, AssignStepKeepsInv
  <2>3. /\ pc \in {"ready", "prime", "path"}
        /\ pc' \in {"prime", "path", "assigned", "failed", "thrown"}
        /\ UNCHANGED <<m_num_rows, m_num_cols>>
    BY <2>1 DEF AssignStep, ReduceRows, PrimeUncoveredZero, AddNewZero, Prime, FollowPath,
                FlipPath, sizes
  <2>4. pc' \in {"prime", "path", "assigned"}
    BY <2>2, <2>3 DEF AssignerInv, NeverGivesUp
  <2>5. /\ UNCHANGED <<use_vision, m_odom_cache, m_vision_cache_map, m_tracks, m_last_update,
                       target_time, m_num_detections, associations, m_track_associations>>
        /\ NumTracks' = NumTracks /\ TrackIndices' = TrackIndices /\ Detections' = Detections
    BY <2>1 DEF trackerVars, NumTracks, TrackIndices, Detections
  <2>6. TypeOK'
    <3>1. AssignerTypeOK'
      BY <2>2 DEF AssignerInv
    <3> QED BY <3>1, <2>3, <2>4, <2>5, <1>1 DEF TypeOK
  <2>7. AgesAreTrue' /\ TargetIsAhead' /\ SizesFit'
    BY <2>3, <2>4, <2>5, <1>1 DEF AgesAreTrue, TargetIsAhead, SizesFit
  <2>8. EveryDetectionIsUsedOnce' /\ MissesAreTold'
    BY <2>4 DEF EveryDetectionIsUsedOnce, MissesAreTold
  <2> QED BY <2>2, <2>6, <2>7, <2>8 DEF InductiveInv
<1>8. CASE extract_result
  BY <1>8, ExtractResultKeepsInv
<1>9. ASSUME NEW created \in SUBSET Detections, finish_update(created) PROVE InductiveInv'
  BY <1>9, FinishUpdateKeepsInv
<1>10. CASE remove_track
  BY <1>10, RemoveTrackKeepsInv
<1>11. CASE set_last_update
  BY <1>11, SetLastUpdateKeepsInv
<1>12. CASE UNCHANGED vars
  BY <1>1, <1>3, <1>12 DEF vars, trackerVars, TypeOK
<1> QED
  BY <1>4, <1>5, <1>6, <1>7, <1>8, <1>9, <1>10, <1>11, <1>12 DEF Next

-----------------------------------------------------------------------------
(* What is left of optimality.                                             *)

\* What AddNewZero does to a weight of the block.
LEMMA ShiftedWeights ==
  ASSUME AssignerInv, AddNewZero
  PROVE  /\ pc = "prime" /\ BlockSlots' = BlockSlots /\ BlockSlots \subseteq Slots
         /\ LeastUncovered \in Uncovered /\ Prime(LeastUncovered)
         /\ m_weight_matrix[LeastUncovered] \in Int
         /\ \A t \in Uncovered : m_weight_matrix[LeastUncovered] =< m_weight_matrix[t]
         /\ \A s \in BlockSlots :
              /\ m_weight_matrix[s] \in Int
              /\ m_weight_matrix'[s] =
                    m_weight_matrix[s]
                    + (IF Row(s) \in m_is_row_covered THEN m_weight_matrix[LeastUncovered] ELSE 0)
                    - (IF Col(s) \notin m_is_col_covered THEN m_weight_matrix[LeastUncovered] ELSE 0)
<1>1. pc = "prime"
  BY DEF AddNewZero
<1>2. /\ LeastUncovered \in Uncovered
      /\ \A t \in Uncovered : m_weight_matrix[LeastUncovered] =< m_weight_matrix[t]
  BY <1>1, LeastUncoveredIsLeast
<1>3. Prime(LeastUncovered) /\ m_weight_matrix' = Shifted(m_weight_matrix[LeastUncovered])
  BY <1>2 DEF AddNewZero
<1>4. m_weight_matrix \in [Slots -> Int] /\ BlockSlots \subseteq Slots /\ Uncovered \subseteq BlockSlots
  BY DEF AssignerInv, AssignerTypeOK, Uncovered, BlockSlots, Block, Slots, Index
<1>5. BlockSlots' = BlockSlots
  BY <1>3 DEF Prime, sizes, BlockSlots, Block
<1>6. ASSUME NEW s \in BlockSlots
      PROVE  m_weight_matrix'[s] =
                m_weight_matrix[s]
                + (IF Row(s) \in m_is_row_covered THEN m_weight_matrix[LeastUncovered] ELSE 0)
                - (IF Col(s) \notin m_is_col_covered THEN m_weight_matrix[LeastUncovered] ELSE 0)
  BY <1>3, <1>4 DEF Shifted
<1> QED
  BY <1>1, <1>2, <1>3, <1>4, <1>5, <1>6

\* The steps other than ReduceRows and AddNewZero leave the weights alone.
LEMMA WeightsStay ==
  ASSUME PrimeUncoveredZero \/ FollowPath \/ FlipPath
  PROVE  /\ m_weight_matrix' = m_weight_matrix /\ BlockSlots' = BlockSlots /\ Block' = Block
         /\ pc \in {"prime", "path"} /\ UNCHANGED <<m_num_rows, m_num_cols>>
  BY DEF PrimeUncoveredZero, Prime, FollowPath, FlipPath, sizes, matrices, Block, BlockSlots

LEMMA AssignStepKeepsReduced ==
  ASSUME AssignerInv, WeightsAreReduced, AssignStep
  PROVE  WeightsAreReduced'
<1>1. CASE ReduceRows
  <2>1. /\ m_weight_matrix' = ReducedWeights /\ BlockSlots' = BlockSlots
        /\ AssignerTypeOK /\ BlockSlots \subseteq Slots
    BY <1>1, SMTT(20) DEF ReduceRows, sizes, BlockSlots, Block, AssignerInv, AssignerTypeOK, Slots, Index
  <2>2. ASSUME NEW s \in BlockSlots PROVE m_weight_matrix'[s] >= 0
    <3>1. /\ Row(s) \in Index /\ Col(s) \in Index /\ s = Slot(Row(s), Col(s)) /\ s \in Slots
      BY <2>1 DEF Slots, Row, Col, Slot
    <3>2. /\ m_weight_matrix[Slot(Row(s), RowMinIdx(Row(s)))] =< m_weight_matrix[s]
          /\ m_weight_matrix[Slot(Row(s), RowMinIdx(Row(s)))] \in Int
          /\ m_weight_matrix[s] \in Int
      BY <2>1, <3>1, LeastOfRow
    <3>3. m_weight_matrix'[s] = IF IsPadding(Row(s)) THEN 0
                ELSE m_weight_matrix[s] - m_weight_matrix[Slot(Row(s), RowMinIdx(Row(s)))]
      BY <2>1, <3>1 DEF ReducedWeights
    <3> QED BY <3>2, <3>3
  <2> QED BY <2>1, <2>2 DEF WeightsAreReduced
<1>2. CASE AddNewZero
  <2> DEFINE w == m_weight_matrix
             value == w[LeastUncovered]
  <2>1. /\ pc = "prime" /\ BlockSlots' = BlockSlots /\ LeastUncovered \in BlockSlots
        /\ value \in Int /\ \A t \in Uncovered : value =< w[t]
        /\ \A s \in BlockSlots :
              /\ w[s] \in Int
              /\ w'[s] = w[s] + (IF Row(s) \in m_is_row_covered THEN value ELSE 0)
                              - (IF Col(s) \notin m_is_col_covered THEN value ELSE 0)
    BY <1>2, ShiftedWeights DEF Uncovered
  <2>2. value >= 0 /\ \A s \in BlockSlots : w[s] >= 0
    BY <2>1 DEF WeightsAreReduced, IsAssigning
  <2>3. ASSUME NEW s \in BlockSlots PROVE w'[s] >= 0
    <3>1. s \in Uncovered <=> Row(s) \notin m_is_row_covered /\ Col(s) \notin m_is_col_covered
      BY DEF Uncovered
    <3> HIDE DEF value
    <3> QED BY <2>1, <2>2, <3>1
  <2> QED BY <2>1, <2>3 DEF WeightsAreReduced
<1>3. CASE PrimeUncoveredZero \/ FollowPath \/ FlipPath
  BY <1>3, WeightsStay DEF WeightsAreReduced, IsAssigning
<1> QED
  BY <1>1, <1>2, <1>3 DEF AssignStep

\* A step changes all prices of a row, and all prices of a column, alike.
LEMMA PricesShift ==
  ASSUME AssignerInv, AssignStep
  PROVE  /\ Block' = Block
         /\ \E f, g \in [Block -> Int] : \A r, c \in Block :
               Price(Slot(r, c)) \in Int /\ Price(Slot(r, c))' = Price(Slot(r, c)) + f[r] - g[c]
<1>1. /\ m_weight_matrix \in [Slots -> Int] /\ Block \subseteq Index
      /\ pc \in {"ready", "prime", "path"} /\ pc' # "ready"
  BY DEF AssignerInv, AssignerTypeOK, Block, Index, AssignStep, ReduceRows, PrimeUncoveredZero,
         AddNewZero, Prime, FollowPath, FlipPath
<1>2. ASSUME NEW r \in Block, NEW c \in Block
      PROVE  /\ Slot(r, c) \in BlockSlots /\ Slot(r, c) \in Slots
             /\ Row(Slot(r, c)) = r /\ Col(Slot(r, c)) = c
             /\ m_weight_matrix[Slot(r, c)] \in Int /\ Price(Slot(r, c)) \in Int
             /\ Price(Slot(r, c)) = IF pc = "ready" /\ IsPadding(r) THEN 0
                                    ELSE m_weight_matrix[Slot(r, c)]
             /\ Price(Slot(r, c))' = m_weight_matrix'[Slot(r, c)]
  <2>1. /\ Slot(r, c) \in BlockSlots /\ Slot(r, c) \in Slots
        /\ Row(Slot(r, c)) = r /\ Col(Slot(r, c)) = c
    BY <1>1 DEF Slot, BlockSlots, Slots, Row, Col
  <2>2. Price(Slot(r, c))' = m_weight_matrix'[Slot(r, c)]
    BY <1>1 DEF Price, Slot
  <2> QED BY <1>1, <2>1, <2>2 DEF Price
<1>3. CASE ReduceRows
  <2> DEFINE low(r) == m_weight_matrix[Slot(r, RowMinIdx(r))]
             f == [r \in Block |-> IF IsPadding(r) THEN 0 ELSE 0 - low(r)]
             g == [c \in Block |-> 0]
  <2>1. pc = "ready" /\ m_weight_matrix' = ReducedWeights /\ Block' = Block /\ AssignerTypeOK
    BY <1>3 DEF ReduceRows, sizes, Block, AssignerInv
  <2>2. \A r \in Block : low(r) \in Int
    BY <1>1, <2>1, LeastOfRow
  <2>3. f \in [Block -> Int] /\ g \in [Block -> Int]
    BY <2>2
  <2>4. ASSUME NEW r \in Block, NEW c \in Block
        PROVE  Price(Slot(r, c))' = Price(Slot(r, c)) + f[r] - g[c]
    <3>1. m_weight_matrix'[Slot(r, c)] =
              IF IsPadding(r) THEN 0 ELSE m_weight_matrix[Slot(r, c)] - low(r)
      BY <1>2, <2>1 DEF ReducedWeights
    <3>2. f[r] = (IF IsPadding(r) THEN 0 ELSE 0 - low(r)) /\ g[c] = 0 /\ low(r) \in Int
      BY <2>2
    <3> HIDE DEF f, g, low
    <3> QED BY <1>2, <2>1, <3>1, <3>2
  <2> HIDE DEF f, g
  <2> QED BY <2>1, <2>3, <2>4, <1>2
<1>4. CASE AddNewZero
  <2> DEFINE value == m_weight_matrix[LeastUncovered]
             f == [r \in Block |-> IF r \in m_is_row_covered THEN value ELSE 0]
             g == [c \in Block |-> IF c \notin m_is_col_covered THEN value ELSE 0]
  <2>1. /\ pc = "prime" /\ Block' = Block /\ value \in Int
        /\ \A s \in BlockSlots :
              m_weight_matrix'[s] = m_weight_matrix[s]
                              + (IF Row(s) \in m_is_row_covered THEN value ELSE 0)
                              - (IF Col(s) \notin m_is_col_covered THEN value ELSE 0)
    BY <1>4, ShiftedWeights DEF Prime, sizes, Block
  <2>2. f \in [Block -> Int] /\ g \in [Block -> Int]
    BY <2>1
  <2>3. ASSUME NEW r \in Block, NEW c \in Block
        PROVE  Price(Slot(r, c))' = Price(Slot(r, c)) + f[r] - g[c]
    BY <1>2, <2>1
  <2> HIDE DEF f, g
  <2> QED BY <2>1, <2>2, <2>3, <1>2
<1>5. CASE PrimeUncoveredZero \/ FollowPath \/ FlipPath
  <2> DEFINE f == [r \in Block |-> 0]
  <2>1. /\ m_weight_matrix' = m_weight_matrix /\ Block' = Block /\ pc # "ready"
    BY <1>5, WeightsStay
  <2>2. f \in [Block -> Int]
    OBVIOUS
  <2>3. ASSUME NEW r \in Block, NEW c \in Block
        PROVE  Price(Slot(r, c))' = Price(Slot(r, c)) + f[r] - f[c]
    BY <1>2, <2>1
  <2> HIDE DEF f
  <2> QED BY <2>1, <2>2, <2>3, <1>2
<1> QED
  BY <1>3, <1>4, <1>5 DEF AssignStep

LEMMA AssignStepKeepsSwaps ==
  ASSUME AssignerInv, AssignStep
  PROVE  SwapsKeepTheirPrice
<1>1. PICK f \in [Block -> Int], g \in [Block -> Int] : \A r, c \in Block :
         Price(Slot(r, c)) \in Int /\ Price(Slot(r, c))' = Price(Slot(r, c)) + f[r] - g[c]
  BY PricesShift
<1>2. ASSUME NEW q \in Block, NEW r \in Block, NEW c \in Block, NEW d \in Block
      PROVE  SwapPrice(q, r, c, d)' = SwapPrice(q, r, c, d)
  <2>1. f[q] \in Int /\ f[r] \in Int /\ g[c] \in Int /\ g[d] \in Int
    OBVIOUS
  <2>2. /\ Price(Slot(q, c)) \in Int /\ Price(Slot(q, c))' = Price(Slot(q, c)) + f[q] - g[c]
        /\ Price(Slot(q, d)) \in Int /\ Price(Slot(q, d))' = Price(Slot(q, d)) + f[q] - g[d]
        /\ Price(Slot(r, c)) \in Int /\ Price(Slot(r, c))' = Price(Slot(r, c)) + f[r] - g[c]
        /\ Price(Slot(r, d)) \in Int /\ Price(Slot(r, d))' = Price(Slot(r, d)) + f[r] - g[d]
    BY <1>1
  <2> QED BY <2>1, <2>2 DEF SwapPrice
<1> QED
  BY <1>2 DEF SwapsKeepTheirPrice

\* What is starred and primed has weight zero, and priming keeps that if what
\* is primed next has weight zero.
ZerosInv == StarsAreZeros /\ PrimesAreZeros /\ PrimesAreBare

LEMMA PrimeKeepsZeros ==
  ASSUME AssignerInv, ZerosInv, pc = "prime", NEW loc \in Uncovered, Prime(loc),
         \A s \in Stars \cup Primes : m_weight_matrix'[s] = 0,
         m_weight_matrix'[loc] = 0
  PROVE  ZerosInv'
<1> DEFINE stars == StarsInRow(Row(loc)) \ {Col(loc)}
<1>1. /\ loc \in Slots /\ m_mark_matrix[loc] # "STARRED"
      /\ m_mark_matrix \in [Slots -> Mark] /\ m_primed_zero_locs \in Seq(BlockSlots)
      /\ loc \in BlockSlots /\ BlockSlots \subseteq Slots
  BY UncoveredSlot DEF AssignerInv, AssignerTypeOK, BlockSlots, Slots, Block, Index
<1>2. /\ m_mark_matrix' = [m_mark_matrix EXCEPT ![loc] = "PRIMED"]
      /\ m_primed_zero_locs' = Append(m_primed_zero_locs, loc)
      /\ m_is_row_covered' = m_is_row_covered \cup (IF stars = {} THEN {} ELSE {Row(loc)})
      /\ m_is_col_covered' = m_is_col_covered \ stars
      /\ stars = {} => pc' = "path"
      /\ BlockSlots' = BlockSlots
  BY DEF Prime, sizes, BlockSlots, Block
<1>3. Stars' = Stars
  BY <1>1, <1>2 DEF Stars
<1>4. Primes' = Primes \cup {loc}
  <2>1. /\ Len(m_primed_zero_locs') = Len(m_primed_zero_locs) + 1 /\ Len(m_primed_zero_locs) \in Nat
        /\ \A i \in 1 .. Len(m_primed_zero_locs) : m_primed_zero_locs'[i] = m_primed_zero_locs[i]
        /\ m_primed_zero_locs'[Len(m_primed_zero_locs) + 1] = loc
    BY <1>1, <1>2
  <2>2. \A i \in 1 .. Len(m_primed_zero_locs) + 1 :
            i \in 1 .. Len(m_primed_zero_locs) \/ i = Len(m_primed_zero_locs) + 1
    BY <2>1
  <2> QED BY <2>1, <2>2 DEF Primes
<1>5. StarsAreZeros' /\ PrimesAreZeros'
  BY <1>3, <1>4 DEF StarsAreZeros, PrimesAreZeros
<1>6. ASSUME pc' = "prime", NEW s \in Primes'
      PROVE  Row(s) \in m_is_row_covered' /\ Col(s) \notin m_is_col_covered'
  <2>1. CASE s = loc
    BY <2>1, <1>2, <1>6 DEF Uncovered
  <2>2. CASE s \in Primes
    BY <2>2, <1>2 DEF ZerosInv, PrimesAreBare
  <2> QED BY <2>1, <2>2, <1>4
<1> QED
  BY <1>5, <1>6 DEF ZerosInv, PrimesAreBare

LEMMA ReduceRowsStarsZeros ==
  ASSUME AssignerInv, ReduceRows
  PROVE  ZerosInv'
<1>1. /\ pc = "ready" /\ AssignerTypeOK /\ IsReady
      /\ m_weight_matrix' = ReducedWeights
      /\ m_assignments' = [r \in Index |-> IF r \in Block THEN InitialAssignment(r)
                                           ELSE m_assignments[r]]
      /\ m_mark_matrix' = [s \in Slots |-> InitialMark(s, m_assignments')]
      /\ m_primed_zero_locs' = m_primed_zero_locs
      /\ Block' = Block /\ BlockSlots' = BlockSlots
  BY DEF ReduceRows, sizes, AssignerInv, Block, BlockSlots
<1>2. m_primed_zero_locs = <<>> /\ m_mark_matrix = [s \in Slots |-> "UNMARKED"]
  BY <1>1 DEF IsReady
<1>3. Primes' = {}
  BY <1>1, <1>2 DEF Primes
<1>4. BlockSlots \subseteq Slots /\ Block \subseteq Index
  BY <1>1 DEF AssignerTypeOK, BlockSlots, Slots, Block, Index
<1>5. ASSUME NEW s \in Stars' PROVE m_weight_matrix'[s] = 0
  <2>1. /\ s \in BlockSlots /\ s \in Slots /\ m_mark_matrix'[s] = "STARRED"
        /\ Row(s) \in Block /\ Col(s) \in Block /\ s = Slot(Row(s), Col(s))
    BY <1>1, <1>4, <1>5 DEF Stars, BlockSlots, Row, Col, Slot
  <2>2. InitialMark(s, m_assignments') = "STARRED" /\ m_mark_matrix[s] = "UNMARKED"
    BY <1>1, <1>2, <2>1
  <2>3. m_assignments'[Row(s)] = Col(s)
    BY <2>1, <2>2 DEF InitialMark
  <2>4. InitialAssignment(Row(s)) = Col(s)
    BY <1>1, <1>4, <2>1, <2>3
  <2>5. m_weight_matrix'[s] = IF IsPadding(Row(s)) THEN 0
              ELSE m_weight_matrix[s] - m_weight_matrix[Slot(Row(s), RowMinIdx(Row(s)))]
    BY <1>1, <2>1 DEF ReducedWeights
  <2>6. CASE ~IsPadding(Row(s))
    <3>1. Col(s) # UNASSIGNED
      <4>1. Index \subseteq Int
        BY DEF Index
      <4>2. Col(s) \in Index
        BY <2>1, <1>4
      <4> QED BY <4>1, <4>2
    <3>2. RowMinIdx(Row(s)) = Col(s)
      BY <2>4, <2>6, <3>1 DEF InitialAssignment
    <3>3. m_weight_matrix[s] \in Int
      BY <1>1, <2>1 DEF AssignerTypeOK
    <3> QED BY <2>1, <2>5, <2>6, <3>2, <3>3
  <2> QED BY <2>5, <2>6
<1> QED
  BY <1>3, <1>5 DEF ZerosInv, StarsAreZeros, PrimesAreZeros, PrimesAreBare

LEMMA AssignStepKeepsZeros ==
  ASSUME AssignerInv, ZerosInv, AssignStep, PrimesAZero
  PROVE  ZerosInv'
<1> DEFINE w == m_weight_matrix
<1>1. CASE ReduceRows
  BY <1>1, ReduceRowsStarsZeros
<1>2. CASE PrimeUncoveredZero
  <2>1. /\ pc = "prime" /\ w' = w /\ Prime(First(UncoveredZeros)) /\ w[First(UncoveredZeros)] = 0
    BY <1>2 DEF PrimeUncoveredZero, PrimesAZero
  <2>2. First(UncoveredZeros) \in UncoveredZeros
    <3>1. UncoveredZeros # {} /\ UncoveredZeros \subseteq Nat \X Nat
      BY <1>2 DEF PrimeUncoveredZero, UncoveredZeros, Uncovered, BlockSlots, Block, AssignerInv,
                  AssignerTypeOK
    <3> QED BY <3>1, FirstSlot
  <2>3. First(UncoveredZeros) \in Uncovered
    BY <2>2 DEF UncoveredZeros
  <2>4. \A s \in Stars \cup Primes : w'[s] = 0
    BY <2>1 DEF ZerosInv, StarsAreZeros, PrimesAreZeros, IsAssigning
  <2> QED BY <2>1, <2>3, <2>4, PrimeKeepsZeros
<1>3. CASE AddNewZero
  <2> DEFINE value == w[LeastUncovered]
  <2>1. /\ pc = "prime" /\ LeastUncovered \in Uncovered /\ Prime(LeastUncovered)
        /\ value \in Int
        /\ \A s \in BlockSlots :
              /\ w[s] \in Int
              /\ w'[s] = w[s] + (IF Row(s) \in m_is_row_covered THEN value ELSE 0)
                              - (IF Col(s) \notin m_is_col_covered THEN value ELSE 0)
    BY <1>3, ShiftedWeights
  <2>2. w'[LeastUncovered] = 0
    BY <2>1 DEF Uncovered
  <2>3. ASSUME NEW s \in Stars PROVE w'[s] = 0
    <3>1. s \in BlockSlots /\ w[s] = 0 /\ (Row(s) \in m_is_row_covered <=> Col(s) \notin m_is_col_covered)
      BY <2>1, <2>3 DEF Stars, AssignerInv, StarsMatch, ZerosInv, StarsAreZeros, IsAssigning
    <3> HIDE DEF value
    <3> QED BY <2>1, <3>1
  <2>4. ASSUME NEW s \in Primes PROVE w'[s] = 0
    <3>1. /\ s \in BlockSlots /\ w[s] = 0
          /\ Row(s) \in m_is_row_covered /\ Col(s) \notin m_is_col_covered
      BY <2>1, <2>4 DEF Primes, AssignerInv, AssignerTypeOK, ZerosInv, PrimesAreZeros, PrimesAreBare
    <3> HIDE DEF value
    <3> QED BY <2>1, <3>1
  <2> QED BY <2>1, <2>2, <2>3, <2>4, PrimeKeepsZeros
<1>4. CASE FollowPath
  <2>1. /\ pc = "path" /\ pc' # "prime" /\ w' = w /\ m_mark_matrix' = m_mark_matrix
        /\ m_primed_zero_locs' = m_primed_zero_locs /\ BlockSlots' = BlockSlots
    BY <1>4 DEF FollowPath, sizes, matrices, BlockSlots, Block
  <2>2. Stars' = Stars /\ Primes' = Primes
    BY <2>1 DEF Stars, Primes
  <2> QED BY <2>1, <2>2 DEF ZerosInv, StarsAreZeros, PrimesAreZeros, PrimesAreBare, IsAssigning
<1>5. CASE FlipPath
  <2>1. pc = "path" /\ w' = w /\ m_primed_zero_locs' = <<>>
    BY <1>5 DEF FlipPath
  <2>2. Primes' = {}
    BY <2>1 DEF Primes
  <2>3. Stars' \subseteq Stars \cup Primes
    BY <1>5, FlippedStars DEF PathPrimes
  <2> QED BY <2>1, <2>2, <2>3 DEF ZerosInv, StarsAreZeros, PrimesAreZeros, PrimesAreBare, IsAssigning
<1> QED
  BY <1>1, <1>2, <1>3, <1>4, <1>5 DEF AssignStep

\* Outside of assign() nothing is assigned.
LEMMA OtherStepsAssignNothing ==
  ASSUME Next, ~Assign
  PROVE  UNCHANGED assignerVars \/ pc' \in {"idle", "ready", "extracted", "pruning", "crashed"}
  BY DEF Next, odometry_callback, classified_roi_callback, detections_callback,
         AssignDetections, Crash, extract_result, finish_update, remove_track, set_last_update, assignerVars, sizes, matrices, covers

LEMMA UnchangedWeights ==
  ASSUME UNCHANGED assignerVars \/ pc' \in {"idle", "ready", "extracted", "pruning", "crashed"}
  PROVE  /\ WeightsAreReduced => WeightsAreReduced'
         /\ ZerosInv => ZerosInv'
<1>1. CASE UNCHANGED assignerVars
  BY <1>1 DEF assignerVars, sizes, matrices, covers, WeightsAreReduced, ZerosInv, StarsAreZeros,
              PrimesAreZeros, PrimesAreBare, IsAssigning, Stars, Primes, BlockSlots, Block
<1>2. CASE pc' \in {"idle", "ready", "extracted", "pruning", "crashed"}
  BY <1>2 DEF WeightsAreReduced, ZerosInv, StarsAreZeros, PrimesAreZeros, PrimesAreBare, IsAssigning
<1> QED
  BY <1>1, <1>2

-----------------------------------------------------------------------------
(* Sums: how SumOf unfolds, and that sums are added cost by cost and do    *)
(* not depend on the order of the costs.                                   *)

\* s is the sequence of the sums of the first 0, 1, ..., n costs.
IsSums(s, costs, n) ==
  s \in [0 .. n -> Int] /\ s[0] = 0 /\ \A i \in 0 .. n - 1 : s[i + 1] = s[i] + costs[i]

LEMMA SumsExist ==
  ASSUME NEW n \in Nat, NEW costs, \A i \in 0 .. n - 1 : costs[i] \in Int
  PROVE  \E s : IsSums(s, costs, n)
<1> DEFINE T == {k \in Nat : k =< n => \E s : IsSums(s, costs, k)}
<1>1. 0 \in T
  <2> DEFINE s == [i \in 0 .. 0 |-> 0]
  <2>1. IsSums(s, costs, 0)
    BY DEF IsSums
  <2> QED BY <2>1
<1>2. ASSUME NEW k \in Nat, k \in T PROVE k + 1 \in T
  <2> SUFFICES ASSUME k + 1 =< n PROVE \E s : IsSums(s, costs, k + 1)
    OBVIOUS
  <2>1. PICK s : IsSums(s, costs, k)
    BY <1>2
  <2> DEFINE t == [i \in 0 .. k + 1 |-> IF i = k + 1 THEN s[k] + costs[k] ELSE s[i]]
  <2>2. /\ costs[k] \in Int /\ s \in [0 .. k -> Int] /\ s[0] = 0
        /\ \A i \in 0 .. k - 1 : s[i + 1] = s[i] + costs[i]
    BY <2>1 DEF IsSums
  <2>3. t \in [0 .. k + 1 -> Int]
    BY <2>2
  <2>4. t[0] = 0
    BY <2>2
  <2>5. ASSUME NEW i \in 0 .. (k + 1) - 1 PROVE t[i + 1] = t[i] + costs[i]
    <3>1. CASE i = k
      BY <3>1
    <3>2. CASE i # k
      <4>1. i \in 0 .. k - 1 /\ i + 1 # k + 1 /\ i # k + 1 /\ i + 1 \in 0 .. k + 1 /\ i \in 0 .. k + 1
        BY <3>2
      <4> QED BY <4>1, <2>2
    <3> QED BY <3>1, <3>2
  <2>6. IsSums(t, costs, k + 1)
    <3> HIDE DEF t
    <3> QED BY <2>3, <2>4, <2>5 DEF IsSums
  <2> QED BY <2>6
<1>3. Nat \subseteq T
  <2> HIDE DEF T
  <2> QED BY <1>1, <1>2, Induction
<1> QED
  BY <1>3

\* Such a sequence is what SumOf computes.
LEMMA SumIs ==
  ASSUME NEW n \in Nat, NEW costs, NEW s, IsSums(s, costs, n)
  PROVE  SumOf(costs, n) = s[n]
<1> DEFINE Eq(f) == f = [i \in 0 .. n |-> IF i = 0 THEN 0 ELSE f[i - 1] + costs[i - 1]]
           sum == CHOOSE f : Eq(f)
<1>1. Eq(s)
  <2>1. s = [i \in 0 .. n |-> s[i]]
    BY DEF IsSums
  <2>2. ASSUME NEW i \in 0 .. n PROVE s[i] = IF i = 0 THEN 0 ELSE s[i - 1] + costs[i - 1]
    <3>1. CASE i = 0
      BY <3>1 DEF IsSums
    <3>2. CASE i # 0
      <4>1. i - 1 \in 0 .. n - 1 /\ (i - 1) + 1 = i
        BY <3>2
      <4>2. \A j \in 0 .. n - 1 : s[j + 1] = s[j] + costs[j]
        BY DEF IsSums
      <4>3. s[(i - 1) + 1] = s[i - 1] + costs[i - 1]
        BY <4>1, <4>2
      <4> QED BY <3>2, <4>1, <4>3
    <3> QED BY <3>1, <3>2
  <2> QED BY <2>1, <2>2
<1>2. Eq(sum)
  <2> HIDE DEF Eq
  <2> QED BY <1>1
<1>3. SumOf(costs, n) = sum[n]
  BY DEF SumOf
<1>4. \A i \in 0 .. n : sum[i] = IF i = 0 THEN 0 ELSE sum[i - 1] + costs[i - 1]
  <2> HIDE DEF sum
  <2> QED BY <1>2
<1> HIDE DEF sum
<1> DEFINE T == {i \in Nat : i =< n => sum[i] = s[i]}
<1>5. 0 \in T
  BY <1>4 DEF IsSums
<1>6. ASSUME NEW i \in Nat, i \in T PROVE i + 1 \in T
  <2> SUFFICES ASSUME i + 1 =< n PROVE sum[i + 1] = s[i + 1]
    OBVIOUS
  <2>1. i \in 0 .. n - 1 /\ i + 1 \in 0 .. n /\ i + 1 # 0 /\ (i + 1) - 1 = i /\ sum[i] = s[i]
    BY <1>6
  <2>2. sum[i + 1] = sum[(i + 1) - 1] + costs[(i + 1) - 1]
    BY <1>4, <2>1
  <2>3. s[i + 1] = s[i] + costs[i]
    BY <2>1 DEF IsSums
  <2> QED BY <2>1, <2>2, <2>3
<1>7. Nat \subseteq T
  <2> HIDE DEF T
  <2> QED BY <1>5, <1>6, Induction
<1> QED
  BY <1>3, <1>7

\* The sum of no costs, and of one more.
LEMMA SumUnfolds ==
  ASSUME NEW n \in Nat, NEW costs, \A i \in 0 .. n : costs[i] \in Int
  PROVE  /\ SumOf(costs, 0) = 0
         /\ SumOf(costs, n) \in Int
         /\ SumOf(costs, n + 1) = SumOf(costs, n) + costs[n]
<1>1. PICK s : IsSums(s, costs, n + 1)
  <2>1. \A i \in 0 .. (n + 1) - 1 : costs[i] \in Int
    OBVIOUS
  <2> QED BY <2>1, SumsExist
<1>2. /\ s \in [0 .. n + 1 -> Int] /\ s[0] = 0
      /\ \A i \in 0 .. n : s[i + 1] = s[i] + costs[i]
  BY <1>1 DEF IsSums
<1>3. ASSUME NEW m \in 0 .. n + 1 PROVE SumOf(costs, m) = s[m]
  <2> DEFINE t == [i \in 0 .. m |-> s[i]]
  <2>1. IsSums(t, costs, m)
    <3>1. t \in [0 .. m -> Int] /\ t[0] = 0
      BY <1>2
    <3>2. ASSUME NEW i \in 0 .. m - 1 PROVE t[i + 1] = t[i] + costs[i]
      <4>1. i \in 0 .. n /\ i \in 0 .. m /\ i + 1 \in 0 .. m
        OBVIOUS
      <4> QED BY <4>1, <1>2
    <3> HIDE DEF t
    <3> QED BY <3>1, <3>2 DEF IsSums
  <2>2. SumOf(costs, m) = t[m]
    <3> HIDE DEF t
    <3> QED BY <2>1, SumIs
  <2> QED BY <2>2
<1> QED
  BY <1>2, <1>3

\* The sum of integers is one, and the sum of none is 0.
LEMMA SumType ==
  ASSUME NEW n \in Nat, NEW costs, \A i \in 0 .. n - 1 : costs[i] \in Int
  PROVE  SumOf(costs, n) \in Int
<1>1. PICK s : IsSums(s, costs, n)
  BY SumsExist
<1>2. SumOf(costs, n) = s[n]
  BY <1>1, SumIs
<1>3. s[n] \in Int
  BY <1>1 DEF IsSums
<1> QED
  BY <1>2, <1>3

LEMMA SumOfNone ==
  ASSUME NEW costs
  PROVE  SumOf(costs, 0) = 0
<1>1. PICK s : IsSums(s, costs, 0)
  <2>1. \A i \in 0 .. 0 - 1 : costs[i] \in Int
    OBVIOUS
  <2> QED BY <2>1, SumsExist
<1>2. SumOf(costs, 0) = s[0]
  BY <1>1, SumIs
<1>3. s[0] = 0
  BY <1>1 DEF IsSums
<1> QED
  BY <1>2, <1>3

\* Sums are added and compared cost by cost.
LEMMA SumAdds ==
  ASSUME NEW n \in Nat, NEW a, NEW b, NEW c,
         \A i \in 0 .. n - 1 : a[i] \in Int /\ b[i] \in Int /\ c[i] \in Int /\ a[i] = b[i] + c[i]
  PROVE  SumOf(a, n) = SumOf(b, n) + SumOf(c, n)
<1> DEFINE T == {k \in Nat : k =< n => SumOf(a, k) = SumOf(b, k) + SumOf(c, k)}
<1>1. 0 \in T
  BY SumOfNone
<1>2. ASSUME NEW k \in Nat, k \in T PROVE k + 1 \in T
  <2> SUFFICES ASSUME k + 1 =< n PROVE SumOf(a, k + 1) = SumOf(b, k + 1) + SumOf(c, k + 1)
    OBVIOUS
  <2>1. \A i \in 0 .. k : a[i] \in Int /\ b[i] \in Int /\ c[i] \in Int /\ a[i] = b[i] + c[i]
    OBVIOUS
  <2>2. /\ SumOf(a, k) \in Int /\ SumOf(a, k + 1) = SumOf(a, k) + a[k]
        /\ SumOf(b, k) \in Int /\ SumOf(b, k + 1) = SumOf(b, k) + b[k]
        /\ SumOf(c, k) \in Int /\ SumOf(c, k + 1) = SumOf(c, k) + c[k]
    BY <2>1, SumUnfolds
  <2>3. SumOf(a, k) = SumOf(b, k) + SumOf(c, k)
    BY <1>2
  <2>4. a[k] \in Int /\ b[k] \in Int /\ c[k] \in Int /\ a[k] = b[k] + c[k]
    BY <2>1
  <2> HIDE DEF T
  <2> QED BY <2>2, <2>3, <2>4
<1>3. Nat \subseteq T
  <2> HIDE DEF T
  <2> QED BY <1>1, <1>2, Induction
<1> QED
  BY <1>3

\* Sums of numbers, and of zeros.
LEMMA SumIsPositive ==
  ASSUME NEW n \in Nat, NEW a, \A i \in 0 .. n - 1 : a[i] \in Nat
  PROVE  SumOf(a, n) \in Nat
<1> DEFINE T == {k \in Nat : k =< n => SumOf(a, k) \in Nat}
<1>1. 0 \in T
  BY SumOfNone
<1>2. ASSUME NEW k \in Nat, k \in T PROVE k + 1 \in T
  <2> SUFFICES ASSUME k + 1 =< n PROVE SumOf(a, k + 1) \in Nat
    OBVIOUS
  <2>1. \A i \in 0 .. k : a[i] \in Int
    OBVIOUS
  <2>2. SumOf(a, k + 1) = SumOf(a, k) + a[k]
    BY <2>1, SumUnfolds
  <2> QED BY <2>2, <1>2
<1>3. Nat \subseteq T
  <2> HIDE DEF T
  <2> QED BY <1>1, <1>2, Induction
<1> QED
  BY <1>3

LEMMA SumIsZero ==
  ASSUME NEW n \in Nat, NEW a, \A i \in 0 .. n - 1 : a[i] = 0
  PROVE  SumOf(a, n) = 0
<1> DEFINE T == {k \in Nat : k =< n => SumOf(a, k) = 0}
<1>1. 0 \in T
  BY SumOfNone
<1>2. ASSUME NEW k \in Nat, k \in T PROVE k + 1 \in T
  <2> SUFFICES ASSUME k + 1 =< n PROVE SumOf(a, k + 1) = 0
    OBVIOUS
  <2>1. a[k] = 0 /\ \A i \in 0 .. k : a[i] \in Int
    OBVIOUS
  <2>2. SumOf(a, k + 1) = SumOf(a, k) + a[k]
    BY <2>1, SumUnfolds
  <2>3. SumOf(a, k) = 0
    BY <1>2
  <2> QED BY <2>1, <2>2, <2>3
<1>3. Nat \subseteq T
  <2> HIDE DEF T
  <2> QED BY <1>1, <1>2, Induction
<1> QED
  BY <1>3

\* What it makes of a sum to change one cost.
LEMMA SumChanges ==
  ASSUME NEW n \in Nat, NEW k \in 0 .. n - 1, NEW a, NEW b,
         \A i \in 0 .. n - 1 : a[i] \in Int /\ b[i] \in Int /\ (i # k => a[i] = b[i])
  PROVE  SumOf(a, n) + b[k] = SumOf(b, n) + a[k]
<1> DEFINE T == {j \in Nat : j =< n => SumOf(a, j) = SumOf(b, j) + IF k < j THEN a[k] - b[k] ELSE 0}
<1>1. 0 \in T
  BY SumOfNone
<1>2. ASSUME NEW j \in Nat, j \in T PROVE j + 1 \in T
  <2> SUFFICES ASSUME j + 1 =< n
               PROVE  SumOf(a, j + 1) = SumOf(b, j + 1) + IF k < j + 1 THEN a[k] - b[k] ELSE 0
    OBVIOUS
  <2>1. \A i \in 0 .. j : a[i] \in Int /\ b[i] \in Int
    OBVIOUS
  <2>2. /\ SumOf(a, j) \in Int /\ SumOf(a, j + 1) = SumOf(a, j) + a[j]
        /\ SumOf(b, j) \in Int /\ SumOf(b, j + 1) = SumOf(b, j) + b[j]
    BY <2>1, SumUnfolds
  <2>3. SumOf(a, j) = SumOf(b, j) + IF k < j THEN a[k] - b[k] ELSE 0
    BY <1>2
  <2>4. j # k => a[j] = b[j]
    OBVIOUS
  <2>5. a[k] \in Int /\ b[k] \in Int /\ a[j] \in Int /\ b[j] \in Int /\ k \in Nat
    OBVIOUS
  <2> HIDE DEF T
  <2>6. CASE j = k
    BY <2>2, <2>3, <2>5, <2>6
  <2>7. CASE j # k
    BY <2>2, <2>3, <2>4, <2>5, <2>7
  <2> QED BY <2>6, <2>7
<1>3. Nat \subseteq T
  <2> HIDE DEF T
  <2> QED BY <1>1, <1>2, Induction
<1>4. SumOf(a, n) = SumOf(b, n) + (a[k] - b[k])
  BY <1>3
<1>5. SumOf(b, n) \in Int /\ a[k] \in Int /\ b[k] \in Int
  BY SumType
<1> QED
  BY <1>4, <1>5

\* Costs that are equal have the same sum.
LEMMA SumOfEquals ==
  ASSUME NEW n \in Nat, NEW a, NEW b, \A i \in 0 .. n - 1 : a[i] \in Int /\ a[i] = b[i]
  PROVE  SumOf(a, n) = SumOf(b, n)
<1> DEFINE z == [i \in 0 .. n - 1 |-> 0]
<1>1. SumOf(z, n) = 0
  BY SumIsZero
<1>2. \A i \in 0 .. n - 1 : a[i] \in Int /\ b[i] \in Int /\ z[i] \in Int /\ a[i] = b[i] + z[i]
  OBVIOUS
<1>3. SumOf(a, n) = SumOf(b, n) + SumOf(z, n) /\ SumOf(b, n) \in Int
  <2> HIDE DEF z
  <2> QED BY <1>2, SumAdds, SumType
<1> QED
  BY <1>1, <1>3

\* The order of the costs does not matter.
LEMMA SumRearranged ==
  \A n \in Nat : \A g \in [0 .. n - 1 -> Int], p \in [0 .. n - 1 -> 0 .. n - 1] :
     (\A i, j \in 0 .. n - 1 : p[i] = p[j] => i = j)
        => SumOf([i \in 0 .. n - 1 |-> g[p[i]]], n) = SumOf(g, n)
<1> DEFINE Same(n) == \A g \in [0 .. n - 1 -> Int], p \in [0 .. n - 1 -> 0 .. n - 1] :
                         (\A i, j \in 0 .. n - 1 : p[i] = p[j] => i = j)
                            => SumOf([i \in 0 .. n - 1 |-> g[p[i]]], n) = SumOf(g, n)
           T == {n \in Nat : Same(n)}
<1>1. 0 \in T
  BY SumOfNone
<1>2. ASSUME NEW n \in Nat, Same(n) PROVE Same(n + 1)
  <2> SUFFICES ASSUME NEW g \in [0 .. n -> Int], NEW p \in [0 .. n -> 0 .. n],
                      \A i, j \in 0 .. n : p[i] = p[j] => i = j
               PROVE  SumOf([i \in 0 .. n |-> g[p[i]]], n + 1) = SumOf(g, n + 1)
    <3>1. (n + 1) - 1 = n
      OBVIOUS
    <3> QED BY <3>1
  <2>1. PICK k \in 0 .. n : p[k] = n
    <3>1. (n + 1) - 1 = n /\ n + 1 \in Nat
      OBVIOUS
    <3>2. /\ p \in [0 .. (n + 1) - 1 -> 0 .. (n + 1) - 1]
          /\ \A i, j \in 0 .. (n + 1) - 1 : p[i] = p[j] => i = j
      BY <3>1
    <3>3. \A c \in 0 .. (n + 1) - 1 : \E i \in 0 .. (n + 1) - 1 : p[i] = c
      BY <3>1, <3>2, OneToOneIsOnto, ZenonT(40)
    <3>4. n \in 0 .. (n + 1) - 1
      OBVIOUS
    <3>5. PICK i \in 0 .. (n + 1) - 1 : p[i] = n
      BY <3>3, <3>4
    <3> QED BY <3>1, <3>5
  <2> DEFINE gp == [i \in 0 .. n |-> g[p[i]]]
             h == [i \in 0 .. n - 1 |-> g[i]]
             q == [i \in 0 .. n - 1 |-> IF i = k THEN p[n] ELSE p[i]]
             hq == [i \in 0 .. n - 1 |-> h[q[i]]]
  <2>2. q \in [0 .. n - 1 -> 0 .. n - 1] /\ h \in [0 .. n - 1 -> Int]
    <3>1. ASSUME NEW i \in 0 .. n - 1 PROVE (IF i = k THEN p[n] ELSE p[i]) \in 0 .. n - 1
      <4>1. i \in 0 .. n /\ n \in 0 .. n /\ i # n
        OBVIOUS
      <4>2. i = k => p[n] # n
        BY <4>1, <2>1
      <4>3. i # k => p[i] # n
        BY <4>1, <2>1
      <4>4. p[n] \in 0 .. n /\ p[i] \in 0 .. n
        BY <4>1
      <4>5. CASE i = k
        BY <4>2, <4>4, <4>5
      <4>6. CASE i # k
        BY <4>3, <4>4, <4>6
      <4> QED BY <4>5, <4>6
    <3> QED BY <3>1, SMTT(20)
  <2>3. \A i, j \in 0 .. n - 1 : q[i] = q[j] => i = j
    <3> SUFFICES ASSUME NEW i \in 0 .. n - 1, NEW j \in 0 .. n - 1, q[i] = q[j] PROVE i = j
      OBVIOUS
    <3>1. i \in 0 .. n /\ j \in 0 .. n /\ n \in 0 .. n /\ i # n /\ j # n
      OBVIOUS
    <3>2. q[i] = (IF i = k THEN p[n] ELSE p[i]) /\ q[j] = (IF j = k THEN p[n] ELSE p[j])
      OBVIOUS
    <3> HIDE DEF q
    <3> QED BY <3>1, <3>2
  <2>4. SumOf(hq, n) = SumOf(h, n)
    <3> HIDE DEF q, h
    <3> QED BY <1>2, <2>2, <2>3
  <2>5. SumOf(h, n) = SumOf(g, n)
    <3>1. \A i \in 0 .. n - 1 : h[i] \in Int /\ h[i] = g[i]
      OBVIOUS
    <3> HIDE DEF h
    <3> QED BY <3>1, SumOfEquals
  <2>6. /\ SumOf(g, n) \in Int /\ SumOf(g, n + 1) = SumOf(g, n) + g[n]
        /\ SumOf(gp, n) \in Int /\ SumOf(gp, n + 1) = SumOf(gp, n) + gp[n]
    <3>1. \A i \in 0 .. n : g[i] \in Int /\ gp[i] \in Int
      OBVIOUS
    <3> HIDE DEF gp
    <3> QED BY <3>1, SumUnfolds
  <2>7. gp[n] = g[p[n]] /\ g[p[n]] \in Int /\ g[n] \in Int
    OBVIOUS
  <2>8. ASSUME NEW i \in 0 .. n - 1
        PROVE  /\ gp[i] \in Int /\ hq[i] \in Int
               /\ gp[i] = g[p[i]] /\ (i # k => hq[i] = g[p[i]]) /\ (i = k => hq[i] = g[p[n]])
    <3>1. i \in 0 .. n /\ q[i] \in 0 .. n - 1
      <4> HIDE DEF q, h, hq, gp
      <4> QED BY <2>2, SMTT(20)
    <3>2. hq[i] = h[q[i]] /\ h[q[i]] = g[q[i]] /\ q[i] = (IF i = k THEN p[n] ELSE p[i])
      BY <3>1
    <3>3. gp[i] = g[p[i]] /\ p[i] \in 0 .. n /\ q[i] \in 0 .. n
      BY <3>1, SMTT(20)
    <3> HIDE DEF gp, hq, q, h
    <3> QED BY <3>1, <3>2, <3>3
  <2>9. CASE k = n
    <3>1. \A i \in 0 .. n - 1 : hq[i] \in Int /\ hq[i] = gp[i]
      <4> HIDE DEF hq, gp
      <4> QED BY <2>8, <2>9
    <3>2. SumOf(hq, n) = SumOf(gp, n)
      <4> HIDE DEF hq, gp
      <4> QED BY <3>1, SumOfEquals
    <3> HIDE DEF hq, h
    <3>3. SumOf(gp, n + 1) = SumOf(g, n + 1)
      BY <2>1, <2>4, <2>5, <2>6, <2>7, <2>9, <3>2
    <3> QED BY <3>3
  <2>10. CASE k # n
    <3>1. k \in 0 .. n - 1
      BY <2>10
    <3>2. \A i \in 0 .. n - 1 : gp[i] \in Int /\ hq[i] \in Int /\ (i # k => gp[i] = hq[i])
      <4> HIDE DEF gp, hq
      <4> QED BY <2>8
    <3>3. gp[k] = g[n] /\ hq[k] = g[p[n]]
      <4> HIDE DEF gp, hq
      <4> QED BY <2>1, <2>8, <3>1
    <3>4. SumOf(gp, n) + hq[k] = SumOf(hq, n) + gp[k]
      <4>1. PICK a, b : a = gp /\ b = hq
        OBVIOUS
      <4> HIDE DEF gp, hq
      <4>2. \A i \in 0 .. n - 1 : a[i] \in Int /\ b[i] \in Int /\ (i # k => a[i] = b[i])
        BY <3>2, <4>1
      <4>3. SumOf(a, n) + b[k] = SumOf(b, n) + a[k]
        BY ONLY n \in Nat, <3>1, <4>2, SumChanges
      <4> QED BY <4>1, <4>3
    <3>5. SumOf(hq, n) \in Int
      BY <2>4, <2>5, <2>6
    <3>6. SumOf(gp, n + 1) = SumOf(g, n + 1)
      <4> HIDE DEF gp, hq, h
      <4> QED BY <2>4, <2>5, <2>6, <2>7, <3>3, <3>4, <3>5
    <3> QED BY <3>6
  <2> QED BY <2>9, <2>10
<1>3. Nat \subseteq T
  <2>1. ASSUME NEW n \in Nat, n \in T PROVE n + 1 \in T
    <3>1. Same(n)
      BY <2>1
    <3>2. Same(n + 1)
      <4> HIDE DEF Same
      <4> QED BY <1>2, <3>1
    <3> HIDE DEF Same
    <3> QED BY <3>2
  <2> HIDE DEF T
  <2> QED BY <1>1, <2>1, Induction
<1> QED
  BY <1>3

\* Costs that add up pairwise to the same have sums that do.
LEMMA SumsBalance ==
  ASSUME NEW n \in Nat, NEW a, NEW b, NEW c, NEW d,
         \A i \in 0 .. n - 1 : /\ a[i] \in Int /\ b[i] \in Int /\ c[i] \in Int /\ d[i] \in Int
                               /\ a[i] + b[i] = c[i] + d[i]
  PROVE  SumOf(a, n) + SumOf(b, n) = SumOf(c, n) + SumOf(d, n)
<1>1. PICK y : y = [i \in 0 .. n - 1 |-> a[i] + b[i]]
  OBVIOUS
<1>2. \A i \in 0 .. n - 1 : y[i] \in Int /\ a[i] \in Int /\ b[i] \in Int /\ y[i] = a[i] + b[i]
  BY <1>1
<1>3. \A i \in 0 .. n - 1 : y[i] \in Int /\ c[i] \in Int /\ d[i] \in Int /\ y[i] = c[i] + d[i]
  BY <1>1
<1>4. SumOf(y, n) = SumOf(a, n) + SumOf(b, n)
  BY ONLY n \in Nat, <1>2, SumAdds
<1>5. SumOf(y, n) = SumOf(c, n) + SumOf(d, n)
  BY ONLY n \in Nat, <1>3, SumAdds
<1> QED
  BY ONLY <1>4, <1>5

-----------------------------------------------------------------------------
(* Why an assignment is of minimum cost when its weights are zero and the  *)
(* others are not negative.                                                *)

\* Once every column has a star, every row has one: the assignment is complete.
LEMMA AssignedIsOneToOne ==
  ASSUME AssignerInv, pc = "assigned", AssignedIsComplete
  PROVE  /\ \A r \in Block : m_assignments[r] \in Block
         /\ \A q, r \in Block : m_assignments[q] = m_assignments[r] => q = r
         /\ \A r \in Block : Slot(r, m_assignments[r]) \in Stars
<1>1. /\ m_num_cols \in Nat /\ m_is_col_covered = Block /\ StarsMatch
  BY DEF AssignerInv, AssignerTypeOK, AssignedIsComplete
<1>2. /\ Block \subseteq {Col(s) : s \in Stars}
      /\ \A s, t \in Stars : (Row(s) = Row(t) \/ Col(s) = Col(t)) => s = t
      /\ \A r \in Block : \A c \in Block :
              m_assignments[r] = c <=> m_mark_matrix[Slot(r, c)] = "STARRED"
  BY <1>1 DEF StarsMatch
<1> DEFINE starred(c) == CHOOSE r \in Block : Slot(r, c) \in Stars
           rows == [c \in Block |-> starred(c)]
<1>3. ASSUME NEW c \in Block PROVE starred(c) \in Block /\ Slot(starred(c), c) \in Stars
  <2>1. \E r \in Block : Slot(r, c) \in Stars
    BY <1>2 DEF Stars, BlockSlots, Slot, Col
  <2> QED BY <2>1
<1>4. rows \in [0 .. m_num_cols - 1 -> 0 .. m_num_cols - 1]
  BY <1>3 DEF Block
<1>5. \A c, d \in 0 .. m_num_cols - 1 : rows[c] = rows[d] => c = d
  <2> SUFFICES ASSUME NEW c \in Block, NEW d \in Block, rows[c] = rows[d] PROVE c = d
    BY DEF Block
  <2>1. Slot(rows[c], c) \in Stars /\ Slot(rows[d], d) \in Stars
    BY <1>3
  <2> HIDE DEF rows
  <2> QED BY <2>1, <1>2 DEF Slot, Row, Col
<1>6. ASSUME NEW r \in Block PROVE m_assignments[r] \in Block /\ Slot(r, m_assignments[r]) \in Stars
  <2>1. PICK c \in Block : rows[c] = r
    <3> HIDE DEF rows
    <3>1. m_num_cols \in Nat /\ Block = 0 .. m_num_cols - 1
      BY <1>1 DEF Block
    <3>2. \A c \in 0 .. m_num_cols - 1 : \E i \in 0 .. m_num_cols - 1 : rows[i] = c
      BY ONLY <3>1, <1>4, <1>5, OneToOneIsOnto
    <3> QED BY <3>1, <3>2
  <2>2. Slot(r, c) \in Stars
    <3>1. Slot(rows[c], c) \in Stars
      BY <1>3
    <3> HIDE DEF rows
    <3> QED BY <2>1, <3>1
  <2>3. m_assignments[r] = c
    BY <1>2, <2>2 DEF Stars
  <2> QED BY <2>2, <2>3
<1>7. ASSUME NEW q \in Block, NEW r \in Block, m_assignments[q] = m_assignments[r] PROVE q = r
  <2>1. /\ Slot(q, m_assignments[q]) \in Stars /\ Slot(r, m_assignments[r]) \in Stars
        /\ Col(Slot(q, m_assignments[q])) = Col(Slot(r, m_assignments[r]))
    BY <1>6, <1>7 DEF Slot, Col
  <2>2. Slot(q, m_assignments[q]) = Slot(r, m_assignments[r])
    BY <1>2, <2>1
  <2> QED BY <2>2 DEF Slot
<1> QED
  BY <1>6, <1>7

\* Prices are costs of the problem shifted by rows and by columns.  What the
\* shifts add up to is the same for every complete assignment, and what is left
\* is zero for this one.
LEMMA AssignedIsCheapest ==
  ASSUME AssignerInv, pc = "assigned", AssignedIsComplete, WeightsAreReduced, StarsAreZeros,
         NEW problem, PricesAreOf(problem)
  PROVE  IsCheapest(m_assignments, problem)
<1>1. PICK f, g :
         /\ f \in [Block -> Int] /\ g \in [Block -> Int]
         /\ problem \in [BlockSlots -> Int]
         /\ \A r, c \in Block : Price(Slot(r, c)) = problem[Slot(r, c)] + f[r] - g[c]
  BY DEF PricesAreOf
<1> DEFINE CostOf(p) == [r \in Block |-> problem[Slot(r, p[r])]]
           LeftOf(p) == [r \in Block |-> Price(Slot(r, p[r]))]
<1>2. ASSUME NEW p \in CompleteAssignments
      PROVE  /\ TotalOf(problem, p)
                    = SumOf(LeftOf(p), m_num_cols) + SumOf(g, m_num_cols) - SumOf(f, m_num_cols)
             /\ LeftOf(p) \in [Block -> Nat]
  <2>1. m_num_cols \in Nat /\ m_weight_matrix \in [Slots -> Int] /\ BlockSlots \subseteq Slots
    BY DEF AssignerInv, AssignerTypeOK, BlockSlots, Slots, Block, Index
  <2>2. p \in [Block -> Block] /\ \A q, r \in Block : p[q] = p[r] => q = r
    BY DEF CompleteAssignments
  <2>3. ASSUME NEW r \in Block
        PROVE  /\ problem[Slot(r, p[r])] \in Int
               /\ Price(Slot(r, p[r])) \in Nat
               /\ Price(Slot(r, p[r])) = problem[Slot(r, p[r])] + f[r] - g[p[r]]
    <3>1. p[r] \in Block /\ Slot(r, p[r]) \in BlockSlots
      BY <2>2 DEF BlockSlots, Slot
    <3>2. Price(Slot(r, p[r])) = m_weight_matrix[Slot(r, p[r])]
      BY DEF Price
    <3>3. m_weight_matrix[Slot(r, p[r])] \in Int /\ m_weight_matrix[Slot(r, p[r])] >= 0
      BY <2>1, <3>1 DEF WeightsAreReduced, IsAssigning
    <3> QED BY <1>1, <3>1, <3>2, <3>3
  <2>4. CostOf(p) \in [Block -> Int] /\ LeftOf(p) \in [Block -> Nat]
    BY <2>3
  <2>5. PICK costs, x : costs = CostOf(p) /\ x = LeftOf(p)
    OBVIOUS
  <2>6. \A r \in Block : x[r] = costs[r] + f[r] - g[p[r]]
    BY <2>3, <2>5
  <2> HIDE DEF CostOf, LeftOf
  <2>7. SumOf(costs, m_num_cols) = SumOf(x, m_num_cols) + SumOf(g, m_num_cols) - SumOf(f, m_num_cols)
    <3>1. costs \in [Block -> Int] /\ x \in [Block -> Int]
      BY <2>4, <2>5
    <3>2. m_num_cols \in Nat /\ Block = 0 .. m_num_cols - 1
      BY <2>1 DEF Block
    <3>3. PICK n : n = m_num_cols
      OBVIOUS
    <3>4. n \in Nat
      BY <3>2, <3>3
    <3>5. \A i \in 0 .. n - 1 : costs[i] \in Int /\ x[i] \in Int /\ f[i] \in Int
      BY <1>1, <3>1, <3>2, <3>3
    <3>6. g \in [0 .. n - 1 -> Int] /\ p \in [0 .. n - 1 -> 0 .. n - 1]
      BY <1>1, <2>2, <3>2, <3>3
    <3>7. PICK z : z = [i \in 0 .. n - 1 |-> g[p[i]]]
      OBVIOUS
    <3>8. \A i \in 0 .. n - 1 : p[i] \in 0 .. n - 1 /\ z[i] = g[p[i]] /\ z[i] \in Int
      BY <3>6, <3>7
    <3>9. \A i \in 0 .. n - 1 : /\ costs[i] \in Int /\ f[i] \in Int /\ x[i] \in Int /\ z[i] \in Int
                                /\ costs[i] + f[i] = x[i] + z[i]
      BY <2>6, <3>2, <3>3, <3>5, <3>8
    <3>10. SumOf(costs, n) + SumOf(f, n) = SumOf(x, n) + SumOf(z, n)
      BY ONLY <3>4, <3>9, SumsBalance
    <3>11. SumOf(z, n) = SumOf(g, n)
      <4>1. \A i, j \in 0 .. n - 1 : p[i] = p[j] => i = j
        BY <2>2, <3>2, <3>3
      <4> QED BY ONLY <3>4, <3>6, <3>7, <4>1, SumRearranged
    <3>12. /\ SumOf(costs, n) \in Int /\ SumOf(f, n) \in Int /\ SumOf(x, n) \in Int
           /\ SumOf(g, n) \in Int
      <4>1. \A i \in 0 .. n - 1 : g[i] \in Int
        BY <3>6
      <4> QED BY ONLY <3>4, <3>5, <4>1, SumType
    <3>13. SumOf(costs, n) = SumOf(x, n) + SumOf(g, n) - SumOf(f, n)
      BY ONLY <3>10, <3>11, <3>12
    <3> QED BY <3>3, <3>13
  <2>8. TotalOf(problem, p) = SumOf(costs, m_num_cols)
    BY <2>5 DEF TotalOf, CostOf
  <2> QED BY <2>4, <2>5, <2>7, <2>8
<1>3. PICK a : a = [r \in Block |-> m_assignments[r]]
  OBVIOUS
<1>4. a \in CompleteAssignments
  BY <1>3, AssignedIsOneToOne DEF CompleteAssignments
<1>5. TotalOf(problem, m_assignments) = TotalOf(problem, a)
  BY <1>3 DEF TotalOf
<1>6. SumOf(LeftOf(a), m_num_cols) = 0
  <2>1. \A r \in 0 .. m_num_cols - 1 : LeftOf(a)[r] = 0
    BY <1>3, AssignedIsOneToOne DEF StarsAreZeros, IsAssigning, Price, Block
  <2> HIDE DEF LeftOf
  <2> QED BY <2>1, SumIsZero DEF AssignerInv, AssignerTypeOK
<1>7. ASSUME NEW other \in CompleteAssignments
      PROVE  TotalOf(problem, m_assignments) =< TotalOf(problem, other)
  <2>1. SumOf(LeftOf(other), m_num_cols) \in Nat
    <3> HIDE DEF LeftOf, CostOf
    <3>1. LeftOf(other) \in [Block -> Nat] /\ m_num_cols \in Nat
      BY <1>2 DEF AssignerInv, AssignerTypeOK
    <3>2. \A r \in 0 .. m_num_cols - 1 : LeftOf(other)[r] \in Nat
      BY <3>1 DEF Block
    <3> QED BY <3>1, <3>2, SumIsPositive
  <2>2. SumOf(g, m_num_cols) \in Int /\ SumOf(f, m_num_cols) \in Int
    BY <1>1, SumType DEF AssignerInv, AssignerTypeOK, Block
  <2> HIDE DEF LeftOf, CostOf
  <2> QED BY <1>2, <1>4, <1>5, <1>6, <2>1, <2>2
<1> QED
  BY <1>7 DEF IsCheapest

\* What holds besides InductiveInv while a problem is worked on.
OptimumInv(problem) ==
    /\ ZerosInv
    /\ WeightsAreReduced
    /\ AssignedIsComplete
    /\ pc \in {"ready", "prime", "path", "assigned"} => PricesAreOf(problem)

\* The prices begin as those of the problem, and every step only shifts them.
LEMMA ReadyPrices == AssignerInv => PricesAreOf(Prices)
<1> SUFFICES ASSUME AssignerInv PROVE PricesAreOf(Prices)
  OBVIOUS
<1>1. Prices \in [BlockSlots -> Int]
  <2>1. m_weight_matrix \in [Slots -> Int] /\ m_num_cols \in 0 .. Capacity
    BY DEF AssignerInv, AssignerTypeOK
  <2>2. BlockSlots \subseteq Slots
    BY <2>1, CapacityAssumption DEF BlockSlots, Slots, Block, Index
  <2>3. \A s \in BlockSlots : Price(s) \in Int
    BY <2>1, <2>2 DEF Price
  <2> QED BY <2>3 DEF Prices
<1>2. PICK f : f = [r \in Block |-> 0]
  OBVIOUS
<1>3. f \in [Block -> Int] /\ \A r \in Block : f[r] = 0
  BY <1>2
<1>4. ASSUME NEW r \in Block, NEW c \in Block
      PROVE  Price(Slot(r, c)) = Prices[Slot(r, c)] + f[r] - f[c]
  <2>1. Slot(r, c) \in BlockSlots
    BY DEF BlockSlots, Slot
  <2>2. Prices[Slot(r, c)] = Price(Slot(r, c)) /\ Prices[Slot(r, c)] \in Int
    BY <1>1, <2>1 DEF Prices
  <2> QED BY <1>3, <2>2
<1> QED
  BY <1>1, <1>3, <1>4 DEF PricesAreOf

LEMMA AssignStepKeepsPrices ==
  ASSUME AssignerInv, AssignStep, NEW problem, PricesAreOf(problem)
  PROVE  PricesAreOf(problem)'
<1>1. PICK f, g :
         /\ f \in [Block -> Int] /\ g \in [Block -> Int] /\ problem \in [BlockSlots -> Int]
         /\ \A r, c \in Block : Price(Slot(r, c)) = problem[Slot(r, c)] + f[r] - g[c]
  BY DEF PricesAreOf
<1>2. PICK k \in [Block -> Int], l \in [Block -> Int] :
         /\ Block' = Block
         /\ \A r, c \in Block :
               Price(Slot(r, c)) \in Int /\ Price(Slot(r, c))' = Price(Slot(r, c)) + k[r] - l[c]
  BY PricesShift
<1>3. PICK h, m : h = [r \in Block |-> f[r] + k[r]] /\ m = [c \in Block |-> g[c] + l[c]]
  OBVIOUS
<1>4. h \in [Block -> Int] /\ m \in [Block -> Int]
  BY <1>1, <1>3
<1>5. ASSUME NEW r \in Block, NEW c \in Block
      PROVE  Price(Slot(r, c))' = problem[Slot(r, c)] + h[r] - m[c]
  <2>1. /\ problem[Slot(r, c)] \in Int /\ f[r] \in Int /\ g[c] \in Int
        /\ h[r] = f[r] + k[r] /\ m[c] = g[c] + l[c]
    BY <1>1, <1>3 DEF BlockSlots, Slot
  <2>2. k[r] \in Int /\ l[c] \in Int
    OBVIOUS
  <2>3. /\ Price(Slot(r, c)) = problem[Slot(r, c)] + f[r] - g[c]
        /\ Price(Slot(r, c))' = Price(Slot(r, c)) + k[r] - l[c]
    BY <1>1, <1>2
  <2> QED BY <2>1, <2>2, <2>3
<1>6. BlockSlots' = BlockSlots
  BY <1>2 DEF BlockSlots
<1>7. \E u, v \in [Block' -> Int] : \A r, c \in Block' :
         Price(Slot(r, c))' = problem[Slot(r, c)] + u[r] - v[c]
  BY <1>2, <1>4, <1>5
<1> QED
  BY <1>1, <1>6, <1>7 DEF PricesAreOf

\* Only the first rows and the end of a round end assign(), with all columns covered.
LEMMA AssignStepCompletes ==
  ASSUME AssignStep, AssignedIsComplete
  PROVE  AssignedIsComplete'
<1>1. CASE ReduceRows \/ FlipPath
  BY <1>1 DEF ReduceRows, FlipPath, sizes, Block, AssignedIsComplete
<1>2. CASE PrimeUncoveredZero \/ AddNewZero \/ FollowPath
  BY <1>2 DEF PrimeUncoveredZero, AddNewZero, Prime, FollowPath, AssignedIsComplete
<1> QED
  BY <1>1, <1>2 DEF AssignStep

LEMMA AssignStepKeepsOptimum ==
  ASSUME AssignerInv, AssignStep, PrimesAZero, NEW problem, OptimumInv(problem)
  PROVE  OptimumInv(problem)'
<1>1. ZerosInv'
  BY AssignStepKeepsZeros DEF OptimumInv
<1>2. WeightsAreReduced'
  BY AssignStepKeepsReduced DEF OptimumInv
<1>3. AssignedIsComplete'
  BY AssignStepCompletes DEF OptimumInv
<1>4. PricesAreOf(problem)'
  <2>1. pc \in {"ready", "prime", "path"}
    BY DEF AssignStep, ReduceRows, PrimeUncoveredZero, AddNewZero, FollowPath, FlipPath
  <2> QED BY <2>1, AssignStepKeepsPrices DEF OptimumInv
<1> QED
  BY <1>1, <1>2, <1>3, <1>4 DEF OptimumInv

LEMMA UnchangedOptimum ==
  ASSUME NEW problem, OptimumInv(problem), UNCHANGED assignerVars
  PROVE  OptimumInv(problem)'
<1>1. ZerosInv' /\ WeightsAreReduced'
  BY UnchangedWeights DEF OptimumInv
<1>2. AssignedIsComplete' /\ pc' = pc /\ Block' = Block /\ BlockSlots' = BlockSlots
  BY DEF OptimumInv, assignerVars, sizes, covers, AssignedIsComplete, Block, BlockSlots
<1>3. \A s : Price(s)' = Price(s)
  BY DEF Price, IsPadding, assignerVars, sizes, matrices
<1>4. PricesAreOf(problem) => PricesAreOf(problem)'
  BY <1>2, <1>3 DEF PricesAreOf
<1> QED
  BY <1>1, <1>2, <1>4 DEF OptimumInv

-----------------------------------------------------------------------------
(* Theorems.                                                               *)

\* The inductive invariant holds: between any two iterations of the loops of
\* assign() the marks, the covers, the primes and the path agree as
\* AssignerInv says, and the tracker's counters agree with the stamps.
THEOREM InvariantCorrect == Spec => []InductiveInv
<1>1. InductiveInv /\ [Next]_vars => InductiveInv'
  BY NextKeepsInv
<1> QED
  BY <1>1, InitHolds, PTL DEF Spec

\* The type invariant: what AgesAreTrue and the others are said of.
THEOREM TypeCorrect == Spec => []TypeOK
<1>1. InductiveInv => TypeOK
  BY DEF InductiveInv
<1> QED
  BY <1>1, InvariantCorrect, PTL

\* The stars, the assignments and the covers of hungarian_assigner_c are one
\* matching, for tables of any size with any weights.
THEOREM StarsCorrect == Spec => []StarsMatch
<1>1. InductiveInv => StarsMatch
  BY DEF InductiveInv, AssignerInv
<1> QED
  BY <1>1, InvariantCorrect, PTL

\* assign() gives every row of the padded table a column of its own within the
\* bounds of its loops, for tables of any size with any weights, those with rows
\* that have no possible pair included: what it returns tells nothing.
THEOREM AssignCorrect == Spec => []AssignCompletes
<1>1. Init => AssignedIsComplete
  BY DEF Init, AssignedIsComplete
<1>2. AssignedIsComplete /\ [Next]_vars => AssignedIsComplete'
  <2> SUFFICES ASSUME AssignedIsComplete, [Next]_vars PROVE AssignedIsComplete'
    OBVIOUS
  <2>1. CASE Assign
    BY <2>1, AssignStepCompletes DEF Assign
  <2>2. CASE UNCHANGED assignerVars
    BY <2>2 DEF assignerVars, sizes, covers, AssignedIsComplete, Block
  <2>3. CASE pc' # "assigned"
    BY <2>3 DEF AssignedIsComplete
  <2> QED BY <2>1, <2>2, <2>3, OtherStepsAssignNothing DEF vars
<1>3. InductiveInv /\ AssignedIsComplete => AssignCompletes
  BY AssignedIsOneToOne DEF InductiveInv, AssignerInv, AssignCompletes
<1> QED
  BY <1>1, <1>2, <1>3, InvariantCorrect, PTL DEF Spec

\* Every round of the outer loop of assign() adds a star and keeps the columns
\* that have one.
THEOREM RoundCorrect == Spec => EveryRoundAddsAStar
<1> DEFINE AddsAStar == round' = round + 1 =>
              /\ Cardinality(Stars') = Cardinality(Stars) + 1
              /\ {Col(s) : s \in Stars} \subseteq {Col(s) : s \in Stars'}
<1>1. InductiveInv /\ [Next]_vars => [AddsAStar]_assignerVars
  <2> SUFFICES ASSUME InductiveInv, Next, round' = round + 1 PROVE AddsAStar
    BY DEF vars, assignerVars
  <2>1. AssignerInv /\ round \in Nat
    BY DEF InductiveInv, AssignerInv, AssignerTypeOK
  <2>2. CASE FlipPath
    BY <2>1, <2>2, FlippedStars DEF StarCols
  <2>3. CASE ~FlipPath
    <3>1. round' = round \/ round' = 0
      BY <2>3 DEF Next, odometry_callback, classified_roi_callback, detections_callback,
                  AssignDetections, Crash, SetWeights, Assign, AssignStep, ReduceRows, PrimeUncoveredZero,
                  AddNewZero, Prime, FollowPath, extract_result, Reset, finish_update,
                  remove_track, set_last_update, assignerVars
    <3> QED BY <3>1, <2>1
  <2> QED BY <2>2, <2>3
<1> QED
  BY <1>1, InvariantCorrect, PTL DEF Spec, EveryRoundAddsAStar

\* What the associator says of detections and of tracks agrees and is
\* one-to-one.
THEOREM UsedOnceCorrect == Spec => []EveryDetectionIsUsedOnce
<1>1. InductiveInv => EveryDetectionIsUsedOnce
  BY DEF InductiveInv
<1> QED
  BY <1>1, InvariantCorrect, PTL

\* The tracks are as old as the stamps say.
THEOREM AgesCorrect == Spec => []AgesAreTrue
<1>1. InductiveInv => AgesAreTrue
  BY DEF InductiveInv
<1> QED
  BY <1>1, InvariantCorrect, PTL

\* No weight that assign() works on becomes negative.
THEOREM ReducedCorrect == Spec => []WeightsAreReduced
<1>1. Init => WeightsAreReduced
  BY DEF Init, WeightsAreReduced, IsAssigning
<1>2. InductiveInv /\ WeightsAreReduced /\ [Next]_vars => WeightsAreReduced'
  <2> SUFFICES ASSUME InductiveInv, WeightsAreReduced, [Next]_vars PROVE WeightsAreReduced'
    OBVIOUS
  <2>1. CASE Assign
    BY <2>1, AssignStepKeepsReduced DEF Assign, InductiveInv
  <2>2. CASE ~Assign
    BY <2>2, OtherStepsAssignNothing, UnchangedWeights DEF vars
  <2> QED BY <2>1, <2>2
<1> QED
  BY <1>1, <1>2, InvariantCorrect, PTL DEF Spec

\* assign() works on one problem from beginning to end: whatever rows it
\* reduces and whatever zeros it adds, every exchange of columns between two
\* rows costs what it cost before, so the best assignments stay the best ones.
THEOREM SwapsCorrect == Spec => [][AssignStep => SwapsKeepTheirPrice]_vars
<1>1. InductiveInv /\ [Next]_vars => [AssignStep => SwapsKeepTheirPrice]_vars
  BY AssignStepKeepsSwaps DEF InductiveInv
<1> QED
  BY <1>1, InvariantCorrect, PTL DEF Spec

\* As long as every slot that is primed as a zero is one, the assignment has
\* weight zero wherever it is: with the two theorems above this makes it one of
\* minimum cost (OptimumCorrect).  What can break the premise is the mark of a zero that
\* add_new_zero() leaves on a slot whose weight it raises.
THEOREM ZerosCorrect == Spec /\ [][PrimesAZero]_vars => []StarsAreZeros
<1>1. Init => ZerosInv
  BY DEF Init, Fresh, ZerosInv, StarsAreZeros, PrimesAreZeros, PrimesAreBare, IsAssigning
<1>2. InductiveInv /\ ZerosInv /\ [Next]_vars /\ [PrimesAZero]_vars => ZerosInv'
  <2> SUFFICES ASSUME InductiveInv, ZerosInv, [Next]_vars, [PrimesAZero]_vars PROVE ZerosInv'
    OBVIOUS
  <2>1. CASE UNCHANGED vars
    BY <2>1, UnchangedWeights DEF vars
  <2>2. CASE Assign /\ PrimesAZero
    BY <2>2, AssignStepKeepsZeros DEF Assign, InductiveInv
  <2>3. CASE Next /\ ~Assign
    BY <2>3, OtherStepsAssignNothing, UnchangedWeights
  <2> QED BY <2>1, <2>2, <2>3
<1>3. ZerosInv => StarsAreZeros
  BY DEF ZerosInv
<1> QED
  BY <1>1, <1>2, <1>3, InvariantCorrect, PTL DEF Spec

\* assign() ends with an assignment of minimum cost, as long as every slot that
\* is primed as a zero is one.  problem is a history variable: it holds the prices
\* that the last call of assign() was given.  The premise on PrimesAZero is needed:
\* find_uncovered_zero() goes by the marks, and one that add_new_zero() leaves on
\* a slot whose weight it raises can be primed.
THEOREM OptimumCorrect ==
  ASSUME NEW VARIABLE problem
  PROVE  /\ Spec
         /\ [](pc = "ready" => problem = Prices)
         /\ [][pc' # "ready" => problem' = problem]_<<vars, problem>>
         /\ [][PrimesAZero]_vars
         => [](pc = "assigned" => IsCheapest(m_assignments, problem))
<1> DEFINE Given == pc = "ready" => problem = Prices
           Kept == pc' # "ready" => problem' = problem
<1>1. Init => OptimumInv(problem)
  BY DEF Init, Fresh, OptimumInv, ZerosInv, StarsAreZeros, PrimesAreZeros, PrimesAreBare, IsAssigning,
         WeightsAreReduced, AssignedIsComplete
<1>2. /\ InductiveInv /\ InductiveInv' /\ OptimumInv(problem) /\ [Next]_vars
      /\ Given' /\ [Kept]_<<vars, problem>> /\ [PrimesAZero]_vars
      => OptimumInv(problem)'
  <2> SUFFICES ASSUME InductiveInv, InductiveInv', OptimumInv(problem), [Next]_vars,
                      Given', [Kept]_<<vars, problem>>, [PrimesAZero]_vars
               PROVE  OptimumInv(problem)'
    OBVIOUS
  <2>1. CASE pc' = "ready"
    <3>1. problem' = Prices' /\ AssignerInv'
      BY <2>1 DEF InductiveInv
    <3>2. PricesAreOf(problem)'
      <4>1. (AssignerInv => PricesAreOf(Prices))'
        BY ReadyPrices, PTL
      <4> QED BY <3>1, <4>1
    <3>3. ZerosInv' /\ WeightsAreReduced'
      BY <2>1, UnchangedWeights DEF OptimumInv
    <3> QED BY <2>1, <3>2, <3>3 DEF OptimumInv, AssignedIsComplete
  <2>2. CASE pc' # "ready"
    <3>1. PICK p : p = problem
      OBVIOUS
    <3>2. OptimumInv(p) /\ p = problem'
      BY <2>2, <3>1
    <3>3. OptimumInv(p)' => OptimumInv(problem)'
      BY <3>2
    <3>4. CASE UNCHANGED assignerVars
      BY <3>2, <3>3, <3>4, UnchangedOptimum
    <3>5. CASE Assign /\ PrimesAZero
      BY <3>2, <3>3, <3>5, AssignStepKeepsOptimum DEF Assign, InductiveInv
    <3>6. CASE pc' \in {"idle", "extracted", "pruning", "crashed"}
      <4>1. ZerosInv' /\ WeightsAreReduced'
        BY <3>6, UnchangedWeights DEF OptimumInv
      <4> QED BY <3>6, <4>1 DEF OptimumInv, AssignedIsComplete
    <3>7. CASE ~Assign
      BY <3>4, <3>6, <3>7, <2>2, OtherStepsAssignNothing DEF vars
    <3> QED BY <3>4, <3>5, <3>7 DEF vars
  <2> QED BY <2>1, <2>2
<1>3. InductiveInv /\ OptimumInv(problem) => (pc = "assigned" => IsCheapest(m_assignments, problem))
  BY AssignedIsCheapest DEF InductiveInv, OptimumInv, ZerosInv
<1> QED
  BY <1>1, <1>2, <1>3, InvariantCorrect, PTL DEF Spec
=============================================================================
