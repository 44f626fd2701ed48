-------------------------- MODULE HungarianAssigner --------------------------
(***************************************************************************)
(* hungarian_assigner_c: which row (job) gets which column (worker), given *)
(* the weights of some of the pairs.  One call of assign() is the run of a *)
(* small machine: the rows are reduced, then every round of the outer loop *)
(* primes zeros until one lies in a row without a star, follows the path   *)
(* of stars and primes that begins there, and flips it.  An action is one  *)
(* iteration of a loop of the code, so that the invariants speak of the    *)
(* book-keeping between two iterations.                                    *)
(*                                                                         *)
(* Rows and columns count from 0 as in the code.  Weights are whole        *)
(* numbers: the code's additions and subtractions are exact on them.       *)
(***************************************************************************)
EXTENDS Integers, Sequences, FiniteSets

CONSTANTS
    Capacity,    \* the template parameter: the size of every matrix
    MAX_WEIGHT,  \* the weight of a pair that was never given one
    UNASSIGNED   \* the index that stands for no column

ASSUME CapacityAssumption == Capacity \in Nat \ {0}
ASSUME WeightAssumption == MAX_WEIGHT \in Nat \ {0}
ASSUME UnassignedAssumption == UNASSIGNED \notin Int

VARIABLES
    pc,                  \* where assign() is
    m_num_rows, m_num_cols,
    m_weight_matrix,
    m_mark_matrix,
    m_is_max_matrix,     \* the pairs without a weight
    m_assignments,
    m_is_row_covered,    \* the covered rows
    m_is_col_covered,    \* the covered columns
    m_primed_zero_locs,  \* the slots primed in this round, in order
    m_augment_path,      \* the path followed so far
    round                \* rounds of the outer loop that are over

matrices == <<m_weight_matrix, m_mark_matrix, m_is_max_matrix>>
covers == <<m_is_row_covered, m_is_col_covered>>
sizes == <<m_num_rows, m_num_cols>>
assignerVars == <<pc, sizes, matrices, m_assignments, covers,
                  m_primed_zero_locs, m_augment_path, round>>

Index == 0 .. Capacity - 1
Slots == Index \X Index
Mark == {"UNMARKED", "ZERO", "PRIMED", "STARRED"}

\* The part of the matrices the algorithm works on, a square: rows that are
\* missing are padded.
Block == 0 .. m_num_cols - 1
BlockSlots == Block \X Block

Row(slot) == slot[1]
Col(slot) == slot[2]
Slot(row, col) == <<row, col>>

Stars == {s \in BlockSlots : m_mark_matrix[s] = "STARRED"}

\* The slot of a set that two nested loops over rows and columns meet first.
Precedes(s, t) == Row(s) < Row(t) \/ (Row(s) = Row(t) /\ Col(s) =< Col(t))
First(slots) == CHOOSE s \in slots : \A t \in slots : Precedes(s, t)

-----------------------------------------------------------------------------
(***************************************************************************)
(* reset(), set_size() and the calls of set_weight().  (The code leaves    *)
(* the old assignments to set_size(), before which nothing reads them.)    *)
(***************************************************************************)
Fresh ==
    /\ m_num_rows = 0
    /\ m_num_cols = 0
    /\ m_weight_matrix = [s \in Slots |-> MAX_WEIGHT]
    /\ m_mark_matrix = [s \in Slots |-> "UNMARKED"]
    /\ m_is_max_matrix = Slots
    /\ m_assignments = [i \in Index |-> UNASSIGNED]
    /\ m_is_row_covered = {}
    /\ m_is_col_covered = {}
    /\ m_primed_zero_locs = <<>>
    /\ m_augment_path = <<>>
    /\ round = 0

Reset ==
    /\ m_num_rows' = 0
    /\ m_num_cols' = 0
    /\ m_weight_matrix' = [s \in Slots |-> MAX_WEIGHT]
    /\ m_mark_matrix' = [s \in Slots |-> "UNMARKED"]
    /\ m_is_max_matrix' = Slots
    /\ m_assignments' = [i \in Index |-> UNASSIGNED]
    /\ m_is_row_covered' = {}
    /\ m_is_col_covered' = {}
    /\ m_primed_zero_locs' = <<>>
    /\ m_augment_path' = <<>>
    /\ round' = 0

\* set_size() throws for more than Capacity and for a tall matrix.
FitsCapacity(rows, cols) == rows =< Capacity /\ cols =< Capacity

\* weights maps the pairs that may be assigned to their weights.  The threads
\* that own the rows may call set_weight() in any order: each pair is set once.
SetWeights(rows, cols, weights) ==
    /\ rows =< cols /\ FitsCapacity(rows, cols)
    /\ m_num_rows' = rows
    /\ m_num_cols' = cols
    /\ m_weight_matrix' = [s \in Slots |-> IF s \in DOMAIN weights THEN weights[s]
                                           ELSE m_weight_matrix[s]]
    /\ m_is_max_matrix' = m_is_max_matrix \ DOMAIN weights
    /\ m_assignments' = [i \in Index |-> IF i < cols THEN UNASSIGNED ELSE m_assignments[i]]
    /\ UNCHANGED <<m_mark_matrix, covers, m_primed_zero_locs, m_augment_path, round>>

-----------------------------------------------------------------------------
(***************************************************************************)
(* Steps 1 to 3: find_minimums(), the padding and                          *)
(* reduce_rows_and_init_zeros_and_check_result().                          *)
(***************************************************************************)
\* The first column of the least weight of a row, over the whole matrix.
RowMinIdx(row) ==
    CHOOSE c \in Index :
        \A d \in Index : \/ m_weight_matrix[Slot(row, c)] < m_weight_matrix[Slot(row, d)]
                         \/ /\ m_weight_matrix[Slot(row, c)] = m_weight_matrix[Slot(row, d)]
                            /\ c =< d

IsPadding(row) == row \in m_num_rows .. m_num_cols - 1

ReducedWeights ==
    [s \in Slots |->
        IF s \notin BlockSlots THEN m_weight_matrix[s]
        ELSE IF IsPadding(Row(s)) THEN 0
        ELSE m_weight_matrix[s] - m_weight_matrix[Slot(Row(s), RowMinIdx(Row(s)))]]

\* A row stars its minimum unless a row before it has its own there; each
\* padded row takes the next column that is left.
ColsOfMinimums == {RowMinIdx(r) : r \in 0 .. m_num_rows - 1}

InitialAssignment(row) ==
    IF IsPadding(row)
    THEN CHOOSE c \in Block \ ColsOfMinimums :
            Cardinality({d \in Block \ ColsOfMinimums : d < c}) = row - m_num_rows
    ELSE IF row < m_num_rows /\ \A q \in 0 .. row - 1 : RowMinIdx(q) # RowMinIdx(row)
    THEN RowMinIdx(row)
    ELSE UNASSIGNED

InitialMark(s, assignments) ==
    IF s \notin BlockSlots THEN m_mark_matrix[s]
    ELSE IF assignments[Row(s)] = Col(s) THEN "STARRED"
    ELSE IF IsPadding(Row(s)) \/ RowMinIdx(Row(s)) = Col(s) THEN "ZERO"
    ELSE m_mark_matrix[s]

ReduceRows ==
    /\ pc = "ready"
    /\ m_weight_matrix' = ReducedWeights
    /\ m_assignments' = [r \in Index |-> IF r \in Block THEN InitialAssignment(r)
                                         ELSE m_assignments[r]]
    /\ m_mark_matrix' = [s \in Slots |-> InitialMark(s, m_assignments')]
    /\ m_is_col_covered' = {m_assignments'[r] : r \in Block} \ {UNASSIGNED}
    /\ m_is_row_covered' = {}
    /\ pc' = IF m_is_col_covered' = Block THEN "assigned" ELSE "prime"
    /\ UNCHANGED <<sizes, m_is_max_matrix, m_primed_zero_locs, m_augment_path, round>>

-----------------------------------------------------------------------------
(***************************************************************************)
(* Steps 4 and 6: one iteration of the loop of prime_uncovered_zero().     *)
(***************************************************************************)
Uncovered == {s \in BlockSlots : Row(s) \notin m_is_row_covered /\ Col(s) \notin m_is_col_covered}

\* find_uncovered_zero() looks at the marks, not at the weights.
\* Mutant: the covers are not looked at.
ZerosAnywhere == {s \in BlockSlots : m_mark_matrix[s] = "ZERO"}

UncoveredZeros == {s \in Uncovered : m_mark_matrix[s] \in {"ZERO", "PRIMED"}}

\* find_minimum_uncovered_value()
LeastUncovered ==
    LET uncovered == Uncovered
    IN  First({s \in uncovered : \A t \in uncovered : m_weight_matrix[s] =< m_weight_matrix[t]})

\* add_new_zero(): the least value is added to the covered rows and taken from
\* the columns that are not covered.
Shifted(value) ==
    [s \in Slots |->
        m_weight_matrix[s]
        + (IF s \in BlockSlots /\ Row(s) \in m_is_row_covered THEN value ELSE 0)
        - (IF s \in BlockSlots /\ Col(s) \notin m_is_col_covered THEN value ELSE 0)]

\* Mutant: a star in the first column is not found.
StarsInLaterCols(row) == {c \in Block \ {0} : m_mark_matrix[Slot(row, c)] = "STARRED"}

StarsInRow(row) == {c \in Block : m_mark_matrix[Slot(row, c)] = "STARRED"}

\* Prime a slot; the star of its row, if there is one, gives up the cover of its
\* column for one of the row, otherwise (or when the loop is at its bound) the
\* path begins here.  The loop primes at most m_num_cols slots, so there is
\* always room for them.
Prime(loc) ==
    /\ m_mark_matrix' = [m_mark_matrix EXCEPT ![loc] = "PRIMED"]
    /\ m_primed_zero_locs' = Append(m_primed_zero_locs, loc)
    /\ LET stars == StarsInRow(Row(loc)) \ {Col(loc)}
           bound == Len(m_primed_zero_locs) + 1 = m_num_cols
       IN  /\ m_is_row_covered' = m_is_row_covered \cup (IF stars = {} THEN {} ELSE {Row(loc)})
           /\ m_is_col_covered' = m_is_col_covered \ stars
           /\ IF stars = {} \/ bound
              THEN pc' = "path" /\ m_augment_path' = <<loc>>
              ELSE UNCHANGED <<pc, m_augment_path>>
    /\ UNCHANGED <<sizes, m_is_max_matrix, m_assignments, round>>

PrimeUncoveredZero ==
    /\ pc = "prime"
    /\ UncoveredZeros # {}
    /\ Prime(First(UncoveredZeros))
    /\ UNCHANGED m_weight_matrix

\* Without an uncovered value no_uncovered_values_c ends assign().
AddNewZero ==
    /\ pc = "prime"
    /\ UncoveredZeros = {}
    /\ IF Uncovered = {}
       THEN pc' = "failed" /\ UNCHANGED <<sizes, matrices, m_assignments, covers,
                                          m_primed_zero_locs, m_augment_path, round>>
       ELSE /\ m_weight_matrix' = Shifted(m_weight_matrix[LeastUncovered])
            /\ Prime(LeastUncovered)

-----------------------------------------------------------------------------
(***************************************************************************)
(* Steps 5 and 3: increment_starred_zeroes_and_check_result().             *)
(***************************************************************************)
PathEnd == m_augment_path[Len(m_augment_path)]
StarsInCol(col) == {r \in Block : m_mark_matrix[Slot(r, col)] = "STARRED"}
PrimesInRow(row) == {c \in Block : m_mark_matrix[Slot(row, c)] = "PRIMED"}
Lowest(indices) == CHOOSE i \in indices : \A j \in indices : i =< j
PathContinues == StarsInCol(Col(PathEnd)) # {} /\ Len(m_augment_path) < 2 * m_num_cols + 1

\* From the end of the path to the star in its column and to the prime in that
\* star's row, which has to be there.
FollowPath ==
    /\ pc = "path"
    /\ PathContinues
    /\ LET row == Lowest(StarsInCol(Col(PathEnd)))
           star == Slot(row, Col(PathEnd))
       IN  IF PrimesInRow(row) = {}
           THEN pc' = "thrown" /\ UNCHANGED m_augment_path
           ELSE /\ m_augment_path' = m_augment_path \o <<star, Slot(row, Lowest(PrimesInRow(row)))>>
                /\ UNCHANGED pc
    /\ UNCHANGED <<sizes, matrices, m_assignments, covers, m_primed_zero_locs, round>>

\* Mutant: nothing that was a star before is unstarred.
PathWithoutStars == {s \in {m_augment_path[i] : i \in 1 .. Len(m_augment_path)} :
                         m_mark_matrix[s] # "STARRED"}

OnPath == {m_augment_path[i] : i \in 1 .. Len(m_augment_path)}
NewStars == {s \in OnPath : m_mark_matrix[s] # "STARRED"}
Primes == {m_primed_zero_locs[i] : i \in 1 .. Len(m_primed_zero_locs)}

\* Stars and primes of the path change places, the other primes are erased and
\* the columns are covered anew.
FlipPath ==
    /\ pc = "path"
    /\ ~PathContinues
    /\ m_mark_matrix' = [s \in Slots |->
            IF s \in NewStars THEN "STARRED"
            ELSE IF s \in OnPath \/ (s \in Primes /\ m_mark_matrix[s] = "PRIMED") THEN "ZERO"
            ELSE m_mark_matrix[s]]
    /\ m_assignments' = [r \in Index |->
            IF \E s \in NewStars : Row(s) = r
            THEN Col(CHOOSE s \in NewStars : Row(s) = r) ELSE m_assignments[r]]
    /\ m_is_col_covered' = {m_assignments'[r] : r \in Block} \ {UNASSIGNED}
    /\ m_is_row_covered' = {}
    /\ m_primed_zero_locs' = <<>>
    /\ m_augment_path' = <<>>
    /\ round' = round + 1
    /\ pc' = IF m_is_col_covered' = Block THEN "assigned"
             ELSE IF round' = m_num_cols THEN "failed" ELSE "prime"
    /\ UNCHANGED <<sizes, m_weight_matrix, m_is_max_matrix>>

AssignStep == ReduceRows \/ PrimeUncoveredZero \/ AddNewZero \/ FollowPath \/ FlipPath

\* get_assignment(): a pair without a weight does not count.
Assignment(row) ==
    IF m_assignments[row] # UNASSIGNED /\ Slot(row, m_assignments[row]) \in m_is_max_matrix
    THEN UNASSIGNED ELSE m_assignments[row]

-----------------------------------------------------------------------------
(***************************************************************************)
(* Properties.                                                             *)
(***************************************************************************)
AssignerTypeOK ==
    /\ pc \in {"idle", "ready", "prime", "path", "assigned", "failed", "thrown",
               "extracted", "pruning", "crashed"}
    /\ m_num_rows \in 0 .. m_num_cols
    /\ m_num_cols \in 0 .. Capacity
    /\ m_weight_matrix \in [Slots -> Int]
    /\ m_mark_matrix \in [Slots -> Mark]
    /\ m_is_max_matrix \subseteq Slots
    /\ m_assignments \in [Index -> Index \cup {UNASSIGNED}]
    /\ m_is_row_covered \subseteq Block
    /\ m_is_col_covered \subseteq Block
    /\ m_primed_zero_locs \in Seq(BlockSlots)
    /\ m_augment_path \in Seq(BlockSlots)
    /\ round \in 0 .. m_num_cols

\* The book-keeping of assign() between any two iterations of its loops: the
\* stars are the assignment, no row and no column has two of them, and each
\* star is covered by exactly one of its row and its column, the only rows and
\* columns that are covered.  Marks, covers and assignments are three copies of
\* one matching that prime_uncovered_zero() and
\* increment_starred_zeroes_and_check_result() change in different places.
StarsMatch ==
    pc \in {"prime", "path", "assigned"} =>
        /\ \A s, t \in Stars : (Row(s) = Row(t) \/ Col(s) = Col(t)) => s = t
        /\ \A r \in Block : \A c \in Block :
                m_assignments[r] = c <=> m_mark_matrix[Slot(r, c)] = "STARRED"
        /\ \A s \in Stars : Row(s) \in m_is_row_covered <=> Col(s) \notin m_is_col_covered
        /\ m_is_row_covered \subseteq {Row(s) : s \in Stars}
        /\ m_is_col_covered \subseteq {Col(s) : s \in Stars}

\* assign() does not give up: it never returns false for want of rounds, never
\* runs out of uncovered values and never misses the prime that is "guaranteed"
\* in the row of a star on the path.
NeverGivesUp == pc \notin {"failed", "thrown"}

\* Within the bounds of its loops assign() gives every row of the padded table a
\* column of its own, whatever the weights.  That goes for tables with impossible
\* rows as well: a pair without a weight weighs MAX_WEIGHT and is starred if there
\* is no other, so that assign() returns true, and only get_assignment() says
\* UNASSIGNED (the design document and the header have assign() return false).
AssignCompletes ==
    /\ NeverGivesUp
    /\ pc = "assigned" =>
            /\ \A r \in Block : m_assignments[r] \in Block
            /\ \A q, r \in Block : m_assignments[q] = m_assignments[r] => q = r

\* Every round of the outer loop adds one star, and no column that had a star
\* loses it: what bounds the loop by the number of columns.
EveryRoundAddsAStar ==
    [][round' = round + 1 =>
          /\ Cardinality(Stars') = Cardinality(Stars) + 1
          /\ {Col(s) : s \in Stars} \subseteq {Col(s) : s \in Stars'}]_assignerVars

-----------------------------------------------------------------------------
(***************************************************************************)
(* Why the properties hold: the inductive invariant of the proofs.         *)
(***************************************************************************)
StarCols == {Col(s) : s \in Stars}

\* Until a row stars its minimum, no slot has a mark and the weights say which
\* slots are part of the problem.
IsReady ==
    /\ \A s \in Slots : /\ m_weight_matrix[s] =< MAX_WEIGHT
                        /\ Col(s) \notin Block => m_weight_matrix[s] = MAX_WEIGHT
    /\ m_mark_matrix = [s \in Slots |-> "UNMARKED"]
    /\ m_is_row_covered = {}
    /\ m_primed_zero_locs = <<>>
    /\ m_augment_path = <<>>
    /\ round = 0

\* The primes of a round: no row has two, and where a prime lies in the column
\* of a star, the row of the star was covered, that is primed, before it.
PrimesAreKnown ==
    /\ \A s \in Slots : m_mark_matrix[s] = "PRIMED" <=> s \in Primes
    /\ \A i, j \in 1 .. Len(m_primed_zero_locs) :
            Row(m_primed_zero_locs[i]) = Row(m_primed_zero_locs[j]) => i = j
    /\ \A k \in 1 .. Len(m_primed_zero_locs) : \A s \in Stars :
            Col(s) = Col(m_primed_zero_locs[k])
                => \E j \in 1 .. k - 1 : Row(m_primed_zero_locs[j]) = Row(s)

\* The first k primes are those whose rows are covered.
PrimesCover(k) == m_is_row_covered = {Row(m_primed_zero_locs[i]) : i \in 1 .. k}

\* A round is needed, and there were as many as the stars allow.
RoundIsOpen ==
    /\ StarCols # Block
    /\ round =< Cardinality(Stars)

\* The path alternates between primes and stars, from the last prime back to
\* earlier and earlier ones; every star of it shares its row and its column
\* with a prime of it.
PathStars == OnPath \cap Stars
PathPrimes == OnPath \cap Primes
LastPrime == m_primed_zero_locs[Len(m_primed_zero_locs)]

PathAlternates ==
    /\ m_augment_path # <<>>
    /\ OnPath \subseteq Stars \cup Primes
    /\ LastPrime \in OnPath
    /\ \E j \in 1 .. Len(m_primed_zero_locs) :
            /\ PathEnd = m_primed_zero_locs[j]
            /\ Len(m_augment_path) =< 2 * (Len(m_primed_zero_locs) - j) + 1
            /\ \A i \in 1 .. Len(m_primed_zero_locs) : m_primed_zero_locs[i] \in OnPath => j =< i
    /\ \A s \in PathStars : /\ \E p \in PathPrimes : Row(p) = Row(s)
                            /\ \E p \in PathPrimes : Col(p) = Col(s)
    /\ \A p \in PathPrimes : /\ p # PathEnd => \E s \in PathStars : Col(s) = Col(p)
                             /\ p # LastPrime => \E s \in PathStars : Row(s) = Row(p)
    /\ \A p, q \in PathPrimes : Col(p) = Col(q) => p = q

AssignerInv ==
    /\ AssignerTypeOK
    /\ NeverGivesUp
    /\ StarsMatch
    /\ pc \in {"idle", "extracted", "pruning", "crashed"} => Fresh
    /\ pc = "ready" => IsReady
    /\ pc \in {"prime", "path", "assigned"} =>
            \A r \in Block : m_assignments[r] \in Block \cup {UNASSIGNED}
    /\ pc \in {"prime", "path"} => PrimesAreKnown /\ RoundIsOpen
    /\ pc = "prime" => PrimesCover(Len(m_primed_zero_locs)) /\ m_augment_path = <<>>
    /\ pc = "path" => /\ m_primed_zero_locs # <<>>
                      /\ PrimesCover(Len(m_primed_zero_locs) - 1)
                      /\ StarsInRow(Row(LastPrime)) = {}
                      /\ PathAlternates

-----------------------------------------------------------------------------
(***************************************************************************)
(* What is left of optimality.  The assignment is of minimum cost if the   *)
(* weights stay those of the same problem, are never negative, and are     *)
(* zero where it is: then no other one costs less, before or after the     *)
(* reduction.  The first two hold whatever the marks say; the third holds  *)
(* as long as what is primed as a zero is one, which a stale mark breaks.  *)
(***************************************************************************)
\* What a pair costs: a row that was padded costs nothing.
Price(s) == IF pc = "ready" /\ IsPadding(Row(s)) THEN 0 ELSE m_weight_matrix[s]

\* What it costs more to give c to row q and d to row r than the other way round.
SwapPrice(q, r, c, d) ==
    (Price(Slot(q, c)) + Price(Slot(r, d))) - (Price(Slot(q, d)) + Price(Slot(r, c)))

\* Every exchange of columns between rows keeps its price.
SwapsKeepTheirPrice ==
    \A q, r, c, d \in Block : SwapPrice(q, r, c, d)' = SwapPrice(q, r, c, d)

IsAssigning == pc \in {"prime", "path", "assigned"}

WeightsAreReduced == IsAssigning => \A s \in BlockSlots : m_weight_matrix[s] >= 0

\* What is primed as a zero is one.
PrimesAZero == PrimeUncoveredZero => m_weight_matrix[First(UncoveredZeros)] = 0

\* The slots of the assignment, and those that may become part of it, have weight 0.
StarsAreZeros == IsAssigning => \A s \in Stars : m_weight_matrix[s] = 0
PrimesAreZeros ==
    pc \in {"prime", "path"} => \A s \in Primes : m_weight_matrix[s] = 0

\* While zeros are primed, no column of a prime is covered.
PrimesAreBare ==
    pc = "prime" => \A s \in Primes : Row(s) \in m_is_row_covered /\ Col(s) \notin m_is_col_covered

\* The sum of the first n costs, and what a complete assignment costs.
SumOf(costs, n) ==
    LET sum[i \in 0 .. n] == IF i = 0 THEN 0 ELSE sum[i - 1] + costs[i - 1]
    IN  sum[n]

Prices == [s \in BlockSlots |-> Price(s)]
TotalOf(prices, assignment) ==
    SumOf([r \in Block |-> prices[Slot(r, assignment[r])]], m_num_cols)

CompleteAssignments == {a \in [Block -> Block] : \A q, r \in Block : a[q] = a[r] => q = r}

IsCheapest(assignment, prices) ==
    \A other \in CompleteAssignments : TotalOf(prices, assignment) =< TotalOf(prices, other)

\* The end of assign(): every column has a star.
AssignedIsComplete == pc = "assigned" => m_is_col_covered = Block

\* The prices now and those of a problem differ by an amount for each row and one
\* for each column, so they agree on which complete assignments are the cheapest.
PricesAreOf(problem) ==
    /\ problem \in [BlockSlots -> Int]
    /\ \E f, g \in [Block -> Int] : \A r, c \in Block :
            Price(Slot(r, c)) = problem[Slot(r, c)] + f[r] - g[c]
=============================================================================
