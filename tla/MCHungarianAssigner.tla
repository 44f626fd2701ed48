------------------------- MODULE MCHungarianAssigner -------------------------
(***************************************************************************)
(* The assigner on its own: one of a few tables of weights is set, and     *)
(* assign() runs.  Two tables are from the unit tests, the third one has   *)
(* five rows.                                                              *)
(***************************************************************************)
EXTENDS HungarianAssigner, FiniteSetsExt

VARIABLE given  \* the weights that were set

Table(rows) == [s \in (0 .. Len(rows) - 1) \X (0 .. Len(rows[1]) - 1) |-> rows[s[1] + 1][s[2] + 1]]

Tables == {
    Table(<< <<0, 10, 1>>, <<0, 10, 10>>, <<1, 0, 1>> >>),
    Table(<< <<5, 7, 11, 6, 7>>, <<8, 5, 5, 6, 5>>, <<6, 7, 10, 7, 3>>, <<10, 4, 8, 2, 4>> >>),
    Table(<< <<7, 1, 0, 1, 8>>, <<6, 3, 9, 7, 9>>, <<6, 2, 1, 9, 4>>,
             <<7, 2, 7, 9, 9>>, <<2, 4, 1, 1, 5>> >>)}

Rows(table) == 1 + Max({Row(s) : s \in DOMAIN table})
Cols(table) == 1 + Max({Col(s) : s \in DOMAIN table})

Init ==
    /\ pc = "idle"
    /\ Fresh
    /\ given = <<>>

SetTable(table) ==
    /\ pc = "idle"
    /\ SetWeights(Rows(table), Cols(table), table)
    /\ given' = table
    /\ pc' = "ready"

Next ==
    \/ \E table \in Tables : SetTable(table)
    \/ AssignStep /\ UNCHANGED given

Spec == Init /\ [][Next]_<<assignerVars, given>>

Cost(assignment) == MapThenSumSet(LAMBDA r : given[Slot(r, assignment[r])], 0 .. m_num_rows - 1)

OneToOne == {a \in [0 .. m_num_rows - 1 -> Block] :
                \A q, r \in 0 .. m_num_rows - 1 : a[q] = a[r] => q = r}

\* "compute minimum cost assignment" (hungarian_assigner.hpp:121): no other
\* assignment of the rows to different columns costs less.
AssignmentIsOfMinimumCost ==
    pc = "assigned" => \A other \in OneToOne : Cost(m_assignments) =< Cost(other)
=============================================================================
