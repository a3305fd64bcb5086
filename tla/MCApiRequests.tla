---------------------------- MODULE MCApiRequests ----------------------------
(* Small instances of ApiRequests for TLC. *)
EXTENDS ApiRequests, TLC

\* A query whose answer moves up the ladder with the second dataset.
MCHit == [g \in Gens |-> CASE g = 1 -> {2} [] g = 2 -> {1, 2} [] OTHER -> {}]

\* Two transactions, over both tables.
MCFewPlans == { <<AddressesBatch(TRUE, TRUE)>>, <<CzLookup(MCHit), Single("hr")>> }

\* The same, one that waits for no table, and one that is not asked for
\* anything.
MCPlans == MCFewPlans \cup
    { <<Search("hr", TRUE, MCHit)>>, <<Meta>>, <<AddressesBatch(FALSE, FALSE)>> }

\* What AlwaysSomebodyMoves assumes, of these plans and this pool.
ASSUME MCAssumption == OrderedPlans /\ PoolMax # 0

RequestSymmetry == Permutations(Requests)
=============================================================================
