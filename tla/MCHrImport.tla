----------------------------- MODULE MCHrImport ------------------------------
(* Small instances of HrImport for TLC. *)
EXTENDS HrImport, TLC

CONSTANTS a, b, c, x, y

MCIds == {a, b, c}

MCNameless == {x, y}

\* A package that repeats an identifier, one with two addresses that have none, and
\* one that is cut short but repeats itself, or lacks identifiers, up to MinRows.
MCPackages == { <<a, b, a>>, <<c, x, b, y>>, <<a, a>>, <<y, x>> }

\* Fewer rows to keep overlapping runs small.
MCFewPackages == { <<a, a, b>>, <<a>> }

\* Where a crash cannot undo what a run has counted, and everywhere.
MCSafeSteps == (Steps \cup {"idle"}) \ AtRisk
MCAllSteps == Steps \cup {"idle"}

RunnerSymmetry == Permutations(Runners)
=============================================================================
