----------------------------- MODULE MCCzImport ------------------------------
(* Small instances of CzImport for TLC. *)
EXTENDS CzImport, TLC

CONSTANTS f1, f2, f3, k1, k2

MCFiles == {f1, f2, f3}

\* f1 and f3 claim the same kod_adm.
MCKod == f1 :> k1 @@ f2 :> k2 @@ f3 :> k1

\* Two sound dumps, one that repeats a kod_adm and one without a file.
MCDump == 1 :> {f1, f2} @@ 2 :> {f2, f3} @@ 3 :> {f1, f2, f3} @@ 4 :> {} @@ 5 :> {f1, f2}

\* Two sound dumps, for overlapping runs.
MCSoundDump == 1 :> {f1, f2} @@ 2 :> {f2, f3} @@ 3 :> {f1, f2}

\* Where a crash cannot undo what a run has copied, and everywhere.
MCSafeSteps == (Steps \cup {"idle"}) \ AtRisk
MCAllSteps == Steps \cup {"idle"}

RunnerSymmetry == Permutations(Runners)
=============================================================================
