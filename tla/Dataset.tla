------------------------------- MODULE Dataset -------------------------------
(***************************************************************************)
(* What an importer promises the rest of the system about its country's    *)
(* live table: readers see either no dataset at all (nothing was ever      *)
(* imported) or the whole of one dataset fit to be published.  A dataset   *)
(* is replaced in one step and is never withdrawn.                         *)
(*                                                                         *)
(* README.md calls this the "zero-downtime" import with an "atomic swap";  *)
(* HrImport, HrAdminUnits and CzImport implement it.                       *)
(***************************************************************************)

CONSTANTS
    Publishable,    \* the datasets fit to be served
    Nothing         \* what is served before the first publication, no dataset itself

VARIABLE served

Init == served = Nothing

\* An import run that ends well replaces what is served, whole.
Publish == \E dataset \in Publishable : served' = dataset

Spec == Init /\ [][Publish]_served

=============================================================================
