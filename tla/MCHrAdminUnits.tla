--------------------------- MODULE MCHrAdminUnits ----------------------------
(* A small instance of HrAdminUnits for TLC. *)
EXTENDS HrAdminUnits, TLC

CONSTANTS county, town, village, port, hamlet, gone,    \* gml ids
          c1, t1, v1, p1, h1                            \* national codes

MCUnitIds == {county, town, village, port, hamlet, gone}

MCCodes == {c1, t1, v1, p1, h1}

Is(level, code, upper) == [level |-> level, code |-> code, upper |-> upper]

Counties == county :> Is("county", c1, gone)
Towns    == town :> Is("municipality", t1, county)

\* Two whole chains and a settlement that points at a unit the file lacks.
Whole == Counties @@ Towns
           @@ village :> Is("settlement", v1, town)
           @@ port :> Is("settlement", p1, town)
           @@ hamlet :> Is("settlement", h1, gone)

\* The village has moved to a town whose county the file lacks, and the hamlet
\* to a town without a code.
Later == town :> Is("municipality", t1, gone)
           @@ gone :> Is("municipality", NoCode, county)
           @@ Counties
           @@ village :> Is("settlement", v1, town)
           @@ hamlet :> Is("settlement", h1, gone)

\* One code given to two settlements; one settlement lacking its code.
Twice == Whole @@ gone :> Is("settlement", v1, town)
Short == Counties @@ Towns
           @@ village :> Is("settlement", v1, town)
           @@ hamlet :> Is("settlement", NoCode, town)

MCExtracts == {Whole, Later, Twice, Short}
=============================================================================
