---------------------------- MODULE HrAdminUnits -----------------------------
(***************************************************************************)
(* The importer of the Croatian administrative units,                      *)
(* importer/import_hr_admin_units.py, which builds the lookup hr_admin_    *)
(* units that the address import joins settlements to.                     *)
(*                                                                         *)
(* A runner is the scheduler or an operator's manual run.  It parses and   *)
(* counts before it touches the database, and then goes through four       *)
(* transactions, one action each.  The working table is an ordinary LOGGED *)
(* one, so a database crash takes nothing from it.                         *)
(*                                                                         *)
(* Data.  An extract maps the gml id of a unit to its level, national code *)
(* and the gml id its upperLevelUnit points at; a row of the table is what *)
(* settlements() makes of one of its units.                                *)
(***************************************************************************)
EXTENDS Naturals, FiniteSets

CONSTANTS
    Runners,            \* processes that may run main()
    UnitIds,            \* gml ids
    Codes,              \* national codes
    NoCode,             \* a unit without one, or a reference to nothing (None)
    Extracts,           \* what the publisher may serve
    NoExtract,          \* nothing read
    MinSettlements,     \* MIN_EXPECTED_SETTLEMENTS
    MaxFaults,          \* bound: failures of the outside world
    PgMayCrash          \* may the database server crash?

Levels == {"settlement", "municipality", "county"}

\* upper need not be the id of a unit of the extract.
Unit == [level : Levels, code : Codes \cup {NoCode}, upper : UnitIds]

ASSUME UnitsAssumption ==
    /\ NoCode \notin Codes
    /\ \A e \in Extracts : DOMAIN e \subseteq UnitIds /\ \A u \in DOMAIN e : e[u] \in Unit
    /\ NoExtract \notin Extracts
    /\ {MinSettlements, MaxFaults} \subseteq Nat
    /\ PgMayCrash \in BOOLEAN

VARIABLES
    overlap,    \* may two runners be at work at once?  Settled at the outset
    pc,         \* the step each runner is about to take
    extract,    \* the units each runner has read from the archive
    new,        \* hr_admin_units_new
    live,       \* hr_admin_units
    faults      \* failures the outside world has caused so far

vars == <<overlap, pc, extract, new, live, faults>>

-----------------------------------------------------------------------------
(* settlements(): who lies in what *)

\* Mutant: a reference to a unit the file lacks is kept as it stands.
DanglingCodeOf(e, u) == IF u \in DOMAIN e THEN e[u].code ELSE u

\* units.get(id, {}).get("code"): None if the chain is broken there.
CodeOf(e, u) == IF u \in DOMAIN e THEN e[u].code ELSE NoCode

CountyOf(e, municipality) ==
    IF municipality \in DOMAIN e THEN CodeOf(e, e[municipality].upper) ELSE NoCode

SettlementUnits(e) == {u \in DOMAIN e : e[u].level = "settlement" /\ e[u].code # NoCode}

\* Mutant: an inner join, which loses the settlements whose chain is broken.
SettlementsWithChain(e) ==
    {[unit     |-> u,
      code     |-> e[u].code,
      jls      |-> CodeOf(e, e[u].upper),
      zupanija |-> CountyOf(e, e[u].upper)] :
        u \in {v \in SettlementUnits(e) : e[v].upper \in DOMAIN e}}

\* One row per settlement, as an unfinished chain leaves it.
Settlements(e) ==
    {[unit     |-> u,
      code     |-> e[u].code,
      jls      |-> CodeOf(e, e[u].upper),
      zupanija |-> CountyOf(e, e[u].upper)] : u \in SettlementUnits(e)}

CodesIn(rows) == {row.code : row \in rows}

\* The register does not change all its settlements from one extract to the next.
ASSUME ExtractsMeet ==
    \A d, e \in Extracts : CodesIn(Settlements(d)) \cap CodesIn(Settlements(e)) # {}

-----------------------------------------------------------------------------
(* Tables *)

Row == [unit : UnitIds, code : Codes, jls : Codes \cup {NoCode}, zupanija : Codes \cup {NoCode}]

Table == [exists : BOOLEAN, rows : SUBSET Row, analyzed : BOOLEAN]

NoTable == [exists |-> FALSE, rows |-> {}, analyzed |-> FALSE]

\* The primary key: no national code twice.
Unique(rows) == \A a, b \in rows : a.code = b.code => a = b

-----------------------------------------------------------------------------
(* The steps of main() *)

\* Mutant: no primary key.
AcceptedWithoutKey(r) ==
    /\ pc[r] = "create" => Cardinality(Settlements(extract[r])) >= MinSettlements
    /\ pc[r] \in {"copy", "swap"} => new.exists
    /\ pc[r] = "analyze" => live.exists

\* A COPY that repeats a code, or a rename of what is not there, raises; the
\* count is checked before anything is written.
Accepted(r) ==
    /\ pc[r] = "create" => Cardinality(Settlements(extract[r])) >= MinSettlements
    /\ pc[r] = "copy" => /\ new.exists
                         /\ Unique(Settlements(extract[r]))
                         /\ CodesIn(new.rows) \cap CodesIn(Settlements(extract[r])) = {}
    /\ pc[r] = "swap" => new.exists
    /\ pc[r] = "analyze" => live.exists

Go(r, from, to) ==
    /\ pc[r] = from
    /\ Accepted(r)
    /\ pc' = [pc EXCEPT ![r] = to]

Fault == faults < MaxFaults /\ faults' = faults + 1

\* An extract that cannot be published counts as a fault of the publisher.
Sound(e) == Cardinality(Settlements(e)) >= MinSettlements /\ Unique(Settlements(e))

Download(r, e) ==
    /\ Go(r, "idle", "create")
    /\ overlap \/ \A other \in Runners : pc[other] = "idle"
    /\ IF Sound(e) THEN UNCHANGED faults ELSE Fault
    /\ extract' = [extract EXCEPT ![r] = e]
    /\ UNCHANGED <<overlap, new, live>>

\* Mutant: CREATE TABLE IF NOT EXISTS, the leftover of a failed run kept.
CreateIfNotExists(r) ==
    /\ Go(r, "create", "copy")
    /\ new' = [new EXCEPT !.exists = TRUE]
    /\ UNCHANGED <<overlap, extract, live, faults>>

Create(r) ==
    /\ Go(r, "create", "copy")
    /\ new' = [NoTable EXCEPT !.exists = TRUE]
    /\ UNCHANGED <<overlap, extract, live, faults>>

Copy(r) ==
    /\ Go(r, "copy", "swap")
    /\ new' = [new EXCEPT !.rows = @ \cup Settlements(extract[r])]
    /\ UNCHANGED <<overlap, extract, live, faults>>

\* Mutant: no transaction around the swap; the DROP stands when the RENAME fails.
SwapInPieces(r) ==
    /\ pc[r] = "swap"
    /\ pc' = [pc EXCEPT ![r] = "analyze"]
    /\ live' = new
    /\ new' = NoTable
    /\ UNCHANGED <<overlap, extract, faults>>

Swap(r) ==
    /\ Go(r, "swap", "analyze")
    /\ live' = new
    /\ new' = NoTable
    /\ UNCHANGED <<overlap, extract, faults>>

Analyze(r) ==
    /\ Go(r, "analyze", "idle")
    /\ live' = [live EXCEPT !.analyzed = TRUE]
    /\ extract' = [extract EXCEPT ![r] = NoExtract]
    /\ UNCHANGED <<overlap, new, faults>>

\* The exception of a step that is refused, or any other end of the run.
Stop(r) ==
    /\ pc[r] # "idle"
    /\ IF Accepted(r) THEN Fault ELSE UNCHANGED faults
    /\ pc' = [pc EXCEPT ![r] = "idle"]
    /\ extract' = [extract EXCEPT ![r] = NoExtract]
    /\ UNCHANGED <<overlap, new, live>>

\* Both tables are LOGGED: only the statistics are lost.
PgCrash ==
    /\ PgMayCrash
    /\ Fault
    /\ new' = [new EXCEPT !.analyzed = FALSE]
    /\ live' = [live EXCEPT !.analyzed = FALSE]
    /\ UNCHANGED <<overlap, pc, extract>>

-----------------------------------------------------------------------------

Init ==
    /\ overlap \in BOOLEAN
    /\ pc = [r \in Runners |-> "idle"]
    /\ extract = [r \in Runners |-> NoExtract]
    /\ new = NoTable
    /\ live = NoTable
    /\ faults = 0

Run(r) ==
    \/ \E e \in Extracts : Download(r, e)
    \/ Create(r) \/ Copy(r) \/ Swap(r) \/ Analyze(r) \/ Stop(r)

Next == (\E r \in Runners : Run(r)) \/ PgCrash

Spec == Init /\ [][Next]_vars

\* main() goes on when it can, and the scheduler calls it every month.
FairSpec == Spec /\ \A r \in Runners : WF_vars(Run(r))

-----------------------------------------------------------------------------
(* Properties *)

Steps == {"create", "copy", "swap", "analyze"}

TypeOK ==
    /\ overlap \in BOOLEAN
    /\ pc \in [Runners -> Steps \cup {"idle"}]
    /\ extract \in [Runners -> Extracts \cup {NoExtract}]
    /\ new \in Table
    /\ live \in Table
    /\ faults \in 0..MaxFaults

\* Whatever overlaps, the lookup is never half of an extract nor a mixture of
\* two: what an overlapping run can do to it at worst is to leave it empty.
\* The primary key carries this, as any two extracts have a settlement in common.
NeverHalf ==
    live.rows # {} => \E e \in Extracts : Sound(e) /\ live.rows = Settlements(e)

\* The address import never finds the lookup missing once it has been there.
LiveStays == [][live.exists => live'.exists]_vars

\* Every settlement an extract names.
Named(e) == {e[u].code : u \in SettlementUnits(e)}

\* As long as runs do not overlap, what is served is the whole of one sound
\* extract, through failures and server crashes: every settlement of it is
\* there, also those whose chain is broken, and none is without it.
Promise == INSTANCE Dataset WITH
    Publishable <- {Named(e) : e \in {x \in Extracts : Sound(x)}},
    Nothing     <- NoExtract,
    served      <- IF live.exists /\ ~overlap THEN CodesIn(live.rows) ELSE NoExtract

KeepsPromise == Promise!Spec

\* Finitely many faults, whatever they leave behind, never stop imports that do
\* not overlap.
Recovers == overlap \/ []<><<\E r \in Runners : Swap(r)>>_vars

-----------------------------------------------------------------------------
(* Inductive invariants *)

\* The rows of a table are one sound extract's, or none.
OneExtract(rows) == rows # {} => \E e \in Extracts : Sound(e) /\ rows = Settlements(e)

\* A run that gets as far as COPY has counted its settlements, and PostgreSQL
\* lets it copy into an empty table only.
HalfInv ==
    /\ \A r \in Runners : pc[r] \in {"create", "copy"} => extract[r] \in Extracts
    /\ \A r \in Runners : pc[r] = "copy" =>
         Cardinality(Settlements(extract[r])) >= MinSettlements
    /\ OneExtract(new.rows)
    /\ NeverHalf

OneAtWork == \A r, s \in Runners : pc[r] # "idle" /\ pc[s] # "idle" => r = s

\* Without overlap, the table a run swaps in is the one it has filled.
WholeInv == ~overlap =>
    /\ OneAtWork
    /\ \A r \in Runners : pc[r] = "swap" =>
         \E e \in Extracts : Sound(e) /\ new.rows = Settlements(e)
    /\ live.exists => \E e \in Extracts : Sound(e) /\ CodesIn(live.rows) = Named(e)

=============================================================================
