------------------------------ MODULE HrImport -------------------------------
(***************************************************************************)
(* The Croatian address importer, importer/import_hr_addresses.py, working *)
(* against the shared PostgreSQL catalog.                                  *)
(*                                                                         *)
(* A runner is whatever calls main(): the scheduler of the importer        *)
(* container, or an operator's manual run beside it.  main() goes through  *)
(* a fixed list of steps; every step opens a connection of its own and is  *)
(* one transaction, so it is one action here, and everything may happen    *)
(* between two steps: another runner's step, a database crash, a rebuild   *)
(* of the administrative units.                                            *)
(*                                                                         *)
(* Data.  A package is the sequence of its addresses in the order of       *)
(* Addresses.gml.  An address that has an identifier is that identifier:   *)
(* the same one twice is "two features, the same house, every field        *)
(* alike".  The others are told apart, though inspire_id is NULL in the    *)
(* rows of all of them.  A row is its ogc_fid and its address; a table     *)
(* keeps, besides its rows, which later steps have been applied to it.     *)
(***************************************************************************)
EXTENDS Naturals, Sequences, FiniteSets

CONSTANTS
    Runners,        \* processes that may run main()
    Ids,            \* addresses that have an identifier (inspire_id)
    Nameless,       \* addresses the package gives none
    Packages,       \* what the publisher may serve
    NoPackage,      \* nothing downloaded
    MinRows,        \* MIN_EXPECTED_ROWS
    MaxUnits,       \* bound: rebuilds of the administrative units
    MaxFaults,      \* bound: failures of the outside world
    Overlap,        \* may two runners be at work at once?
    CrashSteps      \* the steps before which the database server may crash

Addresses == Ids \cup Nameless

ASSUME HrAssumption ==
    /\ Ids \cap Nameless = {}
    /\ Packages \subseteq Seq(Addresses)
    /\ NoPackage \notin Packages
    /\ MinRows \in Nat \ {0}
    /\ {MaxUnits, MaxFaults} \subseteq Nat
    /\ Overlap \in BOOLEAN

VARIABLES
    pc,         \* the step each runner is about to take
    package,    \* the archive each runner holds in its workspace
    new,        \* the working table hr_addresses_new
    live,       \* the table hr_addresses the API reads
    units,      \* generation of hr_admin_units, 0 while there is no such table
    faults      \* failures the outside world has caused so far

vars == <<pc, package, new, live, units, faults>>

-----------------------------------------------------------------------------
(* Tables *)

Row == [fid : Nat, address : Addresses]

Table == [exists   : BOOLEAN,
          rows     : SUBSET Row,
          lastFid  : Nat,           \* last value of the ogc_fid sequence
          logged   : BOOLEAN,
          derived  : BOOLEAN,       \* geometry, geometry_htrs96, formatted_address
          columns  : BOOLEAN,       \* zupanija and jls
          answers  : SUBSET Nat,    \* the generations of units in them, 0 for NULL
          indexed  : BOOLEAN,
          analyzed : {"never", "done", "lost"}]     \* what /meta reports

NoTable == [exists |-> FALSE, rows |-> {}, lastFid |-> 0, logged |-> FALSE,
            derived |-> FALSE, columns |-> FALSE, answers |-> {},
            indexed |-> FALSE, analyzed |-> "never"]

FreshTable == [NoTable EXCEPT !.exists = TRUE]

\* The unique index ignores NULLs, as PostgreSQL's does.
Unique(rows) == \A a, b \in rows : a.address = b.address /\ a.address \in Ids => a = b

AddressesIn(rows) == {row.address : row \in rows}

\* The rows COPY adds for a package: ogc_fid goes on where the sequence stands.
Copied(p, last) == {[fid |-> last + i, address |-> p[i]] : i \in DOMAIN p}

\* PARTITION BY puts the rows without an identifier into one partition, as NULLs
\* are not distinct to it.
SamePartition(a, b) == a.address = b.address \/ {a.address, b.address} \subseteq Nameless

\* Mutant: every copy of a repeated identifier is deleted.
OnlyUnrepeated(rows) == {a \in rows : \A b \in rows : SamePartition(a, b) => a = b}

\* row_number() OVER (PARTITION BY inspire_id ORDER BY ogc_fid) = 1
FirstOfEachId(rows) == {a \in rows : \A b \in rows : SamePartition(a, b) => a.fid <= b.fid}

\* An UNLOGGED table comes back empty from a crash; the statistics of all
\* tables are lost with it.
AfterCrash(table) ==
    LET statistics == IF table.analyzed = "never" THEN "never" ELSE "lost" IN
    IF table.logged
      THEN [table EXCEPT !.analyzed = statistics]
      ELSE [table EXCEPT !.rows = {}, !.lastFid = 0, !.analyzed = statistics]

-----------------------------------------------------------------------------
(* The steps of main() *)

OnWorkingTable == {"store", "drop_duplicates", "validate_import",
                   "add_derived_columns", "add_unit_columns", "fill_units",
                   "make_logged", "create_indexes", "analyze", "atomic_swap"}

Steps == OnWorkingTable \cup {"prepare_workspace", "has_table"}

\* The rows have been counted and are not yet durable.
AtRisk == {"add_derived_columns", "add_unit_columns", "has_table", "fill_units",
           "make_logged"}

\* Mutants: a step accepted although its statement has to be refused.
AcceptedUnvalidated(r) ==
    /\ pc[r] \in OnWorkingTable => new.exists
    /\ pc[r] = "add_derived_columns" => ~new.derived
    /\ pc[r] = "add_unit_columns" => ~new.columns
    /\ pc[r] = "fill_units" => new.columns /\ units > 0
    /\ pc[r] = "create_indexes" => new.derived /\ ~new.indexed /\ Unique(new.rows)
    /\ pc[r] = "atomic_swap" => new.indexed
AcceptedNotUnique(r) ==
    /\ pc[r] \in OnWorkingTable => new.exists
    /\ pc[r] = "validate_import" => Cardinality(new.rows) >= MinRows
    /\ pc[r] = "add_derived_columns" => ~new.derived
    /\ pc[r] = "add_unit_columns" => ~new.columns
    /\ pc[r] = "fill_units" => new.columns /\ units > 0
    /\ pc[r] = "create_indexes" => new.derived /\ ~new.indexed
    /\ pc[r] = "atomic_swap" => new.indexed

\* The swap renames the indexes IF EXISTS.
AcceptedUnindexed(r) ==
    /\ pc[r] \in OnWorkingTable => new.exists
    /\ pc[r] = "store" /\ new.indexed =>
         Unique(new.rows \cup Copied(package[r], new.lastFid))
    /\ pc[r] = "validate_import" => Cardinality(new.rows) >= MinRows
    /\ pc[r] = "add_derived_columns" => ~new.derived
    /\ pc[r] = "add_unit_columns" => ~new.columns
    /\ pc[r] = "fill_units" => new.columns /\ units > 0
    /\ pc[r] = "create_indexes" => new.derived /\ ~new.indexed /\ Unique(new.rows)

\* Whether the step a runner has come to goes through on the catalog as it
\* is; a statement PostgreSQL refuses, and a failed validation, raise.
Accepted(r) ==
    /\ pc[r] \in OnWorkingTable => new.exists
    /\ pc[r] = "store" /\ new.indexed =>
         Unique(new.rows \cup Copied(package[r], new.lastFid))
    /\ pc[r] = "validate_import" => Cardinality(new.rows) >= MinRows
    /\ pc[r] = "add_derived_columns" => ~new.derived
    /\ pc[r] = "add_unit_columns" => ~new.columns
    /\ pc[r] = "fill_units" => new.columns /\ units > 0
    /\ pc[r] = "create_indexes" => new.derived /\ ~new.indexed /\ Unique(new.rows)
    /\ pc[r] = "atomic_swap" => new.indexed

Go(r, from, to) ==
    /\ pc[r] = from
    /\ Accepted(r)
    /\ pc' = [pc EXCEPT ![r] = to]

\* All addresses of a package.
Content(p) == {p[i] : i \in DOMAIN p}

\* Those drop_duplicates keeps: one of those without an identifier, the first.
Kept(p) == {p[i] : i \in {j \in DOMAIN p : p[j] \in Ids \/ \A k \in 1..j - 1 : p[k] \in Ids}}

\* Fit to be served: enough addresses kept to pass validate_import.
Good(p) == Cardinality(Kept(p)) >= MinRows

Fault == faults < MaxFaults /\ faults' = faults + 1

\* main() begins: extensions, download, and the three lookup files read.
\* A publisher serving a package that is too small is a fault of its own.
Download(r, p) ==
    /\ pc[r] = "idle"
    /\ Overlap \/ \A other \in Runners : pc[other] = "idle"
    /\ IF Good(p) THEN UNCHANGED faults ELSE Fault
    /\ pc' = [pc EXCEPT ![r] = "prepare_workspace"]
    /\ package' = [package EXCEPT ![r] = p]
    /\ UNCHANGED <<new, live, units>>

\* Mutant: the steps that write outside the block of the workspace directory,
\* which has gone with the archive.
PrepareAfterWorkspace(r) ==
    /\ Go(r, "prepare_workspace", "store")
    /\ new' = FreshTable
    /\ package' = [package EXCEPT ![r] = NoPackage]
    /\ UNCHANGED <<live, units, faults>>

\* Mutant: CREATE TABLE IF NOT EXISTS, the leftover of a failed run kept.
PrepareIfNotExists(r) ==
    /\ Go(r, "prepare_workspace", "store")
    /\ new' = [new EXCEPT !.exists = TRUE]
    /\ UNCHANGED <<package, live, units, faults>>

PrepareWorkspace(r) ==
    /\ Go(r, "prepare_workspace", "store")
    /\ new' = FreshTable
    /\ UNCHANGED <<package, live, units, faults>>

\* One COPY in one transaction; rows copied after zupanija and jls were added
\* have NULL in them.  The workspace directory goes when the block ends.
Store(r) ==
    /\ Go(r, "store", "drop_duplicates")
    /\ new' = [new EXCEPT
                !.rows    = @ \cup Copied(package[r], new.lastFid),
                !.lastFid = @ + Len(package[r]),
                !.answers = IF new.columns THEN @ \cup {0} ELSE @]
    /\ package' = [package EXCEPT ![r] = NoPackage]
    /\ UNCHANGED <<live, units, faults>>

DropDuplicates(r) ==
    /\ Go(r, "drop_duplicates", "validate_import")
    /\ new' = [new EXCEPT !.rows = FirstOfEachId(@)]
    /\ UNCHANGED <<package, live, units, faults>>

\* Reads the row count and lets the run go on; too few rows make it raise.
ValidateImport(r) ==
    /\ Go(r, "validate_import", "add_derived_columns")
    /\ UNCHANGED <<package, new, live, units, faults>>

AddDerivedColumns(r) ==
    /\ Go(r, "add_derived_columns", "add_unit_columns")
    /\ new' = [new EXCEPT !.derived = TRUE]
    /\ UNCHANGED <<package, live, units, faults>>

\* Mutant: the columns added only when the lookup is there.
ColumnsWithLookup(r) ==
    /\ Go(r, "add_unit_columns", IF units > 0 THEN "has_table" ELSE "make_logged")
    /\ new' = IF units > 0 THEN [new EXCEPT !.columns = TRUE, !.answers = {0}] ELSE new
    /\ UNCHANGED <<package, live, units, faults>>

\* add_administrative_units is three connections: ALTER TABLE, has_table and
\* UPDATE; the answer of has_table is acted on in the next one.
AddUnitColumns(r) ==
    /\ Go(r, "add_unit_columns", "has_table")
    /\ new' = [new EXCEPT !.columns = TRUE, !.answers = {0}]
    /\ UNCHANGED <<package, live, units, faults>>

HasTable(r) ==
    /\ Go(r, "has_table", IF units > 0 THEN "fill_units" ELSE "make_logged")
    /\ UNCHANGED <<package, new, live, units, faults>>

\* Every row there is joined to the lookup of this moment.
FillUnits(r) ==
    /\ Go(r, "fill_units", "make_logged")
    /\ new' = [new EXCEPT !.answers = {units}]
    /\ UNCHANGED <<package, live, units, faults>>

\* Mutant: SET LOGGED forgotten.
LeaveUnlogged(r) ==
    /\ Go(r, "make_logged", "create_indexes")
    /\ UNCHANGED <<package, new, live, units, faults>>

MakeLogged(r) ==
    /\ Go(r, "make_logged", "create_indexes")
    /\ new' = [new EXCEPT !.logged = TRUE]
    /\ UNCHANGED <<package, live, units, faults>>

CreateIndexes(r) ==
    /\ Go(r, "create_indexes", "analyze")
    /\ new' = [new EXCEPT !.indexed = TRUE]
    /\ UNCHANGED <<package, live, units, faults>>

Analyze(r) ==
    /\ Go(r, "analyze", "atomic_swap")
    /\ new' = [new EXCEPT !.analyzed = "done"]
    /\ UNCHANGED <<package, live, units, faults>>

\* Mutant: no transaction around the swap; the DROP stands when the RENAME fails.
SwapInPieces(r) ==
    /\ pc[r] = "atomic_swap"
    /\ pc' = [pc EXCEPT ![r] = "idle"]
    /\ live' = new
    /\ new' = NoTable
    /\ UNCHANGED <<package, units, faults>>

\* DROP the live table, RENAME the working one and its indexes, all or none.
AtomicSwap(r) ==
    /\ Go(r, "atomic_swap", "idle")
    /\ live' = new
    /\ new' = NoTable
    /\ UNCHANGED <<package, units, faults>>

\* The run stops where it is: run_all logs the exception, a manual run exits.
\* The transaction that failed leaves nothing behind, those before it do.
Stop(r) ==
    /\ pc' = [pc EXCEPT ![r] = "idle"]
    /\ package' = [package EXCEPT ![r] = NoPackage]
    /\ UNCHANGED <<new, live, units>>

Raise(r) ==
    /\ pc[r] # "idle"
    /\ ~Accepted(r)
    /\ Stop(r)
    /\ UNCHANGED faults

\* Anything else that ends a run: a lost connection, a full disk, a bad
\* member of the archive, the container being stopped.
Fail(r) ==
    /\ pc[r] # "idle"
    /\ Fault
    /\ Stop(r)

\* importer/import_hr_admin_units.py swaps in another generation of the lookup.
RebuildUnits ==
    /\ units < MaxUnits
    /\ units' = units + 1
    /\ UNCHANGED <<pc, package, new, live, faults>>

\* The server crashes and recovers between two connections of the runs.  A run
\* that is connected, or connects too early, takes Fail as well.
PgCrash ==
    /\ \A r \in Runners : pc[r] \in CrashSteps
    /\ Fault
    /\ new' = AfterCrash(new)
    /\ live' = AfterCrash(live)
    /\ UNCHANGED <<pc, package, units>>

-----------------------------------------------------------------------------

Init ==
    /\ pc = [r \in Runners |-> "idle"]
    /\ package = [r \in Runners |-> NoPackage]
    /\ new = NoTable
    /\ live = NoTable
    /\ units = 0
    /\ faults = 0

\* What a runner does of its own accord.
Run(r) ==
    \/ \E p \in Packages : Download(r, p)
    \/ PrepareWorkspace(r) \/ Store(r) \/ DropDuplicates(r) \/ ValidateImport(r)
    \/ AddDerivedColumns(r) \/ AddUnitColumns(r) \/ HasTable(r) \/ FillUnits(r)
    \/ MakeLogged(r) \/ CreateIndexes(r) \/ Analyze(r) \/ AtomicSwap(r)
    \/ Raise(r)

Next ==
    \/ \E r \in Runners : Run(r) \/ Fail(r)
    \/ RebuildUnits
    \/ PgCrash

Spec == Init /\ [][Next]_vars

\* main() has no wait of its own and the scheduler calls it every month: a
\* runner that can go on does.  Faults and rebuilds owe nobody anything.
FairSpec == Spec /\ \A r \in Runners : WF_vars(Run(r))

-----------------------------------------------------------------------------
(* Properties *)

\* A run has the archive it downloaded until store has read it, whatever other runs
\* do: the workspace directory is each run's own.
PackageHeld == \A r \in Runners :
    pc[r] \in {"prepare_workspace", "store"} => package[r] \in Packages

\* The type invariant, with PackageHeld, as store could not be typed without it.
TypeOK ==
    /\ pc \in [Runners -> Steps \cup {"idle"}]
    /\ package \in [Runners -> Packages \cup {NoPackage}]
    /\ new \in Table
    /\ live \in Table
    /\ units \in 0..MaxUnits
    /\ faults \in 0..MaxFaults
    /\ PackageHeld

\* No address identifier is in the live table twice, so a lookup by id has one
\* answer.  It holds whatever runs overlap and wherever the server crashes:
\* the unique index, which the swap insists on, carries it.
LiveUnique == Unique(live.rows)

\* The live table always has its indexes and the columns they are built on,
\* which the API's reverse and search statements name: the swap renames the
\* indexes and fails as a whole when another run took them away.
LiveSearchable == live.exists => live.derived /\ live.indexed

\* Without overlapping runs, and through server crashes, the live table is
\* durable, has the columns the API selects by name, and all its addresses
\* answer with the units of one generation of the lookup; it was analyzed, so
\* /meta has no refresh time for it only if a crash took the statistics.
LiveReady ==
    live.exists =>
      /\ live.logged
      /\ live.columns
      /\ Cardinality(live.answers) = 1
      /\ live.analyzed # "never"

\* validate_import: "Sanity-check the import before we let it replace the
\* live table": a table with too few rows is never served.  It holds as long as
\* runs do not overlap and no crash comes while the counted rows are AtRisk.
LiveValidated == live.exists => Cardinality(live.rows) >= MinRows

\* The API never finds the live table missing once it has been there.
LiveStays == [][live.exists => live'.exists]_vars

\* What is served is what drop_duplicates keeps of one published package, all of
\* it: no address that has an identifier is lost to a repetition, a failed step or
\* a crash, and it is replaced in one step.  Of the addresses without identifier
\* one is served: see NoAddressLost.  The conditions are those of
\* LiveValidated.
Promise == INSTANCE Dataset WITH
    Publishable <- {Kept(p) : p \in {q \in Packages : Good(q)}},
    Nothing     <- NoPackage,
    served      <- IF live.exists THEN AddressesIn(live.rows) ELSE NoPackage

KeepsPromise == Promise!Spec

\* read_addresses: "Anything the package leaves out [...] is left empty rather than
\* dropping the address": every address of the package is served.  It holds only as
\* long as no package has two addresses without identifier.
NoAddressLost ==
    live.exists => \E p \in Packages : AddressesIn(live.rows) = Content(p)

\* Finitely many faults, whatever they leave in the catalog, never stop the
\* imports for good: there is always another publication to come.
Recovers == []<><<\E r \in Runners : AtomicSwap(r)>>_vars

-----------------------------------------------------------------------------
(* Inductive invariants *)

\* Indexes are only there on a table that could be indexed, and stay true of it
\* until it is swapped in.
IndexInv ==
    /\ new.indexed => new.derived /\ Unique(new.rows)
    /\ LiveSearchable
    /\ LiveUnique

\* The steps that come after add_unit_columns, and after make_logged.
WithColumns == {"has_table", "fill_units", "make_logged", "create_indexes",
                "analyze", "atomic_swap"}

Logged == {"create_indexes", "analyze", "atomic_swap"}

Validated == {"add_derived_columns", "add_unit_columns"} \cup WithColumns

OneAtWork == \A r, s \in Runners : pc[r] # "idle" /\ pc[s] # "idle" => r = s

\* Without overlap, what a run has done to the working table is still so.
ReadyInv ==
    /\ OneAtWork
    /\ \A r \in Runners :
         /\ pc[r] \in WithColumns => new.columns /\ \E u \in 0..MaxUnits : new.answers = {u}
         /\ pc[r] \in Logged => new.logged
         /\ pc[r] = "atomic_swap" => new.analyzed # "never"
    /\ LiveReady

\* Nor has a crash undone what validate_import counted.
ValidInv ==
    /\ OneAtWork
    /\ \A r \in Runners : pc[r] \in Validated => Cardinality(new.rows) >= MinRows
    /\ LiveValidated

\* And what the working table holds is still the package it was filled from,
\* or nothing, which validate_import is still to find out.
OnePerId(rows) == \A x, y \in rows : x.address = y.address => x = y

Holds(rows, p) == AddressesIn(rows) = Kept(p) /\ OnePerId(rows)

WholeInv ==
    /\ \A r \in Runners :
         /\ pc[r] = "store" => new.rows = {} /\ new.lastFid = 0
         /\ pc[r] = "drop_duplicates" =>
              new.rows = {} \/ \E p \in Packages : new.rows = Copied(p, 0)
         /\ pc[r] = "validate_import" =>
              new.rows = {} \/ \E p \in Packages : Holds(new.rows, p)
         /\ pc[r] \in Validated => \E p \in Packages : Holds(new.rows, p)
    /\ live.exists => \E p \in Packages : Good(p) /\ AddressesIn(live.rows) = Kept(p)

=============================================================================
