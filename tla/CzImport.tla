------------------------------ MODULE CzImport -------------------------------
(***************************************************************************)
(* The Czech address importer, importer/import_cz_csv.py: the search for a *)
(* published RUIAN dump, the parallel COPY of its files by worker          *)
(* processes, and the statements that turn the staging table into the live *)
(* one.  Every action outside the workers is a connection of its own and   *)
(* one transaction; every worker copies one file in one transaction.       *)
(*                                                                         *)
(* Data.  A month is a number.  A dump is the set of its CSV files and a   *)
(* file stands for the rows in it that have coordinates; kod_adm, the      *)
(* primary key, is looked up by file.  A row remembers the dump and the    *)
(* run it came from.                                                       *)
(***************************************************************************)
EXTENDS Naturals, FiniteSets

CONSTANTS
    Runners,        \* processes that may run main()
    Files,          \* CSV files of all dumps
    Kod,            \* Kod[f]: the kod_adm in file f
    Dump,           \* Dump[m]: the files of month m's dump
    NoDump,         \* nothing extracted into the temporary directory
    MaxMonth,       \* bound: the last month there is
    MaxFallback,    \* MAX_MONTHS_FALLBACK
    MaxWorkers,     \* MAX_WORKERS
    MaxFaults,      \* bound: failures of the outside world
    NetMayFail,     \* may a request fail for a reason other than "not there"?
    Overlap,        \* may two runners be at work at once?
    CrashSteps      \* the steps before which the database server may crash

Months == 1..MaxMonth

ASSUME CzAssumption ==
    /\ {MaxMonth, MaxFallback, MaxWorkers, MaxFaults} \subseteq Nat \ {0}
    /\ DOMAIN Kod = Files
    /\ Dump \in [Months -> SUBSET Files]
    /\ NoDump \notin Months
    /\ IsFiniteSet(Files)
    /\ {NetMayFail, Overlap} \subseteq BOOLEAN

VARIABLES
    month,      \* the current month
    published,  \* the months whose dumps are on the server
    pc,         \* what main() is about to do
    started,    \* the month datetime.now() gave when the download began
    tries,      \* candidate months given up so far
    dump,       \* the dump extracted into the temporary directory
    copy,       \* the state of each file's future
    staging,    \* cz_addresses_staging
    new,        \* cz_addresses_new
    live,       \* cz_addresses, the table the API reads
    faults      \* failures the outside world has caused so far

calendar == <<month, published>>
search   == <<started, tries>>
tables   == <<staging, new, live>>
vars     == <<calendar, pc, search, dump, copy, tables, faults>>

-----------------------------------------------------------------------------
(* Tables *)

Row == [file : Files, month : Months, by : Runners]

Staging == [exists : BOOLEAN, rows : SUBSET Row]

NoStaging    == [exists |-> FALSE, rows |-> {}]
EmptyStaging == [exists |-> TRUE,  rows |-> {}]

Table == [exists : BOOLEAN, rows : SUBSET Row, indexed : BOOLEAN, analyzed : BOOLEAN]

NoTable == [exists |-> FALSE, rows |-> {}, indexed |-> FALSE, analyzed |-> FALSE]

\* No two rows with the same kod_adm.
Unique(rows) == \A a, b \in rows : Kod[a.file] = Kod[b.file] => a = b

-----------------------------------------------------------------------------
(* Futures of the process pool *)

FutureStates == {"none", "pending", "copying", "done", "failed"}

InState(r, state) == {f \in Files : copy[r][f] = state}

Unfinished(r) == InState(r, "pending") \cup InState(r, "copying")

NoFutures == [f \in Files |-> "none"]

-----------------------------------------------------------------------------
(* The steps of main() *)

Statements == {"prepare_staging", "submit", "materialize_new_table",
               "create_indexes_on_new", "analyze_new", "atomic_swap"}

Steps == Statements \cup {"download", "gather", "shutdown", "cleanup"}

\* Files have been copied into the UNLOGGED table and nobody counts the rows.
AtRisk == {"gather", "materialize_new_table"}

\* Mutant: no primary key.
AcceptedWithoutKey(r) ==
    /\ pc[r] = "submit" => Dump[dump[r]] # {}
    /\ pc[r] = "materialize_new_table" => staging.exists /\ ~new.exists
    /\ pc[r] = "create_indexes_on_new" => new.exists /\ ~new.indexed
    /\ pc[r] = "analyze_new" => new.exists
    /\ pc[r] = "atomic_swap" => new.exists /\ new.indexed

\* Whether the step a runner has come to goes through on the catalog as it
\* is; a statement PostgreSQL refuses, and a dump with no files, raise.
Accepted(r) ==
    /\ pc[r] = "submit" => Dump[dump[r]] # {}
    /\ pc[r] = "materialize_new_table" =>
         staging.exists /\ ~new.exists /\ Unique(staging.rows)
    /\ pc[r] = "create_indexes_on_new" => new.exists /\ ~new.indexed
    /\ pc[r] = "analyze_new" => new.exists
    /\ pc[r] = "atomic_swap" => new.exists /\ new.indexed

Go(r, from, to) ==
    /\ pc[r] = from
    /\ Accepted(r)
    /\ pc' = [pc EXCEPT ![r] = to]

Fault == faults < MaxFaults /\ faults' = faults + 1

Begin(r) ==
    /\ pc[r] = "idle"
    /\ Overlap \/ \A other \in Runners : pc[other] = "idle"
    /\ pc' = [pc EXCEPT ![r] = "download"]
    /\ started' = [started EXCEPT ![r] = month]
    /\ UNCHANGED <<calendar, tries, dump, copy, tables, faults>>

\* Mutant: the oldest month first.
OldestCandidate(r) ==
    IF started[r] + tries[r] > MaxFallback THEN started[r] + tries[r] - MaxFallback ELSE 0

\* The month whose dump is asked for: the one before the start, then further
\* back.  Zero and below stand for the months nobody published.
Candidate(r) == IF started[r] > tries[r] + 1 THEN started[r] - tries[r] - 1 ELSE 0

Found(r) ==
    /\ Go(r, "download", "prepare_staging")
    /\ Candidate(r) \in published
    /\ dump' = [dump EXCEPT ![r] = Candidate(r)]
    /\ started' = [started EXCEPT ![r] = 0]
    /\ tries' = [tries EXCEPT ![r] = 0]
    /\ UNCHANGED <<calendar, copy, tables, faults>>

\* Mutant: one month too many.
FallBackOnceMore(r) ==
    /\ pc[r] = "download"
    /\ IF Candidate(r) \in published THEN NetMayFail /\ Fault ELSE UNCHANGED faults
    /\ IF tries[r] < MaxFallback
         THEN /\ tries' = [tries EXCEPT ![r] = @ + 1]
              /\ UNCHANGED <<pc, started>>
         ELSE /\ pc' = [pc EXCEPT ![r] = "cleanup"]
              /\ started' = [started EXCEPT ![r] = 0]
              /\ tries' = [tries EXCEPT ![r] = 0]
    /\ UNCHANGED <<calendar, dump, copy, tables>>

\* except requests.RequestException: a dump that is not there and a request
\* that timed out are told apart by nothing; both fall back to an older month.
FallBack(r) ==
    /\ pc[r] = "download"
    /\ IF Candidate(r) \in published THEN NetMayFail /\ Fault ELSE UNCHANGED faults
    /\ IF tries[r] + 1 < MaxFallback
         THEN /\ tries' = [tries EXCEPT ![r] = @ + 1]
              /\ UNCHANGED <<pc, started>>
         ELSE /\ pc' = [pc EXCEPT ![r] = "cleanup"]
              /\ started' = [started EXCEPT ![r] = 0]
              /\ tries' = [tries EXCEPT ![r] = 0]
    /\ UNCHANGED <<calendar, dump, copy, tables>>

\* Mutant: the leftover cz_addresses_new of a failed run is not dropped.
KeepNew(r) ==
    /\ Go(r, "prepare_staging", "submit")
    /\ staging' = EmptyStaging
    /\ UNCHANGED <<calendar, search, dump, copy, new, live, faults>>

PrepareStaging(r) ==
    /\ Go(r, "prepare_staging", "submit")
    /\ staging' = EmptyStaging
    /\ new' = NoTable
    /\ UNCHANGED <<calendar, search, dump, copy, live, faults>>

\* import_ruian hands one future per file to the pool ...
Submit(r) ==
    /\ Go(r, "submit", "gather")
    /\ copy' = [copy EXCEPT ![r] =
                  [f \in Files |-> IF f \in Dump[dump[r]] THEN "pending" ELSE "none"]]
    /\ UNCHANGED <<calendar, search, dump, tables, faults>>

\* Mutant: a failed file is logged and left out.
GatheredAnyhow(r) ==
    /\ Go(r, "gather", "materialize_new_table")
    /\ Unfinished(r) = {}
    /\ copy' = [copy EXCEPT ![r] = NoFutures]
    /\ UNCHANGED <<calendar, search, dump, tables, faults>>

\* ... and takes their results as they complete.  The first one that failed
\* raises, and leaving the with block waits for all the others.
Gathered(r) ==
    /\ Go(r, "gather", "materialize_new_table")
    /\ Unfinished(r) \cup InState(r, "failed") = {}
    /\ copy' = [copy EXCEPT ![r] = NoFutures]
    /\ UNCHANGED <<calendar, search, dump, tables, faults>>

SeeFailure(r) ==
    /\ Go(r, "gather", "shutdown")
    /\ InState(r, "failed") # {}
    /\ UNCHANGED <<calendar, search, dump, copy, tables, faults>>

\* Mutant: shutdown(wait=False).
ShutDownAtOnce(r) ==
    /\ Go(r, "shutdown", "cleanup")
    /\ UNCHANGED <<calendar, search, dump, copy, tables, faults>>

ShutDown(r) ==
    /\ Go(r, "shutdown", "cleanup")
    /\ Unfinished(r) = {}
    /\ copy' = [copy EXCEPT ![r] = NoFutures]
    /\ UNCHANGED <<calendar, search, dump, tables, faults>>

\* One transaction: SELECT from staging, add the primary key, DROP staging.
\* The DROP waits for other runs' COPYs that are under way; what those commit
\* after the SELECT is dropped with the table.
MaterializeNewTable(r) ==
    /\ Go(r, "materialize_new_table", "create_indexes_on_new")
    /\ new' = [NoTable EXCEPT !.exists = TRUE, !.rows = staging.rows]
    /\ staging' = NoStaging
    /\ \E late \in [Runners -> SUBSET Files] :
         /\ \A s \in Runners : late[s] \subseteq InState(s, "copying")
         /\ copy' = [s \in Runners |-> [f \in Files |->
                       IF f \in late[s] THEN "done" ELSE copy[s][f]]]
    /\ UNCHANGED <<calendar, search, dump, live, faults>>

CreateIndexesOnNew(r) ==
    /\ Go(r, "create_indexes_on_new", "analyze_new")
    /\ new' = [new EXCEPT !.indexed = TRUE]
    /\ UNCHANGED <<calendar, search, dump, copy, staging, live, faults>>

AnalyzeNew(r) ==
    /\ Go(r, "analyze_new", "atomic_swap")
    /\ new' = [new EXCEPT !.analyzed = TRUE]
    /\ UNCHANGED <<calendar, search, dump, copy, staging, live, faults>>

\* Mutant: no transaction around the swap; the DROP stands when the RENAME fails.
SwapInPieces(r) ==
    /\ pc[r] = "atomic_swap"
    /\ pc' = [pc EXCEPT ![r] = "cleanup"]
    /\ live' = new
    /\ new' = NoTable
    /\ UNCHANGED <<calendar, search, dump, copy, staging, faults>>

AtomicSwap(r) ==
    /\ Go(r, "atomic_swap", "cleanup")
    /\ live' = new
    /\ new' = NoTable
    /\ UNCHANGED <<calendar, search, dump, copy, staging, faults>>

\* finally: the temporary directory goes whatever happened.
CleanUp(r) ==
    /\ Go(r, "cleanup", "idle")
    /\ dump' = [dump EXCEPT ![r] = NoDump]
    /\ UNCHANGED <<calendar, search, copy, tables, faults>>

\* An exception in main itself: a download that breaks off or does not unpack,
\* or a statement, whose transaction is then rolled back.
Raise(r) ==
    /\ pc[r] \in Statements \cup {"download"}
    /\ IF Accepted(r) THEN Fault ELSE UNCHANGED faults
    /\ pc' = [pc EXCEPT ![r] = "cleanup"]
    /\ started' = [started EXCEPT ![r] = 0]
    /\ tries' = [tries EXCEPT ![r] = 0]
    /\ UNCHANGED <<calendar, dump, copy, tables>>

\* The container is stopped: main and its workers are gone at once, what they
\* had not committed is rolled back, and no finally block runs.
Kill(r) ==
    /\ pc[r] # "idle"
    /\ Fault
    /\ pc' = [pc EXCEPT ![r] = "idle"]
    /\ started' = [started EXCEPT ![r] = 0]
    /\ tries' = [tries EXCEPT ![r] = 0]
    /\ dump' = [dump EXCEPT ![r] = NoDump]
    /\ copy' = [copy EXCEPT ![r] = NoFutures]
    /\ UNCHANGED <<calendar, tables>>

-----------------------------------------------------------------------------
(* The workers: copy_file_to_staging *)

Settle(r, f, from, to) ==
    /\ copy[r][f] = from
    /\ copy' = [copy EXCEPT ![r][f] = to]

WorkerStart(r, f) ==
    /\ Cardinality(InState(r, "copying")) < MaxWorkers
    /\ Settle(r, f, "pending", "copying")
    /\ UNCHANGED <<calendar, pc, search, dump, tables, faults>>

WorkerCopy(r, f) ==
    /\ Settle(r, f, "copying", "done")
    /\ staging.exists
    /\ dump[r] # NoDump
    /\ staging' = [staging EXCEPT
                    !.rows = @ \cup {[file |-> f, month |-> dump[r], by |-> r]}]
    /\ UNCHANGED <<calendar, pc, search, dump, new, live, faults>>

\* The table or the file is gone, or the copy breaks off.
WorkerFail(r, f) ==
    /\ Settle(r, f, "copying", "failed")
    /\ IF staging.exists /\ dump[r] # NoDump THEN Fault ELSE UNCHANGED faults
    /\ UNCHANGED <<calendar, pc, search, dump, tables>>

\* A worker process dies: the pool is broken and fails every future it has not
\* answered yet.
PoolBreaks(r) ==
    /\ InState(r, "copying") # {}
    /\ Fault
    /\ copy' = [copy EXCEPT ![r] =
                  [f \in Files |-> IF f \in Unfinished(r) THEN "failed" ELSE copy[r][f]]]
    /\ UNCHANGED <<calendar, pc, search, dump, tables>>

-----------------------------------------------------------------------------
(* The world outside *)

MonthPasses ==
    /\ month < MaxMonth
    /\ month' = month + 1
    /\ UNCHANGED <<published, pc, search, dump, copy, tables, faults>>

\* The dump of a month appears some time after the month has ended.
Publish(m) ==
    /\ m < month /\ m \notin published
    /\ published' = published \cup {m}
    /\ UNCHANGED <<month, pc, search, dump, copy, tables, faults>>

\* The staging table is UNLOGGED and comes back empty, and the statistics of
\* the others are lost.  Connections that were open take Raise, WorkerFail.
PgCrash ==
    /\ \A r \in Runners : pc[r] \in CrashSteps
    /\ Fault
    /\ staging' = [staging EXCEPT !.rows = {}]
    /\ new' = [new EXCEPT !.analyzed = FALSE]
    /\ live' = [live EXCEPT !.analyzed = FALSE]
    /\ UNCHANGED <<calendar, pc, search, dump, copy>>

-----------------------------------------------------------------------------

Init ==
    /\ month = 1
    /\ published = {}
    /\ pc = [r \in Runners |-> "idle"]
    /\ started = [r \in Runners |-> 0]
    /\ tries = [r \in Runners |-> 0]
    /\ dump = [r \in Runners |-> NoDump]
    /\ copy = [r \in Runners |-> NoFutures]
    /\ staging = NoStaging
    /\ new = NoTable
    /\ live = NoTable
    /\ faults = 0

Main(r) ==
    \/ Begin(r) \/ Found(r) \/ FallBack(r)
    \/ PrepareStaging(r) \/ Submit(r)
    \/ Gathered(r) \/ SeeFailure(r) \/ ShutDown(r)
    \/ MaterializeNewTable(r) \/ CreateIndexesOnNew(r) \/ AnalyzeNew(r)
    \/ AtomicSwap(r) \/ CleanUp(r) \/ Raise(r)

Worker(r, f) == WorkerStart(r, f) \/ WorkerCopy(r, f) \/ WorkerFail(r, f)

World == MonthPasses \/ (\E m \in Months : Publish(m)) \/ PgCrash

Next ==
    \/ \E r \in Runners : Main(r) \/ Kill(r) \/ PoolBreaks(r)
    \/ \E r \in Runners, f \in Files : Worker(r, f)
    \/ World

Spec == Init /\ [][Next]_vars

\* main and the workers go on when they can, and the scheduler calls main
\* every month.  Faults and publications owe nobody anything.
FairSpec ==
    /\ Spec
    /\ \A r \in Runners : WF_vars(Main(r))
    /\ \A r \in Runners, f \in Files : WF_vars(Worker(r, f))

-----------------------------------------------------------------------------
(* Properties *)

TypeOK ==
    /\ month \in Months
    /\ published \subseteq Months
    /\ pc \in [Runners -> Steps \cup {"idle"}]
    /\ started \in [Runners -> 0..MaxMonth]
    /\ tries \in [Runners -> 0..MaxFallback - 1]
    /\ dump \in [Runners -> Months \cup {NoDump}]
    /\ copy \in [Runners -> [Files -> FutureStates]]
    /\ staging \in Staging
    /\ new \in Table
    /\ live \in Table
    /\ faults \in 0..MaxFaults

\* No worker is left behind by a run that has failed: as long as a file waits
\* to be copied or is being copied, its run is still there and so is the
\* temporary directory the file lies in.
WorkersHaveTheirFiles ==
    \A r \in Runners : Unfinished(r) # {} =>
      /\ pc[r] \in {"gather", "shutdown"}
      /\ dump[r] # NoDump
      /\ Unfinished(r) \subseteq Dump[dump[r]]

\* No kod_adm is in the live table twice: the primary key carries it, whatever
\* overlaps and wherever the server crashes.
LiveUnique == Unique(live.rows)

\* The API never finds the live table missing once it has been there.
LiveStays == [][live.exists => live'.exists]_vars

\* A dump is never replaced by an older one.
NeverOlder == [][\A now \in live.rows, next \in live'.rows : now.month <= next.month]_vars

FilesIn(rows) == {<<row.file, row.month>> : row \in rows}

\* The files a dump puts into the live table.
Whole(m) == {<<f, m>> : f \in Dump[m]}

Sound(m) == Dump[m] # {} /\ \A f, g \in Dump[m] : Kod[f] = Kod[g] => f = g

\* What is served is one month's dump with all its files, no file lost to a
\* worker that failed or to a crash, and none left from another run.  It holds
\* as long as runs do not overlap and no crash comes while copied rows are AtRisk.
Promise == INSTANCE Dataset WITH
    Publishable <- {Whole(m) : m \in {n \in Months : Sound(n)}},
    Nothing     <- NoDump,
    served      <- IF live.exists
                     THEN FilesIn(live.rows)
                     ELSE NoDump

KeepsPromise == Promise!Spec

\* The dump a run that begins now would take, if there is one, is sound.
NewestIsSound ==
    \E m \in published :
      /\ m < month /\ m + MaxFallback >= month
      /\ \A n \in published : n < month => n <= m
      /\ Sound(m)

\* Finitely many faults, whatever they leave behind, never stop the imports
\* for good: as long as there is a sound dump to take, another swap comes.
Recovers ==
    <>[]NewestIsSound => []<><<\E r \in Runners : AtomicSwap(r)>>_vars

-----------------------------------------------------------------------------
(* Inductive invariants *)

OnStaging == {"submit", "gather", "shutdown", "materialize_new_table"}
OnNew == {"create_indexes_on_new", "analyze_new", "atomic_swap"}
AfterDownload == {"prepare_staging"} \cup OnStaging \cup OnNew

\* Futures live between submit and the end of the with block, in which the
\* extracted dump is there.
FilesInv == \A r \in Runners :
    /\ pc[r] \in AfterDownload => dump[r] \in published
    /\ \A f \in Files : copy[r][f] # "none" =>
         pc[r] \in {"gather", "shutdown"} /\ f \in Dump[dump[r]]

\* The primary key is there before a table can be swapped in.
KeyInv == Unique(new.rows) /\ LiveUnique

OneAtWork == \A r, s \in Runners : pc[r] # "idle" /\ pc[s] # "idle" => r = s

\* Without overlap and failed requests, a search that has come down to the live
\* dump's month finds it, so it never goes below.
OrderInv ==
    /\ OneAtWork
    /\ \A row, other \in live.rows : row.month = other.month
    /\ \A row \in live.rows : row.month \in published /\ row.month < month
    /\ \A r \in Runners :
         /\ pc[r] # "download" => tries[r] = 0
         /\ pc[r] = "download" => /\ started[r] <= month
                                  /\ \A row \in live.rows : row.month + tries[r] < started[r]
         /\ pc[r] \in AfterDownload => /\ dump[r] < month
                                       /\ \A row \in live.rows : row.month <= dump[r]
         /\ pc[r] \in OnStaging => \A row \in staging.rows : row.month = dump[r]
         /\ pc[r] \in OnNew => \A row \in new.rows : row.month = dump[r]

RowsOf(r, files) == {[file |-> f, month |-> dump[r], by |-> r] : f \in files}

\* Without overlap and crashes that come AtRisk, staging holds what the workers
\* have finished, and the new table all of it.
WholeInv ==
    /\ OneAtWork
    /\ \A r \in Runners :
         /\ pc[r] = "submit" => staging.rows = {}
         /\ pc[r] = "gather" =>
              /\ Dump[dump[r]] # {}
              /\ \A f \in Dump[dump[r]] : copy[r][f] # "none"
              /\ staging.rows = RowsOf(r, InState(r, "done"))
         /\ pc[r] = "materialize_new_table" =>
              Dump[dump[r]] # {} /\ staging.rows = RowsOf(r, Dump[dump[r]])
         /\ pc[r] \in OnNew => Sound(dump[r]) /\ new.rows = RowsOf(r, Dump[dump[r]])
    /\ live.exists => \E m \in Months : Sound(m) /\ FilesIn(live.rows) = Whole(m)

=============================================================================
