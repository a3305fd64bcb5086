# Verification of geo-addresses-postgis

The repository keeps two national address registers (Czech RÚIAN, Croatian DGU)
in PostGIS and answers queries about them. Importers rebuild each table once a
month beside the live one and swap it in; a read-only HTTP API reads the live
tables the whole time. This directory holds TLA+ modules of that behaviour, the
TLC configurations that check them and TLAPS proofs about them.

## 1. Inventory

| Part | State | Operations | Hard because |
|---|---|---|---|
| HR address importer (`importer/import_hr_addresses.py`) | `hr_addresses_new`, `hr_addresses`, the downloaded package | twelve steps, each a transaction on a connection of its own | the steps share one fixed working table with any other run; the table is UNLOGGED for most of the run; counts are read in one transaction and acted on in later ones |
| HR administrative units (`importer/import_hr_admin_units.py`) | `hr_admin_units_new`, `hr_admin_units` | create, copy, swap, analyze | read by the address importer between its own steps |
| CZ address importer (`importer/import_cz_csv.py`) | `cz_addresses_staging`, `cz_addresses_new`, `cz_addresses`, a temporary directory, one future per file | month search, staging, parallel COPY, materialise, index, swap, cleanup | worker processes, partial failure, fallback to older months, an UNLOGGED staging table |
| Database helpers (`importer/db.py`) | - | `run_sql`: one transaction per call | decides what is atomic |
| Scheduler (`importer/scheduler.py`) | the target and the sleep | `next_run_at`; `run_all` in order CZ, HR units, HR addresses; failures logged | the clock is read twice and may be set during the sleep; failures must not stop later jobs or months; nothing is persisted |
| API (`api/routes.py`, `queries.py`, `db.py`, `models.py`) | connection pool | lookup ladder, by id, batch, reverse, search, meta, health | statements of one request interleave with swaps; bounded pool |
| Role script, compose file, Caddy | - | configuration | - |
| `importer/archive/` | - | superseded, called by nothing | - |

How they interact: everything meets in the PostgreSQL catalog. The scheduler
calls the importers one after the other in one process; an operator may run one
in a container beside it (repository README, "Manual run"). The HR importer
reads `hr_admin_units`. The API reads live tables only; a swap takes an
exclusive lock for the length of a DROP and a few RENAMEs.

What makes each part correct: the live table, once there, is never missing; it
has the columns and indexes the API's statements name; no identifier is twice in
it; it holds all that the importer keeps of one published dataset that was fit to
publish; it is replaced in one step; no failure, whatever it leaves behind, stops later
imports. `PROJECT.json` lists the hazards at their lines, and which property
would notice each.

## 2. Modules

### Dataset - the promise

One variable, `served`: nothing, or one publishable dataset, replaced in a single
step and never withdrawn. The importers are shown to implement it by
`Promise == INSTANCE Dataset WITH ...` and the property `KeepsPromise`.

### HrImport

A *runner* is a process that may call `main()`. `pc[r]` is the step it takes
next, named after the Python function; `add_administrative_units` is three
connections and so three steps (`add_unit_columns`, `has_table`, `fill_units`).
`package[r]` is the archive in its temporary directory. `new` and `live` are the
two tables: rows, last `ogc_fid`, and which steps have been applied (logged,
derived columns, unit columns and the lookup generations they were filled from,
indexes, statistics). `units` counts the generations of `hr_admin_units`.

Every action is one transaction, because each step of the code opens its own
connection. `Accepted(r)` collects what PostgreSQL, or `validate_import`,
refuses: a missing table, a column or index that exists already, a repeated
identifier under the unique index, too few rows. A refused step raises
(`Raise`); any other end of a run is `Fail`; both leave the catalog as the last
committed transaction left it. `PgCrash` is a crash and recovery between two
connections: UNLOGGED tables come back empty, statistics are lost. The
constant `CrashSteps` says at which steps of a run it may come; `AtRisk` are those
between the count and `SET LOGGED`, where a crash undoes what was counted. That window
is narrow - a run whose connection is open, or that connects while the server
recovers, takes `Fail` - but nothing closes it.

Data: a package is the sequence of its addresses in file order. An address with an
identifier is that identifier (`Ids`): twice the same is twice the same house. Those
without are told apart (`Nameless`), although `inspire_id` is NULL in the rows of all
of them: the unique index ignores NULLs (`Unique`), the window function of
`drop_duplicates` does not (`SamePartition`). So `Content(p)` is what a package has and
`Kept(p)` what is served of it; the promise is about the second, and `NoAddressLost`
says that they are the same, which holds only while no package has two addresses
without identifier. The values of an address, its projections and labels are left out.
The generation of the lookup an address was joined with stands for its county and
municipality.

### HrAdminUnits

`Settlements(e)` is `settlements()`: each settlement with what is known of the
units above it, broken chains kept. The actions are the four transactions of
`store()`, for each of several runners; whether runs may overlap is settled in
`Init` (`overlap`). The count is checked before anything is written (`Accepted`
at `create`). The working table is LOGGED, so a crash takes only statistics.
`ExtractsMeet` is the one assumption about data: any two extracts have a
settlement in common, which is why the primary key keeps one run's COPY out of a
table another has filled.

### CzImport

The search: `Begin` fixes the month, `Candidate` is the month asked for,
`Found` and `FallBack` its two outcomes; a month that is not published and a
request that fails are handled by the same `except`. `copy[r][f]` is the future
of file `f`; `WorkerStart`, `WorkerCopy` and `WorkerFail` are a worker process,
`PoolBreaks` the death of one. `Gathered`, `SeeFailure` and `ShutDown` are the
loop over `as_completed` and the exit of the `with` block, which waits for every
future. `dump[r]` is the content of the temporary directory and is reset by
`CleanUp`, the `finally`. `Kill` is a stopped container. `MaterializeNewTable`
reads staging and drops it in one transaction; the DROP waits for COPYs of other
runs, whose rows are lost although their workers succeed (the `late` set).

Data: a file stands for its rows with coordinates, `Kod` gives its `kod_adm`;
a row carries the month and the run it came from.

A crash (`PgCrash`) empties staging; `AtRisk` are the steps at which that would
take rows nobody counts again.

### Scheduler

`clock` is the wall clock in ticks since the month began, `timer` the time to the
target, first by the wall clock (`planned`: the target is worked out, the length
of the sleep is not), then by the sleep itself, which does not follow the wall
clock. `Plan`, `Sleep`, `Wake` and `RunJob` are the loop of `main()` and
`run_all()`; `NextRunAt` is `next_run_at`. `SetBack` and `SetForward` set the
clock, by summer time or NTP, `Kill` stops the container and `Start` is Docker
starting it again, with or without `RUN_ON_START`. A job succeeds or raises; what
is kept of the importers is whether the live addresses are joined with the live
units (`joined`). `slot` and `ran` remember, for the properties, what became of this
month's slot and how often the loop ran: a slot that comes while the daemon waits for
it is `owed` a run until it is `served`; one that comes while it is down, or up and
busy - in the run `RUN_ON_START` asks for, or about to plan - is `missed`, and so is
one whose daemon is stopped before the run. `MonthServed` says that what is
owed is served and, on a clock that is never set back, that a month whose slot was
missed has no run.

### AddressAnswers

What the API says, as opposed to when it may read. `live` is the rows of both
tables; a handler's work on one connection is one step, which `Snapshot` of
`ApiRequests` entitles it to be, and the importers may replace a table by any
other between two steps. `AddressById`, `AddressesBatch`, and `LookupBatch` with
`LookupOne` per item are the endpoints; `CzParams`, `CzBaseFilter`, `CzVariants`
and `CzLookup` the ladder; `CzRowToMatch` and `HrRowToMatch` how a row is shown,
which drops and merges columns. `ParseCzNumber` and `CzHouseNumber` convert house
numbers there and back. A text that may be a number carries what `int()` makes of
it and whether `str()` would write it so: an identifier with leading zeros is
equal to the canonical one for the query and different from it for the response.
Clients ask what `Items` and `Lookups` hold and, again, for anything they have
been shown (`Shown`), by its reference or by its description.

A Croatian row may have no `inspire_id` or no position: the importer yields such rows
and nothing keeps them from going live. `AddressMatch` has to have both, so a row that
lacks one is not `Showable`: alone or among others, it makes the answer a 500
(`Raises`, and the refusals of `AddressById` and `AddressesBatch`). `CzNumberType` and
`CzTypSo` are the two conversions of the kind of number; a third kind is shown as none,
and a request has to name one of the two, so no lookup finds it.

`AnswersAssumption` is what the tables and request models grant: finite tables,
identifiers and postal codes of their types, no letter without an orientation
number and none of these without a house number, `None` none of them.
`RegistersAssumption` is what the code relies on in the registers ("the stable DGU
identifier anchored in the source data", `queries.py`): an id stands for one
address in every import, whatever `ogc_fid` it has there; of rows without an
identifier it says nothing. Only `RoundTrip` needs it. A register that described an
address anew under its old id would break it, and the reference would then find the
new description.

### ApiRequests

A request is a sequence of *blocks*, one for every `async with db.get_conn()`
it goes through (one, except for `lookup_batch`, which has one per item); a block
is a sequence of statements in one transaction. `Single`, `CzLookup`, `Search`,
`AddressesBatch`, `Meta` and `Health` give the block of each endpoint. A SELECT
carries `stops`, the datasets in which its result ends the block: that is all the
model keeps of rungs, tiers and rows.

`pc[r]` goes idle, queued (`Arrive`), open (`Connect`), finished (the last
`Execute`), and back through `Finish`, to the queue when items are left. `ahead`
is the pool's queue. `holders` and `waiters` are ACCESS SHARE locks, `swap[t]`
the importer's transaction, waiting for or holding ACCESS EXCLUSIVE; a reader
that comes after the swap waits (`Wait`) and is let in when it ends (`LetIn`),
and then reads the table that has the name. Locks and pool queue are PostgreSQL's
and psycopg's and marked external. `Raise` is what has to fail - a table that was
never imported, a lost connection - and `Fail` what may. `PgCrash` frees all
locks, aborts the swaps and leaves every connection of the pool dead (`broken` in
use, `stale` at rest) without anyone knowing; in this module the recovery is part
of it.

### Mutants

Definitions under a comment "Mutant" are plausible wrong versions of the
definition that follows. No specification uses them; each stands for a bug that
one property, named in `PROJECT.json`, is there to catch.

## 3. Runs

| Run | Question | Result |
|---|---|---|
| `hr_solo` | one HR import at a time, any step failing, the server crashing outside the window at risk, the units rebuilt at any moment | types; live table ready and validated; implements `Dataset`; recovers |
| `hr_overlap` | a scheduled and a manual run interleaved, with failures and crashes anywhere | still never missing, unique and indexed |
| `hr_crash_loss` | is a validated table still what is swapped in after a crash inside the window? | no: an empty table can be |
| `hr_overlap_loss` | the same for overlapping runs | no: an unvalidated table can be |
| `units` | the units import, two runners, overlapping or not, with failures and crashes | never half an extract or two mixed; never missing; without overlap implements `Dataset` and recovers |
| `cz_solo` | one CZ import at a time, workers in any order, dumps published in any order, crashes outside the window at risk | no worker outlives its run; never an older dump; implements `Dataset`; recovers |
| `cz_overlap` | two CZ imports interleaved, with failures and crashes anywhere | still never missing and unique |
| `cz_fallback` | can a failed request put an older dump in place of a newer one? | yes |
| `scheduler` | jobs that fail, a clock that is set, containers that are stopped | one run a month, for a daemon that waits for the slot when it comes and no other; every job goes on; addresses carry the live units |
| `answers` | requests by id, batches, lookups, while either table is replaced | every item accounted for once; references and descriptions lead back to the address |
| `api` | three requests, two connections, both tables swapped, a crash | every answer from what is live as it is given, by the first rung satisfied; requests and swaps never all wait for each other |
| `api_progress` | the same with clients that keep asking, without crashes | every request answered, every swap done |

The rows that begin with "no" or "yes" are runs TLC must refute; each is a finding
that quotes the comment it contradicts. The properties hold as soon as the condition
the finding names is excluded: `LiveValidated` and `NeverOlder` are checked so in
`hr_solo` and `cz_solo`.

Met while modelling, and stated in the properties, as exceptions where they are some:

* `KeepsPromise`: addresses without identifier are one partition to `drop_duplicates`,
  which keeps one of them, although `read_addresses` says "is left empty rather than
  dropping the address" (lines 310-312). The property speaks of what is `Kept`; when
  that is everything, the theorem `NoneLost` says.
* `MonthServed`: a daemon that is up but busy when the slot comes misses the month,
  although it "wakes up once a month to refresh the data" (`scheduler.py`, lines 5-6).
* `LookupOne`: an item that raises fails its whole batch, with the items that are done
  and those to come, although "each item is processed independently" (`routes.py`, line
  140). No property promises it.
* `Accounted`: a Czech id in a spelling of its own ("007") is both matched and
  reported as not found.
* `FoundAgain`: an address without a street in a part of Prague cannot be looked
  up as the API describes it; the city is shown as the district, and the only
  rung that takes a part of a municipality for the street compares the city with
  the municipality. Nor can an address whose number is of neither kind. And a lookup
  fails over a Croatian row without identifier or position, for the sound rows found
  along with it too.
* `RoundTrip`: by reference, an address is answered with an error while the package
  gives it no position.
* `NeverHalf`: overlapping imports of the units may serve an empty lookup.
* `models.py` and the repository's README name `ogc_fid` as the Croatian
  reference; the code uses the INSPIRE id, and `RoundTrip` is what would fail
  with `ogc_fid`.
* `NextRunAt`: at the very instant of the slot the code goes to the next month,
  where the docstring has ">= now"; `NeverTwice` needs it so.

### Bounds, and why they are enough

* HR: packages of two to four addresses over three identifiers and two addresses
  without, `MinRows = 2`: one repeats an identifier, one has two addresses without
  any, and two are long enough only until `drop_duplicates` has seen them. At most three faults
  (`MaxFaults`) put a failure, a bad package and a crash into one history, and
  leave every combination of a half-built table behind. `MaxUnits` 1 to 3 lets
  the lookup appear and change within a run.
* Overlap: two runners. A third adds no new kind of interference: a run sees
  only the table, and two are enough for "dropped", "recreated", "filled" and
  "swapped" to happen under another run at every step.
* CZ: three files of which two share a `kod_adm`, two workers, so that one file
  waits; five months and a fallback of two, so that a dump leaves the window;
  months whose dump is sound, repeats a key, or is empty.
* API: two connections let one request hold a lock while another queues behind a
  swap, and a third request finds the pool empty; two datasets per table swap
  every table under a reader, and the answer moves to another rung with the
  second. Plans mix requests over both tables in one transaction and in two.
  `api_progress` leaves crashes out for size: a crash frees whatever is waited
  for. `Rungs = 2` of five: a ladder has a first and a later rung.
* Units: two runners, three faults, extracts with a sound chain, a broken one, a
  repeated code and too few settlements.
* Scheduler: a month of eight ticks with the slot in its midst, two settings of
  the clock each way and two stops; `SchedulerAssumption` keeps the settings from
  carrying the clock from one month's slot into another month, with room for a tick
  between the two readings of the clock and for the shortest sleep, and the slot
  off the turn of the month. It is as weak as it can be: with a tick less of room
  a daemon that reads the clock just before the slot, and is put forward then,
  begins its run in the next month.
* Answers: six Czech rows, any subset of which is live: a street in a district, a
  village whose street is named like one of its parts, villages without streets
  (of which two answer together), Prague without a street, a number of neither kind;
  a Croatian address that is renumbered and loses its position between imports, and
  one of the same description without identifier. Batches of
  two ids tell repetitions in every pair of source and spelling; lookups of two items
  let a table be replaced, or an item fail, in between.
* `ogc_fid` needs no bound: the sequence restarts with every working table.
* Symmetry of the runners is used only in `hr_overlap`, `hr_overlap_loss` and
  `cz_overlap`, that of the requests in `api`; none of them checks liveness.

### Fairness

`FairSpec` assumes weak fairness of what a runner (and each CZ worker) does of
its own accord, including the start of another import: `main()` contains no
wait, the scheduler loops for ever and `run_all` catches every exception. No
fairness is assumed of failures, crashes, publications or rebuilds of the units.
`Recovers` then says that the swap happens again and again: finitely many
faults, whatever tables they leave, never make every later import fail. For CZ
it is conditional on a sound dump being the newest within reach, because a
published dump that is broken does stop the import.

For the scheduler, `FairSpec` assumes that time passes and that the daemon takes
its next step, a job's end and Docker's restart of a stopped container
(`restart: unless-stopped`) among them; not that jobs succeed. `JobsGoOn` then
says that every job is run again and again.

For the API, `FairSpec` assumes weak fairness of each handler that has begun - a
coroutine the event loop resumes when its connection or rows are there - and of a
swap that has begun. Arrivals, timeouts, failures and new swaps are not fair, so
`Answered` does not lean on the pool's timeout. The pool serves in order and
PostgreSQL grants locks in order; both are in the model's guards, not in the
fairness.

## 4. Proofs

`HrImportProofs` and `HrImportRefinement` hold for any set of runners, any
packages and any bounds, `CzImportProofs` and `CzImportRefinement` for any
runners, files, workers, dumps and months, `HrAdminUnitsProofs` for any runners
and extracts of which any two meet.

| Theorem | Statement | Assumes |
|---|---|---|
| `TypeCorrect`, `CzTypes`, `UnitsTypes` | `Spec => []TypeOK` | - |
| `AlwaysUnique`, `CzUnique` | `Spec => []LiveUnique` | - |
| `AlwaysSearchable` | `Spec => []LiveSearchable` | - |
| `AlwaysThere`, `CzStays`, `LookupStays` | `Spec => LiveStays` | - |
| `CzWorkersHaveTheirFiles` | `Spec => []WorkersHaveTheirFiles` | - |
| `LookupNeverHalf` | `Spec => []NeverHalf` | - |
| `AlwaysReady` | `Spec => []LiveReady` | runs do not overlap |
| `CzNeverOlder` | `Spec => NeverOlder` | no overlap, no failing request |
| `AlwaysValidated` | `Spec => []LiveValidated` | no overlap, no crash at a step of `AtRisk` |
| `Refinement`, `CzRefinement` | `Spec => KeepsPromise` | no overlap, no crash at a step of `AtRisk` |
| `NoneLost` | `Spec => []NoAddressLost` | the same, and no package with two addresses without identifier |
| `LookupRefines` | `Spec => KeepsPromise` | - (the property speaks of runs that do not overlap) |

`ApiRequestsProofs` holds for any finite set of requests, any plans, pool size,
numbers of swaps and crashes, with no further assumption but where one is stated.

| Theorem | Statement |
|---|---|
| `ApiTypes` | `Spec => []TypeOK` |
| `AlwaysSnapshot` | `Spec => []Snapshot` |
| `AlwaysFirst` | `Spec => []FirstSatisfied` |
| `NeverHoldsAndWaits` | `Spec => []NoHoldAndWait` |
| `AlwaysSomebodyMoves` | `Spec => []NeverStuck`, if `OrderedPlans` and the pool has a connection |
| `EndpointsInOrder` | every endpoint's transaction is `Ordered`, whatever is asked |

`OrderedPlans` says that no transaction locks the Croatian table before the Czech
one; plans made of the endpoints have it by `EndpointsInOrder`, and TLC evaluates it
for those of the runs (`MCAssumption`).

`SchedulerProofs` holds for any length of the month, slot, jumps, settings and
stops that satisfy `SchedulerAssumption`.

| Theorem | Statement |
|---|---|
| `DaemonTypes` | `Spec => []TypeOK` |
| `DaemonJoins` | `Spec => []Joined` |
| `OnceAMonth` | `Spec => []NeverTwice` |
| `EveryMonth` | `Spec => MonthServed` |

`AddressAnswersProofs` holds for any registers, tables, requests and sizes of
batches that satisfy the two assumptions of section 2.

| Theorem | Statement |
|---|---|
| `AnswersTypes` | `Spec => []TypeOK` |
| `AnswersAccounted` | `Spec => []Accounted` |
| `AnswersFoundAgain` | `Spec => []FoundAgain` |
| `AnswersRoundTrip` | `Spec => RoundTrip` |

The argument. None of the importers' properties is inductive: each speaks of the live
table and is decided by what happened to the working one. `TypeOK` itself has to say
that a run about to store has its package (`PackageHeld`), or its COPY could not be
typed. `IndexInv` says an indexed table has its derived
columns and no repeated identifier; it survives overlap because PostgreSQL, not
the run, enforces it, and the swap refuses a table without the indexes. That is
why `AlwaysUnique`, `AlwaysSearchable` and `AlwaysThere` need no assumption.
`ReadyInv`, `ValidInv` and `WholeInv` say, step by step, what the run has done to
the working table *and that it is still so*; this rests on `OneAtWork`, which
only runs that do not overlap have, and for the row count on the table not being
emptied by a crash. `Refinement` needs two facts about data: `FirstHold`, that
`drop_duplicates` keeps of a package exactly `Kept`, once each (a least `ogc_fid`
exists because the naturals are well-founded), and `CountTells`, that the row count is
then the number of the addresses kept, so that the threshold tells good packages apart.
`NoneLost` follows, since `Kept` is all of a package in which at most one address has
no identifier.

For the Czech importer `KeyInv` plays the same part. `FilesInv` ties every
unfinished future to a run that is in the `with` block of its pool and has its
directory. `OrderInv` bounds the months of all rows on their way by that of the
dump in hand, and that from below by the live table's month, which is where a
failed request would break it. `RowsOf` and its `WholeInv` say that staging
holds what the workers that are done have copied; once every future is done that
is the whole dump, unless a crash comes `AtRisk`.

For the units, `HalfInv` says that the rows of either table are one sound extract's
or none: the count was taken before, the primary key keeps a COPY out of a table
that has rows, and a COPY that repeats a code is refused as a whole.

For the API, `TypeOK` includes that the pool is not exceeded (`PoolInv`), and
`TypeInv` adds that a queued request has a block ahead of it, that a connected one is
at a statement of its block and that a swap under way has a dataset to bring.
`LockInv` says that whatever a request with a living connection has read, it still
holds the lock on, that locks belong to such requests only, and that a swap holds a
table only when nobody else does: a swap that commits therefore changes nothing that
has been read. `RungInv` says of every statement passed that its table is pinned and
that the live dataset does not satisfy it; a pinned table cannot change, so this
survives every step of the others (`RungStays`).

`NeverStuck` is the safety half of `Answered` and `SwapsHappen`: where anything is
under way, a request or a swap can go on by itself, without timeout, failure or
PostgreSQL's deadlock detector. `Moves` and `SwapMoves` spell out the guards, since
`ENABLED` is beyond the prover; joining the queue for a table does not count. Two
invariants carry it. `QueueInv` makes the pool's queue one line, which being
finite has a first (`FirstInLine`). `ReachedInv` says that a lock is that of a
statement at or before the one a request is at. Suppose nobody moves. A swap then
waits for a holder, and the holder for the other table's swap; but a holder of the
Croatian table has passed its Czech statements. So no swap waits for it, hence
none for the Czech table either, hence no request is in a transaction, the pool is
free, and the first in line is served.

For the answers, `AnswersInv` says that all that is shown, or found by a lookup
still under way, is a row of some import, and that there is no answer while a lookup
is under way. `Accounted` rests on `NotFoundFacts`, what the loop of
`addresses_batch` returns for any list: the fold of the community modules is a
`CHOOSE` of a recursive function on sets of positions, so first such a function is
shown to exist (`LoopExists`), then what it is at 1..k for every k. Both are
inductions, done as `Inductive`: the least number outside a set that has 0 and is
closed under successor would have a predecessor in it. `RoundTrip` compares
references by ids (`RefIsId`, `SameRef`), which a row that can be shown has
(`ShowableHasId`). `FoundAgain` follows the description of a row back through
`CzParams`: number, its kind and postal code come back as they were
(`NumberRoundTrip`, `CzDescribed`, `PostalRoundTrip`), so the base filter holds, some rung has the
row (`SomeRung`), and the ladder stops at that or before (`LadderFacts`).

For the scheduler, `TimerInv` bounds the time left of a sleep by the settings of
the clock. `OnceInv` follows `Due`, the moment a sleep ends, on the wall clock:
when the runs of this month are as many as settings back account for, the next
sleep ends at the slot or after it, and with one run more, in another month.
`ServedInv` is its counterpart from above: until the slot is past, a sleep ends
at the slot, give or take the settings forward, and so before the month does.
`ExactInv` adds that a daemon which missed the slot sleeps into the next month, so that
a run begun while the clock was never set back is the one owed.
`JoinedInv` says that the address import is last and that nothing touches the
units after it.

Every safety property of the passing runs is a theorem. Only model-checked: all
liveness - `Recovers`, `JobsGoOn`, `Answered`, `SwapsHappen` - which is out of the
prover's reach under fairness.

## 5. Plan

Done: `Dataset`, `HrImport`, `HrAdminUnits`, `CzImport`, `ApiRequests`,
`Scheduler` and `AddressAnswers`, each with its proofs.

Next: the content of `/meta`: `supported_countries` is a constant although
`models.py` says it names the countries with a loaded dataset; `last_analyzed`
after a crash.

## 6. Not modelled

Parsing of GML and CSV, geometry, `formatted_address` and output formats are
pure conversions no state property depends on. Similarity scores of search and
distances of reverse are PostgreSQL's and PostGIS's; of search the tiers are
modelled. The role script, compose file, Caddy and Dockerfiles are configuration.
`importer/archive` is called by nothing. Of the API, authentication, headers and
parameter checks are left out. `SCHEDULE_DAY` is a day every month has (1-28, as
documented), and months have one length.
A slot at the very turn of the month (day 1, 00:00) is left out.

## 7. Running

    tlc -config HrImportSolo.cfg MCHrImport.tla
    tlapm HrImportProofs.tla
    tlapm HrImportRefinement.tla
    tlc -config ApiRequestsSafety.cfg MCApiRequests.tla
    tlapm ApiRequestsProofs.tla
    tlc -config HrAdminUnits.cfg MCHrAdminUnits.tla
    tlapm HrAdminUnitsProofs.tla
    tlc -config CzImportSolo.cfg MCCzImport.tla
    tlapm CzImportProofs.tla
    tlapm CzImportRefinement.tla
    tlc -config Scheduler.cfg Scheduler.tla
    tlapm SchedulerProofs.tla
    tlc -config AddressAnswers.cfg MCAddressAnswers.tla
    tlapm AddressAnswersProofs.tla
