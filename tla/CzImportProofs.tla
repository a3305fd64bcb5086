--------------------------- MODULE CzImportProofs ----------------------------
(***************************************************************************)
(* Proofs about CzImport, for any runners, dumps, workers and bounds.      *)
(*                                                                         *)
(* However runs overlap and wherever the server crashes, the live table    *)
(* stays, is unique and indexed, and no worker outlives its run.  If runs  *)
(* do not overlap, a dump is replaced by an older one only after a request *)
(* that failed, and what is served is one whole dump unless a crash comes  *)
(* while copied rows are at risk.                                          *)
(***************************************************************************)
EXTENDS CzImport, TLAPS

-----------------------------------------------------------------------------
(* Lemmas about the operators of the model *)

LEMMA BoundsOK ==
    /\ MaxMonth \in Nat /\ Months = 1..MaxMonth /\ 1 \in Months /\ NoDump \notin Months
    /\ MaxFallback \in Nat /\ 1 <= MaxFallback
    /\ MaxFaults \in Nat
BY CzAssumption DEF CzAssumption, Months

LEMMA TablesOK ==
    NoTable \in Table /\ NoStaging \in Staging /\ EmptyStaging \in Staging
BY DEF NoTable, Table, NoStaging, EmptyStaging, Staging

LEMMA FlagsOK ==
    ASSUME NEW t \in Table
    PROVE  /\ [t EXCEPT !.indexed = TRUE] \in Table
           /\ [t EXCEPT !.analyzed = TRUE] \in Table
           /\ [t EXCEPT !.analyzed = FALSE] \in Table
           /\ [t EXCEPT !.analyzed = TRUE].rows = t.rows
           /\ [t EXCEPT !.analyzed = FALSE].rows = t.rows
BY DEF Table

LEMMA NewOK ==
    ASSUME NEW R \in SUBSET Row
    PROVE  LET t == [NoTable EXCEPT !.exists = TRUE, !.rows = R]
           IN  t \in Table /\ t.rows = R /\ t.exists
BY DEF NoTable, Table

LEMMA StagingOK ==
    ASSUME NEW t \in Staging, NEW R \in SUBSET Row
    PROVE  [t EXCEPT !.rows = R] \in Staging /\ [t EXCEPT !.rows = R].rows = R
BY DEF Staging

\* The state of one future, and of all futures of a run, may be overwritten.
LEMMA FuturesOK ==
    ASSUME copy \in [Runners -> [Files -> FutureStates]], NEW r \in Runners
    PROVE  /\ \A f \in Files, to \in FutureStates :
                [copy EXCEPT ![r][f] = to] \in [Runners -> [Files -> FutureStates]]
           /\ \A g \in [Files -> FutureStates] :
                [copy EXCEPT ![r] = g] \in [Runners -> [Files -> FutureStates]]
OBVIOUS

\* The month a found dump is of: older than the start, younger than those tried.
LEMMA CandidateFound ==
    ASSUME NEW r \in Runners, started[r] \in 0..MaxMonth, tries[r] \in Nat,
           Candidate(r) \in published, published \subseteq Months
    PROVE  /\ Candidate(r) \in Months
           /\ Candidate(r) + tries[r] + 1 = started[r]
<1>1. Candidate(r) \in Months
  OBVIOUS
<1>2. Candidate(r) # 0
  <2>1. ~(0 \in Months)
    BY BoundsOK
  <2> QED
    BY <1>1, <2>1
<1>3. started[r] > tries[r] + 1 /\ Candidate(r) = started[r] - tries[r] - 1
  BY <1>2 DEF Candidate
<1>4. started[r] \in Nat
  BY BoundsOK
<1> QED
  BY <1>1, <1>3, <1>4

-----------------------------------------------------------------------------
(* Types *)

LEMMA InitTypes == Init => TypeOK
<1> SUFFICES ASSUME Init PROVE TypeOK
  OBVIOUS
<1>1. NoFutures \in [Files -> FutureStates]
  BY DEF NoFutures, FutureStates
<1>2. 1 \in Months /\ 0 \in 0..MaxMonth /\ 0 \in 0..MaxFallback - 1 /\ 0 \in 0..MaxFaults
  BY CzAssumption DEF CzAssumption, Months
<1> QED
  BY <1>1, <1>2, TablesOK DEF Init, TypeOK

LEMMA StepTypes == TypeOK /\ [Next]_vars => TypeOK'
<1> SUFFICES ASSUME TypeOK, [Next]_vars PROVE TypeOK'
  OBVIOUS
<1> USE DEF TypeOK, calendar, search, tables
<1>a. /\ "idle" \in Steps \cup {"idle"} /\ "cleanup" \in Steps \cup {"idle"}
      /\ "download" \in Steps \cup {"idle"}
      /\ \A s \in Statements \cup {"gather", "shutdown"} : s \in Steps \cup {"idle"}
  BY DEF Steps, Statements
<1>b. 0 \in 0..MaxMonth /\ 0 \in 0..MaxFallback - 1
  BY CzAssumption DEF CzAssumption
<1>c. Fault => faults' \in 0..MaxFaults
  BY CzAssumption DEF CzAssumption, Fault
<1>d. NoFutures \in [Files -> FutureStates]
  BY DEF NoFutures, FutureStates
<1>1. ASSUME NEW r \in Runners, Begin(r) PROVE TypeOK'
  BY <1>1, <1>a, BoundsOK DEF Begin
<1>2. ASSUME NEW r \in Runners, Found(r) PROVE TypeOK'
  BY <1>2, <1>a, <1>b DEF Found, Go, Statements
<1>3. ASSUME NEW r \in Runners, FallBack(r) PROVE TypeOK'
  <2>1. faults' \in 0..MaxFaults
    BY <1>3, <1>c DEF FallBack
  <2>2. tries' \in [Runners -> 0..MaxFallback - 1]
    <3>1. CASE tries[r] + 1 < MaxFallback
      <4>1. tries[r] + 1 \in 0..MaxFallback - 1
        BY <3>1, BoundsOK
      <4>2. tries' = [tries EXCEPT ![r] = tries[r] + 1]
        BY <1>3, <3>1 DEF FallBack
      <4> QED
        BY <4>1, <4>2
    <3>2. CASE ~(tries[r] + 1 < MaxFallback)
      BY <1>3, <1>b, <3>2 DEF FallBack
    <3> QED
      BY <3>1, <3>2
  <2> QED
    BY <1>3, <1>a, <1>b, <2>1, <2>2 DEF FallBack
<1>4. ASSUME NEW r \in Runners, PrepareStaging(r) PROVE TypeOK'
  BY <1>4, <1>a, TablesOK DEF PrepareStaging, Go, Statements
<1>5. ASSUME NEW r \in Runners, Submit(r) PROVE TypeOK'
  <2> DEFINE g == [f \in Files |-> IF f \in Dump[dump[r]] THEN "pending" ELSE "none"]
  <2>1. g \in [Files -> FutureStates]
    BY DEF FutureStates
  <2>2. copy' = [copy EXCEPT ![r] = g]
    BY <1>5 DEF Submit
  <2> HIDE DEF g
  <2> QED
    BY <1>5, <1>a, <2>1, <2>2, FuturesOK DEF Submit, Go
<1>6. ASSUME NEW r \in Runners, Gathered(r) \/ SeeFailure(r) \/ ShutDown(r) PROVE TypeOK'
  <2>1. copy' = copy \/ copy' = [copy EXCEPT ![r] = NoFutures]
    BY <1>6 DEF Gathered, SeeFailure, ShutDown
  <2>2. copy' \in [Runners -> [Files -> FutureStates]]
    BY <2>1, <1>d, FuturesOK
  <2> QED
    BY <1>6, <1>a, <2>2 DEF Gathered, SeeFailure, ShutDown, Go, Statements
<1>7. ASSUME NEW r \in Runners, MaterializeNewTable(r) PROVE TypeOK'
  <2>1. copy' \in [Runners -> [Files -> FutureStates]]
    BY <1>7 DEF MaterializeNewTable, FutureStates
  <2>2. new' \in Table /\ staging' \in Staging
    BY <1>7, NewOK, TablesOK DEF MaterializeNewTable, Staging
  <2> QED
    BY <1>7, <1>a, <2>1, <2>2 DEF MaterializeNewTable, Go, Statements
<1>8. ASSUME NEW r \in Runners, CreateIndexesOnNew(r) \/ AnalyzeNew(r) PROVE TypeOK'
  BY <1>8, <1>a, FlagsOK DEF CreateIndexesOnNew, AnalyzeNew, Go, Statements
<1>9. ASSUME NEW r \in Runners, AtomicSwap(r) PROVE TypeOK'
  BY <1>9, <1>a, TablesOK DEF AtomicSwap, Go
<1>10. ASSUME NEW r \in Runners, CleanUp(r) PROVE TypeOK'
  BY <1>10, <1>a DEF CleanUp, Go
<1>11. ASSUME NEW r \in Runners, Raise(r) PROVE TypeOK'
  BY <1>11, <1>a, <1>b, <1>c DEF Raise
<1>12. ASSUME NEW r \in Runners, Kill(r) PROVE TypeOK'
  BY <1>12, <1>a, <1>b, <1>c, <1>d, FuturesOK DEF Kill
<1>13. ASSUME NEW r \in Runners, PoolBreaks(r) PROVE TypeOK'
  <2> DEFINE g == [f \in Files |-> IF f \in Unfinished(r) THEN "failed" ELSE copy[r][f]]
  <2>1. g \in [Files -> FutureStates]
    BY DEF FutureStates
  <2>2. copy' = [copy EXCEPT ![r] = g]
    BY <1>13 DEF PoolBreaks
  <2> HIDE DEF g
  <2> QED
    BY <1>13, <1>c, <2>1, <2>2, FuturesOK DEF PoolBreaks
<1>14. ASSUME NEW r \in Runners, NEW f \in Files, Worker(r, f) PROVE TypeOK'
  <2>1. copy' \in [Runners -> [Files -> FutureStates]]
    <3>1. PICK to \in {"copying", "done", "failed"} : copy' = [copy EXCEPT ![r][f] = to]
      BY <1>14 DEF Worker, WorkerStart, WorkerCopy, WorkerFail, Settle
    <3>2. to \in FutureStates
      BY DEF FutureStates
    <3> QED
      BY <3>1, <3>2, FuturesOK
  <2>2. staging' \in Staging
    <3>1. ASSUME WorkerCopy(r, f) PROVE staging' \in Staging
      <4>1. [file |-> f, month |-> dump[r], by |-> r] \in Row
        BY <3>1 DEF WorkerCopy, Row
      <4>2. staging.rows \cup {[file |-> f, month |-> dump[r], by |-> r]} \in SUBSET Row
        BY <4>1 DEF Staging
      <4> QED
        BY <3>1, <4>2, StagingOK DEF WorkerCopy
    <3> QED
      BY <1>14, <3>1 DEF Worker, WorkerStart, WorkerFail
  <2>3. faults' \in 0..MaxFaults
    BY <1>14, <1>c DEF Worker, WorkerStart, WorkerCopy, WorkerFail
  <2> QED
    BY <1>14, <2>1, <2>2, <2>3 DEF Worker, WorkerStart, WorkerCopy, WorkerFail
<1>15. CASE World
  <2>1. CASE PgCrash
    <3>1. {} \in SUBSET Row
      OBVIOUS
    <3>2. staging' \in Staging
      BY <2>1, <3>1, StagingOK DEF PgCrash
    <3>3. new' \in Table /\ live' \in Table
      BY <2>1, FlagsOK DEF PgCrash
    <3> QED
      BY <2>1, <3>2, <3>3, <1>c DEF PgCrash
  <2>2. CASE MonthPasses
    BY <2>2, BoundsOK DEF MonthPasses
  <2>3. CASE \E m \in Months : Publish(m)
    BY <2>3 DEF Publish
  <2> QED
    BY <1>15, <2>1, <2>2, <2>3 DEF World
<1>16. CASE UNCHANGED vars
  BY <1>16 DEF vars
<1> QED
  BY <1>1, <1>2, <1>3, <1>4, <1>5, <1>6, <1>7, <1>8, <1>9, <1>10, <1>11, <1>12, <1>13,
     <1>14, <1>15, <1>16 DEF Next, Main

\* Steps, futures, tables and bounds stay well-formed, and the search for a dump
\* never tries more than MAX_MONTHS_FALLBACK months.
THEOREM CzTypes == Spec => []TypeOK
BY InitTypes, StepTypes, PTL DEF Spec

-----------------------------------------------------------------------------
(* Whatever overlaps and crashes *)

\* The primary key refuses staged rows that repeat a kod_adm.
LEMMA StepKeyInv == TypeOK /\ KeyInv /\ [Next]_vars => KeyInv'
<1> SUFFICES ASSUME TypeOK, KeyInv, [Next]_vars PROVE KeyInv'
  OBVIOUS
<1> USE DEF TypeOK, KeyInv, LiveUnique, tables
<1>1. ASSUME NEW r \in Runners, MaterializeNewTable(r) PROVE KeyInv'
  <2>1. Unique(staging.rows) /\ new'.rows = staging.rows
    BY <1>1, NewOK DEF MaterializeNewTable, Go, Accepted, Staging
  <2> QED
    BY <1>1, <2>1 DEF MaterializeNewTable
<1>2. ASSUME NEW r \in Runners, PrepareStaging(r) PROVE KeyInv'
  BY <1>2 DEF PrepareStaging, NoTable, Unique
<1>3. ASSUME NEW r \in Runners, CreateIndexesOnNew(r) \/ AnalyzeNew(r) PROVE KeyInv'
  BY <1>3 DEF CreateIndexesOnNew, AnalyzeNew, Table
<1>4. ASSUME NEW r \in Runners, AtomicSwap(r) PROVE KeyInv'
  BY <1>4 DEF AtomicSwap, Go, Accepted, NoTable, Unique
<1>5. CASE PgCrash
  BY <1>5 DEF PgCrash, Table
<1>6. CASE UNCHANGED <<new, live>>
  BY <1>6
<1> QED
  BY <1>1, <1>2, <1>3, <1>4, <1>5, <1>6 DEF Next, Main, World, Begin, Found, FallBack,
     Submit, Gathered, SeeFailure, ShutDown, CleanUp, Raise, Kill, PoolBreaks, Worker,
     WorkerStart, WorkerCopy, WorkerFail, MonthPasses, Publish, vars

LEMMA InitKeyInv == Init => KeyInv
BY DEF Init, KeyInv, LiveUnique, NoTable, Unique

\* No kod_adm is ever served twice, in any interleaving of any number of runs
\* and their workers with any number of crashes.
THEOREM CzUnique == Spec => []LiveUnique
<1>1. KeyInv => LiveUnique
  BY DEF KeyInv
<1> QED
  BY <1>1, InitTypes, StepTypes, InitKeyInv, StepKeyInv, PTL DEF Spec

\* Once there is a live table there always is one.
THEOREM CzStays == Spec => LiveStays
<1>1. TypeOK /\ [Next]_vars => [live.exists => live'.exists]_vars
  <2> SUFFICES ASSUME TypeOK, Next, live.exists PROVE live'.exists
    BY DEF vars
  <2>1. ASSUME NEW r \in Runners, AtomicSwap(r) PROVE live'.exists
    BY <2>1 DEF AtomicSwap, Go, Accepted
  <2>2. CASE PgCrash
    BY <2>2 DEF PgCrash, TypeOK, Table
  <2>3. CASE live' = live
    BY <2>3
  <2> QED
    BY <2>1, <2>2, <2>3 DEF Next, Main, World, Begin, Found, FallBack, PrepareStaging,
       Submit, Gathered, SeeFailure, ShutDown, MaterializeNewTable, CreateIndexesOnNew,
       AnalyzeNew, CleanUp, Raise, Kill, PoolBreaks, Worker, WorkerStart, WorkerCopy,
       WorkerFail, MonthPasses, Publish, tables
<1> QED
  BY <1>1, InitTypes, StepTypes, PTL DEF Spec, LiveStays

-----------------------------------------------------------------------------
(* Workers and the files they read *)

LEMMA InitFilesInv == Init => FilesInv
BY DEF Init, FilesInv, NoFutures, AfterDownload, OnStaging, OnNew

\* A step that takes futures from a run that is over, or changes the state of
\* those there are.
LEMMA StepFilesInv == TypeOK /\ FilesInv /\ [Next]_vars => FilesInv'
<1> SUFFICES ASSUME TypeOK, FilesInv, [Next]_vars PROVE FilesInv'
  OBVIOUS
<1> USE DEF TypeOK, FilesInv, AfterDownload, OnStaging, OnNew, calendar
<1>1. ASSUME NEW r \in Runners, Begin(r) PROVE FilesInv'
  BY <1>1 DEF Begin
<1>2. ASSUME NEW r \in Runners, Found(r) PROVE FilesInv'
  BY <1>2 DEF Found, Go
<1>3. ASSUME NEW r \in Runners, FallBack(r) PROVE FilesInv'
  BY <1>3 DEF FallBack
<1>4. ASSUME NEW r \in Runners, PrepareStaging(r) PROVE FilesInv'
  BY <1>4 DEF PrepareStaging, Go
<1>5. ASSUME NEW r \in Runners, Submit(r) PROVE FilesInv'
  BY <1>5 DEF Submit, Go
<1>6. ASSUME NEW r \in Runners, Gathered(r) \/ ShutDown(r) PROVE FilesInv'
  BY <1>6 DEF Gathered, ShutDown, Go, NoFutures
<1>7. ASSUME NEW r \in Runners, SeeFailure(r) PROVE FilesInv'
  BY <1>7 DEF SeeFailure, Go
<1>8. ASSUME NEW r \in Runners, MaterializeNewTable(r) PROVE FilesInv'
  <2>1. \A s \in Runners, f \in Files : copy'[s][f] # "none" => copy[s][f] # "none"
    BY <1>8 DEF MaterializeNewTable, InState
  <2> QED
    BY <1>8, <2>1 DEF MaterializeNewTable, Go
<1>9. ASSUME NEW r \in Runners, CreateIndexesOnNew(r) \/ AnalyzeNew(r) \/ AtomicSwap(r)
      PROVE  FilesInv'
  BY <1>9 DEF CreateIndexesOnNew, AnalyzeNew, AtomicSwap, Go
<1>10. ASSUME NEW r \in Runners, CleanUp(r) PROVE FilesInv'
  BY <1>10 DEF CleanUp, Go
<1>11. ASSUME NEW r \in Runners, Raise(r) PROVE FilesInv'
  BY <1>11 DEF Raise, Statements
<1>12. ASSUME NEW r \in Runners, Kill(r) PROVE FilesInv'
  BY <1>12 DEF Kill, NoFutures
<1>13. ASSUME NEW r \in Runners, PoolBreaks(r) PROVE FilesInv'
  BY <1>13 DEF PoolBreaks, Unfinished, InState
<1>14. ASSUME NEW r \in Runners, NEW f \in Files, Worker(r, f) PROVE FilesInv'
  <2>1. \A s \in Runners, g \in Files : copy'[s][g] # "none" => copy[s][g] # "none"
    BY <1>14 DEF Worker, WorkerStart, WorkerCopy, WorkerFail, Settle
  <2> QED
    BY <1>14, <2>1 DEF Worker, WorkerStart, WorkerCopy, WorkerFail
<1>15. CASE World
  BY <1>15 DEF World, MonthPasses, Publish, PgCrash
<1>16. CASE UNCHANGED vars
  BY <1>16 DEF vars
<1> QED
  BY <1>1, <1>2, <1>3, <1>4, <1>5, <1>6, <1>7, <1>8, <1>9, <1>10, <1>11, <1>12, <1>13,
     <1>14, <1>15, <1>16 DEF Next, Main

\* No run that failed or ended leaves a worker behind, nor does it delete the
\* directory its workers read from, whatever other runs and the server do.
THEOREM CzWorkersHaveTheirFiles == Spec => []WorkersHaveTheirFiles
<1>1. TypeOK /\ FilesInv => WorkersHaveTheirFiles
  <2> SUFFICES ASSUME TypeOK, FilesInv, NEW r \in Runners, Unfinished(r) # {}
               PROVE  /\ pc[r] \in {"gather", "shutdown"}
                      /\ dump[r] # NoDump
                      /\ Unfinished(r) \subseteq Dump[dump[r]]
    BY DEF WorkersHaveTheirFiles
  <2>1. \A f \in Unfinished(r) : f \in Files /\ copy[r][f] # "none"
    BY DEF Unfinished, InState
  <2>2. pc[r] \in {"gather", "shutdown"} /\ Unfinished(r) \subseteq Dump[dump[r]]
    BY <2>1 DEF FilesInv
  <2>3. dump[r] # NoDump
    BY <2>2, BoundsOK DEF FilesInv, TypeOK, AfterDownload, OnStaging
  <2> QED
    BY <2>2, <2>3
<1> QED
  BY <1>1, InitTypes, StepTypes, InitFilesInv, StepFilesInv, PTL DEF Spec

-----------------------------------------------------------------------------
(* One run at a time *)

LEMMA StepOneAtWork ==
    ASSUME ~Overlap, TypeOK, OneAtWork, [Next]_vars
    PROVE  OneAtWork'
<1> USE DEF TypeOK, OneAtWork
<1>1. ASSUME NEW r \in Runners, Begin(r) PROVE OneAtWork'
  BY <1>1 DEF Begin
<1>2. ASSUME NEW r \in Runners, Main(r) \/ Kill(r), ~Begin(r) PROVE OneAtWork'
  <2>1. pc' = pc \/ (pc[r] # "idle" /\ \E to : pc' = [pc EXCEPT ![r] = to])
    BY <1>2 DEF Main, Go, Found, FallBack, PrepareStaging, Submit, Gathered, SeeFailure,
       ShutDown, MaterializeNewTable, CreateIndexesOnNew, AnalyzeNew, AtomicSwap, CleanUp,
       Raise, Kill, Statements
  <2> QED
    BY <2>1
<1>3. CASE pc' = pc
  BY <1>3
<1> QED
  BY <1>1, <1>2, <1>3 DEF Next, PoolBreaks, Worker, WorkerStart, WorkerCopy, WorkerFail,
     World, MonthPasses, Publish, PgCrash, vars

\* A worker belongs to the run that is at work.
LEMMA WorkerAtWork ==
    ASSUME FilesInv, NEW r \in Runners, NEW f \in Files, Worker(r, f)
    PROVE  pc[r] \in {"gather", "shutdown"} /\ f \in Dump[dump[r]]
BY DEF FilesInv, Worker, WorkerStart, WorkerCopy, WorkerFail, Settle

LEMMA InitOrderInv == Init => OrderInv
BY DEF Init, OrderInv, OneAtWork, NoTable, AfterDownload, OnStaging, OnNew

LEMMA StepOrderInv ==
    ASSUME ~Overlap, ~NetMayFail
    PROVE  TypeOK /\ FilesInv /\ OrderInv /\ [Next]_vars => OrderInv'
<1> SUFFICES ASSUME TypeOK, FilesInv, OrderInv, [Next]_vars PROVE OrderInv'
  OBVIOUS
<1> USE DEF OrderInv, AfterDownload, OnStaging, OnNew, calendar
<1>0. OneAtWork' /\ OneAtWork
  BY StepOneAtWork
<1>a. pc \in [Runners -> Steps \cup {"idle"}] /\ dump \in [Runners -> Months \cup {NoDump}]
  BY DEF TypeOK
<1>b. \A row \in live.rows : row.month \in Months /\ row.month \in Nat /\ row.month >= 1
  BY BoundsOK DEF TypeOK, Table, Row
<1>c. /\ started \in [Runners -> 0..MaxMonth] /\ tries \in [Runners -> 0..MaxFallback - 1]
      /\ month \in Nat /\ MaxMonth \in Nat /\ MaxFallback \in Nat
  BY BoundsOK DEF TypeOK
<1>1. ASSUME NEW r \in Runners, Begin(r) PROVE OrderInv'
  <2>1. tries[r] = 0 /\ tries' = tries
    BY <1>1 DEF Begin
  <2>2. started'[r] = month /\ \A row \in live.rows : row.month + tries[r] < month
    BY <1>1, <1>b, <1>c, <2>1 DEF Begin
  <2>3. \A s \in Runners \ {r} : pc'[s] = "idle"
    BY <1>1, <1>a DEF Begin
  <2> QED
    BY <1>0, <1>1, <1>a, <1>c, <2>1, <2>2, <2>3 DEF Begin, tables
<1>2. ASSUME NEW r \in Runners, Found(r) PROVE OrderInv'
  <2>1. Candidate(r) \in Months /\ Candidate(r) + tries[r] + 1 = started[r]
    BY <1>2, <1>c, CandidateFound DEF Found, TypeOK
  <2>2. pc[r] = "download" /\ pc' = [pc EXCEPT ![r] = "prepare_staging"]
        /\ dump' = [dump EXCEPT ![r] = Candidate(r)]
    BY <1>2 DEF Found, Go
  <2>3. Candidate(r) < month /\ \A row \in live.rows : row.month <= Candidate(r)
    BY <2>1, <2>2, <1>b, <1>c, BoundsOK
  <2>4. \A s \in Runners \ {r} : pc'[s] = "idle"
    BY <1>0, <1>a, <2>2 DEF OneAtWork
  <2> QED
    BY <1>0, <1>2, <1>a, <1>c, <2>2, <2>3, <2>4 DEF Found, tables
<1>3. ASSUME NEW r \in Runners, FallBack(r) PROVE OrderInv'
  <2>1. Candidate(r) \notin published
    BY <1>3 DEF FallBack
  <2>2. \A row \in live.rows : row.month + (tries[r] + 1) < started[r]
    BY <1>3, <2>1, <1>b, <1>c DEF FallBack, Candidate
  <2> QED
    BY <1>0, <1>3, <1>a, <1>c, <2>2 DEF FallBack, tables, OneAtWork
<1>4. ASSUME NEW r \in Runners, PrepareStaging(r) \/ Submit(r) \/ Gathered(r) \/ SeeFailure(r)
                                 \/ ShutDown(r)
      PROVE  OrderInv'
  BY <1>0, <1>4, <1>a DEF PrepareStaging, Submit, Gathered, SeeFailure, ShutDown, Go,
     EmptyStaging, OneAtWork, tables, search
<1>5. ASSUME NEW r \in Runners, MaterializeNewTable(r) PROVE OrderInv'
  <2>1. new'.rows = staging.rows
    BY <1>5, NewOK DEF MaterializeNewTable, TypeOK, Staging
  <2> QED
    BY <1>0, <1>5, <1>a, <2>1 DEF MaterializeNewTable, Go, OneAtWork, search
<1>6. ASSUME NEW r \in Runners, CreateIndexesOnNew(r) \/ AnalyzeNew(r) PROVE OrderInv'
  <2>1. new'.rows = new.rows
    BY <1>6 DEF CreateIndexesOnNew, AnalyzeNew, TypeOK, Table
  <2> QED
    BY <1>0, <1>6, <1>a, <2>1 DEF CreateIndexesOnNew, AnalyzeNew, Go, OneAtWork, search
<1>7. ASSUME NEW r \in Runners, AtomicSwap(r) PROVE OrderInv'
  <2>1. dump[r] \in published /\ dump[r] < month
    BY <1>7 DEF AtomicSwap, Go, FilesInv
  <2> QED
    BY <1>0, <1>7, <1>a, <2>1 DEF AtomicSwap, Go, OneAtWork, search
<1>8. ASSUME NEW r \in Runners, CleanUp(r) \/ Raise(r) \/ Kill(r) PROVE OrderInv'
  BY <1>0, <1>8, <1>a, <1>c DEF CleanUp, Raise, Kill, Go, OneAtWork, search, tables, Statements
<1>9. ASSUME NEW r \in Runners, PoolBreaks(r) PROVE OrderInv'
  BY <1>0, <1>9 DEF PoolBreaks, search, tables
<1>10. ASSUME NEW r \in Runners, NEW f \in Files, Worker(r, f) PROVE OrderInv'
  <2>1. pc[r] \in {"gather", "shutdown"}
    BY <1>10, WorkerAtWork
  <2>2. \A row \in staging'.rows : row \in staging.rows \/ row.month = dump[r]
    <3>1. CASE WorkerCopy(r, f)
      BY <3>1 DEF WorkerCopy, TypeOK, Staging
    <3>2. CASE ~WorkerCopy(r, f)
      BY <1>10, <3>2 DEF Worker, WorkerStart, WorkerFail, tables
    <3> QED
      BY <3>1, <3>2
  <2>3. \A s \in Runners : pc[s] # "idle" => s = r
    BY <1>0, <2>1 DEF OneAtWork
  <2>4. UNCHANGED <<month, published, pc, started, tries, dump, new, live>>
    BY <1>10 DEF Worker, WorkerStart, WorkerCopy, WorkerFail, search, tables
  <2>5. \A s \in Runners : pc'[s] \in OnStaging =>
          \A row \in staging'.rows : row.month = dump'[s]
    BY <2>2, <2>3, <2>4
  <2> QED
    BY <1>0, <2>4, <2>5
<1>11. CASE MonthPasses
  <2>1. ASSUME NEW r \in Runners, pc[r] \in AfterDownload PROVE dump[r] \in Nat
    <3>1. dump[r] \in Months
      BY <2>1 DEF FilesInv, TypeOK
    <3> QED
      BY <3>1, BoundsOK
  <2>2. /\ \A row \in live.rows : row.month < month'
        /\ \A r \in Runners : /\ pc[r] = "download" => started[r] <= month'
                              /\ pc[r] \in AfterDownload => dump[r] < month'
    BY <1>11, <1>b, <1>c, <2>1 DEF MonthPasses
  <2>3. UNCHANGED <<published, pc, started, tries, dump, staging, new, live>>
    BY <1>11 DEF MonthPasses, search, tables
  <2> QED
    BY <1>0, <2>2, <2>3
<1>12. ASSUME NEW m \in Months, Publish(m) PROVE OrderInv'
  BY <1>0, <1>12 DEF Publish, search, tables
<1>13. CASE PgCrash
  <2>1. staging'.rows = {} /\ new'.rows = new.rows /\ live'.rows = live.rows
    BY <1>13 DEF PgCrash, TypeOK, Staging, Table
  <2> QED
    BY <1>0, <1>13, <2>1 DEF PgCrash, search
<1>14. CASE UNCHANGED vars
  BY <1>0, <1>14 DEF vars, search, tables
<1> QED
  BY <1>1, <1>2, <1>3, <1>4, <1>5, <1>6, <1>7, <1>8, <1>9, <1>10, <1>11, <1>12, <1>13,
     <1>14 DEF Next, Main, World

\* A dump is never replaced by an older one, as long as runs do not overlap and
\* a request fails only for a dump that is not there.
THEOREM CzNeverOlder ==
    ASSUME ~Overlap, ~NetMayFail
    PROVE  Spec => NeverOlder
<1>1. TypeOK /\ OrderInv /\ [Next]_vars =>
        [\A now \in live.rows, next \in live'.rows : now.month <= next.month]_vars
  <2> SUFFICES ASSUME TypeOK, OrderInv, Next,
                      NEW now \in live.rows, NEW next \in live'.rows
               PROVE  now.month <= next.month \/ UNCHANGED vars
    OBVIOUS
  <2>1. ASSUME NEW r \in Runners, AtomicSwap(r) PROVE now.month <= next.month
    BY <2>1 DEF AtomicSwap, Go, OrderInv, AfterDownload, OnNew
  <2>2. CASE live'.rows = live.rows
    \* All rows served are of one month.
    <3>1. now.month = next.month
      BY <2>2 DEF OrderInv
    <3>2. now.month \in Nat
      BY BoundsOK DEF TypeOK, Table, Row
    <3> QED
      BY <3>1, <3>2
  <2>3. CASE PgCrash
    BY <2>2, <2>3 DEF PgCrash, TypeOK, Table
  <2> QED
    BY <2>1, <2>2, <2>3 DEF Next, Main, World, Begin, Found, FallBack, PrepareStaging, Submit,
       Gathered, SeeFailure, ShutDown, MaterializeNewTable, CreateIndexesOnNew, AnalyzeNew,
       CleanUp, Raise, Kill, PoolBreaks, Worker, WorkerStart, WorkerCopy, WorkerFail,
       MonthPasses, Publish, tables
<1> QED
  BY <1>1, InitTypes, StepTypes, InitFilesInv, StepFilesInv, InitOrderInv, StepOrderInv,
     PTL DEF Spec, NeverOlder

=============================================================================
