------------------------- MODULE CzImportRefinement --------------------------
(***************************************************************************)
(* Proof that CzImport implements Dataset when runs do not overlap and no  *)
(* crash comes while copied rows are at risk: what is served is always     *)
(* the whole of one sound dump, replaced in one step.                      *)
(***************************************************************************)
EXTENDS CzImportProofs

-----------------------------------------------------------------------------
(* Rows and dumps *)

\* Rows of one run and one dump are as many as the files they come from, so the
\* primary key tells whether the dump is sound.
LEMMA KeyTells ==
    ASSUME NEW r \in Runners, Dump[dump[r]] # {}, Unique(RowsOf(r, Dump[dump[r]]))
    PROVE  Sound(dump[r])
<1> SUFFICES ASSUME NEW f \in Dump[dump[r]], NEW g \in Dump[dump[r]], Kod[f] = Kod[g]
             PROVE  f = g
  BY DEF Sound
<1> DEFINE a == [file |-> f, month |-> dump[r], by |-> r]
           b == [file |-> g, month |-> dump[r], by |-> r]
<1>1. a \in RowsOf(r, Dump[dump[r]]) /\ b \in RowsOf(r, Dump[dump[r]])
  BY DEF RowsOf
<1>2. a.file = f /\ b.file = g
  OBVIOUS
<1>3. a = b
  BY <1>1, <1>2 DEF Unique
<1> QED
  BY <1>2, <1>3

LEMMA AllFilesIn ==
    ASSUME NEW r \in Runners
    PROVE  FilesIn(RowsOf(r, Dump[dump[r]])) = Whole(dump[r])
<1> DEFINE R == RowsOf(r, Dump[dump[r]])
<1>1. \A f \in Dump[dump[r]] : \E row \in R : row.file = f /\ row.month = dump[r]
  <2> TAKE f \in Dump[dump[r]]
  <2> DEFINE row == [file |-> f, month |-> dump[r], by |-> r]
  <2>1. row \in R
    BY DEF RowsOf
  <2>2. row.file = f /\ row.month = dump[r]
    OBVIOUS
  <2> QED
    BY <2>1, <2>2
<1>2. \A row \in R : row.file \in Dump[dump[r]] /\ row.month = dump[r]
  BY DEF RowsOf
<1> HIDE DEF R
<1>3. \A x \in Whole(dump[r]) : x \in FilesIn(R)
  BY <1>1 DEF FilesIn, Whole
<1>4. \A x \in FilesIn(R) : x \in Whole(dump[r])
  BY <1>2 DEF FilesIn, Whole
<1>5. FilesIn(R) = Whole(dump[r])
  BY <1>3, <1>4
<1> QED
  BY <1>5 DEF R

-----------------------------------------------------------------------------
(* Staging holds what the workers have finished *)

LEMMA InitWholeInv == Init => WholeInv
BY DEF Init, WholeInv, OneAtWork, NoTable, OnNew

LEMMA StepWholeInv ==
    ASSUME ~Overlap, CrashSteps \cap AtRisk = {}
    PROVE  TypeOK /\ FilesInv /\ WholeInv /\ [Next]_vars => WholeInv'
<1> SUFFICES ASSUME TypeOK, FilesInv, WholeInv, [Next]_vars PROVE WholeInv'
  OBVIOUS
<1> USE DEF WholeInv, OnNew, RowsOf
<1>0. OneAtWork' /\ OneAtWork
  BY StepOneAtWork
<1>a. pc \in [Runners -> Steps \cup {"idle"}] /\ dump \in [Runners -> Months \cup {NoDump}]
      /\ copy \in [Runners -> [Files -> FutureStates]]
  BY DEF TypeOK
\* A step that leaves the tables and futures alone, and the steps after it out.
<1>1. ASSUME NEW r \in Runners,
             Begin(r) \/ Found(r) \/ FallBack(r) \/ SeeFailure(r) \/ CleanUp(r) \/ Raise(r)
      PROVE  WholeInv'
  <2>1. UNCHANGED <<copy, staging, new, live>>
    BY <1>1 DEF Begin, Found, FallBack, SeeFailure, CleanUp, Raise, tables
  <2>2. \A s \in Runners \ {r} : pc'[s] = pc[s] /\ dump'[s] = dump[s]
    BY <1>1, <1>a DEF Begin, Found, FallBack, SeeFailure, CleanUp, Raise, Go
  <2>3. pc'[r] \in {"idle", "download", "prepare_staging", "shutdown", "cleanup"}
    BY <1>1, <1>a DEF Begin, Found, FallBack, SeeFailure, CleanUp, Raise, Go
  <2> QED
    BY <1>0, <2>1, <2>2, <2>3 DEF InState
<1>2. ASSUME NEW r \in Runners, PrepareStaging(r) PROVE WholeInv'
  BY <1>0, <1>2, <1>a DEF PrepareStaging, Go, EmptyStaging, OneAtWork, search
<1>3. ASSUME NEW r \in Runners, Submit(r) PROVE WholeInv'
  <2>1. pc[r] = "submit" /\ pc' = [pc EXCEPT ![r] = "gather"] /\ Dump[dump[r]] # {}
        /\ dump' = dump /\ UNCHANGED <<staging, new, live>>
    BY <1>3 DEF Submit, Go, Accepted, tables
  <2>2. staging.rows = {}
    BY <2>1
  <2>3. \A f \in Files : copy'[r][f] = IF f \in Dump[dump[r]] THEN "pending" ELSE "none"
    BY <1>3, <1>a DEF Submit
  <2>4. InState(r, "done")' = {}
    BY <2>3 DEF InState
  <2>5. Dump[dump[r]] \subseteq Files
    <3>1. dump[r] \in Months
      BY <2>1 DEF FilesInv, AfterDownload, OnStaging, TypeOK
    <3> QED
      BY <3>1, CzAssumption DEF CzAssumption
  <2>6. \A s \in Runners \ {r} : pc'[s] = "idle"
    BY <1>0, <1>a, <2>1 DEF OneAtWork
  <2> QED
    BY <1>0, <1>a, <2>1, <2>2, <2>3, <2>4, <2>5, <2>6
<1>4. ASSUME NEW r \in Runners, Gathered(r) PROVE WholeInv'
  <2>1. pc[r] = "gather" /\ pc' = [pc EXCEPT ![r] = "materialize_new_table"]
        /\ dump' = dump /\ UNCHANGED <<staging, new, live>>
    BY <1>4 DEF Gathered, Go, tables
  <2>2. InState(r, "done") = Dump[dump[r]]
    <3>1. \A f \in Files : copy[r][f] \in {"none", "done"}
      BY <1>4, <1>a DEF Gathered, Unfinished, InState, FutureStates
    <3>2. \A f \in Files : copy[r][f] # "none" => f \in Dump[dump[r]]
      BY DEF FilesInv
    <3>3. Dump[dump[r]] \subseteq Files
      <4>1. dump[r] \in Months
        BY <2>1 DEF FilesInv, AfterDownload, OnStaging, TypeOK
      <4> QED
        BY <4>1, CzAssumption DEF CzAssumption
    <3> QED
      BY <2>1, <3>1, <3>2, <3>3 DEF InState
  <2>3. \A s \in Runners \ {r} : pc'[s] = "idle"
    BY <1>0, <1>a, <2>1 DEF OneAtWork
  <2> QED
    BY <1>0, <1>a, <2>1, <2>2, <2>3
<1>5. ASSUME NEW r \in Runners, ShutDown(r) PROVE WholeInv'
  BY <1>0, <1>5, <1>a DEF ShutDown, Go, OneAtWork, tables
<1>6. ASSUME NEW r \in Runners, MaterializeNewTable(r) PROVE WholeInv'
  <2>1. pc[r] = "materialize_new_table" /\ pc' = [pc EXCEPT ![r] = "create_indexes_on_new"]
        /\ dump' = dump /\ live' = live /\ Unique(staging.rows)
    BY <1>6 DEF MaterializeNewTable, Go, Accepted
  <2>2. new'.rows = staging.rows
    BY <1>6, NewOK DEF MaterializeNewTable, TypeOK, Staging
  <2>3. Sound(dump[r]) /\ new'.rows = RowsOf(r, Dump[dump[r]])
    BY <2>1, <2>2, KeyTells
  <2>4. \A s \in Runners \ {r} : pc'[s] = "idle"
    BY <1>0, <1>a, <2>1 DEF OneAtWork
  <2> QED
    BY <1>0, <1>a, <2>1, <2>3, <2>4 DEF Sound
<1>7. ASSUME NEW r \in Runners, CreateIndexesOnNew(r) \/ AnalyzeNew(r) PROVE WholeInv'
  <2>1. new'.rows = new.rows
    BY <1>7 DEF CreateIndexesOnNew, AnalyzeNew, TypeOK, Table
  <2>2. pc[r] \in OnNew /\ pc'[r] \in OnNew /\ UNCHANGED <<dump, live>>
    BY <1>7, <1>a DEF CreateIndexesOnNew, AnalyzeNew, Go
  <2>3. \A s \in Runners \ {r} : pc'[s] = "idle"
    BY <1>0, <1>7, <1>a DEF OneAtWork, CreateIndexesOnNew, AnalyzeNew, Go
  <2> QED
    BY <1>0, <2>1, <2>2, <2>3 DEF Sound
<1>8. ASSUME NEW r \in Runners, AtomicSwap(r) PROVE WholeInv'
  <2>1. pc[r] = "atomic_swap" /\ pc' = [pc EXCEPT ![r] = "cleanup"] /\ live' = new
    BY <1>8 DEF AtomicSwap, Go
  <2>2. dump[r] \in Months
    BY <2>1 DEF FilesInv, AfterDownload, TypeOK
  <2>3. Sound(dump[r]) /\ FilesIn(live'.rows) = Whole(dump[r])
    BY <2>1, AllFilesIn
  <2>4. \A s \in Runners : pc'[s] \in {"idle", "cleanup"}
    BY <1>0, <1>a, <2>1 DEF OneAtWork
  <2> QED
    BY <1>0, <2>2, <2>3, <2>4
<1>9. ASSUME NEW r \in Runners, Kill(r) PROVE WholeInv'
  <2>1. UNCHANGED <<staging, new, live>> /\ \A s \in Runners : pc'[s] = "idle"
    BY <1>0, <1>9, <1>a DEF Kill, OneAtWork, tables
  <2> QED
    BY <1>0, <2>1
\* What the workers do to the run that is at work.
<1>10. ASSUME NEW r \in Runners, PoolBreaks(r) PROVE WholeInv'
  <2>1. UNCHANGED <<pc, dump, staging, new, live>>
    BY <1>10 DEF PoolBreaks, tables
  <2>2. \A s \in Runners, f \in Files : /\ copy'[s][f] = "done" <=> copy[s][f] = "done"
                                        /\ copy[s][f] # "none" => copy'[s][f] # "none"
    BY <1>10, <1>a DEF PoolBreaks, Unfinished, InState
  <2>3. \A s \in Runners : InState(s, "done")' = InState(s, "done")
    BY <2>2 DEF InState
  <2>4. \A s \in Runners : pc[s] = "gather" => Dump[dump[s]] \subseteq Files
    BY CzAssumption DEF CzAssumption, FilesInv, AfterDownload, OnStaging, TypeOK
  <2> QED
    BY <1>0, <2>1, <2>2, <2>3, <2>4
<1>11. ASSUME NEW r \in Runners, NEW f \in Files, Worker(r, f) PROVE WholeInv'
  <2>1. pc[r] \in {"gather", "shutdown"} /\ f \in Dump[dump[r]]
    BY <1>11, WorkerAtWork
  <2>2. UNCHANGED <<pc, dump, new, live>>
    BY <1>11 DEF Worker, WorkerStart, WorkerCopy, WorkerFail, tables
  <2>3. \A s \in Runners \ {r} : pc'[s] = "idle"
    BY <1>0, <2>1, <2>2 DEF OneAtWork
  <2>4. \A g \in Dump[dump[r]] : copy[r][g] # "none" => copy'[r][g] # "none"
    <3>1. PICK to \in {"copying", "done", "failed"} : copy' = [copy EXCEPT ![r][f] = to]
      BY <1>11 DEF Worker, WorkerStart, WorkerCopy, WorkerFail, Settle
    <3>2. \A g : copy'[r][g] \in {copy[r][g], to} \/ g \notin Files
      BY <1>a, <3>1
    <3>3. Dump[dump[r]] \subseteq Files
      <4>1. dump[r] \in Months
        BY <2>1 DEF FilesInv, AfterDownload, OnStaging, TypeOK
      <4> QED
        BY <4>1, CzAssumption DEF CzAssumption
    <3> QED
      BY <3>2, <3>3
  <2>5. staging.rows = RowsOf(r, InState(r, "done"))
          => staging'.rows = RowsOf(r, InState(r, "done")')
    <3>1. CASE WorkerCopy(r, f)
      <4>1. InState(r, "done")' = InState(r, "done") \cup {f}
        BY <3>1, <1>a DEF WorkerCopy, Settle, InState
      <4>2. staging'.rows = staging.rows \cup {[file |-> f, month |-> dump[r], by |-> r]}
        BY <3>1 DEF WorkerCopy, TypeOK, Staging
      <4> QED
        BY <4>1, <4>2
    <3>2. CASE WorkerStart(r, f) \/ WorkerFail(r, f)
      <4>1. InState(r, "done")' = InState(r, "done")
        BY <3>2, <1>a DEF WorkerStart, WorkerFail, Settle, InState
      <4>2. staging' = staging
        BY <3>2 DEF WorkerStart, WorkerFail, tables
      <4> QED
        BY <4>1, <4>2
    <3> QED
      BY <1>11, <3>1, <3>2 DEF Worker
  <2> QED
    BY <1>0, <2>1, <2>2, <2>3, <2>4, <2>5
<1>12. CASE MonthPasses \/ \E m \in Months : Publish(m)
  BY <1>0, <1>12 DEF MonthPasses, Publish, tables, InState
<1>13. CASE PgCrash
  <2>1. staging'.rows = {} /\ new'.rows = new.rows /\ live'.rows = live.rows
        /\ live'.exists = live.exists
    BY <1>13 DEF PgCrash, TypeOK, Staging, Table
  <2>2. UNCHANGED <<pc, dump, copy>> /\ \A r \in Runners : pc[r] \notin AtRisk
    BY <1>13 DEF PgCrash
  <2> QED
    BY <1>0, <2>1, <2>2 DEF AtRisk
<1>14. CASE UNCHANGED vars
  BY <1>0, <1>14 DEF vars, tables, InState
<1> QED
  BY <1>1, <1>2, <1>3, <1>4, <1>5, <1>6, <1>7, <1>8, <1>9, <1>10, <1>11, <1>12, <1>13,
     <1>14 DEF Next, Main, World

-----------------------------------------------------------------------------
(* The refinement *)

\* Before the first swap nothing is served; every swap serves the whole of a
\* sound dump, and nothing else changes what is served.
THEOREM CzRefinement ==
    ASSUME ~Overlap, CrashSteps \cap AtRisk = {}
    PROVE  Spec => KeepsPromise
<1> DEFINE Served == IF live.exists THEN FilesIn(live.rows) ELSE NoDump
<1>1. Init => Promise!Init
  BY DEF Init, NoTable, Promise!Init
<1>2. TypeOK /\ WholeInv /\ WholeInv' /\ [Next]_vars => [Promise!Publish]_Served
  <2> SUFFICES ASSUME TypeOK, WholeInv, WholeInv', [Next]_vars
               PROVE  [Promise!Publish]_Served
    OBVIOUS
  <2>1. ASSUME NEW r \in Runners, AtomicSwap(r) PROVE Promise!Publish
    <3>1. live'.exists
      BY <2>1 DEF AtomicSwap, Go, Accepted
    <3>2. PICK m \in Months : Sound(m) /\ FilesIn(live'.rows) = Whole(m)
      BY <3>1 DEF WholeInv
    <3> QED
      BY <3>1, <3>2 DEF Promise!Publish
  <2>2. CASE live'.exists = live.exists /\ live'.rows = live.rows
    BY <2>2
  <2>3. CASE PgCrash
    BY <2>2, <2>3 DEF PgCrash, TypeOK, Table
  <2> QED
    BY <2>1, <2>2, <2>3 DEF Next, Main, World, Begin, Found, FallBack, PrepareStaging,
       Submit, Gathered, SeeFailure, ShutDown, MaterializeNewTable, CreateIndexesOnNew,
       AnalyzeNew, CleanUp, Raise, Kill, PoolBreaks, Worker, WorkerStart, WorkerCopy,
       WorkerFail, MonthPasses, Publish, tables, vars
<1> QED
  BY <1>1, <1>2, InitTypes, StepTypes, InitFilesInv, StepFilesInv, InitWholeInv,
     StepWholeInv, PTL DEF Spec, KeepsPromise, Promise!Spec

=============================================================================
