--------------------------- MODULE HrImportProofs ----------------------------
(***************************************************************************)
(* Proofs about HrImport, for any runners, packages and bounds.            *)
(*                                                                         *)
(* However runs overlap and wherever the server crashes, the live table    *)
(* stays, is unique and searchable.  If runs do not overlap it is ready,   *)
(* and if no crash comes while counted rows are at risk it is validated.   *)
(***************************************************************************)
EXTENDS HrImport, FiniteSetTheorems, TLAPS

-----------------------------------------------------------------------------
(* Lemmas about the operators of the model *)

\* COPY adds rows of the right type for any package the publisher serves.
LEMMA CopiedType ==
    ASSUME NEW p \in Packages, NEW last \in Nat
    PROVE  Copied(p, last) \subseteq Row /\ Len(p) \in Nat
<1>1. p \in Seq(Addresses)
  BY HrAssumption DEF HrAssumption
<1>2. Len(p) \in Nat /\ DOMAIN p = 1..Len(p)
  BY <1>1
<1>3. \A i \in DOMAIN p : p[i] \in Addresses /\ i \in Nat
  BY <1>1, <1>2
<1> QED
  BY <1>2, <1>3 DEF Copied, Row

\* Fewer rows cannot clash where more did not.
LEMMA UniqueSubset ==
    ASSUME NEW S, NEW T, T \subseteq S, Unique(S)
    PROVE  Unique(T)
BY DEF Unique

LEMMA TablesOK == NoTable \in Table /\ FreshTable \in Table
BY DEF NoTable, FreshTable, Table

\* What the steps write into a table leaves it a table.
LEMMA RowsOK ==
    ASSUME NEW t \in Table, NEW R \in SUBSET Row, NEW n \in Nat, NEW A \in SUBSET Nat
    PROVE  /\ [t EXCEPT !.rows = R, !.lastFid = n, !.answers = A] \in Table
           /\ [t EXCEPT !.rows = R] \in Table
BY DEF Table

LEMMA AnswersOK ==
    ASSUME NEW t \in Table, NEW u \in Nat
    PROVE  /\ [t EXCEPT !.columns = TRUE, !.answers = {u}] \in Table
           /\ [t EXCEPT !.answers = {u}] \in Table
BY DEF Table

LEMMA FlagsOK ==
    ASSUME NEW t \in Table
    PROVE  /\ [t EXCEPT !.derived = TRUE] \in Table
           /\ [t EXCEPT !.logged = TRUE] \in Table
           /\ [t EXCEPT !.indexed = TRUE] \in Table
           /\ [t EXCEPT !.analyzed = "done"] \in Table
BY DEF Table

LEMMA AfterCrashOK ==
    ASSUME NEW t \in Table
    PROVE  /\ AfterCrash(t) \in Table
           /\ AfterCrash(t).exists = t.exists
           /\ AfterCrash(t).rows \subseteq t.rows
           /\ AfterCrash(t).indexed = t.indexed
           /\ AfterCrash(t).derived = t.derived
           /\ AfterCrash(t).rows \in {t.rows, {}}
           /\ AfterCrash(t).rows = {} => AfterCrash(t).lastFid \in {t.lastFid, 0}
           /\ t.logged => AfterCrash(t).rows = t.rows
BY DEF AfterCrash, Table

-----------------------------------------------------------------------------
(* Types *)

LEMMA InitTypeOK == Init => TypeOK
BY HrAssumption, TablesOK
   DEF HrAssumption, Init, TypeOK, PackageHeld

LEMMA StepTypeOK == TypeOK /\ [Next]_vars => TypeOK'
<1> SUFFICES ASSUME TypeOK, [Next]_vars PROVE TypeOK'
  OBVIOUS
<1> USE DEF TypeOK, PackageHeld
<1>1. ASSUME NEW r \in Runners, NEW p \in Packages, Download(r, p) PROVE TypeOK'
  BY <1>1, HrAssumption DEF HrAssumption, Download, Fault, Steps
<1>2. ASSUME NEW r \in Runners, PrepareWorkspace(r) PROVE TypeOK'
  BY <1>2, TablesOK DEF PrepareWorkspace, Go, Steps, OnWorkingTable
<1>3. ASSUME NEW r \in Runners, Store(r) PROVE TypeOK'
  <2>1. Copied(package[r], new.lastFid) \subseteq Row /\ Len(package[r]) \in Nat
    BY <1>3, CopiedType DEF Store, Go, Table
  <2>2. new' \in Table
    <3> DEFINE R == new.rows \cup Copied(package[r], new.lastFid)
               n == new.lastFid + Len(package[r])
               A == IF new.columns THEN new.answers \cup {0} ELSE new.answers
    <3>1. R \in SUBSET Row /\ n \in Nat /\ A \in SUBSET Nat
      BY <2>1 DEF Table
    <3>2. new' = [new EXCEPT !.rows = R, !.lastFid = n, !.answers = A]
      BY <1>3 DEF Store
    <3> HIDE DEF R, n, A
    <3> QED
      BY <3>1, <3>2, RowsOK
  <2> QED
    BY <1>3, <2>2 DEF Store, Go, Steps, OnWorkingTable
<1>4. ASSUME NEW r \in Runners, DropDuplicates(r) PROVE TypeOK'
  <2>1. new' \in Table
    BY <1>4 DEF DropDuplicates, FirstOfEachId, Table
  <2> QED
    BY <1>4, <2>1 DEF DropDuplicates, Go, Steps, OnWorkingTable
<1>5. ASSUME NEW r \in Runners, ValidateImport(r) \/ HasTable(r) PROVE TypeOK'
  BY <1>5 DEF ValidateImport, HasTable, Go, Steps, OnWorkingTable
<1>6. ASSUME NEW r \in Runners,
             AddDerivedColumns(r) \/ AddUnitColumns(r) \/ FillUnits(r)
               \/ MakeLogged(r) \/ CreateIndexes(r) \/ Analyze(r)
      PROVE  TypeOK'
  <2>1. ASSUME AddUnitColumns(r) \/ FillUnits(r) PROVE new' \in Table
    <3>1. 0 \in Nat /\ units \in Nat
      BY HrAssumption DEF HrAssumption
    <3> QED
      BY <2>1, <3>1, AnswersOK DEF AddUnitColumns, FillUnits
  <2>2. ASSUME AddDerivedColumns(r) \/ MakeLogged(r) \/ CreateIndexes(r) \/ Analyze(r)
        PROVE  new' \in Table
    BY <2>2, FlagsOK DEF AddDerivedColumns, MakeLogged, CreateIndexes, Analyze
  <2>3. new' \in Table
    BY <1>6, <2>1, <2>2
  <2> QED
    BY <1>6, <2>3 DEF AddDerivedColumns, AddUnitColumns, FillUnits, MakeLogged,
       CreateIndexes, Analyze, Go, Steps, OnWorkingTable
<1>7. ASSUME NEW r \in Runners, AtomicSwap(r) PROVE TypeOK'
  BY <1>7, TablesOK DEF AtomicSwap, Go, Steps, OnWorkingTable
<1>8. ASSUME NEW r \in Runners, Raise(r) \/ Fail(r) PROVE TypeOK'
  BY <1>8, HrAssumption DEF HrAssumption, Raise, Fail, Fault, Stop, Steps
<1>9. CASE RebuildUnits
  BY <1>9, HrAssumption DEF HrAssumption, RebuildUnits
<1>10. CASE PgCrash
  BY <1>10, AfterCrashOK, HrAssumption DEF HrAssumption, PgCrash, Fault
<1>11. CASE UNCHANGED vars
  BY <1>11 DEF vars
<1> QED
  BY <1>1, <1>2, <1>3, <1>4, <1>5, <1>6, <1>7, <1>8, <1>9, <1>10, <1>11 DEF Next, Run

\* Tables, steps and bounds stay well-formed, and a run that still needs its
\* archive has it: TypeOK has PackageHeld among its parts.
THEOREM TypeCorrect == Spec => []TypeOK
BY InitTypeOK, StepTypeOK, PTL DEF Spec

-----------------------------------------------------------------------------
(* Whatever overlaps and crashes *)

LEMMA InitIndexInv == Init => IndexInv
BY DEF Init, IndexInv, LiveSearchable, LiveUnique, Unique, NoTable

LEMMA StepIndexInv == TypeOK /\ IndexInv /\ [Next]_vars => IndexInv'
<1> SUFFICES ASSUME TypeOK, IndexInv, [Next]_vars PROVE IndexInv'
  OBVIOUS
<1> USE DEF TypeOK, IndexInv, LiveSearchable, LiveUnique
<1>1. ASSUME NEW r \in Runners,
             (\E p \in Packages : Download(r, p)) \/ ValidateImport(r) \/ HasTable(r)
               \/ Raise(r) \/ Fail(r)
      PROVE  IndexInv'
  BY <1>1 DEF Download, ValidateImport, HasTable, Raise, Fail, Stop
<1>2. ASSUME NEW r \in Runners, PrepareWorkspace(r) PROVE IndexInv'
  BY <1>2 DEF PrepareWorkspace, FreshTable, NoTable
<1>3. ASSUME NEW r \in Runners, Store(r) PROVE IndexInv'
  \* PostgreSQL refuses a COPY that would break the index.
  <2>1. new.indexed => Unique(new'.rows) /\ new'.derived
    BY <1>3 DEF Store, Go, Accepted, Table
  <2>2. new'.indexed = new.indexed /\ live' = live
    BY <1>3 DEF Store, Table
  <2> QED
    BY <2>1, <2>2
<1>4. ASSUME NEW r \in Runners, DropDuplicates(r) PROVE IndexInv'
  <2>1. new'.rows \subseteq new.rows
    BY <1>4 DEF DropDuplicates, FirstOfEachId, Table
  <2>2. new'.indexed = new.indexed /\ new'.derived = new.derived /\ live' = live
    BY <1>4 DEF DropDuplicates, Table
  <2> QED
    BY <2>1, <2>2, UniqueSubset
<1>5. ASSUME NEW r \in Runners,
             AddDerivedColumns(r) \/ AddUnitColumns(r) \/ FillUnits(r) \/ MakeLogged(r)
               \/ Analyze(r)
      PROVE  IndexInv'
  BY <1>5 DEF AddDerivedColumns, AddUnitColumns, FillUnits, MakeLogged, Analyze, Table
<1>6. ASSUME NEW r \in Runners, CreateIndexes(r) PROVE IndexInv'
  BY <1>6 DEF CreateIndexes, Go, Accepted, Table
<1>7. ASSUME NEW r \in Runners, AtomicSwap(r) PROVE IndexInv'
  BY <1>7 DEF AtomicSwap, Go, Accepted, NoTable
<1>8. CASE RebuildUnits
  BY <1>8 DEF RebuildUnits
<1>9. CASE PgCrash
  <2>1. /\ new'.indexed = new.indexed /\ new'.derived = new.derived
        /\ new'.rows \subseteq new.rows
        /\ live'.exists = live.exists
        /\ live'.indexed = live.indexed /\ live'.derived = live.derived
        /\ live'.rows \subseteq live.rows
    BY <1>9, AfterCrashOK DEF PgCrash
  <2> QED
    BY <2>1, UniqueSubset
<1>10. CASE UNCHANGED vars
  BY <1>10 DEF vars
<1> QED
  BY <1>1, <1>2, <1>3, <1>4, <1>5, <1>6, <1>7, <1>8, <1>9, <1>10 DEF Next, Run

\* No identifier is ever served twice, in any interleaving of any number of
\* runs with any number of crashes.
THEOREM AlwaysUnique == Spec => []LiveUnique
<1>1. IndexInv => LiveUnique
  BY DEF IndexInv
<1> QED
  BY <1>1, InitTypeOK, StepTypeOK, InitIndexInv, StepIndexInv, PTL DEF Spec

\* Nor is a table without the indexes and derived columns ever served.
THEOREM AlwaysSearchable == Spec => []LiveSearchable
<1>1. IndexInv => LiveSearchable
  BY DEF IndexInv
<1> QED
  BY <1>1, InitTypeOK, StepTypeOK, InitIndexInv, StepIndexInv, PTL DEF Spec

\* Once there is a live table there always is one: only the swap drops it, and
\* it puts another in its place or is rolled back.
THEOREM AlwaysThere == Spec => LiveStays
<1>1. TypeOK /\ [Next]_vars => [live.exists => live'.exists]_vars
  <2> SUFFICES ASSUME TypeOK, Next, live.exists PROVE live'.exists
    BY DEF vars
  <2> USE DEF TypeOK
  <2>1. ASSUME NEW r \in Runners, AtomicSwap(r) PROVE live'.exists
    BY <2>1 DEF AtomicSwap, Go, Accepted, OnWorkingTable
  <2>2. CASE PgCrash
    BY <2>2, AfterCrashOK DEF PgCrash
  <2>3. CASE live' = live
    BY <2>3
  <2> QED
    BY <2>1, <2>2, <2>3 DEF Next, Run, Download, PrepareWorkspace, Store,
       DropDuplicates, ValidateImport, AddDerivedColumns, AddUnitColumns, HasTable,
       FillUnits, MakeLogged, CreateIndexes, Analyze, Raise, Fail, Stop, RebuildUnits
<1> QED
  BY <1>1, InitTypeOK, StepTypeOK, PTL DEF Spec, LiveStays

-----------------------------------------------------------------------------
(* One run at a time: the working table belongs to whoever is at work *)

\* A run only ever takes itself from one step to the next or to its end, and
\* begins when no other is under way.
LEMMA StepOneAtWork ==
    ASSUME ~Overlap, TypeOK, OneAtWork, [Next]_vars
    PROVE  OneAtWork'
<1> USE DEF TypeOK, OneAtWork
<1>1. ASSUME NEW r \in Runners, NEW p \in Packages, Download(r, p) PROVE OneAtWork'
  BY <1>1 DEF Download
<1>2. ASSUME NEW r \in Runners, Run(r) \/ Fail(r),
             ~\E p \in Packages : Download(r, p)
      PROVE  OneAtWork'
  <2>1. pc[r] # "idle" /\ \E to : pc' = [pc EXCEPT ![r] = to]
    BY <1>2 DEF Run, Go, PrepareWorkspace, Store, DropDuplicates, ValidateImport,
       AddDerivedColumns, AddUnitColumns, HasTable, FillUnits, MakeLogged,
       CreateIndexes, Analyze, AtomicSwap, Raise, Fail, Stop
  <2> QED
    BY <2>1
<1>3. CASE pc' = pc
  BY <1>3
<1> QED
  BY <1>1, <1>2, <1>3 DEF Next, Run, RebuildUnits, PgCrash, vars

LEMMA SingletonAnswers == \A u : Cardinality({u}) = 1
BY FS_Singleton

LEMMA InitReadyInv == Init => ReadyInv
BY DEF Init, ReadyInv, OneAtWork, LiveReady, NoTable, WithColumns, Logged

LEMMA StepReadyInv ==
    ASSUME ~Overlap
    PROVE  TypeOK /\ ReadyInv /\ [Next]_vars => ReadyInv'
<1> SUFFICES ASSUME TypeOK, ReadyInv, [Next]_vars PROVE ReadyInv'
  OBVIOUS
<1> USE DEF TypeOK, ReadyInv, LiveReady, WithColumns, Logged
<1>0. OneAtWork'
  BY StepOneAtWork
<1>1. ASSUME NEW r \in Runners, NEW p \in Packages, Download(r, p) PROVE ReadyInv'
  BY <1>0, <1>1 DEF Download
<1>2. ASSUME NEW r \in Runners,
             PrepareWorkspace(r) \/ Store(r) \/ DropDuplicates(r) \/ ValidateImport(r)
               \/ AddDerivedColumns(r)
      PROVE  ReadyInv'
  BY <1>0, <1>2 DEF OneAtWork, Go, PrepareWorkspace, Store, DropDuplicates,
     ValidateImport, AddDerivedColumns
<1>3. ASSUME NEW r \in Runners, AddUnitColumns(r) PROVE ReadyInv'
  BY <1>0, <1>3, HrAssumption DEF HrAssumption, OneAtWork, Go, AddUnitColumns, Table
<1>4. ASSUME NEW r \in Runners, HasTable(r) PROVE ReadyInv'
  BY <1>0, <1>4 DEF OneAtWork, Go, HasTable
<1>5. ASSUME NEW r \in Runners, FillUnits(r) PROVE ReadyInv'
  BY <1>0, <1>5, HrAssumption DEF HrAssumption, OneAtWork, Go, FillUnits, Table
<1>6. ASSUME NEW r \in Runners, MakeLogged(r) \/ CreateIndexes(r) \/ Analyze(r)
      PROVE  ReadyInv'
  BY <1>0, <1>6 DEF OneAtWork, Go, MakeLogged, CreateIndexes, Analyze, Table
<1>7. ASSUME NEW r \in Runners, AtomicSwap(r) PROVE ReadyInv'
  <2>1. LiveReady'
    BY <1>7, SingletonAnswers DEF Go, AtomicSwap
  <2> QED
    BY <1>0, <1>7, <2>1 DEF OneAtWork, Go, AtomicSwap
<1>8. ASSUME NEW r \in Runners, Raise(r) \/ Fail(r) PROVE ReadyInv'
  BY <1>0, <1>8 DEF Raise, Fail, Stop
<1>9. CASE RebuildUnits
  BY <1>0, <1>9 DEF RebuildUnits
<1>10. CASE PgCrash
  <2>1. /\ new'.columns = new.columns /\ new'.answers = new.answers
        /\ new'.logged = new.logged
        /\ live'.exists = live.exists /\ live'.columns = live.columns
        /\ live'.answers = live.answers /\ live'.logged = live.logged
        /\ new.analyzed # "never" => new'.analyzed # "never"
        /\ live.analyzed # "never" => live'.analyzed # "never"
    BY <1>10 DEF PgCrash, AfterCrash, Table
  <2> QED
    BY <1>0, <1>10, <2>1 DEF PgCrash
<1>11. CASE UNCHANGED vars
  BY <1>0, <1>11 DEF vars
<1> QED
  BY <1>1, <1>2, <1>3, <1>4, <1>5, <1>6, <1>7, <1>8, <1>9, <1>10, <1>11 DEF Next, Run

\* Runs that do not overlap only ever publish a durable table with the county
\* and municipality columns filled from one lookup, through server crashes.
THEOREM AlwaysReady ==
    ASSUME ~Overlap
    PROVE  Spec => []LiveReady
<1>1. ReadyInv => LiveReady
  BY DEF ReadyInv
<1> QED
  BY <1>1, InitTypeOK, StepTypeOK, InitReadyInv, StepReadyInv, PTL DEF Spec

LEMMA InitValidInv == Init => ValidInv
BY DEF Init, ValidInv, OneAtWork, LiveValidated, NoTable, Validated, WithColumns

LEMMA StepValidInv ==
    ASSUME ~Overlap, CrashSteps \cap AtRisk = {}
    PROVE  TypeOK /\ ReadyInv /\ ValidInv /\ [Next]_vars => ValidInv'
<1> SUFFICES ASSUME TypeOK, ReadyInv, ValidInv, [Next]_vars PROVE ValidInv'
  OBVIOUS
<1> USE DEF TypeOK, ValidInv, LiveValidated, Validated, WithColumns
<1>0. OneAtWork'
  BY StepOneAtWork
<1>1. ASSUME NEW r \in Runners, NEW p \in Packages, Download(r, p) PROVE ValidInv'
  BY <1>0, <1>1 DEF Download
<1>2. ASSUME NEW r \in Runners, PrepareWorkspace(r) \/ Store(r) \/ DropDuplicates(r)
      PROVE  ValidInv'
  BY <1>0, <1>2 DEF OneAtWork, Go, PrepareWorkspace, Store, DropDuplicates
<1>3. ASSUME NEW r \in Runners, ValidateImport(r) PROVE ValidInv'
  BY <1>0, <1>3 DEF OneAtWork, Go, Accepted, ValidateImport
<1>4. ASSUME NEW r \in Runners,
             AddDerivedColumns(r) \/ AddUnitColumns(r) \/ HasTable(r) \/ FillUnits(r)
               \/ MakeLogged(r) \/ CreateIndexes(r) \/ Analyze(r)
      PROVE  ValidInv'
  <2>1. new'.rows = new.rows
    BY <1>4 DEF AddDerivedColumns, AddUnitColumns, HasTable, FillUnits, MakeLogged,
       CreateIndexes, Analyze, Table
  <2>2. live' = live /\ pc[r] \in Validated /\ \A s \in Runners \ {r} : pc'[s] = pc[s]
    BY <1>4 DEF Go, AddDerivedColumns, AddUnitColumns, HasTable, FillUnits,
       MakeLogged, CreateIndexes, Analyze
  <2> QED
    BY <1>0, <2>1, <2>2
<1>5. ASSUME NEW r \in Runners, AtomicSwap(r) PROVE ValidInv'
  BY <1>0, <1>5 DEF OneAtWork, Go, AtomicSwap
<1>6. ASSUME NEW r \in Runners, Raise(r) \/ Fail(r) PROVE ValidInv'
  BY <1>0, <1>6 DEF Raise, Fail, Stop
<1>7. CASE RebuildUnits
  BY <1>0, <1>7 DEF RebuildUnits
<1>8. CASE PgCrash
  <2>1. ASSUME NEW r \in Runners, pc[r] \in Validated PROVE new'.rows = new.rows
    <3>1. pc[r] \in Logged
      BY <1>8, <2>1 DEF PgCrash, AtRisk, Logged
    <3> QED
      BY <1>8, <3>1, AfterCrashOK DEF PgCrash, ReadyInv
  <2>2. live'.exists = live.exists /\ (live.exists => live'.rows = live.rows)
    BY <1>8, AfterCrashOK DEF PgCrash, ReadyInv, LiveReady
  <2> QED
    BY <1>0, <1>8, <2>1, <2>2 DEF PgCrash
<1>9. CASE UNCHANGED vars
  BY <1>0, <1>9 DEF vars
<1> QED
  BY <1>1, <1>2, <1>3, <1>4, <1>5, <1>6, <1>7, <1>8, <1>9 DEF Next, Run

\* Runs that do not overlap never publish a table with fewer rows than
\* validate_import asks for, if no crash comes between its count and make_logged.
THEOREM AlwaysValidated ==
    ASSUME ~Overlap, CrashSteps \cap AtRisk = {}
    PROVE  Spec => []LiveValidated
<1>1. ValidInv => LiveValidated
  BY DEF ValidInv
<1> QED
  BY <1>1, InitTypeOK, StepTypeOK, InitReadyInv, StepReadyInv, InitValidInv,
     StepValidInv, PTL DEF Spec

=============================================================================
