------------------------- MODULE HrAdminUnitsProofs --------------------------
(***************************************************************************)
(* Proofs about HrAdminUnits, for any runners, extracts and bounds.        *)
(*                                                                         *)
(* However runs overlap, the lookup stays and is never half of an extract; *)
(* if they do not, HrAdminUnits implements Dataset.                        *)
(***************************************************************************)
EXTENDS HrAdminUnits, TLAPS

-----------------------------------------------------------------------------
(* Lemmas about the operators of the model *)

\* Whatever points nowhere gets no code, everything else one of the register's.
LEMMA CodeOfType ==
    ASSUME NEW e \in Extracts, NEW u
    PROVE  CodeOf(e, u) \in Codes \cup {NoCode} /\ CountyOf(e, u) \in Codes \cup {NoCode}
BY UnitsAssumption DEF UnitsAssumption, CodeOf, CountyOf, Unit

LEMMA SettlementsType ==
    ASSUME NEW e \in Extracts
    PROVE  Settlements(e) \subseteq Row
<1>1. \A u \in SettlementUnits(e) :
        u \in UnitIds /\ e[u].code \in Codes
  BY UnitsAssumption DEF UnitsAssumption, SettlementUnits, Unit
<1>2. \A u \in SettlementUnits(e) :
        /\ CodeOf(e, e[u].upper) \in Codes \cup {NoCode}
        /\ CountyOf(e, e[u].upper) \in Codes \cup {NoCode}
  BY CodeOfType
<1> QED
  BY <1>1, <1>2 DEF Settlements, Row

\* No settlement an extract names is lost, whatever its chain.
LEMMA AllNamed ==
    ASSUME NEW e \in Extracts
    PROVE  CodesIn(Settlements(e)) = Named(e)
<1>1. ASSUME NEW u \in SettlementUnits(e)
      PROVE  \E row \in Settlements(e) : row.code = e[u].code
  <2> DEFINE row == [unit |-> u, code |-> e[u].code,
                     jls |-> CodeOf(e, e[u].upper), zupanija |-> CountyOf(e, e[u].upper)]
  <2>1. row \in Settlements(e)
    BY DEF Settlements
  <2>2. row.code = e[u].code
    OBVIOUS
  <2> QED
    BY <2>1, <2>2
<1>2. \A row \in Settlements(e) : \E u \in SettlementUnits(e) : row.code = e[u].code
  BY DEF Settlements
<1> QED
  BY <1>1, <1>2 DEF CodesIn, Named

LEMMA TablesOK == NoTable \in Table /\ [NoTable EXCEPT !.exists = TRUE] \in Table
BY DEF NoTable, Table

LEMMA RowsOK ==
    ASSUME NEW t \in Table, NEW R \in SUBSET Row, NEW b \in BOOLEAN
    PROVE  [t EXCEPT !.rows = R] \in Table /\ [t EXCEPT !.analyzed = b] \in Table
BY DEF Table

-----------------------------------------------------------------------------
(* Types *)

TypeInv ==
    /\ TypeOK
    /\ \A r \in Runners : pc[r] \in {"create", "copy"} => extract[r] \in Extracts

LEMMA InitTypeInv == Init => TypeInv
BY UnitsAssumption, TablesOK DEF UnitsAssumption, Init, TypeInv, TypeOK

LEMMA StepTypeInv == TypeInv /\ [Next]_vars => TypeInv'
<1> SUFFICES ASSUME TypeInv, [Next]_vars PROVE TypeInv'
  OBVIOUS
<1> USE DEF TypeInv, TypeOK, Steps
<1>1. ASSUME NEW r \in Runners, NEW e \in Extracts, Download(r, e) PROVE TypeInv'
  BY <1>1, UnitsAssumption DEF UnitsAssumption, Download, Go, Fault
<1>2. ASSUME NEW r \in Runners, Create(r) PROVE TypeInv'
  BY <1>2, TablesOK DEF Create, Go
<1>3. ASSUME NEW r \in Runners, Copy(r) PROVE TypeInv'
  <2>1. extract[r] \in Extracts
    BY <1>3 DEF Copy, Go
  <2>2. new.rows \cup Settlements(extract[r]) \in SUBSET Row
    BY <2>1, SettlementsType DEF Table
  <2>3. new' \in Table
    BY <1>3, <2>2, RowsOK DEF Copy
  <2> QED
    BY <1>3, <2>3 DEF Copy, Go
<1>4. ASSUME NEW r \in Runners, Swap(r) PROVE TypeInv'
  BY <1>4, TablesOK DEF Swap, Go
<1>5. ASSUME NEW r \in Runners, Analyze(r) PROVE TypeInv'
  BY <1>5, RowsOK DEF Analyze, Go
<1>6. ASSUME NEW r \in Runners, Stop(r) PROVE TypeInv'
  BY <1>6, UnitsAssumption DEF UnitsAssumption, Stop, Fault
<1>7. CASE PgCrash
  <2>1. new' = [new EXCEPT !.analyzed = FALSE] /\ live' = [live EXCEPT !.analyzed = FALSE]
    BY <1>7 DEF PgCrash
  <2>2. new' \in Table /\ live' \in Table
    BY <2>1 DEF Table
  <2>3. faults' \in 0..MaxFaults
    BY <1>7, UnitsAssumption DEF UnitsAssumption, PgCrash, Fault
  <2> QED
    BY <1>7, <2>2, <2>3 DEF PgCrash
<1>8. CASE UNCHANGED vars
  BY <1>8 DEF vars
<1> QED
  BY <1>1, <1>2, <1>3, <1>4, <1>5, <1>6, <1>7, <1>8 DEF Next, Run

\* Steps, tables and bounds stay well-formed, and rows hold codes of the register
\* or none, whatever the references of an extract point at.
THEOREM UnitsTypes == Spec => []TypeOK
<1>1. TypeInv => TypeOK
  BY DEF TypeInv
<1> QED
  BY <1>1, InitTypeInv, StepTypeInv, PTL DEF Spec

-----------------------------------------------------------------------------
(* Never half, and always there *)

\* Two extracts have a settlement in common, so the primary key admits one only.
LEMMA CopyIntoEmpty ==
    ASSUME NEW r \in Runners, Accepted(r), pc[r] = "copy", extract[r] \in Extracts,
           OneExtract(new.rows)
    PROVE  new.rows = {} /\ Unique(Settlements(extract[r]))
BY ExtractsMeet DEF ExtractsMeet, Accepted, OneExtract

LEMMA InitHalfInv == Init => HalfInv
BY DEF Init, HalfInv, NoTable, OneExtract, NeverHalf

LEMMA StepHalfInv == TypeInv /\ HalfInv /\ [Next]_vars => HalfInv'
<1> SUFFICES ASSUME TypeInv, HalfInv, [Next]_vars PROVE HalfInv'
  OBVIOUS
<1> USE DEF HalfInv, TypeInv, TypeOK
<1>1. ASSUME NEW r \in Runners, NEW e \in Extracts, Download(r, e) PROVE HalfInv'
  BY <1>1 DEF Download, Go, NeverHalf
<1>2. ASSUME NEW r \in Runners, Create(r) PROVE HalfInv'
  BY <1>2 DEF Create, Go, Accepted, NoTable, OneExtract, NeverHalf
<1>3. ASSUME NEW r \in Runners, Copy(r) PROVE HalfInv'
  <2>1. extract[r] \in Extracts /\ Cardinality(Settlements(extract[r])) >= MinSettlements
    BY <1>3 DEF Copy, Go
  <2>2. new.rows = {} /\ Unique(Settlements(extract[r]))
    BY <1>3, <2>1, CopyIntoEmpty DEF Copy, Go
  <2>3. Sound(extract[r]) /\ new'.rows = Settlements(extract[r])
    BY <1>3, <2>1, <2>2 DEF Copy, Sound, Table
  <2>4. OneExtract(new.rows)'
    BY <2>1, <2>3 DEF OneExtract
  <2> QED
    BY <1>3, <2>4 DEF Copy, Go, NeverHalf
<1>4. ASSUME NEW r \in Runners, Swap(r) PROVE HalfInv'
  BY <1>4 DEF Swap, Go, NoTable, OneExtract, NeverHalf
<1>5. ASSUME NEW r \in Runners, Analyze(r) PROVE HalfInv'
  <2>1. live'.rows = live.rows
    BY <1>5 DEF Analyze, Table
  <2> QED
    BY <1>5, <2>1 DEF Analyze, Go, NeverHalf
<1>6. ASSUME NEW r \in Runners, Stop(r) PROVE HalfInv'
  BY <1>6 DEF Stop, NeverHalf
<1>7. CASE PgCrash
  <2>1. live'.rows = live.rows /\ new'.rows = new.rows
    BY <1>7 DEF PgCrash, Table
  <2> QED
    BY <1>7, <2>1 DEF PgCrash, NeverHalf, OneExtract
<1>8. CASE UNCHANGED vars
  BY <1>8 DEF vars, NeverHalf
<1> QED
  BY <1>1, <1>2, <1>3, <1>4, <1>5, <1>6, <1>7, <1>8 DEF Next, Run

\* However many runs overlap on the one working table, the lookup is a whole
\* extract or empty, never a part of one or a mixture.
THEOREM LookupNeverHalf == Spec => []NeverHalf
<1>1. HalfInv => NeverHalf
  BY DEF HalfInv
<1> QED
  BY <1>1, InitTypeInv, StepTypeInv, InitHalfInv, StepHalfInv, PTL DEF Spec

\* Once there, the lookup is never missing: store()'s DROP and RENAME are one
\* transaction, and PostgreSQL refuses it when there is nothing to rename.
THEOREM LookupStays == Spec => LiveStays
<1>1. TypeInv /\ [Next]_vars => [live.exists => live'.exists]_vars
  BY DEF TypeInv, TypeOK, Table, Next, Run, Download, Create, Copy, Swap, Analyze, Stop,
     PgCrash, Go, Accepted
<1> QED
  BY <1>1, InitTypeInv, StepTypeInv, PTL DEF Spec, LiveStays

-----------------------------------------------------------------------------
(* Runs that do not overlap keep the promise *)

LEMMA InitWholeInv == Init => WholeInv
BY DEF Init, WholeInv, OneAtWork, NoTable

LEMMA StepWholeInv == TypeInv /\ HalfInv /\ WholeInv /\ [Next]_vars => WholeInv'
<1> SUFFICES ASSUME TypeInv, HalfInv, WholeInv, [Next]_vars, ~overlap PROVE WholeInv'
  BY DEF WholeInv, Next, Run, Download, Create, Copy, Swap, Analyze, Stop, PgCrash, vars
<1> USE DEF WholeInv, OneAtWork, TypeInv, TypeOK
<1>1. ASSUME NEW r \in Runners, NEW e \in Extracts, Download(r, e) PROVE WholeInv'
  BY <1>1 DEF Download, Go
<1>2. ASSUME NEW r \in Runners, Create(r) PROVE WholeInv'
  BY <1>2 DEF Create, Go
<1>3. ASSUME NEW r \in Runners, Copy(r) PROVE WholeInv'
  <2>1. extract[r] \in Extracts /\ Cardinality(Settlements(extract[r])) >= MinSettlements
    BY <1>3 DEF Copy, Go, HalfInv
  <2>2. new.rows = {} /\ Unique(Settlements(extract[r]))
    BY <1>3, <2>1, CopyIntoEmpty DEF Copy, Go, HalfInv
  <2>3. Sound(extract[r]) /\ new'.rows = Settlements(extract[r])
    BY <1>3, <2>1, <2>2 DEF Copy, Sound, Table
  <2> QED
    BY <1>3, <2>1, <2>3 DEF Copy, Go
<1>4. ASSUME NEW r \in Runners, Swap(r) PROVE WholeInv'
  <2>1. PICK e \in Extracts : Sound(e) /\ live'.rows = Settlements(e)
    BY <1>4 DEF Swap, Go
  <2>2. CodesIn(live'.rows) = Named(e)
    BY <2>1, AllNamed
  <2> QED
    BY <1>4, <2>1, <2>2 DEF Swap, Go
<1>5. ASSUME NEW r \in Runners, Analyze(r) PROVE WholeInv'
  <2>1. live'.rows = live.rows /\ live'.exists = live.exists
    BY <1>5 DEF Analyze, Table
  <2> QED
    BY <1>5, <2>1 DEF Analyze, Go
<1>6. ASSUME NEW r \in Runners, Stop(r) PROVE WholeInv'
  BY <1>6 DEF Stop
<1>7. CASE PgCrash
  <2>1. /\ live'.rows = live.rows /\ live'.exists = live.exists
        /\ new'.rows = new.rows
    BY <1>7 DEF PgCrash, Table
  <2> QED
    BY <1>7, <2>1 DEF PgCrash
<1>8. CASE UNCHANGED vars
  BY <1>8 DEF vars
<1> QED
  BY <1>1, <1>2, <1>3, <1>4, <1>5, <1>6, <1>7, <1>8 DEF Next, Run

\* As long as runs do not overlap, the lookup is nothing or one whole sound
\* extract, replaced in one step, through failures and crashes.
THEOREM LookupRefines == Spec => KeepsPromise
<1> DEFINE Served == IF live.exists /\ ~overlap THEN CodesIn(live.rows) ELSE NoExtract
<1>1. Init => Promise!Init
  BY DEF Init, NoTable, Promise!Init
<1>2. TypeInv /\ WholeInv /\ WholeInv' /\ [Next]_vars => [Promise!Publish]_Served
  <2> SUFFICES ASSUME TypeInv, WholeInv, WholeInv', [Next]_vars, ~overlap
               PROVE  [Promise!Publish]_Served
    BY DEF Next, Run, Download, Create, Copy, Swap, Analyze, Stop, PgCrash, vars
  <2>1. overlap' = overlap
    BY DEF Next, Run, Download, Create, Copy, Swap, Analyze, Stop, PgCrash, vars
  <2>2. ASSUME NEW r \in Runners, Swap(r) PROVE Promise!Publish
    <3>1. live'.exists
      BY <2>2 DEF Swap, Go, Accepted
    <3>2. PICK e \in Extracts : Sound(e) /\ CodesIn(live'.rows) = Named(e)
      BY <2>1, <3>1 DEF WholeInv
    <3> QED
      BY <2>1, <3>1, <3>2 DEF Promise!Publish
  <2>3. ASSUME live'.exists = live.exists, live'.rows = live.rows PROVE Served' = Served
    BY <2>1, <2>3
  <2>4. CASE live'.exists = live.exists /\ live'.rows = live.rows
    BY <2>3, <2>4
  <2> QED
    BY <2>2, <2>4 DEF TypeInv, TypeOK, Table, Next, Run, Download, Create, Copy, Analyze,
       Stop, PgCrash, vars
<1> QED
  BY <1>1, <1>2, InitTypeInv, StepTypeInv, InitHalfInv, StepHalfInv, InitWholeInv,
     StepWholeInv, PTL DEF Spec, KeepsPromise, Promise!Spec

=============================================================================
