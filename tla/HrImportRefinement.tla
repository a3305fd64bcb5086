------------------------- MODULE HrImportRefinement --------------------------
(***************************************************************************)
(* Proof that HrImport implements Dataset when runs do not overlap and no  *)
(* crash comes while counted rows are at risk: what is served is always    *)
(* all that drop_duplicates keeps of one good package, replaced in one     *)
(* step; and that is the whole of the package unless two of its addresses  *)
(* have no identifier.                                                     *)
(***************************************************************************)
EXTENDS HrImportProofs

-----------------------------------------------------------------------------
(* What drop_duplicates leaves *)

\* Every non-empty set of numbers has a least one.
LEMMA LeastNumber ==
    ASSUME NEW T \in SUBSET Nat, T # {}
    PROVE  \E m \in T : \A n \in T : m <= n
<1>1. PICK m \in T : \A n \in T : ~(<<n, m>> \in OpToRel(<, Nat))
  BY NatLessThanWellFounded, WFMin, T \subseteq Nat
<1>2. \A n \in T : ~(n < m)
  BY <1>1 DEF OpToRel
<1> QED
  BY <1>2

LEMMA PackageType ==
    ASSUME NEW p \in Packages
    PROVE  /\ Len(p) \in Nat /\ DOMAIN p = 1..Len(p)
           /\ \A i \in DOMAIN p : p[i] \in Ids \cup Nameless
           /\ Ids \cap Nameless = {}
BY HrAssumption DEF HrAssumption, Addresses

\* Of the rows copied from a package, the first of each partition are left: every
\* address that has an identifier, the first of those without, each of them once.
LEMMA FirstHold ==
    ASSUME NEW p \in Packages
    PROVE  Holds(FirstOfEachId(Copied(p, 0)), p)
<1> DEFINE R == Copied(p, 0)
<1>1. /\ DOMAIN p \subseteq Nat
      /\ \A i \in DOMAIN p, k \in Nat : k \in 1..i - 1 => k \in DOMAIN p
      /\ \A i \in DOMAIN p : p[i] \in Ids \/ p[i] \in Nameless
      /\ \A address \in Ids : address \notin Nameless
  BY PackageType
<1>2. \A i \in DOMAIN p : [fid |-> i, address |-> p[i]] \in R
  BY <1>1 DEF Copied
<1>3. \A x \in R : /\ x.fid \in DOMAIN p /\ x.address = p[x.fid]
                   /\ x = [fid |-> x.fid, address |-> x.address]
  BY <1>1 DEF Copied
<1> HIDE DEF R
<1>4. ASSUME NEW i \in DOMAIN p, p[i] \in Ids
      PROVE  \E x \in FirstOfEachId(R) : x.address = p[i]
  <2> DEFINE T == {j \in DOMAIN p : p[j] = p[i]}
  <2>1. PICK m \in T : \A n \in T : m <= n
    <3>1. T \in SUBSET Nat /\ T # {}
      BY <1>1
    <3> HIDE DEF T
    <3> QED
      BY <3>1, LeastNumber
  <2> DEFINE x == [fid |-> m, address |-> p[m]]
  <2>2. x \in R
    BY <1>2
  <2>3. \A y \in R : SamePartition(x, y) => x.fid <= y.fid
    BY <1>1, <1>3, <1>4, <2>1 DEF SamePartition
  <2> QED
    BY <2>2, <2>3 DEF FirstOfEachId
<1>5. ASSUME NEW i \in DOMAIN p, \A k \in 1..i - 1 : p[k] \in Ids, p[i] \in Nameless
      PROVE  \E x \in FirstOfEachId(R) : x.address = p[i]
  <2> DEFINE x == [fid |-> i, address |-> p[i]]
  <2>1. x \in R
    BY <1>2
  <2>2. ASSUME NEW y \in R, SamePartition(x, y) PROVE x.fid <= y.fid
    <3>1. y.address \in Nameless /\ y.address = p[y.fid] /\ y.fid \in 1..Len(p)
      BY <1>3, <1>5, <2>2, PackageType DEF SamePartition
    <3>2. y.fid \notin 1..i - 1
      BY <1>1, <1>5, <3>1
    <3> QED
      BY <1>1, <3>1, <3>2, PackageType
  <2> QED
    BY <2>1, <2>2 DEF FirstOfEachId
<1>6. AddressesIn(FirstOfEachId(R)) = Kept(p)
  <2> DEFINE K == {j \in DOMAIN p : p[j] \in Ids \/ \A k \in 1..j - 1 : p[k] \in Ids}
  <2>1. \A i \in K : p[i] \in AddressesIn(FirstOfEachId(R))
    BY <1>1, <1>4, <1>5 DEF AddressesIn
  <2>2. ASSUME NEW x \in FirstOfEachId(R) PROVE x.fid \in K
    <3>1. x \in R
      BY DEF FirstOfEachId
    <3>2. ASSUME p[x.fid] \notin Ids, NEW k \in 1..x.fid - 1 PROVE p[k] \in Ids
      <4> DEFINE y == [fid |-> k, address |-> p[k]]
      <4>1. x.fid \in DOMAIN p /\ k \in DOMAIN p /\ x.fid \in Nat /\ k \in Nat
        BY <1>1, <1>3, <3>1
      <4>2. y \in R /\ ~(x.fid <= y.fid)
        BY <1>2, <4>1
      <4>3. ~SamePartition(x, y)
        BY <4>2 DEF FirstOfEachId
      <4> QED
        BY <1>1, <1>3, <3>1, <3>2, <4>1, <4>3 DEF SamePartition
    <3> QED
      BY <1>3, <3>1, <3>2
  <2>3. \A x \in FirstOfEachId(R) : x.address = p[x.fid]
    BY <1>3 DEF FirstOfEachId
  <2>4. Kept(p) = {p[i] : i \in K}
    BY DEF Kept
  <2> HIDE DEF K
  <2> QED
    BY <2>1, <2>2, <2>3, <2>4 DEF AddressesIn
<1>7. OnePerId(FirstOfEachId(R))
  <2> SUFFICES ASSUME NEW x \in FirstOfEachId(R), NEW y \in FirstOfEachId(R),
                      x.address = y.address
               PROVE  x = y
    BY DEF OnePerId
  <2>1. x \in R /\ y \in R /\ x.fid <= y.fid /\ y.fid <= x.fid
    BY DEF FirstOfEachId, SamePartition
  <2>2. x.fid = y.fid
    BY <1>1, <1>3, <2>1
  <2> QED
    BY <1>3, <2>1, <2>2
<1> QED
  BY <1>6, <1>7 DEF Holds, R

\* A table that holds a package has as many rows as drop_duplicates keeps of it, so
\* the row count validate_import reads tells whether the package is good.
LEMMA CountTells ==
    ASSUME NEW p \in Packages, NEW rows, Holds(rows, p), Cardinality(rows) >= MinRows
    PROVE  Good(p)
<1>1. MinRows \in Nat
  BY HrAssumption DEF HrAssumption
<1>2. IsFiniteSet(Kept(p))
  <2> DEFINE content == {p[i] : i \in DOMAIN p}
             g == [i \in 1..Len(p) |-> p[i]]
  <2>1. Len(p) \in Nat /\ DOMAIN p = 1..Len(p)
    BY PackageType
  <2>2. g \in Surjection(1..Len(p), content)
    BY <2>1 DEF Surjection
  <2>3. IsFiniteSet(1..Len(p))
    BY <2>1, FS_Interval
  <2>4. Kept(p) \subseteq content
    BY DEF Kept
  <2>5. IsFiniteSet(content)
    BY <2>2, <2>3, FS_Surjection
  <2> QED
    BY <2>4, <2>5, FS_Subset
<1> DEFINE f == [x \in rows |-> x.address]
<1>3. f \in Injection(rows, Kept(p))
  BY DEF Holds, AddressesIn, OnePerId, Injection, IsInjective
<1>4. IsFiniteSet(rows) /\ Cardinality(rows) <= Cardinality(Kept(p))
  BY <1>2, <1>3, FS_Injection
<1>5. Cardinality(rows) \in Nat /\ Cardinality(Kept(p)) \in Nat
  BY <1>2, <1>4, FS_CardinalityType
<1> QED
  BY <1>1, <1>4, <1>5 DEF Good

-----------------------------------------------------------------------------
(* The working table holds a package *)

LEMMA InitWholeInv == Init => WholeInv
BY DEF Init, WholeInv, NoTable, Validated, WithColumns

LEMMA StepWholeInv ==
    ASSUME ~Overlap, CrashSteps \cap AtRisk = {}
    PROVE  TypeOK /\ ReadyInv /\ ValidInv /\ WholeInv /\ [Next]_vars => WholeInv'
<1> SUFFICES ASSUME TypeOK, ReadyInv, ValidInv, WholeInv, [Next]_vars PROVE WholeInv'
  OBVIOUS
<1> USE DEF TypeOK, WholeInv, Validated, WithColumns
<1>0. OneAtWork
  BY DEF ValidInv
<1>1. ASSUME NEW r \in Runners, NEW p \in Packages, Download(r, p) PROVE WholeInv'
  BY <1>1 DEF Download
<1>2. ASSUME NEW r \in Runners, PrepareWorkspace(r) PROVE WholeInv'
  BY <1>0, <1>2 DEF OneAtWork, Go, PrepareWorkspace, FreshTable, NoTable
<1>3. ASSUME NEW r \in Runners, Store(r) PROVE WholeInv'
  <2>1. package[r] \in Packages /\ pc[r] = "store" /\ pc' = [pc EXCEPT ![r] = "drop_duplicates"]
    BY <1>3 DEF Store, Go, PackageHeld
  <2>2. new'.rows = Copied(package[r], 0)
    BY <1>3, <2>1 DEF Store, Table
  <2>3. live' = live
    BY <1>3 DEF Store
  <2> QED
    BY <1>0, <2>1, <2>2, <2>3 DEF OneAtWork
<1>4. ASSUME NEW r \in Runners, DropDuplicates(r) PROVE WholeInv'
  <2>1. pc[r] = "drop_duplicates" /\ pc' = [pc EXCEPT ![r] = "validate_import"] /\ live' = live
    BY <1>4 DEF DropDuplicates, Go
  <2>2. CASE new.rows = {}
    <3>1. new'.rows = {}
      BY <1>4, <2>2 DEF DropDuplicates, FirstOfEachId, Table
    <3> QED
      BY <1>0, <2>1, <3>1 DEF OneAtWork
  <2>3. CASE \E p \in Packages : new.rows = Copied(p, 0)
    <3>1. PICK p \in Packages : new.rows = Copied(p, 0)
      BY <2>3
    <3>2. Holds(new'.rows, p)
      BY <1>4, <3>1, FirstHold DEF DropDuplicates, Table
    <3> QED
      BY <1>0, <2>1, <3>2 DEF OneAtWork
  <2> QED
    BY <2>1, <2>2, <2>3
<1>5. ASSUME NEW r \in Runners,
             ValidateImport(r) \/ AddDerivedColumns(r) \/ AddUnitColumns(r) \/ HasTable(r)
               \/ FillUnits(r) \/ MakeLogged(r) \/ CreateIndexes(r) \/ Analyze(r)
      PROVE  WholeInv'
  <2>1. new'.rows = new.rows
    BY <1>5 DEF ValidateImport, AddDerivedColumns, AddUnitColumns, HasTable, FillUnits,
       MakeLogged, CreateIndexes, Analyze, Table
  <2>2. /\ live' = live
        /\ pc[r] \in {"validate_import"} \cup Validated
        /\ pc'[r] \in Validated
        /\ \A s \in Runners \ {r} : pc'[s] = pc[s]
    BY <1>5 DEF Go, ValidateImport, AddDerivedColumns, AddUnitColumns, HasTable,
       FillUnits, MakeLogged, CreateIndexes, Analyze
  <2>3. \A s \in Runners \ {r} : pc[s] = "idle"
    BY <1>0, <2>2 DEF OneAtWork
  <2>4. \E p \in Packages : Holds(new'.rows, p)
    <3>1. CASE pc[r] = "validate_import"
      <4>1. Cardinality(new.rows) >= MinRows
        BY <1>5, <3>1 DEF ValidateImport, Go, Accepted, AddDerivedColumns, AddUnitColumns,
           HasTable, FillUnits, MakeLogged, CreateIndexes, Analyze
      <4>2. Cardinality({}) = 0 /\ ~(0 >= MinRows)
        BY HrAssumption, FS_EmptySet DEF HrAssumption
      <4>3. new.rows # {}
        BY <4>1, <4>2, Zenon
      <4> QED
        BY <2>1, <3>1, <4>3
    <3>2. CASE pc[r] \in Validated
      BY <2>1, <3>2
    <3> QED
      BY <2>2, <3>1, <3>2
  <2> QED
    BY <2>2, <2>3, <2>4
<1>6. ASSUME NEW r \in Runners, AtomicSwap(r) PROVE WholeInv'
  <2>1. /\ pc[r] = "atomic_swap" /\ pc' = [pc EXCEPT ![r] = "idle"]
        /\ live' = new
    BY <1>6 DEF AtomicSwap, Go
  <2>2. Cardinality(new.rows) >= MinRows
    BY <2>1 DEF ValidInv
  <2>3. \E p \in Packages : Good(p) /\ AddressesIn(new.rows) = Kept(p)
    BY <2>1, <2>2, CountTells DEF Holds
  <2>4. \A s \in Runners : pc'[s] = "idle"
    BY <1>0, <2>1 DEF OneAtWork
  <2> QED
    BY <2>1, <2>3, <2>4
<1>7. ASSUME NEW r \in Runners, Raise(r) \/ Fail(r) PROVE WholeInv'
  BY <1>7 DEF Raise, Fail, Stop
<1>8. CASE RebuildUnits
  BY <1>8 DEF RebuildUnits
<1>9. CASE PgCrash
  <2>1. pc' = pc /\ new' = AfterCrash(new) /\ live' = AfterCrash(live)
    BY <1>9 DEF PgCrash
  <2>2. ASSUME NEW r \in Runners, pc[r] = "store" PROVE new'.rows = {} /\ new'.lastFid = 0
    BY <2>1, <2>2, AfterCrashOK
  <2>3. ASSUME NEW r \in Runners, pc[r] \in Validated PROVE new'.rows = new.rows
    <3>1. pc[r] \in Logged
      BY <1>9, <2>3 DEF PgCrash, AtRisk, Logged
    <3> QED
      BY <2>1, <3>1, AfterCrashOK DEF ReadyInv
  <2>4. new'.rows \in {new.rows, {}}
    BY <2>1, AfterCrashOK
  <2>5. live'.exists = live.exists /\ (live.exists => live'.rows = live.rows)
    BY <2>1, AfterCrashOK DEF ReadyInv, LiveReady
  <2> QED
    BY <2>1, <2>2, <2>3, <2>4, <2>5
<1>10. CASE UNCHANGED vars
  BY <1>10 DEF vars
<1> QED
  BY <1>1, <1>2, <1>3, <1>4, <1>5, <1>6, <1>7, <1>8, <1>9, <1>10 DEF Next, Run

-----------------------------------------------------------------------------
(* The refinement *)

\* Before the first swap nothing is served; every swap serves all that
\* drop_duplicates keeps of a good package (every address that has an identifier, and
\* the first of those without), and nothing else changes what is served.
THEOREM Refinement ==
    ASSUME ~Overlap, CrashSteps \cap AtRisk = {}
    PROVE  Spec => KeepsPromise
<1> DEFINE Served == IF live.exists THEN AddressesIn(live.rows) ELSE NoPackage
<1>1. Init => Promise!Init
  BY DEF Init, NoTable, Promise!Init
<1>2. TypeOK /\ ReadyInv /\ ValidInv /\ WholeInv /\ [Next]_vars => [Promise!Publish]_Served
  <2> SUFFICES ASSUME TypeOK, ReadyInv, ValidInv, WholeInv, [Next]_vars
               PROVE  [Promise!Publish]_Served
    OBVIOUS
  <2>1. WholeInv'
    BY StepWholeInv
  <2>2. ASSUME NEW r \in Runners, AtomicSwap(r) PROVE Promise!Publish
    <3>1. live'.exists
      BY <2>2 DEF AtomicSwap, Go, Accepted, OnWorkingTable, TypeOK
    <3>2. PICK p \in Packages : Good(p) /\ AddressesIn(live'.rows) = Kept(p)
      BY <2>1, <3>1 DEF WholeInv
    <3> QED
      BY <3>1, <3>2 DEF Promise!Publish
  <2>3. CASE live' = live
    BY <2>3
  <2>4. CASE PgCrash
    <3>1. live'.exists = live.exists /\ (live.exists => live'.rows = live.rows)
      BY <2>4, AfterCrashOK DEF PgCrash, ReadyInv, LiveReady, TypeOK
    <3> QED
      BY <3>1
  <2> QED
    BY <2>2, <2>3, <2>4 DEF Next, Run, Download, PrepareWorkspace, Store, DropDuplicates,
       ValidateImport, AddDerivedColumns, AddUnitColumns, HasTable, FillUnits, MakeLogged,
       CreateIndexes, Analyze, Raise, Fail, Stop, RebuildUnits, vars
<1> QED
  BY <1>1, <1>2, InitTypeOK, StepTypeOK, InitReadyInv, StepReadyInv, InitValidInv,
     StepValidInv, InitWholeInv, StepWholeInv, PTL DEF Spec, KeepsPromise, Promise!Spec

\* Where no package has two addresses without identifier, nothing at all is lost:
\* the live table has every address of some package.
THEOREM NoneLost ==
    ASSUME ~Overlap, CrashSteps \cap AtRisk = {},
           \A p \in Packages : \A i, j \in DOMAIN p :
               p[i] \in Nameless /\ p[j] \in Nameless => i = j
    PROVE  Spec => []NoAddressLost
<1>1. ASSUME NEW p \in Packages PROVE Kept(p) = Content(p)
  <2>1. \A i \in DOMAIN p : p[i] \in Ids \/ \A k \in 1..i - 1 : p[k] \in Ids
    <3> SUFFICES ASSUME NEW i \in DOMAIN p, p[i] \notin Ids, NEW k \in 1..i - 1
                 PROVE  p[k] \in Ids
      OBVIOUS
    <3>1. i \in Nat /\ k \in DOMAIN p /\ k # i
      BY PackageType
    <3> QED
      BY <3>1, PackageType
  <2> QED
    BY <2>1 DEF Kept, Content
<1>2. WholeInv => NoAddressLost
  BY <1>1 DEF WholeInv, NoAddressLost
<1> QED
  BY <1>2, InitTypeOK, StepTypeOK, InitReadyInv, StepReadyInv, InitValidInv,
     StepValidInv, InitWholeInv, StepWholeInv, PTL DEF Spec

=============================================================================
