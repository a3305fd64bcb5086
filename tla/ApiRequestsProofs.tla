-------------------------- MODULE ApiRequestsProofs --------------------------
(***************************************************************************)
(* Proofs about ApiRequests, for any number of requests, any pool, any     *)
(* plans and bounds, with crashes.                                         *)
(*                                                                         *)
(* A lock lives exactly as long as the transaction that took it, and a     *)
(* swap needs a table without locks; so what a transaction has read stays  *)
(* the live dataset until it is over.                                      *)
(***************************************************************************)
EXTENDS ApiRequests, FiniteSetTheorems, TLAPS

-----------------------------------------------------------------------------
(* Lemmas *)

\* The connections in use can be counted.
LEMMA ConnectedCount ==
    Connected \subseteq Requests /\ IsFiniteSet(Connected) /\ Cardinality(Connected) \in Nat
<1>1. Connected \subseteq Requests
  BY DEF Connected
<1> QED
  BY <1>1, ApiAssumption, FS_Subset, FS_CardinalityType DEF ApiAssumption

\* One request more, or fewer, on a connection.
LEMMA OneMore ==
    ASSUME NEW r \in Requests, r \notin Connected, Connected' = Connected \cup {r}
    PROVE  Cardinality(Connected') = Cardinality(Connected) + 1
BY ConnectedCount, FS_AddElement

LEMMA OneFewer ==
    ASSUME NEW r \in Requests, r \in Connected, Connected' = Connected \ {r}
    PROVE  Cardinality(Connected') = Cardinality(Connected) - 1
BY ConnectedCount, FS_RemoveElement

\* The next block, and what is left, of a request that has one.
LEMMA BlocksOK ==
    ASSUME NEW p \in Seq(Seq(Statement)), p # <<>>
    PROVE  Head(p) \in Seq(Statement) /\ Tail(p) \in Seq(Seq(Statement))
OBVIOUS

LEMMA EmptyOK == <<>> \in Seq(Statement) /\ <<>> \in Seq(Seq(Statement))
OBVIOUS

\* The statement a request is at, on a connection with statements.
LEMMA CurrentOK ==
    ASSUME TypeOK, AtInv, NEW r \in Connected, block[r] # <<>>
    PROVE  /\ Current(r) \in Statement
           /\ Current(r).on \in Tables
           /\ gen[Current(r).on] \in Gens
           /\ at[r] \in 1..Len(block[r]) /\ Len(block[r]) \in Nat
<1>1. r \in Requests /\ block[r] \in Seq(Statement) /\ at[r] \in DOMAIN block[r]
  BY ConnectedCount DEF TypeOK, AtInv
<1>2. Current(r) \in Statement /\ at[r] \in 1..Len(block[r]) /\ Len(block[r]) \in Nat
  BY <1>1 DEF Current
<1> QED
  BY <1>2 DEF Statement, TypeOK

LEMMA EnqueueOK ==
    ASSUME ahead \in [Requests -> SUBSET Requests], NEW r \in Requests, Enqueue(r)
    PROVE  ahead' \in [Requests -> SUBSET Requests]
<1> DEFINE W == {q \in Requests : pc[q] = "queued"}
<1>1. W \in SUBSET Requests /\ ahead' = [ahead EXCEPT ![r] = W]
  BY DEF Enqueue
<1> HIDE DEF W
<1> QED
  BY <1>1

LEMMA PlansOK ==
    ASSUME NEW p \in Plans
    PROVE  p \in Seq(Seq(Statement)) /\ p # <<>>
BY ApiAssumption DEF ApiAssumption

-----------------------------------------------------------------------------
(* Types *)

LEMMA InitTypeInv == Init => TypeInv
<1> SUFFICES ASSUME Init PROVE TypeInv
  OBVIOUS
<1>1. Connected = {}
  BY DEF Init, Connected
<1>2. Cardinality(Connected) = 0
  BY <1>1, FS_EmptySet
<1>3. (PoolInv => TypeOK) /\ BlockWaits /\ AtInv
  BY <1>1, EmptyOK, ApiAssumption
  DEF ApiAssumption, Init, TypeOK, BlockWaits, AtInv, Gens
<1>4. PoolInv /\ SwapInv
  BY <1>2, ApiAssumption DEF ApiAssumption, PoolInv, SwapInv, Init
<1> QED
  BY <1>3, <1>4 DEF TypeInv

\* A request that ends its block, well or not.
LEMMA LeaveType ==
    ASSUME TypeInv, NEW r \in Requests, Finish(r) \/ Fail(r)
    PROVE  TypeInv'
<1> USE DEF TypeInv, TypeOK, SwapInv
<1>1. r \in Connected /\ Connected' = Connected \ {r}
  BY DEF Finish, Fail, Connected
<1>2. Cardinality(Connected') = Cardinality(Connected) - 1
  BY <1>1, OneFewer
<1>3. PoolInv'
  BY <1>2, ConnectedCount, ApiAssumption DEF ApiAssumption, PoolInv, Finish, Fail
<1>4. /\ block' = [block EXCEPT ![r] = <<>>]
      /\ at' = [at EXCEPT ![r] = 1]
      /\ seen' = [seen EXCEPT ![r] = {}]
      /\ broken' = broken \ {r}
      /\ rest' \in {rest, [rest EXCEPT ![r] = <<>>]}
      /\ UNCHANGED <<stale, gen, swap, crashes>>
  BY DEF Finish, Fail, Leave
<1>5. /\ block' \in [Requests -> Seq(Statement)]
      /\ rest' \in [Requests -> Seq(Seq(Statement))]
  BY <1>4, EmptyOK
<1>6. at' \in [Requests -> Nat \ {0}] /\ broken' \subseteq Requests
  BY <1>4
<1>7. seen' \in [Requests -> SUBSET (Tables \X Gens)]
  <2>1. {} \in SUBSET (Tables \X Gens)
    OBVIOUS
  <2> HIDE DEF Tables, Gens
  <2> QED
    BY <1>4, <2>1
<1>8. /\ pc' \in [Requests -> {"idle", "queued", "open", "finished"}]
      /\ ahead' \in [Requests -> SUBSET Requests]
  <2>1. CASE Finish(r) /\ rest[r] # <<>>
    BY <2>1, EnqueueOK DEF Finish
  <2>2. CASE Finish(r) /\ rest[r] = <<>>
    BY <2>2 DEF Finish
  <2>3. CASE Fail(r)
    BY <2>3 DEF Fail
  <2> QED
    BY <2>1, <2>2, <2>3
<1>9. BlockWaits'
  <2>1. CASE Finish(r)
    BY <2>1 DEF Finish, BlockWaits
  <2>2. CASE Fail(r)
    BY <2>2 DEF Fail, BlockWaits
  <2> QED
    BY <2>1, <2>2
<1>10. AtInv'
  BY <1>1, <1>4, ConnectedCount DEF Finish, Fail, AtInv
<1>11. /\ holders' \in [Tables -> SUBSET Requests]
       /\ waiters' \in [Tables -> SUBSET Requests]
  BY DEF Finish, Fail, Release
<1> QED
  BY <1>3, <1>4, <1>5, <1>6, <1>7, <1>8, <1>9, <1>10, <1>11

LEMMA ConnectType ==
    ASSUME TypeInv, NEW r \in Requests, Connect(r)
    PROVE  TypeInv'
<1>0. \/ stale > 0 /\ stale' = stale - 1
      \/ stale < Idle /\ stale' = stale
  BY DEF Connect
<1> USE DEF TypeInv, TypeOK, SwapInv, Connect
<1>1. r \notin Connected /\ Connected' = Connected \cup {r}
  BY DEF Connected
<1>2. Cardinality(Connected') = Cardinality(Connected) + 1
  BY <1>1, OneMore
<1>3. Cardinality(Connected) < PoolMax
  BY ConnectedCount, ApiAssumption DEF ApiAssumption, Idle
<1>4. PoolInv' /\ stale' \in 0..PoolMax
  <2> DEFINE n == Cardinality(Connected)
             m == Cardinality(Connected')
  <2>1. n \in Nat /\ PoolMax \in Nat /\ stale \in 0..PoolMax
    BY ConnectedCount, ApiAssumption DEF ApiAssumption
  <2>2. n + stale <= PoolMax /\ n < PoolMax /\ m = n + 1
    BY <1>2, <1>3 DEF PoolInv
  <2> HIDE DEF n, m, TypeInv, TypeOK, SwapInv, Connect
  <2>3. \/ stale > 0 /\ stale' = stale - 1
        \/ stale < PoolMax - n /\ stale' = stale
    BY <1>0 DEF Idle, n
  <2>4. m + stale' <= PoolMax /\ stale' \in 0..PoolMax
    BY <2>1, <2>2, <2>3
  <2>5. PoolMax' = PoolMax
    OBVIOUS
  <2> QED
    BY <2>4, <2>5 DEF PoolInv, m
<1>5. Head(rest[r]) \in Seq(Statement) /\ Tail(rest[r]) \in Seq(Seq(Statement))
  BY BlocksOK DEF BlockWaits
<1>6. /\ block' \in [Requests -> Seq(Statement)]
      /\ rest' \in [Requests -> Seq(Seq(Statement))]
  BY <1>5
<1>7. BlockWaits'
  BY DEF BlockWaits
<1>8. AtInv'
  <2> SUFFICES ASSUME NEW q \in Connected'
               PROVE  /\ pc'[q] = "open" => block'[q] # <<>>
                      /\ block'[q] # <<>> => at'[q] \in DOMAIN block'[q]
    BY DEF AtInv
  <2>1. CASE q = r
    <3>1. block'[q] = Head(rest[r]) /\ at'[q] = 1
      BY <2>1
    <3>2. pc'[q] = "open" => block'[q] # <<>>
      BY <2>1, <3>1
    <3> QED
      BY <1>5, <3>1, <3>2
  <2>2. CASE q # r
    BY <2>2, <1>1, ConnectedCount DEF AtInv
  <2> QED
    BY <2>1, <2>2
<1>9. /\ pc' \in [Requests -> {"idle", "queued", "open", "finished"}]
      /\ at' \in [Requests -> Nat \ {0}]
      /\ ahead' \in [Requests -> SUBSET Requests]
      /\ broken' \subseteq Requests
  BY DEF Dequeue
<1> QED
  BY <1>4, <1>6, <1>7, <1>8, <1>9 DEF locks

LEMMA ExecuteType ==
    ASSUME TypeInv, NEW r \in Requests, Execute(r)
    PROVE  TypeInv'
<1> USE DEF TypeInv, TypeOK, SwapInv
<1> DEFINE s == Current(r)
<1>1. r \in Connected /\ block[r] # <<>>
  BY DEF Execute, Connected, AtInv
<1>2. /\ s.on \in Tables /\ gen[s.on] \in Gens
      /\ at[r] \in 1..Len(block[r]) /\ Len(block[r]) \in Nat
  BY <1>1, CurrentOK
<1>3. Connected' = Connected
  BY DEF Execute, Connected
<1>4. PoolInv'
  BY <1>3 DEF PoolInv, Execute, pool
<1>5. /\ pc' \in [Requests -> {"idle", "queued", "open", "finished"}]
      /\ at' \in [Requests -> Nat \ {0}]
      /\ BlockWaits'
  <2>1. CASE pc' = [pc EXCEPT ![r] = "finished"] /\ at' = at
    BY <2>1 DEF Execute, BlockWaits
  <2>2. CASE at' = [at EXCEPT ![r] = at[r] + 1] /\ pc' = pc
    BY <2>2 DEF Execute, BlockWaits
  <2> QED
    BY <2>1, <2>2 DEF Execute
<1>6. holders' \in [Tables -> SUBSET Requests]
  <2>1. holders' = holders \/ holders' = [holders EXCEPT ![s.on] = @ \cup {r}]
    BY DEF Execute
  <2>2. holders[s.on] \cup {r} \in SUBSET Requests
    BY <1>2
  <2> HIDE DEF s, Tables
  <2> QED
    BY <2>1, <2>2
<1>7. seen' \in [Requests -> SUBSET (Tables \X Gens)]
  <2> DEFINE S == SUBSET (Tables \X Gens)
             N == seen[r] \cup {<<s.on, gen[s.on]>>}
  <2>1. <<s.on, gen[s.on]>> \in Tables \X Gens
    BY <1>2
  <2>2. N \in S /\ seen \in [Requests -> S]
    BY <2>1
  <2>3. seen' = seen \/ seen' = [seen EXCEPT ![r] = N]
    BY DEF Execute
  <2> HIDE DEF N, S
  <2>4. seen' \in [Requests -> S]
    BY <2>2, <2>3
  <2> QED
    BY <2>4 DEF S
<1>8. AtInv'
  <2> SUFFICES ASSUME NEW q \in Connected
               PROVE  /\ pc'[q] = "open" => block'[q] # <<>>
                      /\ block'[q] # <<>> => at'[q] \in DOMAIN block'[q]
    BY <1>3 DEF AtInv
  <2>1. CASE q = r
    <3>1. block'[q] = block[r] /\ at'[q] \in {at[r], at[r] + 1}
      BY <2>1 DEF Execute
    <3>2. at'[q] = at[r] + 1 => at[r] # Len(block[r])
      BY <2>1, <1>2 DEF Execute
    <3>3. block[r] \in Seq(Statement)
      OBVIOUS
    <3> QED
      BY <1>1, <1>2, <3>1, <3>2, <3>3
  <2>2. CASE q # r
    BY <2>2, ConnectedCount DEF Execute, AtInv
  <2> QED
    BY <2>1, <2>2
<1> QED
  BY <1>4, <1>5, <1>6, <1>7, <1>8 DEF Execute, pool

LEMMA StepTypeInv == TypeInv /\ [Next]_vars => TypeInv'
<1> SUFFICES ASSUME TypeInv, [Next]_vars PROVE TypeInv'
  OBVIOUS
<1> USE DEF TypeInv, TypeOK, SwapInv
<1>1. ASSUME NEW r \in Requests, NEW plan \in Plans, Arrive(r, plan) PROVE TypeInv'
  <2>1. Connected' = Connected
    BY <1>1 DEF Arrive, Connected
  <2>2. PoolInv' /\ AtInv'
    BY <1>1, <2>1, ConnectedCount DEF PoolInv, AtInv, Arrive, Connected
  <2>3. rest' \in [Requests -> Seq(Seq(Statement))] /\ BlockWaits'
    BY <1>1, PlansOK DEF Arrive, BlockWaits
  <2> QED
    BY <1>1, <2>2, <2>3 DEF Arrive, Enqueue, locks
<1>2. ASSUME NEW r \in Requests, TimeOut(r) PROVE TypeInv'
  <2>1. Connected' = Connected
    BY <1>2 DEF TimeOut, Connected
  <2>2. PoolInv' /\ AtInv'
    BY <1>2, <2>1, ConnectedCount DEF PoolInv, AtInv, TimeOut, Connected
  <2>3. rest' \in [Requests -> Seq(Seq(Statement))] /\ BlockWaits'
    BY <1>2, EmptyOK DEF TimeOut, BlockWaits
  <2> QED
    BY <1>2, <2>2, <2>3 DEF TimeOut, Dequeue, locks
<1>3. ASSUME NEW r \in Requests, Wait(r) PROVE TypeInv'
  <2>1. Connected' = Connected
    BY <1>3 DEF Wait, Connected, request
  <2>2. PoolInv' /\ AtInv' /\ BlockWaits'
    BY <1>3, <2>1 DEF PoolInv, AtInv, BlockWaits, Wait, pool, request
  <2> QED
    BY <1>3, <2>2 DEF Wait, pool, request
<1>4. ASSUME NEW t \in Tables, SwapBegin(t) \/ SwapLock(t) \/ SwapCommit(t) \/ SwapAbort(t)
      PROVE  TypeInv'
  <2>1. UNCHANGED <<request, pool, crashes>>
    BY <1>4 DEF SwapBegin, SwapLock, SwapCommit, SwapAbort, LetIn
  <2>2. Connected' = Connected
    BY <2>1 DEF Connected, request
  <2>3. PoolInv' /\ AtInv' /\ BlockWaits'
    BY <2>1, <2>2 DEF PoolInv, AtInv, BlockWaits, pool, request
  <2>4. gen' \in [Tables -> Gens] /\ SwapInv'
    <3>1. CASE SwapCommit(t)
      <4>1. gen[t] < MaxGen /\ gen[t] \in 0..MaxGen /\ MaxGen \in Nat
        BY <3>1, ApiAssumption DEF ApiAssumption, SwapCommit, Gens
      <4>2. gen[t] + 1 \in Gens
        BY <4>1 DEF Gens
      <4> QED
        BY <3>1, <4>2 DEF SwapCommit, LetIn
    <3>2. CASE SwapBegin(t) \/ SwapLock(t) \/ SwapAbort(t)
      BY <3>2 DEF SwapBegin, SwapLock, SwapAbort, LetIn
    <3> QED
      BY <1>4, <3>1, <3>2
  <2>5. /\ swap' \in [Tables -> {"none", "waiting", "holding"}]
        /\ holders' \in [Tables -> SUBSET Requests]
        /\ waiters' \in [Tables -> SUBSET Requests]
    <3>1. CASE SwapBegin(t) \/ SwapLock(t)
      BY <3>1 DEF SwapBegin, SwapLock, locks
    <3>2. CASE SwapCommit(t) \/ SwapAbort(t)
      <4>1. LetIn(t)
        BY <3>2 DEF SwapCommit, SwapAbort
      <4>2. holders[t] \cup waiters[t] \in SUBSET Requests /\ {} \in SUBSET Requests
        OBVIOUS
      <4> QED
        BY <4>1, <4>2 DEF LetIn
    <3> QED
      BY <1>4, <3>1, <3>2
  <2> QED
    BY <2>1, <2>3, <2>4, <2>5 DEF request, pool
<1>5. CASE PgCrash
  <2>1. Connected' = Connected
    BY <1>5 DEF PgCrash, Connected, request
  <2>2. PoolInv' /\ stale' \in 0..PoolMax
    BY <1>5, <2>1, ConnectedCount, ApiAssumption
    DEF ApiAssumption, PoolInv, PgCrash, Idle
  <2>3. broken' \subseteq Requests /\ crashes' \in 0..MaxCrashes
    BY <1>5, ConnectedCount, ApiAssumption DEF ApiAssumption, PgCrash
  <2>4. AtInv' /\ BlockWaits'
    BY <1>5, <2>1 DEF AtInv, BlockWaits, PgCrash, request
  <2> QED
    BY <1>5, <2>2, <2>3, <2>4 DEF PgCrash, request
<1>6. CASE UNCHANGED vars
  BY <1>6 DEF vars, request, pool, locks, PoolInv, AtInv, BlockWaits, Connected
<1> QED
  BY <1>1, <1>2, <1>3, <1>4, <1>5, <1>6, ConnectType, ExecuteType, LeaveType
  DEF Next, Handle, Client, Swap, Raise

\* Requests, pool and locks stay well-formed, and the pool is never exceeded.
THEOREM ApiTypes == Spec => []TypeOK
<1>1. TypeInv => TypeOK
  BY DEF TypeInv
<1> QED
  BY <1>1, InitTypeInv, StepTypeInv, PTL DEF Spec

-----------------------------------------------------------------------------
(* Locks *)

LEMMA InitLockInv == Init => LockInv
BY DEF Init, LockInv, Connected

\* Ending a block gives back what the transaction held.
LEMMA LeaveLock ==
    ASSUME TypeInv, LockInv, NEW r \in Requests, Finish(r) \/ Fail(r)
    PROVE  LockInv'
<1>1. r \in Connected /\ Connected' = Connected \ {r}
  BY DEF Finish, Fail, Connected, TypeInv, TypeOK
<1>2. /\ seen' = [seen EXCEPT ![r] = {}]
      /\ broken' = broken \ {r}
      /\ holders' = [t \in Tables |-> holders[t] \ {r}]
      /\ waiters' = [t \in Tables |-> waiters[t] \ {r}]
      /\ UNCHANGED <<gen, swap>>
  BY DEF Finish, Fail, Leave, Release
<1>3. seen \in [Requests -> SUBSET (Tables \X Gens)]
  BY DEF TypeInv, TypeOK
<1>4. broken' \subseteq Connected'
  BY <1>1, <1>2 DEF LockInv
<1>5. \A t \in Tables : /\ holders'[t] \cup waiters'[t] \subseteq Connected' \ broken'
                        /\ swap'[t] = "holding" => holders'[t] = {}
  BY <1>1, <1>2 DEF LockInv
<1>6. \A q \in Requests \ Connected' : seen'[q] = {}
  BY <1>1, <1>2, <1>3 DEF LockInv
<1>7. ASSUME NEW q \in Connected' \ broken', NEW read \in seen'[q]
      PROVE  q \in holders'[read[1]] /\ read[2] = gen'[read[1]]
  <2>1. q \in Connected \ broken /\ q # r /\ q \in Requests
    BY <1>1, <1>2, ConnectedCount
  <2>2. read \in seen[q]
    BY <2>1, <1>2, <1>3, <1>7
  <2>3. read[1] \in Tables
    BY <2>1, <2>2, <1>3
  <2>4. q \in holders[read[1]] /\ read[2] = gen[read[1]]
    BY <2>1, <2>2 DEF LockInv
  <2> QED
    BY <2>1, <2>3, <2>4, <1>2
<1> QED
  BY <1>4, <1>5, <1>6, <1>7 DEF LockInv

\* A SELECT takes its lock while no swap holds the table, and reads the table
\* the lock is on.
LEMMA ExecuteLock ==
    ASSUME TypeInv, LockInv, NEW r \in Requests, Execute(r)
    PROVE  LockInv'
<1> DEFINE s == Current(r)
<1>1. r \in Connected /\ r \notin broken /\ Connected' = Connected
  BY DEF Execute, Connected, TypeInv, TypeOK
<1>2. /\ s.on \in Tables
      /\ s.locking => r \in holders[s.on] \/ swap[s.on] = "none"
      /\ UNCHANGED <<broken, waiters, gen, swap>>
  <2>1. block[r] # <<>>
    BY <1>1 DEF Execute, TypeInv, AtInv
  <2> QED
    BY <1>1, <2>1, CurrentOK DEF Execute, TypeInv, pool
<1>3. CASE ~s.locking
  <2>1. UNCHANGED <<holders, seen>>
    BY <1>3 DEF Execute
  <2> QED
    BY <1>1, <1>2, <2>1 DEF LockInv
<1>4. CASE s.locking
  <2>1. /\ holders' = [holders EXCEPT ![s.on] = @ \cup {r}]
        /\ seen' = [seen EXCEPT ![r] = @ \cup {<<s.on, gen[s.on]>>}]
    BY <1>4 DEF Execute
  <2>2. /\ seen \in [Requests -> SUBSET (Tables \X Gens)]
        /\ holders \in [Tables -> SUBSET Requests]
    BY DEF TypeInv, TypeOK
  <2> HIDE DEF s
  <2>3. \A t \in Tables : /\ holders'[t] \cup waiters'[t] \subseteq Connected' \ broken'
                          /\ swap'[t] = "holding" => holders'[t] = {}
    BY <1>1, <1>2, <1>4, <2>1, <2>2 DEF LockInv
  <2>4. \A q \in Requests \ Connected' : seen'[q] = {}
    BY <1>1, <2>1, <2>2 DEF LockInv
  <2>5. ASSUME NEW q \in Connected' \ broken', NEW read \in seen'[q]
        PROVE  q \in holders'[read[1]] /\ read[2] = gen'[read[1]]
    <3>1. q \in Connected \ broken /\ q \in Requests
      BY <1>1, <1>2, ConnectedCount
    <3>2. CASE read \in seen[q]
      <4>1. q \in holders[read[1]] /\ read[2] = gen[read[1]] /\ read[1] \in Tables
        BY <3>1, <3>2, <2>2 DEF LockInv
      <4> QED
        BY <4>1, <1>2, <2>1, <2>2
    <3>3. CASE read \notin seen[q]
      <4>1. q = r /\ read = <<s.on, gen[s.on]>>
        BY <3>1, <3>3, <2>1, <2>2, <2>5
      <4> QED
        BY <4>1, <1>2, <2>1, <2>2
    <3> QED
      BY <3>2, <3>3
  <2> QED
    BY <1>1, <1>2, <2>3, <2>4, <2>5 DEF LockInv
<1> QED
  BY <1>3, <1>4

\* A swap changes a dataset only while nobody holds a lock on it.
LEMMA SwapLockInv ==
    ASSUME TypeInv, LockInv, NEW t \in Tables,
           SwapBegin(t) \/ SwapLock(t) \/ SwapCommit(t) \/ SwapAbort(t)
    PROVE  LockInv'
<1>1. UNCHANGED <<pc, seen, broken>> /\ Connected' = Connected
  BY DEF SwapBegin, SwapLock, SwapCommit, SwapAbort, LetIn, Connected, request, pool
<1>2. /\ seen \in [Requests -> SUBSET (Tables \X Gens)]
      /\ holders \in [Tables -> SUBSET Requests]
      /\ waiters \in [Tables -> SUBSET Requests]
      /\ gen \in [Tables -> Gens]
      /\ swap \in [Tables -> {"none", "waiting", "holding"}]
  BY DEF TypeInv, TypeOK
<1>3. CASE SwapBegin(t) \/ SwapLock(t)
  BY <1>1, <1>2, <1>3 DEF LockInv, SwapBegin, SwapLock, locks
<1>4. CASE SwapCommit(t) \/ SwapAbort(t)
  <2>1. /\ swap' = [swap EXCEPT ![t] = "none"]
        /\ holders' = [holders EXCEPT ![t] = @ \cup waiters[t]]
        /\ waiters' = [waiters EXCEPT ![t] = {}]
    BY <1>4 DEF SwapCommit, SwapAbort, LetIn
  <2>2. \A u \in Tables : holders[u] # {} => gen'[u] = gen[u]
    BY <1>2, <1>4 DEF SwapCommit, SwapAbort, LockInv
  <2>3. \A u \in Tables : /\ holders'[u] \cup waiters'[u] \subseteq Connected' \ broken'
                          /\ swap'[u] = "holding" => holders'[u] = {}
    BY <1>1, <1>2, <2>1 DEF LockInv
  <2>4. ASSUME NEW q \in Connected \ broken, NEW read \in seen[q]
        PROVE  q \in holders'[read[1]] /\ read[2] = gen'[read[1]]
    <3>1. q \in holders[read[1]] /\ read[2] = gen[read[1]]
      BY DEF LockInv
    <3>2. read[1] \in Tables
      BY <1>2, ConnectedCount
    <3>3. q \in holders'[read[1]]
      BY <1>2, <2>1, <3>1, <3>2
    <3> QED
      BY <2>2, <3>1, <3>2, <3>3
  <2> QED
    BY <1>1, <2>3, <2>4 DEF LockInv
<1> QED
  BY <1>3, <1>4

LEMMA StepLockInv == TypeInv /\ LockInv /\ [Next]_vars => LockInv'
<1> SUFFICES ASSUME TypeInv, LockInv, [Next]_vars PROVE LockInv'
  OBVIOUS
<1>1. ASSUME NEW r \in Requests, NEW plan \in Plans, Arrive(r, plan) PROVE LockInv'
  <2>1. Connected' = Connected
    BY <1>1 DEF Arrive, Connected, TypeInv, TypeOK
  <2> QED
    BY <1>1, <2>1 DEF Arrive, LockInv, locks
<1>2. ASSUME NEW r \in Requests, Connect(r) PROVE LockInv'
  <2>1. r \notin Connected /\ Connected' = Connected \cup {r}
    BY <1>2 DEF Connect, Connected, TypeInv, TypeOK
  <2>2. broken' = broken \cup {r} \/ broken' = broken
    BY <1>2 DEF Connect
  <2>3. seen[r] = {} /\ UNCHANGED <<seen, gen, swap, holders, waiters>>
    BY <1>2, <2>1 DEF Connect, LockInv, locks
  <2> QED
    BY <2>1, <2>2, <2>3 DEF LockInv
<1>3. ASSUME NEW r \in Requests, TimeOut(r) PROVE LockInv'
  <2>1. Connected' = Connected
    BY <1>3 DEF TimeOut, Connected, TypeInv, TypeOK
  <2> QED
    BY <1>3, <2>1 DEF TimeOut, LockInv, locks
<1>4. ASSUME NEW r \in Requests, Wait(r) PROVE LockInv'
  <2>1. r \in Connected \ broken /\ Connected' = Connected
    BY <1>4 DEF Wait, Connected, request
  <2>2. waiters \in [Tables -> SUBSET Requests]
    BY DEF TypeInv, TypeOK
  <2> QED
    BY <1>4, <2>1, <2>2 DEF Wait, LockInv, request, pool
<1>5. CASE PgCrash
  <2>1. Connected' = Connected
    BY <1>5 DEF PgCrash, Connected, request
  <2> QED
    BY <1>5, <2>1 DEF PgCrash, LockInv, request
<1>6. CASE UNCHANGED vars
  BY <1>6 DEF vars, request, pool, locks, LockInv, Connected
<1> QED
  BY <1>1, <1>2, <1>3, <1>4, <1>5, <1>6, ExecuteLock, LeaveLock, SwapLockInv
  DEF Next, Handle, Client, Swap, Raise

\* A request that has not lost its connection reads one state of each table, the
\* one that is live when its transaction ends: statements cannot straddle a swap.
THEOREM AlwaysSnapshot == Spec => []Snapshot
<1>1. LockInv => Snapshot
  BY DEF LockInv, Snapshot
<1> QED
  BY <1>1, InitTypeInv, StepTypeInv, InitLockInv, StepLockInv, PTL DEF Spec

\* A request in the queue of the pool is no obstacle to anybody: the items of a
\* batch each give everything back before the next asks for a connection.
THEOREM NeverHoldsAndWaits == Spec => []NoHoldAndWait
<1>1. LockInv => NoHoldAndWait
  BY DEF LockInv, NoHoldAndWait, Connected
<1> QED
  BY <1>1, InitTypeInv, StepTypeInv, InitLockInv, StepLockInv, PTL DEF Spec

-----------------------------------------------------------------------------
(* The rung that answers *)

\* A request that takes no step itself stays on its rung as long as it keeps
\* its locks and no dataset changes that somebody has a lock on.
LEMMA RungStays ==
    ASSUME TypeInv, NEW r \in Connected, Rung(r),
           pc'[r] = pc[r], at'[r] = at[r], block'[r] = block[r],
           \A t \in Tables : r \in holders[t] => r \in holders'[t] /\ gen'[t] = gen[t]
    PROVE  Rung(r)'
<1>1. r \in Requests /\ block[r] \in Seq(Statement) /\ at[r] \in Nat \ {0}
  BY ConnectedCount DEF TypeInv, TypeOK
<1>2. ASSUME NEW s \in Statement, Pinned(r, s)
      PROVE  /\ Pinned(r, s)'
             /\ gen[s.on] \in s.stops => gen'[s.on] \in s.stops
             /\ gen[s.on] \notin s.stops => gen'[s.on] \notin s.stops
  BY <1>2 DEF Statement, Pinned
<1>3. \A i \in DOMAIN block[r] : block[r][i] \in Statement
  BY <1>1
<1>4. block[r] # <<>> => Current(r) \in Statement
  BY CurrentOK DEF TypeInv
<1>5. Current(r)' = Current(r)
  BY DEF Current
<1>6. ASSUME NEW i \in 1..at[r] - 1, i \in DOMAIN block[r]
      PROVE  Pinned(r, block[r][i])' /\ gen'[block[r][i].on] \notin block[r][i].stops
  <2>1. block[r][i] \in Statement
    BY <1>3, <1>6
  <2>2. Pinned(r, block[r][i]) /\ gen[block[r][i].on] \notin block[r][i].stops
    BY <1>6 DEF Rung
  <2> DEFINE s == block[r][i]
  <2>3. s \in Statement /\ Pinned(r, s)
    BY <2>1, <2>2
  <2>4. Pinned(r, s)' /\ gen'[s.on] \notin s.stops
    BY <2>2, <2>3, <1>2, block'[r] = block[r] DEF Pinned
  <2> QED
    BY <2>4
<1>7. ASSUME pc[r] = "finished", at[r] < Len(block[r]), block[r] # <<>>
      PROVE  Pinned(r, Current(r))' /\ gen'[Current(r).on] \in Current(r).stops
  BY <1>2, <1>4, <1>5, <1>7 DEF Rung, Pinned
<1> QED
  BY <1>5, <1>6, <1>7 DEF Rung, Pinned

\* The statement a request has just run: either it answers, or the request goes
\* on to the next with this one pinned.
LEMMA ExecuteRung ==
    ASSUME TypeInv, LockInv, NEW r \in Requests, Execute(r), Rung(r)
    PROVE  Rung(r)'
<1> DEFINE s == Current(r)
<1>1. r \in Connected /\ r \notin broken /\ block[r] # <<>>
  BY DEF Execute, Connected, TypeInv, AtInv
<1>2. s \in Statement /\ s.on \in Tables /\ at[r] \in 1..Len(block[r]) /\ Len(block[r]) \in Nat
  BY <1>1, CurrentOK DEF TypeInv
<1>3. /\ UNCHANGED <<block, gen>>
      /\ pc[r] = "open"
      /\ block[r] \in Seq(Statement)
      /\ holders \in [Tables -> SUBSET Requests]
      /\ pc \in [Requests -> {"idle", "queued", "open", "finished"}]
      /\ at \in [Requests -> Nat \ {0}]
  BY DEF Execute, TypeInv, TypeOK
<1>3a. IF s.locking THEN holders' = [holders EXCEPT ![s.on] = holders[s.on] \cup {r}]
                      ELSE holders' = holders
  BY DEF Execute
<1> HIDE DEF s
<1>4. \A t \in Tables : r \in holders[t] => r \in holders'[t]
  BY <1>2, <1>3, <1>3a
<1>5. s.locking => r \in holders'[s.on]
  BY <1>2, <1>3, <1>3a
<1> USE DEF s
<1>6. ASSUME NEW i \in 1..at[r] - 1, i \in DOMAIN block[r]
      PROVE  /\ block[r][i].locking => r \in holders'[block[r][i].on]
             /\ gen[block[r][i].on] \notin block[r][i].stops
  <2>1. block[r][i] \in Statement
    BY <1>3, <1>6
  <2>2. block[r][i].on \in Tables
    BY <2>1 DEF Statement
  <2> QED
    BY <1>4, <1>6, <2>2 DEF Rung, Pinned
<1>7. CASE gen[s.on] \in s.stops \/ at[r] = Len(block[r])
  <2>1. pc'[r] = "finished" /\ at'[r] = at[r] /\ Current(r)' = s
    BY <1>3, <1>7 DEF Execute, Current
  <2>2. at[r] < Len(block[r]) => gen[s.on] \in s.stops
    BY <1>2, <1>7
  <2>3. ASSUME at[r] < Len(block[r])
        PROVE  Pinned(r, Current(r))' /\ gen'[Current(r)'.on] \in Current(r)'.stops
    BY <1>3, <1>5, <2>1, <2>2, <2>3 DEF Pinned
  <2>4. block' = block
    BY <1>3
  <2>5. ASSUME NEW i \in 1..at'[r] - 1, i \in DOMAIN block'[r]
        PROVE  Pinned(r, block[r][i])' /\ gen'[block'[r][i].on] \notin block'[r][i].stops
    BY <1>3, <1>6, <2>1, <2>4, <2>5 DEF Pinned
  <2> QED
    BY <2>1, <2>3, <2>4, <2>5 DEF Rung
<1>8. CASE ~(gen[s.on] \in s.stops \/ at[r] = Len(block[r]))
  <2>1. pc'[r] = "open" /\ at'[r] = at[r] + 1
    BY <1>3, <1>8 DEF Execute
  <2>2. ASSUME NEW i \in 1..at'[r] - 1, i \in DOMAIN block[r]
        PROVE  /\ block[r][i].locking => r \in holders'[block[r][i].on]
               /\ gen[block[r][i].on] \notin block[r][i].stops
    <3>1. CASE i = at[r]
      BY <3>1, <1>5, <1>8 DEF Current
    <3>2. CASE i # at[r]
      <4>1. i \in 1..at[r] - 1
        BY <3>2, <2>1, <2>2, <1>2
      <4> QED
        BY <4>1, <2>2, <1>6
    <3> QED
      BY <3>1, <3>2
  <2> QED
    BY <1>3, <2>1, <2>2 DEF Rung, Pinned
<1> QED
  BY <1>7, <1>8

LEMMA InitRungInv == Init => RungInv
BY DEF Init, RungInv, Connected

LEMMA StepRungInv == TypeInv /\ LockInv /\ RungInv /\ [Next]_vars => RungInv'
<1> SUFFICES ASSUME TypeInv, LockInv, RungInv, [Next]_vars PROVE RungInv'
  OBVIOUS
<1>a. \A q \in Connected \ broken : q \in Requests /\ Rung(q)
  BY ConnectedCount DEF RungInv
<1>b. ASSUME \A q \in Connected' \ broken' : Rung(q)' PROVE RungInv'
  BY <1>b DEF RungInv
<1>t. /\ pc \in [Requests -> {"idle", "queued", "open", "finished"}]
      /\ at \in [Requests -> Nat \ {0}]
      /\ block \in [Requests -> Seq(Statement)]
      /\ holders \in [Tables -> SUBSET Requests]
      /\ gen \in [Tables -> Gens]
  BY DEF TypeInv, TypeOK
\* Steps that leave the others where they are.
<1>s. ASSUME NEW r \in Requests,
             \A q \in Requests \ {r} : /\ pc'[q] = pc[q]
                                       /\ at'[q] = at[q]
                                       /\ block'[q] = block[q],
             \A q \in Requests \ {r}, t \in Tables : q \in holders[t] => q \in holders'[t],
             gen' = gen,
             \A q \in Requests \ {r} : q \notin broken' => q \notin broken,
             r \in Connected' \ broken' => Rung(r)'
      PROVE  RungInv'
  <2>1. ASSUME NEW q \in Connected' \ broken' PROVE Rung(q)'
    <3>1. CASE q = r
      BY <1>s, <3>1
    <3>2. CASE q # r
      <4>1. q \in Requests \ {r} /\ q \in Connected \ broken
        BY <3>2, <1>s DEF Connected
      <4> QED
        BY <4>1, <1>a, <1>s, RungStays
    <3> QED
      BY <3>1, <3>2
  <2> QED
    BY <2>1, <1>b
<1>1. ASSUME NEW r \in Requests, NEW plan \in Plans, Arrive(r, plan) PROVE RungInv'
  BY <1>1, <1>s, <1>t DEF Arrive, Connected, locks
<1>2. ASSUME NEW r \in Requests, TimeOut(r) PROVE RungInv'
  BY <1>2, <1>s, <1>t DEF TimeOut, Connected, locks
<1>3. ASSUME NEW r \in Requests, Connect(r) PROVE RungInv'
  <2>1. /\ at'[r] = 1
        /\ pc'[r] = "finished" => block'[r] = <<>>
    BY <1>3, <1>t DEF Connect, TypeInv, TypeOK
  <2>2. Rung(r)'
    BY <2>1 DEF Rung
  <2> QED
    BY <1>3, <1>s, <1>t, <2>2 DEF Connect, locks
<1>4. ASSUME NEW r \in Requests, Execute(r) PROVE RungInv'
  <2>1. Rung(r)
    BY <1>4, <1>a DEF Execute, Connected
  <2>2. Rung(r)'
    BY <1>4, <2>1, ExecuteRung
  <2>3. \A q \in Requests, t \in Tables : q \in holders[t] => q \in holders'[t]
    <3> DEFINE u == Current(r).on
    <3>1. holders' = holders \/ holders' = [holders EXCEPT ![u] = @ \cup {r}]
      BY <1>4 DEF Execute
    <3> HIDE DEF u
    <3> QED
      BY <3>1, <1>t
  <2> QED
    BY <1>4, <1>s, <1>t, <2>2, <2>3 DEF Execute, pool
<1>5. ASSUME NEW r \in Requests, Finish(r) \/ Fail(r) PROVE RungInv'
  <2>1. r \notin Connected'
    BY <1>5, <1>t DEF Finish, Fail, Connected
  <2>2. \A q \in Requests \ {r} : pc'[q] = pc[q] /\ at'[q] = at[q] /\ block'[q] = block[q]
    BY <1>5, <1>t DEF Finish, Fail, Leave
  <2>3. \A q \in Requests \ {r}, t \in Tables : q \in holders[t] => q \in holders'[t]
    BY <1>5 DEF Finish, Fail, Release
  <2>4. gen' = gen /\ broken' = broken \ {r}
    BY <1>5 DEF Finish, Fail, Leave
  <2> QED
    BY <1>s, <2>1, <2>2, <2>3, <2>4
<1>6. ASSUME NEW r \in Requests, Wait(r) PROVE RungInv'
  <2>1. Rung(r)
    BY <1>6, <1>a DEF Wait, Connected
  <2>2. r \in Connected /\ UNCHANGED <<pc, at, block, holders, gen, broken>>
    BY <1>6 DEF Wait, Connected, request, pool
  <2>3. Rung(r)'
    BY <2>1, <2>2, RungStays
  <2> QED
    BY <1>s, <2>2, <2>3
<1>7. ASSUME NEW t \in Tables, SwapBegin(t) \/ SwapLock(t) \/ SwapCommit(t) \/ SwapAbort(t)
      PROVE  RungInv'
  <2>1. UNCHANGED <<pc, at, block, broken>> /\ Connected' = Connected
    BY <1>7 DEF SwapBegin, SwapLock, SwapCommit, SwapAbort, LetIn, Connected, request, pool
  <2>2. \A q \in Requests, u \in Tables :
          q \in holders[u] => q \in holders'[u] /\ gen'[u] = gen[u]
    <3>1. CASE SwapBegin(t) \/ SwapLock(t)
      BY <3>1 DEF SwapBegin, SwapLock, locks
    <3>2. CASE SwapCommit(t)
      BY <3>2, <1>t DEF SwapCommit, LetIn, LockInv
    <3>3. CASE SwapAbort(t)
      BY <3>3, <1>t DEF SwapAbort, LetIn
    <3> QED
      BY <1>7, <3>1, <3>2, <3>3
  <2>3. ASSUME NEW q \in Connected' \ broken' PROVE Rung(q)'
    BY <2>1, <2>2, <2>3, <1>a, RungStays
  <2> QED
    BY <2>3, <1>b
<1>8. CASE PgCrash
  BY <1>8, <1>b DEF PgCrash, Connected, request
<1>9. CASE UNCHANGED vars
  <2>1. /\ UNCHANGED <<pc, at, block, broken, holders, gen>>
        /\ Connected' = Connected
    BY <1>9 DEF vars, request, pool, locks, Connected
  <2>2. ASSUME NEW q \in Connected' \ broken' PROVE Rung(q)'
    BY <2>1, <2>2, <1>a, RungStays
  <2> QED
    BY <2>2, <1>b
<1> QED
  BY <1>1, <1>2, <1>3, <1>4, <1>5, <1>6, <1>7, <1>8, <1>9
  DEF Next, Handle, Client, Swap, Raise

\* The rung of the ladder, or the tier of the search, that a request answers
\* from is the first that the live dataset satisfies.
THEOREM AlwaysFirst == Spec => []FirstSatisfied
<1>1. TypeInv /\ RungInv => FirstSatisfied
  <2> SUFFICES ASSUME TypeInv, RungInv, NEW r \in Requests, r \notin broken,
                      pc[r] = "finished", block[r] # <<>>
               PROVE  /\ \A i \in 1..at[r] - 1 :
                           gen[block[r][i].on] \notin block[r][i].stops
                      /\ at[r] < Len(block[r]) => gen[Current(r).on] \in Current(r).stops
    BY DEF FirstSatisfied
  <2>1. r \in Connected
    BY DEF Connected
  <2>2. at[r] \in 1..Len(block[r]) /\ Len(block[r]) \in Nat /\ block[r] \in Seq(Statement)
    BY <2>1, CurrentOK DEF TypeInv, TypeOK
  <2>3. \A i \in 1..at[r] - 1 : i \in DOMAIN block[r]
    BY <2>2
  <2> QED
    BY <2>1, <2>3 DEF RungInv, Rung
<1> QED
  BY <1>1, InitTypeInv, StepTypeInv, InitLockInv, StepLockInv,
     InitRungInv, StepRungInv, PTL DEF Spec

-----------------------------------------------------------------------------
(* Somebody can always go on *)

LEMMA OneTableOrdered ==
    ASSUME NEW b, NEW t \in Tables, \A i \in DOMAIN b : b[i].on = t
    PROVE  Ordered(b)
BY DEF Ordered, Tables

\* No transaction of the API locks the Croatian table before the Czech one.
THEOREM EndpointsInOrder ==
    ASSUME NEW t \in Tables, NEW hit, NEW tokens \in BOOLEAN,
           NEW cz \in BOOLEAN, NEW hr \in BOOLEAN
    PROVE  /\ Ordered(Single(t)) /\ Ordered(CzLookup(hit)) /\ Ordered(Search(t, tokens, hit))
           /\ Ordered(AddressesBatch(cz, hr)) /\ Ordered(Meta) /\ Ordered(Health)
<1>1. \A u \in Tables : Ordered(Single(u))
  BY OneTableOrdered DEF Single, Select
<1>2. \A u \in Tables, n \in Nat : Ordered(Ladder(u, n, hit))
  <2> TAKE u \in Tables, n \in Nat
  <2>1. DOMAIN Ladder(u, n, hit) = 1..n /\ \A i \in 1..n : Ladder(u, n, hit)[i].on = u
    BY DEF Ladder, Select
  <2> QED
    BY <2>1, OneTableOrdered
<1>3. Ordered(CzLookup(hit)) /\ Ordered(Search(t, tokens, hit))
  BY <1>1, <1>2, ApiAssumption DEF ApiAssumption, CzLookup, Search, Tables
<1>4. Ordered(AddressesBatch(cz, hr))
  <2>1. CASE cz /\ hr
    <3> DEFINE b == Single("cz") \o Single("hr")
    <3>1. AddressesBatch(cz, hr) = b
      BY <2>1 DEF AddressesBatch
    <3>2. DOMAIN b = {1, 2} /\ b[1].on = "cz" /\ b[2].on = "hr"
      BY DEF Single, Select
    <3> HIDE DEF b
    <3>3. Ordered(b)
      BY <3>2 DEF Ordered
    <3> QED
      BY <3>1, <3>3
  <2>2. CASE cz /\ ~hr
    <3>1. AddressesBatch(cz, hr) = Single("cz")
      BY <2>2 DEF AddressesBatch, Single
    <3> QED
      BY <1>1, <3>1 DEF Tables
  <2>3. CASE ~cz /\ hr
    <3>1. AddressesBatch(cz, hr) = Single("hr")
      BY <2>3 DEF AddressesBatch, Single
    <3> QED
      BY <1>1, <3>1 DEF Tables
  <2>4. CASE ~cz /\ ~hr
    <3>1. AddressesBatch(cz, hr) = <<>>
      BY <2>4 DEF AddressesBatch
    <3> QED
      BY <3>1 DEF Ordered
  <2> QED
    BY <2>1, <2>2, <2>3, <2>4
<1>5. Ordered(Meta) /\ Ordered(Health)
  <2>1. DOMAIN Meta = {1, 2} /\ ~Meta[1].locking /\ ~Meta[2].locking
    BY DEF Meta, Catalog
  <2>2. DOMAIN Health = {1}
    BY DEF Health
  <2> QED
    BY <2>1, <2>2 DEF Ordered
<1> QED
  BY <1>1, <1>3, <1>4, <1>5

\* One who joins the queue comes after all who are in it.
LEMMA EnqueueLine ==
    ASSUME TypeOK, QueueInv, NEW r \in Requests, pc[r] # "queued",
           pc' = [pc EXCEPT ![r] = "queued"], Enqueue(r)
    PROVE  QueueInv'
<1> DEFINE W == {q \in Requests : pc[q] = "queued"}
<1>1. ahead' = [ahead EXCEPT ![r] = W]
  BY DEF Enqueue
<1>2. ahead \in [Requests -> SUBSET Requests] /\ pc \in [Requests -> {"idle", "queued", "open", "finished"}]
  BY DEF TypeOK
<1>3. \A p \in W : p \in Requests /\ p # r /\ ahead[p] \subseteq W /\ pc'[p] = "queued"
  BY <1>2 DEF QueueInv
<1>4. r \notin W
  OBVIOUS
<1>5. \A q \in Requests : pc[q] = "queued" => q \in W
  OBVIOUS
<1> HIDE DEF W
<1>6. ahead'[r] = W /\ \A q \in Requests : q # r => ahead'[q] = ahead[q]
  BY <1>1, <1>2
<1>7. ASSUME NEW q \in Requests, pc'[q] = "queued", q = r
      PROVE  /\ \A p \in ahead'[q] : pc'[p] = "queued" /\ ahead'[p] \subseteq ahead'[q]
             /\ q \notin ahead'[q]
  BY <1>3, <1>4, <1>6, <1>7
<1>8. ASSUME NEW q \in Requests, pc'[q] = "queued", q # r
      PROVE  /\ \A p \in ahead'[q] : pc'[p] = "queued" /\ ahead'[p] \subseteq ahead'[q]
             /\ q \notin ahead'[q]
  <2>1. pc[q] = "queued" /\ ahead'[q] = ahead[q]
    BY <1>2, <1>6, <1>8
  <2>2. \A p \in ahead[q] : p \in Requests /\ p # r /\ pc'[p] = "queued" /\ ahead'[p] = ahead[p]
    BY <1>2, <1>6, <2>1 DEF QueueInv
  <2> QED
    BY <2>1, <2>2 DEF QueueInv
<1> QED
  BY <1>7, <1>8 DEF QueueInv

\* One who leaves it is ahead of nobody.
LEMMA DequeueLine ==
    ASSUME TypeOK, QueueInv, NEW r \in Requests, Dequeue(r),
           NEW x \in {"idle", "open", "finished"}, pc' = [pc EXCEPT ![r] = x]
    PROVE  QueueInv'
<1>1. \A q \in Requests : ahead'[q] = ahead[q] \ {r}
  BY DEF Dequeue
<1>2. ahead \in [Requests -> SUBSET Requests] /\ pc \in [Requests -> {"idle", "queued", "open", "finished"}]
  BY DEF TypeOK
<1>3. ASSUME NEW q \in Requests, pc'[q] = "queued"
      PROVE  /\ \A p \in ahead'[q] : pc'[p] = "queued" /\ ahead'[p] \subseteq ahead'[q]
             /\ q \notin ahead'[q]
  <2>1. q # r /\ pc[q] = "queued"
    BY <1>2, <1>3
  <2>2. ASSUME NEW p \in ahead'[q] PROVE pc'[p] = "queued" /\ ahead'[p] \subseteq ahead'[q]
    <3>1. p \in Requests /\ p \in ahead[q] /\ p # r
      BY <1>1, <1>2, <2>2
    <3>2. pc[p] = "queued" /\ ahead[p] \subseteq ahead[q]
      BY <2>1, <3>1 DEF QueueInv
    <3> QED
      BY <1>1, <1>2, <3>1, <3>2
  <2> QED
    BY <1>1, <2>1, <2>2 DEF QueueInv
<1> QED
  BY <1>3 DEF QueueInv

\* Others do not matter.
LEMMA SameLine ==
    ASSUME TypeOK, QueueInv, ahead' = ahead,
           \A q \in Requests : pc'[q] = "queued" <=> pc[q] = "queued"
    PROVE  QueueInv'
<1>1. ahead \in [Requests -> SUBSET Requests]
  BY DEF TypeOK
<1> QED
  BY <1>1 DEF QueueInv

LEMMA StepQueueInv == TypeInv /\ QueueInv /\ [Next]_vars => QueueInv'
<1> SUFFICES ASSUME TypeInv, QueueInv, [Next]_vars PROVE QueueInv'
  OBVIOUS
<1>0. TypeOK /\ pc \in [Requests -> {"idle", "queued", "open", "finished"}]
  BY DEF TypeInv, TypeOK
<1>1. ASSUME NEW r \in Requests, NEW plan \in Plans, Arrive(r, plan) PROVE QueueInv'
  BY <1>0, <1>1, EnqueueLine DEF Arrive
<1>2. ASSUME NEW r \in Requests, Connect(r) \/ TimeOut(r) PROVE QueueInv'
  <2>1. Dequeue(r) /\ \E x \in {"idle", "open", "finished"} : pc' = [pc EXCEPT ![r] = x]
    BY <1>2 DEF Connect, TimeOut
  <2> QED
    BY <1>0, <2>1, DequeueLine
<1>3. ASSUME NEW r \in Requests, Finish(r) PROVE QueueInv'
  <2>1. CASE rest[r] = <<>>
    BY <1>0, <1>3, <2>1, SameLine DEF Finish
  <2>2. CASE rest[r] # <<>>
    BY <1>0, <1>3, <2>2, EnqueueLine DEF Finish
  <2> QED
    BY <2>1, <2>2
<1>4. ASSUME NEW r \in Requests, Execute(r) PROVE QueueInv'
  <2>1. ahead' = ahead /\ pc[r] = "open" /\ (pc' = pc \/ pc' = [pc EXCEPT ![r] = "finished"])
    BY <1>4 DEF Execute, pool
  <2> QED
    BY <1>0, <2>1, SameLine
<1>5. ASSUME NEW r \in Requests, Fail(r) PROVE QueueInv'
  <2>1. ahead' = ahead /\ pc[r] # "queued" /\ pc' = [pc EXCEPT ![r] = "idle"]
    BY <1>5 DEF Fail, Connected
  <2> QED
    BY <1>0, <2>1, SameLine
<1>6. CASE ahead' = ahead /\ pc' = pc
  BY <1>0, <1>6, SameLine
<1> QED
  BY <1>1, <1>2, <1>3, <1>4, <1>5, <1>6
  DEF Next, Handle, Client, Swap, Raise, Wait, SwapBegin, SwapLock, SwapCommit,
      SwapAbort, LetIn, PgCrash, vars, request, pool

LEMMA LeastNumber ==
    ASSUME NEW T \in SUBSET Nat, T # {}
    PROVE  \E m \in T : \A n \in T : m <= n
<1>1. PICK m \in T : \A n \in T : ~(<<n, m>> \in OpToRel(<, Nat))
  BY NatLessThanWellFounded, WFMin, T \subseteq Nat
<1>2. \A n \in T : ~(n < m)
  BY <1>1 DEF OpToRel
<1> QED
  BY <1>2

\* A queue with anybody in it has a first.
LEMMA FirstInLine ==
    ASSUME TypeOK, QueueInv, NEW r \in Requests, pc[r] = "queued"
    PROVE  \E q \in Requests : pc[q] = "queued" /\ ahead[q] = {}
<1> DEFINE W == {q \in Requests : pc[q] = "queued"}
           T == {Cardinality(ahead[q]) : q \in W}
<1>1. \A q \in W : /\ ahead[q] \subseteq W /\ IsFiniteSet(ahead[q])
                   /\ Cardinality(ahead[q]) \in Nat
  <2> TAKE q \in W
  <2>1. ahead[q] \subseteq Requests
    BY DEF TypeOK
  <2>2. IsFiniteSet(ahead[q])
    BY <2>1, ApiAssumption, FS_Subset DEF ApiAssumption
  <2> QED
    BY <2>1, <2>2, FS_CardinalityType DEF QueueInv
<1>2. T \in SUBSET Nat /\ T # {}
  BY <1>1
<1>3. PICK q \in W : \A p \in W : Cardinality(ahead[q]) <= Cardinality(ahead[p])
  <2>1. PICK m \in T : \A n \in T : m <= n
    BY <1>2, LeastNumber
  <2> QED
    BY <2>1
<1>4. ahead[q] = {}
  <2> SUFFICES ASSUME NEW p \in ahead[q] PROVE FALSE
    OBVIOUS
  <2>1. p \in W
    BY <1>1
  <2>2. ahead[p] \subseteq ahead[q] /\ p \notin ahead[p]
    BY <2>1 DEF QueueInv
  <2>3. Cardinality(ahead[p]) < Cardinality(ahead[q])
    BY <1>1, <2>2, FS_Subset
  <2> QED
    BY <1>1, <1>3, <2>1, <2>3
<1> QED
  BY <1>4

LEMMA InitStuckInv == Init => QueueInv /\ ReachedInv
BY DEF Init, QueueInv, ReachedInv, Reached, Ordered

\* A request without locks and waits has only its blocks to be in order.
LEMMA Unlocked ==
    ASSUME NEW r \in Requests, Ordered(block'[r]),
           \A i \in DOMAIN rest'[r] : Ordered(rest'[r][i]),
           \A t \in Tables : r \notin holders'[t] \cup waiters'[t]
    PROVE  Reached(r)'
BY DEF Reached

\* What others do with their locks does not concern it.
LEMMA Untouched ==
    ASSUME NEW r \in Requests, Reached(r),
           block'[r] = block[r], rest'[r] = rest[r], at'[r] = at[r], pc'[r] = pc[r],
           \A t \in Tables : (r \in holders'[t] <=> r \in holders[t])
                             /\ (r \in waiters'[t] <=> r \in waiters[t])
                             /\ (swap[t] # "none" => swap'[t] # "none")
    PROVE  Reached(r)'
BY DEF Reached, Current

LEMMA EmptyOrdered == Ordered(<<>>) /\ \A i \in DOMAIN <<>> : Ordered(<<>>[i])
BY DEF Ordered

\* Nobody without a connection holds a lock or waits for one.
LEMMA NoLocks ==
    ASSUME LockInv, NEW r \in Requests, r \notin Connected
    PROVE  \A t \in Tables : r \notin holders[t] \cup waiters[t]
BY DEF LockInv

LEMMA ArriveReached ==
    ASSUME OrderedPlans, TypeInv, LockInv, ReachedInv,
           NEW r \in Requests, NEW plan \in Plans, Arrive(r, plan)
    PROVE  ReachedInv'
<1>1. /\ pc[r] = "idle" /\ pc' = [pc EXCEPT ![r] = "queued"]
      /\ rest' = [rest EXCEPT ![r] = plan]
      /\ UNCHANGED <<block, at, swap, holders, waiters>>
  BY DEF Arrive, locks
<1>2. r \notin Connected /\ \A i \in DOMAIN plan : Ordered(plan[i])
  BY <1>1 DEF Connected, OrderedPlans
<1>3. rest \in [Requests -> Seq(Seq(Statement))]
      /\ pc \in [Requests -> {"idle", "queued", "open", "finished"}]
  BY DEF TypeInv, TypeOK
<1>4. \A q \in Requests : Reached(q)
  BY DEF ReachedInv
<1>5. Reached(r)'
  BY <1>1, <1>2, <1>3, <1>4, NoLocks, Unlocked DEF Reached
<1>6. \A q \in Requests : q # r => Reached(q)'
  BY <1>1, <1>3, <1>4, Untouched
<1> QED
  BY <1>5, <1>6 DEF ReachedInv

LEMMA ConnectReached ==
    ASSUME TypeInv, LockInv, ReachedInv, NEW r \in Requests, Connect(r)
    PROVE  ReachedInv'
<1>1. /\ pc[r] = "queued" /\ \E x : pc' = [pc EXCEPT ![r] = x]
      /\ block' = [block EXCEPT ![r] = Head(rest[r])]
      /\ rest' = [rest EXCEPT ![r] = Tail(rest[r])]
      /\ at' = [at EXCEPT ![r] = 1]
      /\ UNCHANGED <<swap, holders, waiters>>
  BY DEF Connect, locks
<1>2. /\ rest \in [Requests -> Seq(Seq(Statement))] /\ block \in [Requests -> Seq(Statement)]
      /\ at \in [Requests -> Nat \ {0}]
      /\ pc \in [Requests -> {"idle", "queued", "open", "finished"}]
      /\ rest[r] # <<>>
  BY <1>1 DEF TypeInv, TypeOK, BlockWaits
<1>3. r \notin Connected
  BY <1>1 DEF Connected
<1>4. \A q \in Requests : Reached(q)
  BY DEF ReachedInv
<1>5. Ordered(block'[r]) /\ \A i \in DOMAIN rest'[r] : Ordered(rest'[r][i])
  <2> DEFINE b == rest[r]
  <2>1. b \in Seq(Seq(Statement)) /\ b # <<>> /\ \A i \in DOMAIN b : Ordered(b[i])
    BY <1>2, <1>4 DEF Reached
  <2>2. block'[r] = Head(b) /\ rest'[r] = Tail(b)
    BY <1>1, <1>2
  <2> HIDE DEF b
  <2>3. Head(b) = b[1] /\ 1 \in DOMAIN b
    BY <2>1
  <2>4. \A i \in DOMAIN Tail(b) : i + 1 \in DOMAIN b /\ Tail(b)[i] = b[i + 1]
    BY <2>1
  <2> QED
    BY <2>1, <2>2, <2>3, <2>4
<1>6. Reached(r)'
  BY <1>1, <1>3, <1>5, NoLocks, Unlocked
<1>7. \A q \in Requests : q # r => Reached(q)'
  BY <1>1, <1>2, <1>4, Untouched
<1> QED
  BY <1>6, <1>7 DEF ReachedInv

LEMMA LeaveReached ==
    ASSUME TypeInv, ReachedInv, NEW r \in Requests, Finish(r) \/ Fail(r)
    PROVE  ReachedInv'
<1>1. /\ \E x : pc' = [pc EXCEPT ![r] = x]
      /\ block' = [block EXCEPT ![r] = <<>>]
      /\ rest' = rest \/ rest' = [rest EXCEPT ![r] = <<>>]
      /\ at' = [at EXCEPT ![r] = 1]
      /\ holders' = [t \in Tables |-> holders[t] \ {r}]
      /\ waiters' = [t \in Tables |-> waiters[t] \ {r}]
      /\ UNCHANGED swap
  BY DEF Finish, Fail, Leave, Release
<1>2. /\ rest \in [Requests -> Seq(Seq(Statement))] /\ block \in [Requests -> Seq(Statement)]
      /\ at \in [Requests -> Nat \ {0}]
      /\ pc \in [Requests -> {"idle", "queued", "open", "finished"}]
  BY DEF TypeInv, TypeOK
<1>3. \A q \in Requests : Reached(q)
  BY DEF ReachedInv
<1>4. Ordered(block'[r]) /\ \A i \in DOMAIN rest'[r] : Ordered(rest'[r][i])
  BY <1>1, <1>2, <1>3, EmptyOrdered DEF Reached
<1>5. Reached(r)'
  BY <1>1, <1>4, Unlocked
<1>6. \A q \in Requests : q # r => Reached(q)'
  BY <1>1, <1>2, <1>3, Untouched
<1> QED
  BY <1>5, <1>6 DEF ReachedInv

LEMMA ExecuteReached ==
    ASSUME TypeInv, ReachedInv, NEW r \in Requests, Execute(r)
    PROVE  ReachedInv'
<1> DEFINE s == Current(r)
<1>1. /\ pc[r] = "open" /\ UNCHANGED <<block, rest, waiters, swap>>
      /\ s.locking => r \in holders[s.on] \/ swap[s.on] = "none"
      /\ \/ holders' = holders
         \/ s.locking /\ holders' = [holders EXCEPT ![s.on] = holders[s.on] \cup {r}]
      /\ at' = at \/ at' = [at EXCEPT ![r] = @ + 1]
      /\ pc' = pc \/ pc' = [pc EXCEPT ![r] = "finished"]
  BY DEF Execute
<1>2. /\ at \in [Requests -> Nat \ {0}] /\ holders \in [Tables -> SUBSET Requests]
      /\ pc \in [Requests -> {"idle", "queued", "open", "finished"}]
  BY DEF TypeInv, TypeOK
<1>3. \A q \in Requests : Reached(q)
  BY DEF ReachedInv
<1>4. r \in Connected /\ block[r] # <<>>
  BY <1>1 DEF Connected, TypeInv, AtInv
<1>5. s.on \in Tables /\ at[r] \in DOMAIN block[r] /\ s = block[r][at[r]]
  BY <1>4, CurrentOK DEF TypeInv, AtInv, Current
<1> HIDE DEF s
<1>6. \A t \in Tables : r \notin waiters[t]
  BY <1>1, <1>3 DEF Reached, s
<1>7. ASSUME NEW t \in Tables, r \in holders'[t], r \notin holders[t] PROVE t = s.on /\ s.locking
  BY <1>1, <1>2, <1>7
<1>8. at'[r] \in Nat /\ at[r] \in Nat /\ at[r] <= at'[r]
  BY <1>1, <1>2
<1>9. Reached(r)'
  <2>1. ASSUME NEW t \in Tables, r \in holders'[t] \cup waiters'[t]
        PROVE  \E i \in DOMAIN block[r] : i <= at'[r] /\ block[r][i].locking /\ block[r][i].on = t
    <3>1. CASE r \in holders[t]
      <4>1. PICK i \in DOMAIN block[r] : i <= at[r] /\ block[r][i].locking /\ block[r][i].on = t
        BY <1>3, <3>1 DEF Reached
      <4>2. i \in Nat
        BY DEF TypeInv, TypeOK
      <4> QED
        BY <1>8, <4>1, <4>2
    <3>2. CASE t = s.on /\ s.locking
      BY <1>5, <1>8, <3>2
    <3> QED
      BY <1>1, <1>6, <1>7, <2>1, <3>1, <3>2
  <2>2. \A t \in Tables : r \notin waiters'[t]
    BY <1>1, <1>6
  <2> QED
    BY <1>1, <1>3, <2>1, <2>2 DEF Reached
<1>10. \A q \in Requests : q # r => Reached(q)'
  <2> TAKE q \in Requests
  <2>1. q # r => /\ at'[q] = at[q] /\ pc'[q] = pc[q]
                 /\ \A t \in Tables : q \in holders'[t] <=> q \in holders[t]
    BY <1>1, <1>2
  <2> QED
    BY <1>1, <1>3, <2>1, Untouched
<1> QED
  BY <1>9, <1>10 DEF ReachedInv

LEMMA WaitReached ==
    ASSUME TypeInv, ReachedInv, NEW r \in Requests, Wait(r)
    PROVE  ReachedInv'
<1> DEFINE s == Current(r)
<1>1. /\ pc[r] = "open" /\ s.locking /\ swap[s.on] # "none" /\ r \notin holders[s.on]
      /\ waiters' = [waiters EXCEPT ![s.on] = @ \cup {r}]
      /\ UNCHANGED <<pc, at, block, rest, swap, holders>>
  BY DEF Wait, request
<1>2. at \in [Requests -> Nat \ {0}] /\ waiters \in [Tables -> SUBSET Requests]
  BY DEF TypeInv, TypeOK
<1>3. \A q \in Requests : Reached(q)
  BY DEF ReachedInv
<1>4. r \in Connected /\ block[r] # <<>>
  BY <1>1 DEF Connected, TypeInv, AtInv
<1>5. s.on \in Tables /\ at[r] \in DOMAIN block[r] /\ s = block[r][at[r]]
  BY <1>4, CurrentOK DEF TypeInv, AtInv, Current
<1>6. Current(r)' = s
  BY <1>1 DEF Current
<1> HIDE DEF s
<1>7. \A t \in Tables : r \in waiters'[t] => r \in waiters[t] \/ t = s.on
  BY <1>1, <1>2
<1>8. Reached(r)'
  <2>1. ASSUME NEW t \in Tables, r \in holders'[t] \cup waiters'[t]
        PROVE  \E i \in DOMAIN block[r] : i <= at[r] /\ block[r][i].locking /\ block[r][i].on = t
    <3>1. CASE r \in holders[t] \cup waiters[t]
      BY <1>3, <3>1 DEF Reached
    <3>2. CASE t = s.on
      BY <1>1, <1>2, <1>5, <3>2
    <3> QED
      BY <1>1, <1>7, <2>1, <3>1, <3>2
  <2>2. ASSUME NEW t \in Tables, r \in waiters'[t]
        PROVE  pc[r] = "open" /\ s.locking /\ s.on = t /\ swap[t] # "none" /\ r \notin holders[t]
    BY <1>1, <1>3, <1>7, <2>2 DEF Reached, s
  <2> QED
    BY <1>1, <1>3, <1>6, <2>1, <2>2 DEF Reached
<1>9. \A q \in Requests : q # r => Reached(q)'
  BY <1>1, <1>2, <1>3, Untouched
<1> QED
  BY <1>8, <1>9 DEF ReachedInv

LEMMA SwapReached ==
    ASSUME TypeInv, ReachedInv, NEW t \in Tables,
           SwapBegin(t) \/ SwapLock(t) \/ SwapCommit(t) \/ SwapAbort(t)
    PROVE  ReachedInv'
<1>1. UNCHANGED <<pc, at, block, rest>>
  BY DEF SwapBegin, SwapLock, SwapCommit, SwapAbort, LetIn, request
<1>2. /\ holders \in [Tables -> SUBSET Requests] /\ waiters \in [Tables -> SUBSET Requests]
      /\ swap \in [Tables -> {"none", "waiting", "holding"}]
  BY DEF TypeInv, TypeOK
<1>3. \A q \in Requests : Reached(q)
  BY DEF ReachedInv
<1>4. CASE SwapBegin(t) \/ SwapLock(t)
  <2>1. UNCHANGED <<holders, waiters>> /\ \A u \in Tables : swap[u] # "none" => swap'[u] # "none"
    BY <1>2, <1>4 DEF SwapBegin, SwapLock, locks
  <2>2. \A q \in Requests : Reached(q)'
    BY <1>1, <1>3, <2>1, Untouched
  <2> QED
    BY <2>2 DEF ReachedInv
<1>5. CASE SwapCommit(t) \/ SwapAbort(t)
  <2>1. /\ swap' = [swap EXCEPT ![t] = "none"]
        /\ holders' = [holders EXCEPT ![t] = @ \cup waiters[t]]
        /\ waiters' = [waiters EXCEPT ![t] = {}]
    BY <1>5 DEF SwapCommit, SwapAbort, LetIn
  <2>2. \A u \in Tables : holders'[u] \cup waiters'[u] = holders[u] \cup waiters[u]
    BY <1>2, <2>1
  <2>3. \A u \in Tables : \A q \in waiters'[u] :
          u # t /\ q \in waiters[u] /\ swap'[u] = swap[u] /\ holders'[u] = holders[u]
    BY <1>2, <2>1
  <2>4. ASSUME NEW q \in Requests PROVE Reached(q)'
    <3>1. Reached(q) /\ Current(q)' = Current(q)
      BY <1>1, <1>3 DEF Current
    <3>2. ASSUME NEW u \in Tables, q \in waiters'[u]
          PROVE  /\ pc'[q] = "open" /\ Current(q)'.locking /\ Current(q)'.on = u
                 /\ swap'[u] # "none" /\ q \notin holders'[u]
      BY <1>1, <2>3, <3>1, <3>2 DEF Reached
    <3>3. ASSUME NEW u \in Tables, q \in holders'[u] \cup waiters'[u]
          PROVE  \E i \in DOMAIN block[q] : i <= at[q] /\ block[q][i].locking /\ block[q][i].on = u
      BY <2>2, <3>1, <3>3 DEF Reached
    <3> QED
      BY <1>1, <3>1, <3>2, <3>3 DEF Reached
  <2> QED
    BY <2>4 DEF ReachedInv
<1> QED
  BY <1>4, <1>5

LEMMA StepReachedInv ==
    ASSUME OrderedPlans
    PROVE  TypeInv /\ LockInv /\ ReachedInv /\ [Next]_vars => ReachedInv'
<1> SUFFICES ASSUME TypeInv, LockInv, ReachedInv, [Next]_vars PROVE ReachedInv'
  OBVIOUS
<1>1. ASSUME NEW r \in Requests, TimeOut(r) PROVE ReachedInv'
  <2>1. /\ pc[r] = "queued" /\ pc' = [pc EXCEPT ![r] = "idle"]
        /\ rest' = [rest EXCEPT ![r] = <<>>]
        /\ UNCHANGED <<block, at, swap, holders, waiters>>
    BY <1>1 DEF TimeOut, locks
  <2>2. r \notin Connected
    BY <2>1 DEF Connected
  <2>3. /\ rest \in [Requests -> Seq(Seq(Statement))]
        /\ pc \in [Requests -> {"idle", "queued", "open", "finished"}]
    BY DEF TypeInv, TypeOK
  <2>4. \A q \in Requests : Reached(q)
    BY DEF ReachedInv
  <2>5. rest'[r] = <<>>
    BY <2>1, <2>3
  <2>6. Reached(r)'
    BY <2>1, <2>2, <2>4, <2>5, EmptyOrdered, NoLocks, Unlocked DEF Reached
  <2>7. \A q \in Requests : q # r => Reached(q)'
    BY <2>1, <2>3, <2>4, Untouched
  <2> QED
    BY <2>6, <2>7 DEF ReachedInv
<1>2. CASE PgCrash
  <2>1. /\ UNCHANGED <<block, rest>>
        /\ \A t \in Tables : holders'[t] = {} /\ waiters'[t] = {}
    BY <1>2 DEF PgCrash, request
  <2>2. \A q \in Requests : Reached(q)'
    BY <2>1, Unlocked DEF ReachedInv, Reached
  <2> QED
    BY <2>2 DEF ReachedInv
<1>3. CASE UNCHANGED vars
  BY <1>3 DEF vars, request, locks, ReachedInv, Reached, Current
<1> QED
  BY <1>1, <1>2, <1>3, ArriveReached, ConnectReached, LeaveReached, ExecuteReached,
     WaitReached, SwapReached
  DEF Next, Handle, Client, Swap, Raise

\* A request that does not move waits for a table that a swap waits for.
LEMMA Blocked ==
    ASSUME TypeInv, NEW r \in Requests, pc[r] = "open", ~Moves(r)
    PROVE  /\ r \in Connected /\ Current(r).locking /\ Current(r).on \in Tables
           /\ swap[Current(r).on] # "none" /\ r \notin holders[Current(r).on]
           /\ at[r] \in DOMAIN block[r] /\ at[r] \in Nat /\ Current(r) = block[r][at[r]]
<1>1. r \in Connected /\ block[r] # <<>>
  BY DEF Connected, TypeInv, AtInv
<1>2. Current(r).on \in Tables /\ at[r] \in DOMAIN block[r]
  BY <1>1, CurrentOK DEF TypeInv, AtInv
<1> QED
  BY <1>1, <1>2 DEF Moves, Current, TypeInv, TypeOK

\* If nobody moved, whoever holds a table would wait for the other one; but the
\* holder of the Croatian table never does, so that nobody waits for tables at
\* all, and the first in line for a connection would get one.
LEMMA SomebodyMoves ==
    ASSUME PoolMax # 0, TypeInv, LockInv, QueueInv, ReachedInv
    PROVE  NeverStuck
<1> SUFFICES ASSUME (\E r \in Requests : pc[r] # "idle") \/ (\E t \in Tables : swap[t] # "none"),
                    \A r \in Requests : ~Moves(r), \A t \in Tables : ~SwapMoves(t)
             PROVE  FALSE
  BY DEF NeverStuck
<1>0. /\ pc \in [Requests -> {"idle", "queued", "open", "finished"}]
      /\ \A t \in Tables : holders[t] \subseteq Requests
      /\ TypeOK
  BY DEF TypeInv, TypeOK
<1>1. \A t \in Tables : swap[t] # "none" =>
        \E r \in Requests : r \in holders[t] /\ pc[r] = "open"
  <2> TAKE t \in Tables
  <2> HAVE swap[t] # "none"
  <2>1. PICK r \in holders[t] : TRUE
    BY DEF SwapMoves
  <2>2. r \in Requests /\ r \in Connected
    BY <1>0, <2>1, ConnectedCount DEF LockInv
  <2> QED
    BY <2>1, <2>2 DEF Connected, Moves
<1>2. swap["hr"] = "none"
  <2> SUFFICES ASSUME swap["hr"] # "none" PROVE FALSE
    OBVIOUS
  <2>1. PICK r \in Requests : r \in holders["hr"] /\ pc[r] = "open"
    BY <1>1 DEF Tables
  <2> DEFINE b == block[r]
             n == at[r]
  <2>2. n \in DOMAIN b /\ n \in Nat /\ b[n].locking /\ b[n].on \in Tables /\ r \notin holders[b[n].on]
    BY <2>1, Blocked
  <2>3. b[n].on = "cz"
    BY <2>1, <2>2 DEF Tables
  <2>4. PICK i \in DOMAIN b : i <= n /\ b[i].locking /\ b[i].on = "hr"
    BY <2>1 DEF ReachedInv, Reached, Tables
  <2>5. Ordered(b) /\ b \in Seq(Statement)
    BY DEF ReachedInv, Reached, TypeInv, TypeOK
  <2> HIDE DEF b, n
  <2>6. i \in Nat /\ i # n
    BY <2>3, <2>4, <2>5
  <2>7. i < n
    BY <2>2, <2>4, <2>6
  <2> QED
    BY <2>2, <2>3, <2>4, <2>5, <2>7 DEF Ordered
<1>3. swap["cz"] = "none"
  <2> SUFFICES ASSUME swap["cz"] # "none" PROVE FALSE
    OBVIOUS
  <2>1. PICK r \in Requests : r \in holders["cz"] /\ pc[r] = "open"
    BY <1>1 DEF Tables
  <2>2. /\ Current(r).on \in Tables /\ swap[Current(r).on] # "none"
        /\ r \notin holders[Current(r).on]
    BY <2>1, Blocked
  <2> QED
    BY <1>2, <2>1, <2>2 DEF Tables
<1>4. \A r \in Requests : pc[r] # "open" /\ pc[r] # "finished"
  BY <1>2, <1>3, Blocked DEF Tables, Moves
<1>5. Connected = {}
  BY <1>4 DEF Connected
<1>6. Idle > 0
  <2>1. Cardinality(Connected) = 0
    BY <1>5, FS_EmptySet
  <2> QED
    BY <2>1, ApiAssumption DEF ApiAssumption, Idle
<1>7. \E r \in Requests : pc[r] = "queued"
  BY <1>0, <1>2, <1>3, <1>4 DEF Tables
<1>8. \E r \in Requests : pc[r] = "queued" /\ ahead[r] = {}
  BY <1>0, <1>7, FirstInLine
<1> QED
  BY <1>6, <1>8 DEF Moves

\* As long as transactions take the tables in one order, as those of the endpoints
\* do (EndpointsInOrder), no set of requests and swaps waits in a circle, for
\* tables or for connections, through swaps, failures and crashes.
THEOREM AlwaysSomebodyMoves ==
    ASSUME OrderedPlans, PoolMax # 0
    PROVE  Spec => []NeverStuck
BY InitTypeInv, StepTypeInv, InitLockInv, StepLockInv, InitStuckInv, StepQueueInv,
   StepReachedInv, SomebodyMoves, PTL DEF Spec

=============================================================================
