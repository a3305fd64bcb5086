----------------------------- MODULE ApiRequests -----------------------------
(***************************************************************************)
(* The requests of the API (api/routes.py, api/queries.py, api/db.py)      *)
(* against the tables the importers swap.                                  *)
(*                                                                         *)
(* A request takes a connection from the bounded pool, runs its statements *)
(* one after the other in one READ COMMITTED transaction, commits and      *)
(* gives the connection back; a batch of lookups does so once per item.  A *)
(* SELECT holds ACCESS SHARE on its table to the end of the transaction, a *)
(* swap needs ACCESS EXCLUSIVE, and lock requests queue.                   *)
(*                                                                         *)
(* Data.  A table is the number of the dataset in it, 0 while there is     *)
(* none.  A request is a sequence of blocks, one per connection; a block   *)
(* is a sequence of statements; a statement knows in which datasets its    *)
(* result ends the block early (a rung of the fallback ladder that has     *)
(* rows, a tier of the search that fills the page).                        *)
(***************************************************************************)
EXTENDS Naturals, Sequences, FiniteSets

CONSTANTS
    Requests,       \* requests that may be in progress at once
    PoolMax,        \* PG_POOL_MAX
    Rungs,          \* len(CZ_VARIANTS)
    Plans,          \* what clients ask, each a sequence of blocks
    MaxGen,         \* bound: datasets published per table
    MaxCrashes      \* bound: crashes of the database server

Tables == {"cz", "hr"}
Gens == 0..MaxGen

Statement == {s \in [on : Tables, locking : BOOLEAN, stops : SUBSET Gens] :
                s.locking \/ s.stops = {}}

ASSUME ApiAssumption ==
    /\ IsFiniteSet(Requests)
    /\ {PoolMax, Rungs, MaxGen, MaxCrashes} \subseteq Nat
    /\ Plans \subseteq Seq(Seq(Statement)) \ {<<>>}

VARIABLES
    pc,         \* idle, queued (for a connection), open (a transaction), finished
    rest,       \* the blocks a request has not begun
    block,      \* the block it is in
    at,         \* the statement it runs next, or ran last once finished
    seen,       \* the datasets its SELECTs of this block have read
    ahead,      \* those whom a queued request waits behind for a connection
    broken,     \* requests whose connection the server has lost
    stale,      \* idle pool connections the server has lost
    gen,        \* the dataset in each live table
    swap,       \* the importer's transaction on each: none, waiting, holding
    holders,    \* who holds ACCESS SHARE on each table
    waiters,    \* who waits for it behind a swap
    crashes

request == <<pc, rest, block, at, seen>>
pool == <<ahead, broken, stale>>
locks == <<holders, waiters>>
vars == <<request, pool, gen, swap, locks, crashes>>

-----------------------------------------------------------------------------
(* The endpoints *)

Select(t, stops) == [on |-> t, locking |-> TRUE, stops |-> stops]

\* One SELECT: hr_lookup, cz_by_id, hr_by_id, cz_reverse, hr_reverse.
Single(t) == <<Select(t, {})>>

\* Statements of which the first that is satisfied answers; hit[g] are those
\* satisfied in dataset g.
Ladder(t, n, hit) == [i \in 1..n |-> Select(t, {g \in Gens : i \in hit[g]})]

CzLookup(hit) == Ladder("cz", Rungs, hit)

\* The three tiers of the search; without a usable token only the last is run.
Search(t, tokens, hit) == IF tokens THEN Ladder(t, 3, hit) ELSE Single(t)

\* Both sources in one transaction, each only when ids of it were asked for.
AddressesBatch(cz, hr) ==
    (IF cz THEN Single("cz") ELSE <<>>) \o (IF hr THEN Single("hr") ELSE <<>>)

\* Reads of the system catalog, which no swap of the table blocks.
Catalog(t) == [on |-> t, locking |-> FALSE, stops |-> {}]

Meta == <<Catalog("cz"), Catalog("hr")>>

\* SELECT 1
Health == <<Catalog("cz")>>

-----------------------------------------------------------------------------
(* Connections *)

Connected == {r \in Requests : pc[r] \in {"open", "finished"}}

\* Mutant: one connection more than PG_POOL_MAX.
IdleAndOneMore == PoolMax + 1 - Cardinality(Connected)

Idle == PoolMax - Cardinality(Connected)

\* db.get_conn(), when it is called and when it is served or given up.
Enqueue(r) == ahead' = [ahead EXCEPT ![r] = {q \in Requests : pc[q] = "queued"}]

Dequeue(r) == ahead' = [q \in Requests |-> ahead[q] \ {r}]

Arrive(r, plan) ==
    /\ pc[r] = "idle"
    /\ pc' = [pc EXCEPT ![r] = "queued"]
    /\ rest' = [rest EXCEPT ![r] = plan]
    /\ Enqueue(r)
    /\ UNCHANGED <<block, at, seen, broken, stale, gen, swap, locks, crashes>>

\* The pool serves its waiters in turn, and does not look at a connection
\* before it hands it out.
Connect(r) ==
    /\ pc[r] = "queued" /\ ahead[r] = {}
    /\ Idle > 0
    /\ Dequeue(r)
    /\ \/ /\ stale > 0
          /\ stale' = stale - 1
          /\ broken' = broken \cup {r}
       \/ /\ stale < Idle
          /\ UNCHANGED <<stale, broken>>
    /\ block' = [block EXCEPT ![r] = Head(rest[r])]
    /\ rest' = [rest EXCEPT ![r] = Tail(@)]
    /\ at' = [at EXCEPT ![r] = 1]
    /\ pc' = [pc EXCEPT ![r] = IF Head(rest[r]) = <<>> THEN "finished" ELSE "open"]
    /\ UNCHANGED <<seen, gen, swap, locks, crashes>>

\* PoolTimeout; /health answers "degraded", the others fail.
TimeOut(r) ==
    /\ pc[r] = "queued"
    /\ pc' = [pc EXCEPT ![r] = "idle"]
    /\ rest' = [rest EXCEPT ![r] = <<>>]
    /\ Dequeue(r)
    /\ UNCHANGED <<block, at, seen, broken, stale, gen, swap, locks, crashes>>

-----------------------------------------------------------------------------
(* Statements *)

Current(r) == block[r][at[r]]

\* Everything the transaction of a request held goes when it ends.
Release(r) ==
    /\ holders' = [t \in Tables |-> holders[t] \ {r}]
    /\ waiters' = [t \in Tables |-> waiters[t] \ {r}]

\* Mutant: autocommit, every statement a transaction of its own.
ExecuteAutocommit(r) ==
    LET s == Current(r) IN
    /\ pc[r] = "open" /\ r \notin broken
    /\ s.locking =>
         /\ gen[s.on] > 0
         /\ r \in holders[s.on] \/ swap[s.on] = "none"
    /\ seen' = IF s.locking THEN [seen EXCEPT ![r] = @ \cup {<<s.on, gen[s.on]>>}] ELSE seen
    /\ Release(r)
    /\ IF gen[s.on] \in s.stops \/ at[r] = Len(block[r])
         THEN /\ pc' = [pc EXCEPT ![r] = "finished"]
              /\ UNCHANGED at
         ELSE /\ at' = [at EXCEPT ![r] = @ + 1]
              /\ UNCHANGED pc
    /\ UNCHANGED <<rest, block, pool, gen, swap, crashes>>

\* Mutant: the rows of the last rung that was run, not of the first that has any.
ExecuteAll(r) ==
    LET s == Current(r) IN
    /\ pc[r] = "open" /\ r \notin broken
    /\ s.locking =>
         /\ gen[s.on] > 0
         /\ r \in holders[s.on] \/ swap[s.on] = "none"
    /\ IF s.locking
         THEN /\ holders' = [holders EXCEPT ![s.on] = @ \cup {r}]
              /\ seen' = [seen EXCEPT ![r] = @ \cup {<<s.on, gen[s.on]>>}]
         ELSE UNCHANGED <<holders, seen>>
    /\ IF at[r] = Len(block[r])
         THEN /\ pc' = [pc EXCEPT ![r] = "finished"]
              /\ UNCHANGED at
         ELSE /\ at' = [at EXCEPT ![r] = @ + 1]
              /\ UNCHANGED pc
    /\ UNCHANGED <<rest, block, pool, waiters, gen, swap, crashes>>

\* A statement is executed and its rows are fetched.
Execute(r) ==
    LET s == Current(r) IN
    /\ pc[r] = "open" /\ r \notin broken
    /\ s.locking =>
         /\ gen[s.on] > 0
         /\ r \in holders[s.on] \/ swap[s.on] = "none"
    /\ IF s.locking
         THEN /\ holders' = [holders EXCEPT ![s.on] = @ \cup {r}]
              /\ seen' = [seen EXCEPT ![r] = @ \cup {<<s.on, gen[s.on]>>}]
         ELSE UNCHANGED <<holders, seen>>
    /\ IF gen[s.on] \in s.stops \/ at[r] = Len(block[r])
         THEN /\ pc' = [pc EXCEPT ![r] = "finished"]
              /\ UNCHANGED at
         ELSE /\ at' = [at EXCEPT ![r] = @ + 1]
              /\ UNCHANGED pc
    /\ UNCHANGED <<rest, block, pool, waiters, gen, swap, crashes>>

\* A SELECT that comes after a swap has asked for its lock queues behind it.
Wait(r) ==
    LET s == Current(r) IN
    /\ pc[r] = "open" /\ r \notin broken
    /\ s.locking /\ gen[s.on] > 0
    /\ swap[s.on] # "none" /\ r \notin holders[s.on] \cup waiters[s.on]
    /\ waiters' = [waiters EXCEPT ![s.on] = @ \cup {r}]
    /\ UNCHANGED <<request, pool, gen, swap, holders, crashes>>

\* The request leaves its block, well or with an exception.
Leave(r) ==
    /\ at' = [at EXCEPT ![r] = 1]
    /\ block' = [block EXCEPT ![r] = <<>>]
    /\ seen' = [seen EXCEPT ![r] = {}]
    /\ broken' = broken \ {r}

\* Mutants: the next item is begun, or the answer given, before the transaction
\* is over.
FinishLate(r) ==
    /\ pc[r] = "finished" /\ r \notin broken
    /\ Leave(r)
    /\ IF rest[r] = <<>>
         THEN /\ pc' = [pc EXCEPT ![r] = "idle"]
              /\ Release(r)
              /\ UNCHANGED ahead
         ELSE /\ pc' = [pc EXCEPT ![r] = "queued"]
              /\ Enqueue(r)
              /\ UNCHANGED locks
    /\ UNCHANGED <<rest, stale, gen, swap, crashes>>
FinishIdleInTransaction(r) ==
    /\ pc[r] = "finished" /\ r \notin broken
    /\ Leave(r)
    /\ IF rest[r] = <<>>
         THEN /\ pc' = [pc EXCEPT ![r] = "idle"]
              /\ UNCHANGED ahead
         ELSE /\ pc' = [pc EXCEPT ![r] = "queued"]
              /\ Enqueue(r)
    /\ UNCHANGED <<rest, stale, gen, swap, locks, crashes>>

\* Commit, give the connection back; answer, or go on with the next item.
Finish(r) ==
    /\ pc[r] = "finished" /\ r \notin broken
    /\ Release(r)
    /\ Leave(r)
    /\ IF rest[r] = <<>>
         THEN /\ pc' = [pc EXCEPT ![r] = "idle"]
              /\ UNCHANGED ahead
         ELSE /\ pc' = [pc EXCEPT ![r] = "queued"]
              /\ Enqueue(r)
    /\ UNCHANGED <<rest, stale, gen, swap, crashes>>

\* An exception: the whole request fails.  The pool replaces a connection that
\* comes back broken.
Fail(r) ==
    /\ r \in Connected
    /\ Release(r)
    /\ Leave(r)
    /\ pc' = [pc EXCEPT ![r] = "idle"]
    /\ rest' = [rest EXCEPT ![r] = <<>>]
    /\ UNCHANGED <<ahead, stale, gen, swap, crashes>>

\* The exceptions that cannot but happen: the table was never imported, or the
\* statement, or the commit, finds its connection gone.
Raise(r) ==
    /\ \/ r \in broken
       \/ pc[r] = "open" /\ Current(r).locking /\ gen[Current(r).on] = 0
    /\ Fail(r)

-----------------------------------------------------------------------------
(* The importers' swaps *)

\* DROP TABLE asks for ACCESS EXCLUSIVE ...
SwapBegin(t) ==
    /\ swap[t] = "none" /\ gen[t] < MaxGen
    /\ swap' = [swap EXCEPT ![t] = "waiting"]
    /\ UNCHANGED <<request, pool, gen, locks, crashes>>

\* ... and gets it when the readers before it are done.
SwapLock(t) ==
    /\ swap[t] = "waiting" /\ holders[t] = {}
    /\ swap' = [swap EXCEPT ![t] = "holding"]
    /\ UNCHANGED <<request, pool, gen, locks, crashes>>

\* The end of its transaction lets in all who wait; a SELECT that waited looks
\* the name up again and finds the table that has it now.
LetIn(t) ==
    /\ swap' = [swap EXCEPT ![t] = "none"]
    /\ holders' = [holders EXCEPT ![t] = @ \cup waiters[t]]
    /\ waiters' = [waiters EXCEPT ![t] = {}]
    /\ UNCHANGED <<request, pool, crashes>>

SwapCommit(t) ==
    /\ swap[t] = "holding"
    /\ gen' = [gen EXCEPT ![t] = @ + 1]
    /\ LetIn(t)

SwapAbort(t) ==
    /\ swap[t] # "none"
    /\ LetIn(t)
    /\ UNCHANGED gen

\* The server crashes and comes back: no transaction and no lock survives, and
\* nobody who held one knows yet.
PgCrash ==
    /\ crashes < MaxCrashes
    /\ crashes' = crashes + 1
    /\ broken' = Connected
    /\ stale' = Idle
    /\ swap' = [t \in Tables |-> "none"]
    /\ holders' = [t \in Tables |-> {}]
    /\ waiters' = [t \in Tables |-> {}]
    /\ UNCHANGED <<request, ahead, gen>>

-----------------------------------------------------------------------------

Init ==
    /\ pc = [r \in Requests |-> "idle"]
    /\ rest = [r \in Requests |-> <<>>]
    /\ block = [r \in Requests |-> <<>>]
    /\ at = [r \in Requests |-> 1]
    /\ seen = [r \in Requests |-> {}]
    /\ ahead = [r \in Requests |-> {}]
    /\ broken = {}
    /\ stale = 0
    /\ gen = [t \in Tables |-> 0]
    /\ swap = [t \in Tables |-> "none"]
    /\ holders = [t \in Tables |-> {}]
    /\ waiters = [t \in Tables |-> {}]
    /\ crashes = 0

\* What a request does of its own accord once it has arrived.
Handle(r) == Connect(r) \/ Execute(r) \/ Wait(r) \/ Finish(r) \/ Raise(r)

Client(r) == \E plan \in Plans : Arrive(r, plan)

Swap(t) == SwapLock(t) \/ SwapCommit(t)

Next ==
    \/ \E r \in Requests : Handle(r) \/ Client(r) \/ TimeOut(r) \/ Fail(r)
    \/ \E t \in Tables : Swap(t) \/ SwapBegin(t) \/ SwapAbort(t)
    \/ PgCrash

Spec == Init /\ [][Next]_vars

\* Handlers and a swap that has begun go on when they can.  Nobody has to send
\* a request or begin a swap, and no progress rests on timeouts or failures.
FairSpec ==
    /\ Spec
    /\ \A r \in Requests : WF_vars(Handle(r))
    /\ \A t \in Tables : WF_vars(Swap(t))

-----------------------------------------------------------------------------
(* Properties *)

\* The pool never has more connections than it may.
PoolInv == Cardinality(Connected) + stale <= PoolMax

TypeOK ==
    /\ PoolInv
    /\ pc \in [Requests -> {"idle", "queued", "open", "finished"}]
    /\ rest \in [Requests -> Seq(Seq(Statement))]
    /\ block \in [Requests -> Seq(Statement)]
    /\ at \in [Requests -> Nat \ {0}]
    /\ seen \in [Requests -> SUBSET (Tables \X Gens)]
    /\ ahead \in [Requests -> SUBSET Requests]
    /\ broken \subseteq Requests
    /\ stale \in 0..PoolMax
    /\ gen \in [Tables -> Gens]
    /\ swap \in [Tables -> {"none", "waiting", "holding"}]
    /\ holders \in [Tables -> SUBSET Requests]
    /\ waiters \in [Tables -> SUBSET Requests]
    /\ crashes \in 0..MaxCrashes

\* Up to the end of its transaction, whatever a request has read is what the
\* live tables hold: the statements of a ladder or a search read one dataset,
\* and addresses_batch answers from both tables as they are at one moment.  A
\* request that a crash has robbed of its locks does not answer.
Snapshot ==
    \A r \in Connected \ broken : \A read \in seen[r] : read[2] = gen[read[1]]

\* The statement a request answers from is the first one satisfied by the
\* dataset that is live as it answers: cz_lookup's "step_used", the tiers of
\* _trgm_search.
FirstSatisfied ==
    \A r \in Requests \ broken : pc[r] = "finished" /\ block[r] # <<>> =>
      /\ \A i \in 1..at[r] - 1 : gen[block[r][i].on] \notin block[r][i].stops
      /\ at[r] < Len(block[r]) => gen[Current(r).on] \in Current(r).stops

\* A request that waits for a connection holds nothing another one, or a swap,
\* waits for: the items of a batch lookup cannot lock the pool up.
NoHoldAndWait ==
    \A r \in Requests : pc[r] = "queued" =>
      \A t \in Tables : r \notin holders[t] \cup waiters[t]

\* Whoever is served, done, robbed of his connection, or kept from a table by
\* nobody, goes on; one who joins the queue for a table does not yet.
Moves(r) ==
    \/ pc[r] = "queued" /\ ahead[r] = {} /\ Idle > 0
    \/ pc[r] = "finished" \/ r \in broken
    \/ /\ pc[r] = "open"
       /\ Current(r).locking =>
            \/ gen[Current(r).on] = 0
            \/ r \in holders[Current(r).on] \/ swap[Current(r).on] = "none"

SwapMoves(t) == swap[t] # "none" /\ holders[t] = {}

\* Requests that wait for connections and tables, and swaps that wait for requests,
\* never all wait for each other: short of timeouts, failures and the server's
\* deadlock detector somebody can always go on.
NeverStuck ==
    (\E r \in Requests : pc[r] # "idle") \/ (\E t \in Tables : swap[t] # "none") =>
      (\E r \in Requests : Moves(r)) \/ (\E t \in Tables : SwapMoves(t))

\* Every request is answered, however many others there are and whatever the
\* importers do, without help of the pool's timeout.
Answered == \A r \in Requests : pc[r] # "idle" ~> pc[r] = "idle"

\* A swap gets its lock, though readers keep coming.
SwapsHappen == \A t \in Tables : swap[t] = "waiting" ~> swap[t] = "none"

-----------------------------------------------------------------------------
(* Inductive invariants *)

\* A request that waits for a connection has a block to run on it.
BlockWaits == \A r \in Requests : pc[r] = "queued" => rest[r] # <<>>

\* A request on a connection is at a statement of its block.
AtInv == \A r \in Connected :
    /\ pc[r] = "open" => block[r] # <<>>
    /\ block[r] # <<>> => at[r] \in DOMAIN block[r]

\* A swap under way has a dataset to bring.
SwapInv == \A t \in Tables : swap[t] # "none" => gen[t] < MaxGen

TypeInv == TypeOK /\ BlockWaits /\ AtInv /\ SwapInv

\* Locks are held within a living transaction, and pin what it has read.
LockInv ==
    /\ broken \subseteq Connected
    /\ \A t \in Tables :
         /\ holders[t] \cup waiters[t] \subseteq Connected \ broken
         /\ swap[t] = "holding" => holders[t] = {}
    /\ \A r \in Requests \ Connected : seen[r] = {}
    /\ \A r \in Connected \ broken : \A read \in seen[r] :
         r \in holders[read[1]] /\ read[2] = gen[read[1]]

\* A statement that has been run: its table is pinned.
Pinned(r, s) == s.locking => r \in holders[s.on]

\* How far a request has come in its block, and that what took it there is
\* still so.
Rung(r) ==
    /\ \A i \in 1..at[r] - 1 :
         i \in DOMAIN block[r] =>
           Pinned(r, block[r][i]) /\ gen[block[r][i].on] \notin block[r][i].stops
    /\ pc[r] = "finished" /\ at[r] < Len(block[r]) /\ block[r] # <<>> =>
         Pinned(r, Current(r)) /\ gen[Current(r).on] \in Current(r).stops

RungInv == \A r \in Connected \ broken : Rung(r)

\* The connection queue is one line.
QueueInv ==
    \A r \in Requests : pc[r] = "queued" =>
      /\ \A q \in ahead[r] : pc[q] = "queued" /\ ahead[q] \subseteq ahead[r]
      /\ r \notin ahead[r]

\* Statements that lock the Czech table come before those that lock the Croatian.
Ordered(b) ==
    \A i, j \in DOMAIN b : i < j /\ b[i].locking /\ b[j].locking =>
      b[i].on = "cz" \/ b[j].on = "hr"

OrderedPlans == \A plan \in Plans : \A i \in DOMAIN plan : Ordered(plan[i])

\* Locks are those of statements that were run or, when a swap has let the
\* request in, of the one that is run next; a wait is for that one.
Reached(r) ==
    /\ Ordered(block[r])
    /\ \A i \in DOMAIN rest[r] : Ordered(rest[r][i])
    /\ \A t \in Tables : r \in holders[t] \cup waiters[t] =>
         \E i \in DOMAIN block[r] : i <= at[r] /\ block[r][i].locking /\ block[r][i].on = t
    /\ \A t \in Tables : r \in waiters[t] =>
         /\ pc[r] = "open" /\ Current(r).locking /\ Current(r).on = t
         /\ swap[t] # "none" /\ r \notin holders[t]

ReachedInv == \A r \in Requests : Reached(r)

=============================================================================
