------------------------------ MODULE Scheduler ------------------------------
(***************************************************************************)
(* The importer's daemon, importer/scheduler.py: it works out when the     *)
(* monthly run is due, sleeps until then and runs the jobs one after the   *)
(* other, for ever.                                                        *)
(*                                                                         *)
(* Time.  The wall clock is the number of ticks since the month began; all *)
(* months have the same length.  next_run_at reads the wall clock, and so  *)
(* does the next statement to get the length of the sleep, but the sleep   *)
(* itself does not follow the wall clock, which may be set meanwhile (an   *)
(* hour back or forward at the turns of summer time, less by NTP).  A tick *)
(* is the second the daemon sleeps at least.                               *)
(*                                                                         *)
(* The jobs themselves are HrImport, HrAdminUnits and CzImport; here a job *)
(* succeeds or raises, and may have published either way.                  *)
(***************************************************************************)
EXTENDS Integers, Sequences

CONSTANTS
    Month,          \* ticks in a month
    Slot,           \* SCHEDULE_DAY, SCHEDULE_HOUR and SCHEDULE_MINUTE
    RunOnStart,     \* values RUN_ON_START may have
    MaxJump,        \* bound: ticks by which the clock is set at once
    MaxSets,        \* bound: settings of the clock, each way
    MaxKills        \* bound: stops of the container

\* How far settings may move the clock in all: not from the slot to another month,
\* with a tick between the readings of the clock and one for the shortest sleep.
Drift == MaxJump * MaxSets

ASSUME SchedulerAssumption ==
    /\ {Month, Slot, MaxJump, MaxSets, MaxKills} \subseteq Nat
    /\ Drift \in Nat /\ 0 < Slot /\ Drift <= Slot /\ Slot + Drift + 2 < Month
    /\ RunOnStart \subseteq BOOLEAN

VARIABLES
    clock,      \* the wall clock
    pc,         \* down, plan, planned (the target is known), asleep, run
    timer,      \* planned: from the clock to the target; asleep: left to sleep
    job,        \* the job that is running, 0 while there is none
    results,    \* of the jobs of the last run
    joined,     \* do hr_addresses carry the units that are in hr_admin_units?
    ran,        \* runs the loop has begun this month
    slot,       \* this month's is ahead; or it came to a daemon that waited for it,
                \* and its run is owed or served; or to no such daemon: missed
    back,       \* settings of the clock back
    forward,    \* and forward
    kills

settings == <<back, forward, kills>>
vars == <<clock, pc, timer, job, results, joined, ran, slot, settings>>

-----------------------------------------------------------------------------
(* The jobs *)

\* Mutant: the address import before the units it reads.
AddressesFirst == <<"cz", "addresses", "units">>

Jobs == <<"cz", "units", "addresses">>

NoResults == [i \in DOMAIN Jobs |-> "none"]

\* What publishing does to the match between addresses and units.
Published(i) ==
    CASE Jobs[i] = "units"     -> FALSE
      [] Jobs[i] = "addresses" -> TRUE
      [] OTHER                 -> joined

\* A job that ended early may have published, or not.
Interrupted(i) == joined' \in {joined, Published(i)}

-----------------------------------------------------------------------------
(* The daemon *)

\* RUN_ON_START=1 runs the jobs at once, outside the loop.
Start(now) ==
    /\ pc = "down"
    /\ pc' = IF now THEN "run" ELSE "plan"
    /\ job' = IF now THEN 1 ELSE 0
    /\ results' = NoResults
    /\ UNCHANGED <<clock, timer, joined, ran, slot, settings>>

\* Mutants: ">= now", as the docstring has it; and this month's date overlooked.
NextRunFromNow(now) == IF Slot >= now THEN Slot - now ELSE Slot + Month - now
NextRunNextMonth(now) == Slot + Month - now

\* Ticks from now to next_run_at(now).
NextRunAt(now) == IF Slot > now THEN Slot - now ELSE Slot + Month - now

Plan ==
    /\ pc = "plan"
    /\ pc' = "planned"
    /\ timer' = NextRunAt(clock)
    /\ UNCHANGED <<clock, job, results, joined, ran, slot, settings>>

\* Mutant: time.sleep(wait_s), without the guard against a negative sleep.
SleepUnguarded ==
    /\ pc = "planned"
    /\ pc' = "asleep"
    /\ UNCHANGED <<clock, timer, job, results, joined, ran, slot, settings>>

\* The second reading of the clock may find the target passed.
Sleep ==
    /\ pc = "planned"
    /\ pc' = "asleep"
    /\ timer' = IF timer > 1 THEN timer ELSE 1
    /\ UNCHANGED <<clock, job, results, joined, ran, slot, settings>>

Wake ==
    /\ pc = "asleep" /\ timer = 0
    /\ pc' = "run"
    /\ job' = 1
    /\ results' = NoResults
    /\ ran' = ran + 1
    /\ slot' = IF slot = "owed" THEN "served" ELSE slot
    /\ UNCHANGED <<clock, timer, joined, settings>>

Next1(i) == IF i < Len(Jobs) THEN i + 1 ELSE 0

\* Mutant: the first job that raises ends the run.
RunUntilFailure(i) ==
    /\ pc = "run" /\ job = i
    /\ \/ /\ results' = [results EXCEPT ![i] = "ok"]
          /\ joined' = Published(i)
          /\ job' = Next1(i)
       \/ /\ results' = [results EXCEPT ![i] = "failed"]
          /\ Interrupted(i)
          /\ job' = 0
    /\ pc' = IF job' = 0 THEN "plan" ELSE "run"
    /\ UNCHANGED <<clock, timer, ran, slot, settings>>

\* One turn of run_all's loop: an exception is logged and the next job is run.
RunJob(i) ==
    /\ pc = "run" /\ job = i
    /\ \/ /\ results' = [results EXCEPT ![i] = "ok"]
          /\ joined' = Published(i)
       \/ /\ results' = [results EXCEPT ![i] = "failed"]
          /\ Interrupted(i)
    /\ job' = Next1(i)
    /\ pc' = IF job' = 0 THEN "plan" ELSE "run"
    /\ UNCHANGED <<clock, timer, ran, slot, settings>>

-----------------------------------------------------------------------------
(* The container and its clock *)

\* docker stop, a reboot, a deployment.  A slot that comes before Plan is lost.
Kill ==
    /\ pc # "down"
    /\ kills < MaxKills
    /\ kills' = kills + 1
    /\ pc' = "down"
    /\ job' = 0
    /\ timer' = 0
    /\ slot' = IF slot = "owed" THEN "missed" ELSE slot
    /\ IF job # 0 THEN Interrupted(job) ELSE joined' = joined
    /\ UNCHANGED <<clock, results, ran, back, forward>>

\* The slot comes, unless the clock was set back to before it and it has been.
\* A daemon that is down misses it, and so does one that is up but still in the run
\* of RUN_ON_START, or about to plan: either will plan for the next month.
SlotComes ==
    slot' = IF slot = "ahead" /\ clock' >= Slot
              THEN IF pc \in {"planned", "asleep"} THEN "owed" ELSE "missed"
              ELSE slot

\* A sleep ends when it is over, and the two readings of the clock are at most
\* a tick apart.
Tick ==
    /\ pc = "asleep" => timer > 0
    /\ pc = "planned" => timer >= 0
    /\ clock' = (clock + 1) % Month
    /\ timer' = IF pc \in {"planned", "asleep"} THEN timer - 1 ELSE timer
    /\ IF clock' = 0 THEN ran' = 0 /\ slot' = "ahead" ELSE SlotComes /\ ran' = ran
    /\ UNCHANGED <<pc, job, results, joined, settings>>

SetForward(d) ==
    /\ forward < MaxSets
    /\ forward' = forward + 1
    /\ clock + d < Month
    /\ clock' = clock + d
    /\ timer' = IF pc = "planned" THEN timer - d ELSE timer
    /\ SlotComes
    /\ UNCHANGED <<pc, job, results, joined, ran, back, kills>>

SetBack(d) ==
    /\ back < MaxSets
    /\ back' = back + 1
    /\ clock >= d
    /\ clock' = clock - d
    /\ timer' = IF pc = "planned" THEN timer + d ELSE timer
    /\ UNCHANGED <<pc, job, results, joined, ran, slot, forward, kills>>

-----------------------------------------------------------------------------

Init ==
    /\ clock \in 0..Month - 1
    /\ pc = "down"
    /\ timer = 0
    /\ job = 0
    /\ results = NoResults
    /\ joined \in BOOLEAN
    /\ ran = 0
    /\ slot = IF clock < Slot THEN "ahead" ELSE "missed"
    /\ back = 0
    /\ forward = 0
    /\ kills = 0

Daemon ==
    \/ \E now \in RunOnStart : Start(now)
    \/ Plan \/ Sleep \/ Wake
    \/ \E i \in DOMAIN Jobs : RunJob(i)

Next ==
    \/ Daemon \/ Kill \/ Tick
    \/ \E d \in 1..MaxJump : SetForward(d) \/ SetBack(d)

Spec == Init /\ [][Next]_vars

\* Time goes by, a job ends, the daemon takes its next step, and Docker starts
\* a container that has stopped (restart: unless-stopped).
FairSpec == Spec /\ WF_vars(Daemon) /\ WF_vars(Tick)

-----------------------------------------------------------------------------
(* Properties *)

\* The run waited for is never more than a month away.
TypeOK ==
    /\ clock \in 0..Month - 1
    /\ pc \in {"down", "plan", "planned", "asleep", "run"}
    /\ timer \in -(Drift + 1)..Month + Drift
    /\ pc = "asleep" => timer >= 0
    /\ job \in 0..Len(Jobs)
    /\ pc = "run" <=> job # 0
    /\ results \in [DOMAIN Jobs -> {"none", "ok", "failed"}]
    /\ joined \in BOOLEAN
    /\ ran \in Nat
    /\ slot \in {"ahead", "owed", "served", "missed"}
    /\ back \in 0..MaxSets
    /\ forward \in 0..MaxSets
    /\ kills \in 0..MaxKills

\* However quickly a run is over, and wherever the container is restarted, the
\* loop runs the jobs once a month; a clock that was set back is all that can
\* add a run, one for each time.
NeverTwice == ran <= 1 + back

\* When a month ends, the daemon that was waiting for its slot when it came has begun
\* its run, though the clock was set in its sleep or between its two readings.  On a
\* clock never set back, it is the only daemon that has: one that is down when the slot
\* comes, or in the run RUN_ON_START asks for, or about to plan, misses the month and
\* does not make it up.
MonthServed ==
    [][clock = Month - 1 /\ clock' = 0 =>
         /\ slot # "owed"
         /\ back = 0 => (ran > 0 <=> slot = "served")]_vars

\* When the last run's address import went through, the addresses carry the
\* units that are live now, whatever the jobs before it did.
Joined == \A i \in DOMAIN Jobs :
    Jobs[i] = "addresses" /\ pc # "run" /\ results[i] = "ok" => joined

\* Every job is run again and again, though any of them may fail every time.
JobsGoOn == \A i \in DOMAIN Jobs : []<><<RunJob(i)>>_vars

-----------------------------------------------------------------------------
(* Inductive invariants *)

\* The jobs run one after the other, and the timer is a sleep's or is off the
\* mark by no more than the clock has been set and a tick.
TimerInv ==
    /\ TypeOK
    /\ timer <= Month + MaxJump * back
    /\ timer >= -(MaxJump * forward) - 1

\* The address import is the last job: its result, once there, tells of the
\* units it has read, and nothing touches either before the next run.
JoinedInv == \A i \in DOMAIN Jobs : Jobs[i] = "addresses" =>
    /\ pc = "run" => results[i] = "none"
    /\ results[i] = "ok" => joined

\* When the sleep is over, on this month's clock, and how much later than planned
\* the clock's settings can have made that.
Due == clock + timer
Late == MaxJump * forward + 2

\* A run beyond what settings back account for has the slot behind it, and the
\* sleep after it ends in another month.
OnceInv ==
    /\ NeverTwice
    /\ ran = 1 + back => clock >= Slot
    /\ pc \in {"planned", "asleep"} =>
        /\ ran = back => Due >= Slot
        /\ ran = 1 + back => Due >= Slot + Month
        /\ back = 0 => Due >= Slot + Month \/ Due \in Slot..Slot + Late
    /\ pc = "planned" /\ back = 0 => Due \in {Slot, Slot + Month}

\* A slot that is awaited, or owed: the sleep ends about then, well within the month.
ServedInv ==
    /\ slot = "ahead" => clock < Slot
    /\ slot = "owed" => pc \in {"planned", "asleep"}
    /\ pc = "planned" => Due <= Slot + Month /\ (slot \in {"ahead", "owed"} => Due <= Slot)
    /\ pc = "asleep" => Due <= Slot + Month + Late /\ (slot \in {"ahead", "owed"} => Due <= Slot + Late)

\* Who misses the slot sleeps into the next month: the run begun is the one owed.
ExactInv == back = 0 =>
    /\ slot # "ahead" => clock >= Slot
    /\ slot = "served" <=> ran > 0
    /\ slot = "missed" /\ pc \in {"planned", "asleep"} => Due >= Slot + Month

=============================================================================
