--------------------------- MODULE SchedulerProofs ---------------------------
(* Proofs about the daemon, for any month, slot and bounds.                  *)
EXTENDS Scheduler, TLAPS

\* The jobs, one by one.
LEMMA JobsFacts ==
    /\ DOMAIN Jobs = 1..3 /\ Len(Jobs) = 3
    /\ Jobs[1] = "cz" /\ Jobs[2] = "units" /\ Jobs[3] = "addresses"
BY DEF Jobs

\* The constants are numbers, and the slot is not next to a month's end.
LEMMA Numbers ==
    /\ Month \in Nat /\ Slot \in Nat /\ MaxJump \in Nat /\ MaxSets \in Nat /\ MaxKills \in Nat
    /\ Drift \in Nat /\ Drift = MaxJump * MaxSets
    /\ 0 < Slot /\ Drift <= Slot /\ Slot + Drift + 2 < Month
BY SchedulerAssumption DEF Drift

\* What n settings of the clock can add up to.
LEMMA Settings ==
    ASSUME NEW n \in Nat, n <= MaxSets
    PROVE  /\ MaxJump * n \in Nat
           /\ MaxJump * n <= Drift
           /\ MaxJump * (n + 1) = MaxJump * n + MaxJump
<1>1. \E m \in Nat : MaxSets = n + m
  <2>1. MaxSets - n \in Nat /\ MaxSets = n + (MaxSets - n)
    BY Numbers
  <2> QED
    BY <2>1
<1>2. PICK m \in Nat : MaxSets = n + m
  BY <1>1
<1>3. /\ MaxJump * n \in Nat /\ MaxJump * m \in Nat
      /\ MaxJump * (n + m) = MaxJump * n + MaxJump * m
      /\ MaxJump * (n + 1) = MaxJump * n + MaxJump
  BY Numbers
<1> QED
  BY <1>2, <1>3, Numbers

\* How far away the next slot is.
LEMMA NextRunBounds ==
    ASSUME NEW now \in 0..Month - 1
    PROVE  NextRunAt(now) \in 1..Month
BY Numbers DEF NextRunAt

-----------------------------------------------------------------------------
(* Types *)

LEMMA InitTimerInv == Init => TimerInv
<1> SUFFICES ASSUME Init PROVE TimerInv
  OBVIOUS
<1>1. /\ MaxJump * 0 = 0
      /\ 0 \in -(Drift + 1)..Month + Drift
  BY Numbers
<1>2. results \in [DOMAIN Jobs -> {"none", "ok", "failed"}]
  BY DEF Init, NoResults
<1>3. clock \in 0..Month - 1 /\ slot \in {"ahead", "owed", "served", "missed"}
  BY DEF Init
<1>4. back \in 0..MaxSets /\ forward \in 0..MaxSets /\ kills \in 0..MaxKills
  BY Numbers DEF Init
<1>5. /\ pc = "down" /\ timer = 0 /\ job = 0 /\ joined \in BOOLEAN
      /\ ran = 0 /\ back = 0 /\ forward = 0
  BY DEF Init
<1>6. job \in 0..Len(Jobs)
  BY <1>5, JobsFacts
<1>7. TypeOK
  BY <1>1, <1>2, <1>3, <1>4, <1>5, <1>6 DEF TypeOK
<1> QED
  BY <1>1, <1>5, <1>7, Numbers DEF TimerInv

\* The daemon's own steps.
LEMMA DaemonTimerInv == TimerInv /\ Daemon => TimerInv'
<1> SUFFICES ASSUME TimerInv, Daemon PROVE TimerInv'
  OBVIOUS
<1> USE DEF TimerInv, TypeOK
<1>1. /\ MaxJump * back \in Nat /\ MaxJump * back <= Drift
      /\ MaxJump * forward \in Nat /\ MaxJump * forward <= Drift
  BY Settings, Numbers
<1>2. ASSUME NEW now \in RunOnStart, Start(now) PROVE TimerInv'
  BY <1>1, <1>2, JobsFacts DEF Start, NoResults, settings
<1>3. ASSUME Plan PROVE TimerInv'
  <2>1. timer' \in 1..Month
    BY <1>3, NextRunBounds DEF Plan
  <2> QED
    BY <1>1, <1>3, <2>1, Numbers DEF Plan, settings
<1>4. ASSUME Sleep PROVE TimerInv'
  BY <1>1, <1>4, Numbers DEF Sleep, settings
<1>5. ASSUME Wake PROVE TimerInv'
  BY <1>1, <1>5, JobsFacts DEF Wake, NoResults, settings
<1>6. ASSUME NEW i \in DOMAIN Jobs, RunJob(i) PROVE TimerInv'
  <2>1. joined' \in BOOLEAN
    BY <1>6 DEF RunJob, Interrupted, Published
  <2>2. job' \in 0..Len(Jobs) /\ (pc' = "run" <=> job' # 0) /\ pc' \in {"plan", "run"}
    BY <1>6, JobsFacts DEF RunJob, Next1
  <2>3. results' \in [DOMAIN Jobs -> {"none", "ok", "failed"}]
    BY <1>6 DEF RunJob
  <2>4. UNCHANGED <<clock, timer, ran, slot, back, forward, kills>>
    BY <1>6 DEF RunJob, settings
  <2> QED
    BY <2>1, <2>2, <2>3, <2>4
<1> QED
  BY <1>2, <1>3, <1>4, <1>5, <1>6 DEF Daemon

\* Time, the clock and the container.
LEMMA WorldTimerInv ==
    ASSUME TimerInv, Kill \/ Tick \/ \E d \in 1..MaxJump : SetForward(d) \/ SetBack(d)
    PROVE  TimerInv'
<1> USE DEF TimerInv, TypeOK
<1>1. /\ MaxJump * back \in Nat /\ MaxJump * back <= Drift
      /\ MaxJump * forward \in Nat /\ MaxJump * forward <= Drift
  BY Settings, Numbers
<1>2. CASE Kill
  <2>1. joined' \in BOOLEAN
    BY <1>2 DEF Kill, Interrupted, Published
  <2>2. kills' \in 0..MaxKills
    BY <1>2, Numbers DEF Kill
  <2> QED
    BY <1>1, <1>2, <2>1, <2>2, Numbers, JobsFacts DEF Kill
<1>3. CASE Tick
  <2>1. clock' \in 0..Month - 1 /\ ran' \in Nat
    BY <1>3, Numbers DEF Tick
  <2>2. slot' \in {"ahead", "owed", "served", "missed"}
    BY <1>3 DEF Tick, SlotComes
  <2>3. UNCHANGED <<pc, job, results, joined, back, forward, kills>>
    BY <1>3 DEF Tick, settings
  <2>4. /\ timer' \in -(Drift + 1)..Month + Drift
        /\ pc' = "asleep" => timer' >= 0
        /\ timer' <= Month + MaxJump * back
        /\ timer' >= -(MaxJump * forward) - 1
    BY <1>1, <1>3, <2>3, Numbers DEF Tick
  <2> QED
    BY <2>1, <2>2, <2>3, <2>4
<1>4. ASSUME NEW d \in 1..MaxJump, SetForward(d) PROVE TimerInv'
  <2>1. forward' = forward + 1 /\ forward' \in 0..MaxSets
    BY <1>4, Numbers DEF SetForward
  <2>2. MaxJump * forward' = MaxJump * forward + MaxJump /\ MaxJump * forward' <= Drift
    BY <2>1, Settings, Numbers
  <2>3. clock' \in 0..Month - 1 /\ slot' \in {"ahead", "owed", "served", "missed"}
    BY <1>4, Numbers DEF SetForward, SlotComes
  <2>4. UNCHANGED <<pc, job, results, joined, ran, back, kills>>
    BY <1>4 DEF SetForward
  <2>5. timer' = IF pc = "planned" THEN timer - d ELSE timer
    BY <1>4 DEF SetForward
  <2>6. /\ timer' \in -(Drift + 1)..Month + Drift
        /\ pc' = "asleep" => timer' >= 0
        /\ timer' <= Month + MaxJump * back
        /\ timer' >= -(MaxJump * forward') - 1
    BY <1>1, <2>2, <2>4, <2>5, Numbers
  <2> QED
    BY <2>1, <2>3, <2>4, <2>6
<1>5. ASSUME NEW d \in 1..MaxJump, SetBack(d) PROVE TimerInv'
  <2>1. back' = back + 1 /\ back' \in 0..MaxSets
    BY <1>5, Numbers DEF SetBack
  <2>2. MaxJump * back' = MaxJump * back + MaxJump /\ MaxJump * back' <= Drift
    BY <2>1, Settings, Numbers
  <2>3. clock' \in 0..Month - 1
    BY <1>5, Numbers DEF SetBack
  <2>4. UNCHANGED <<pc, job, results, joined, ran, slot, forward, kills>>
    BY <1>5 DEF SetBack
  <2>5. timer' = IF pc = "planned" THEN timer + d ELSE timer
    BY <1>5 DEF SetBack
  <2>6. /\ timer' \in -(Drift + 1)..Month + Drift
        /\ pc' = "asleep" => timer' >= 0
        /\ timer' <= Month + MaxJump * back'
        /\ timer' >= -(MaxJump * forward) - 1
    BY <1>1, <2>2, <2>4, <2>5, Numbers
  <2> QED
    BY <2>1, <2>3, <2>4, <2>6
<1> QED
  BY <1>2, <1>3, <1>4, <1>5

LEMMA StepTimerInv == TimerInv /\ [Next]_vars => TimerInv'
<1>1. ASSUME TimerInv, UNCHANGED vars PROVE TimerInv'
  BY <1>1 DEF TimerInv, TypeOK, vars, settings
<1> QED
  BY <1>1, DaemonTimerInv, WorldTimerInv DEF Next

\* The daemon keeps its types; the sleep ahead of it is no longer than a month
\* and what the clock has been set back by, and it never sleeps a negative time.
THEOREM DaemonTypes == Spec => []TypeOK
<1>1. TimerInv => TypeOK
  BY DEF TimerInv
<1> QED
  BY <1>1, InitTimerInv, StepTimerInv, PTL DEF Spec

-----------------------------------------------------------------------------
(* What the daemon promises *)

LEMMA InitJoinedInv == Init => JoinedInv
BY DEF Init, NoResults, JoinedInv

LEMMA StepJoinedInv == TimerInv /\ JoinedInv /\ [Next]_vars => JoinedInv'
<1> SUFFICES ASSUME TimerInv, JoinedInv, [Next]_vars PROVE JoinedInv'
  OBVIOUS
<1> USE JobsFacts DEF TimerInv, TypeOK
<1>1. JoinedInv <=> (pc = "run" => results[3] = "none") /\ (results[3] = "ok" => joined)
  BY DEF JoinedInv
<1>2. JoinedInv' <=> (pc' = "run" => results'[3] = "none") /\ (results'[3] = "ok" => joined')
  BY DEF JoinedInv
<1>3. ASSUME NEW now \in RunOnStart, Start(now) PROVE JoinedInv'
  BY <1>2, <1>3 DEF Start, NoResults
<1>4. CASE Plan \/ Sleep
  BY <1>1, <1>2, <1>4 DEF Plan, Sleep
<1>5. CASE Wake
  BY <1>2, <1>5 DEF Wake, NoResults
<1>6. ASSUME NEW i \in DOMAIN Jobs, RunJob(i) PROVE JoinedInv'
  <2>1. CASE i = 3
    <3>1. pc' # "run"
      BY <1>6, <2>1 DEF RunJob, Next1
    <3>2. results'[3] = "ok" => joined'
      BY <1>6, <2>1 DEF RunJob, Published
    <3> QED
      BY <1>2, <3>1, <3>2
  <2>2. CASE i # 3
    <3>1. results'[3] = results[3]
      BY <1>6, <2>2 DEF RunJob
    <3> QED
      BY <1>1, <1>2, <1>6, <3>1 DEF RunJob
  <2> QED
    BY <2>1, <2>2
<1>7. CASE Kill
  <2>1. results' = results /\ pc' = "down"
    BY <1>7 DEF Kill
  <2>2. CASE job = 0
    BY <1>1, <1>2, <1>7, <2>1, <2>2 DEF Kill
  <2>3. CASE job # 0
    BY <1>1, <1>2, <2>1, <2>3
  <2> QED
    BY <2>2, <2>3
<1>8. CASE Tick \/ \E d \in 1..MaxJump : SetForward(d) \/ SetBack(d)
  <2>1. UNCHANGED <<pc, results, joined>>
    BY <1>8 DEF Tick, SetForward, SetBack
  <2> QED
    BY <1>1, <1>2, <2>1
<1>9. CASE UNCHANGED vars
  BY <1>1, <1>2, <1>9 DEF vars
<1> QED
  BY <1>3, <1>4, <1>5, <1>6, <1>7, <1>8, <1>9 DEF Next, Daemon

\* However the jobs before it end, and wherever a run is cut off, addresses whose
\* import went through last carry the units that are live.
THEOREM DaemonJoins == Spec => []Joined
<1>1. JoinedInv => Joined
  BY DEF JoinedInv, Joined
<1> QED
  BY <1>1, InitTimerInv, StepTimerInv, InitJoinedInv, StepJoinedInv, PTL DEF Spec

-----------------------------------------------------------------------------
(* Once a month *)

\* The numbers of a state, and how late settings can make a sleep end.
LEMMA StateNumbers ==
    ASSUME TimerInv
    PROVE  /\ clock \in 0..Month - 1 /\ timer \in Int /\ ran \in Nat
           /\ back \in 0..MaxSets /\ forward \in 0..MaxSets
           /\ Due \in Int /\ Due = clock + timer
           /\ Late \in 2..Drift + 2
           /\ timer >= 1 - Late
           /\ pc = "asleep" => timer >= 0
<1>1. /\ clock \in 0..Month - 1 /\ timer \in Int /\ ran \in Nat
      /\ back \in 0..MaxSets /\ forward \in 0..MaxSets
      /\ timer >= -(MaxJump * forward) - 1
      /\ pc = "asleep" => timer >= 0
  BY Numbers DEF TimerInv, TypeOK
<1>2. MaxJump * forward \in Nat /\ MaxJump * forward <= Drift
  BY <1>1, Settings, Numbers
<1> QED
  BY <1>1, <1>2, Numbers DEF Due, Late

\* A jump is shorter than what is left of the month after the slot.
LEMMA ShortJump ==
    ASSUME NEW d \in 1..MaxJump, NEW n \in Nat, n < MaxSets
    PROVE  d <= Drift
<1>1. MaxJump * 1 <= Drift
  BY Settings, Numbers
<1> QED
  BY <1>1, Numbers

\* The step that leaves everything about runs alone, and is in no sleep.
LEMMA AwakeOnceInv ==
    ASSUME OnceInv, UNCHANGED <<clock, ran, back>>, pc' \notin {"planned", "asleep"}
    PROVE  OnceInv'
BY DEF OnceInv, NeverTwice

LEMMA InitOnceInv == Init => OnceInv
BY Numbers DEF Init, OnceInv, NeverTwice

LEMMA DaemonOnceInv ==
    ASSUME TimerInv, OnceInv, Daemon
    PROVE  OnceInv'
<1> USE StateNumbers, Numbers
<1>1. ASSUME NEW now \in RunOnStart, Start(now) PROVE OnceInv'
  BY <1>1, AwakeOnceInv DEF Start, settings
<1>2. ASSUME NEW i \in DOMAIN Jobs, RunJob(i) PROVE OnceInv'
  <2>1. pc' \notin {"planned", "asleep"} /\ UNCHANGED <<clock, ran, back>>
    BY <1>2 DEF RunJob, settings
  <2> QED
    BY <2>1, AwakeOnceInv
<1>3. CASE Plan
  <2>1. Due' = IF Slot > clock THEN Slot ELSE Slot + Month
    BY <1>3 DEF Plan, NextRunAt, Due
  <2>2. pc' = "planned" /\ UNCHANGED <<clock, ran, back, forward>>
    BY <1>3 DEF Plan, settings
  <2>3. Late' = Late
    BY <2>2 DEF Late
  <2> QED
    BY <2>1, <2>2, <2>3 DEF OnceInv, NeverTwice
<1>4. CASE Sleep
  <2>1. /\ pc = "planned" /\ pc' = "asleep"
        /\ UNCHANGED <<clock, ran, back, forward>>
        /\ Due' = IF timer > 1 THEN Due ELSE clock + 1
    BY <1>4 DEF Sleep, settings, Due
  <2>2. Late' = Late
    BY <2>1 DEF Late
  <2>3. Due' >= Due
    BY <2>1
  <2>4. back = 0 => Due' >= Slot + Month \/ Due' \in Slot..Slot + Late
    BY <2>1 DEF OnceInv
  <2> QED
    BY <2>1, <2>2, <2>3, <2>4 DEF OnceInv, NeverTwice
<1>5. CASE Wake
  <2>1. /\ pc = "asleep" /\ pc' = "run" /\ ran' = ran + 1
        /\ UNCHANGED <<clock, back>> /\ Due = clock
    BY <1>5 DEF Wake, settings
  <2> QED
    BY <2>1 DEF OnceInv, NeverTwice
<1> QED
  BY <1>1, <1>2, <1>3, <1>4, <1>5 DEF Daemon

LEMMA WorldOnceInv ==
    ASSUME TimerInv, ServedInv, OnceInv,
           Kill \/ Tick \/ \E d \in 1..MaxJump : SetForward(d) \/ SetBack(d)
    PROVE  OnceInv'
<1> USE StateNumbers, Numbers
<1>1. CASE Kill
  BY <1>1, AwakeOnceInv DEF Kill
<1>2. CASE Tick
  <2>1. /\ UNCHANGED <<pc, back, forward>> /\ Late' = Late
        /\ pc = "asleep" => timer > 0
        /\ pc = "planned" => timer >= 0
        /\ pc \in {"planned", "asleep"} => timer' = timer - 1
    BY <1>2 DEF Tick, settings, Late
  <2>2. CASE clock = Month - 1
    <3>1. clock' = 0 /\ ran' = 0
      BY <1>2, <2>2 DEF Tick
    <3>2. pc \in {"planned", "asleep"} => Due' = Due - Month
      BY <2>1, <2>2, <3>1 DEF Due
    <3>3. ASSUME back = 0, pc \in {"planned", "asleep"} PROVE Due >= Slot + Month
      BY <2>1, <2>2, <3>3 DEF OnceInv
    <3>4. pc = "planned" /\ back = 0 => Due' = Slot
      BY <3>2, <3>3 DEF OnceInv
    <3>5. ASSUME back = 0, pc = "asleep"
          PROVE  Due' >= Slot + Month \/ Due' \in Slot..Slot + Late
      BY <2>1, <3>2, <3>3, <3>5 DEF ServedInv
    <3>6. Late' = Late /\ (pc = "planned" /\ back = 0 => Due' \in {Slot, Slot + Month})
      BY <2>1, <3>4
    <3>7. ASSUME pc \in {"planned", "asleep"}, back = 0
          PROVE  Due' >= Slot
      BY <3>2, <3>4, <3>5, <3>7
    <3> QED
      BY <2>1, <3>1, <3>4, <3>5, <3>6, <3>7 DEF OnceInv, NeverTwice
  <2>3. CASE clock # Month - 1
    <3>1. clock' = clock + 1 /\ ran' = ran
      BY <1>2, <2>3 DEF Tick
    <3>2. pc \in {"planned", "asleep"} => Due' = Due
      BY <2>1, <3>1 DEF Due
    <3> QED
      BY <2>1, <3>1, <3>2 DEF OnceInv, NeverTwice
  <2> QED
    BY <2>2, <2>3
<1>3. ASSUME NEW d \in 1..MaxJump, SetForward(d) PROVE OnceInv'
  <2>1. /\ UNCHANGED <<pc, ran, back>> /\ clock' = clock + d
        /\ forward' = forward + 1 /\ forward < MaxSets
        /\ timer' = IF pc = "planned" THEN timer - d ELSE timer
    BY <1>3 DEF SetForward
  <2>2. Due' = IF pc = "planned" THEN Due ELSE Due + d
    BY <2>1 DEF Due
  <2>3. Late' = Late + MaxJump
    BY <2>1, Settings DEF Late
  <2> QED
    BY <2>1, <2>2, <2>3 DEF OnceInv, NeverTwice
<1>4. ASSUME NEW d \in 1..MaxJump, SetBack(d) PROVE OnceInv'
  <2>1. /\ UNCHANGED <<pc, ran>> /\ clock' = clock - d
        /\ back' = back + 1 /\ back < MaxSets
        /\ timer' = IF pc = "planned" THEN timer + d ELSE timer
    BY <1>4 DEF SetBack
  <2>2. Due' = IF pc = "planned" THEN Due ELSE Due - d
    BY <2>1 DEF Due
  <2>3. d <= Drift
    BY <2>1, ShortJump
  <2> QED
    BY <2>1, <2>2, <2>3 DEF OnceInv, NeverTwice
<1> QED
  BY <1>1, <1>2, <1>3, <1>4

-----------------------------------------------------------------------------
(* Every month *)

\* The daemon is awake, or was never to sleep over the slot.
LEMMA AwakeServedInv ==
    ASSUME ServedInv, clock' = clock, pc' \notin {"planned", "asleep"},
           slot' = slot \/ slot' \in {"served", "missed"}, slot' # "owed"
    PROVE  ServedInv'
BY DEF ServedInv

LEMMA InitServedInv == Init => ServedInv
BY Numbers DEF Init, ServedInv

LEMMA DaemonServedInv ==
    ASSUME TimerInv, ServedInv, Daemon
    PROVE  ServedInv'
<1> USE StateNumbers, Numbers
<1>1. ASSUME NEW now \in RunOnStart, Start(now) PROVE ServedInv'
  BY <1>1 DEF Start, ServedInv
<1>2. ASSUME NEW i \in DOMAIN Jobs, RunJob(i) PROVE ServedInv'
  <2>1. pc = "run" /\ pc' \notin {"planned", "asleep"} /\ UNCHANGED <<clock, slot>>
    BY <1>2 DEF RunJob
  <2> QED
    BY <2>1 DEF ServedInv
<1>3. CASE Plan
  <2>1. Due' = IF Slot > clock THEN Slot ELSE Slot + Month
    BY <1>3 DEF Plan, NextRunAt, Due
  <2>2. pc = "plan" /\ pc' = "planned" /\ UNCHANGED <<clock, slot>>
    BY <1>3 DEF Plan
  <2>3. slot \in {"served", "missed"} \/ Slot > clock
    BY <2>2 DEF ServedInv, TimerInv, TypeOK
  <2> QED
    BY <2>1, <2>2, <2>3 DEF ServedInv
<1>4. CASE Sleep
  <2>1. /\ pc = "planned" /\ pc' = "asleep"
        /\ UNCHANGED <<clock, forward, slot>>
        /\ Due' = IF timer > 1 THEN Due ELSE clock + 1
    BY <1>4 DEF Sleep, settings, Due
  <2>2. Late' = Late
    BY <2>1 DEF Late
  <2> QED
    BY <2>1, <2>2 DEF ServedInv
<1>5. CASE Wake
  BY <1>5, AwakeServedInv DEF Wake
<1> QED
  BY <1>1, <1>2, <1>3, <1>4, <1>5 DEF Daemon

\* When the slot comes, a sleep that is planned or under way owes a run.
LEMMA SlotServed ==
    ASSUME SlotComes, slot \in {"ahead", "owed", "served", "missed"}, clock' \in Nat,
           slot = "owed" => pc \in {"planned", "asleep"}
    PROVE  /\ slot' = "ahead" => clock' < Slot
           /\ slot' = "owed" => pc \in {"planned", "asleep"}
           /\ slot' \in {"ahead", "owed"} => slot \in {"ahead", "owed"}
BY Numbers DEF SlotComes

LEMMA WorldServedInv ==
    ASSUME TimerInv, ServedInv,
           Kill \/ Tick \/ \E d \in 1..MaxJump : SetForward(d) \/ SetBack(d)
    PROVE  ServedInv'
<1> USE StateNumbers, Numbers
<1>1. CASE Kill
  BY <1>1, AwakeServedInv DEF Kill
<1>2. slot \in {"ahead", "owed", "served", "missed"} /\ (slot = "owed" => pc \in {"planned", "asleep"})
  BY DEF ServedInv, TimerInv, TypeOK
<1>3. CASE Tick
  <2>1. /\ UNCHANGED <<pc, forward>> /\ Late' = Late
        /\ pc \in {"planned", "asleep"} => timer' = timer - 1
    BY <1>3 DEF Tick, settings, Late
  <2>2. CASE clock = Month - 1
    <3>1. clock' = 0 /\ slot' = "ahead"
      BY <1>3, <2>2 DEF Tick
    <3>2. pc \in {"planned", "asleep"} => Due' = Due - Month
      BY <2>1, <2>2, <3>1 DEF Due
    <3> QED
      BY <2>1, <3>1, <3>2 DEF ServedInv
  <2>3. CASE clock # Month - 1
    <3>1. clock' = clock + 1 /\ SlotComes
      BY <1>3, <2>3 DEF Tick
    <3>2. pc \in {"planned", "asleep"} => Due' = Due
      BY <2>1, <3>1 DEF Due
    <3>3. /\ slot' = "ahead" => clock' < Slot
          /\ slot' = "owed" => pc \in {"planned", "asleep"}
          /\ slot' \in {"ahead", "owed"} => slot \in {"ahead", "owed"}
      BY <1>2, <3>1, SlotServed
    <3> QED
      BY <2>1, <3>1, <3>2, <3>3 DEF ServedInv
  <2> QED
    BY <2>2, <2>3
<1>4. ASSUME NEW d \in 1..MaxJump, SetForward(d) PROVE ServedInv'
  <2>1. /\ UNCHANGED pc /\ clock' = clock + d /\ SlotComes
        /\ forward' = forward + 1 /\ forward < MaxSets
        /\ timer' = IF pc = "planned" THEN timer - d ELSE timer
    BY <1>4 DEF SetForward
  <2>2. Due' = IF pc = "planned" THEN Due ELSE Due + d
    BY <2>1 DEF Due
  <2>3. Late' = Late + MaxJump
    BY <2>1, Settings DEF Late
  <2>4. /\ slot' = "ahead" => clock' < Slot
        /\ slot' = "owed" => pc \in {"planned", "asleep"}
        /\ slot' \in {"ahead", "owed"} => slot \in {"ahead", "owed"}
    BY <1>2, <2>1, SlotServed
  <2> QED
    BY <2>1, <2>2, <2>3, <2>4 DEF ServedInv
<1>5. ASSUME NEW d \in 1..MaxJump, SetBack(d) PROVE ServedInv'
  <2>1. /\ UNCHANGED <<pc, forward, slot>> /\ clock' = clock - d /\ Late' = Late
        /\ timer' = IF pc = "planned" THEN timer + d ELSE timer
    BY <1>5 DEF SetBack, Late
  <2>2. Due' = IF pc = "planned" THEN Due ELSE Due - d
    BY <2>1 DEF Due
  <2> QED
    BY <2>1, <2>2 DEF ServedInv
<1> QED
  BY <1>1, <1>3, <1>4, <1>5

-----------------------------------------------------------------------------
(* Who has run, and who has not *)

LEMMA InitExactInv == Init => ExactInv
BY Numbers DEF Init, ExactInv

LEMMA DaemonExactInv ==
    ASSUME TimerInv, ServedInv, OnceInv, ExactInv, Daemon
    PROVE  ExactInv'
<1> USE StateNumbers, Numbers
<1>1. ASSUME NEW now \in RunOnStart, Start(now) PROVE ExactInv'
  BY <1>1 DEF Start, settings, ExactInv
<1>2. ASSUME NEW i \in DOMAIN Jobs, RunJob(i) PROVE ExactInv'
  <2>1. pc' \notin {"planned", "asleep"} /\ UNCHANGED <<clock, ran, slot, back>>
    BY <1>2 DEF RunJob, settings
  <2> QED
    BY <2>1 DEF ExactInv
<1>3. CASE Plan
  <2>1. Due' = IF Slot > clock THEN Slot ELSE Slot + Month
    BY <1>3 DEF Plan, NextRunAt, Due
  <2>2. UNCHANGED <<clock, ran, slot, back>>
    BY <1>3 DEF Plan, settings
  <2> QED
    BY <2>1, <2>2 DEF ExactInv
<1>4. CASE Sleep
  <2>1. /\ pc = "planned" /\ UNCHANGED <<clock, ran, slot, back>>
        /\ Due' = IF timer > 1 THEN Due ELSE clock + 1
    BY <1>4 DEF Sleep, settings, Due
  <2>2. Due' >= Due
    BY <2>1
  <2> QED
    BY <2>1, <2>2 DEF ExactInv
<1>5. CASE Wake
  <2>1. /\ pc = "asleep" /\ pc' = "run" /\ ran' = ran + 1
        /\ UNCHANGED <<clock, back>> /\ Due = clock
        /\ slot' = IF slot = "owed" THEN "served" ELSE slot
    BY <1>5 DEF Wake, settings
  <2>2. slot \in {"ahead", "owed", "served", "missed"}
    BY DEF TimerInv, TypeOK
  <2>3. ASSUME back = 0 PROVE slot = "owed"
    <3>1. slot # "missed"
      BY <2>1, <2>3 DEF ExactInv
    <3>2. slot # "served"
      BY <2>1, <2>3 DEF ExactInv, OnceInv, NeverTwice
    <3>3. slot # "ahead"
      BY <2>1, <2>3 DEF ServedInv, OnceInv
    <3> QED
      BY <2>2, <3>1, <3>2, <3>3
  <2> QED
    BY <2>1, <2>3 DEF ExactInv
<1> QED
  BY <1>1, <1>2, <1>3, <1>4, <1>5 DEF Daemon

LEMMA WorldExactInv ==
    ASSUME TimerInv, ExactInv,
           Kill \/ Tick \/ \E d \in 1..MaxJump : SetForward(d) \/ SetBack(d)
    PROVE  ExactInv'
<1> USE StateNumbers, Numbers
<1>1. CASE Kill
  BY <1>1 DEF Kill, ExactInv
<1>2. CASE Tick
  <2>1. UNCHANGED <<pc, back>> /\ (pc \in {"planned", "asleep"} => timer' = timer - 1)
    BY <1>2 DEF Tick, settings
  <2>2. CASE clock = Month - 1
    <3>1. clock' = 0 /\ slot' = "ahead" /\ ran' = 0
      BY <1>2, <2>2 DEF Tick
    <3> QED
      BY <3>1 DEF ExactInv
  <2>3. CASE clock # Month - 1
    <3>1. clock' = clock + 1 /\ ran' = ran /\ SlotComes
      BY <1>2, <2>3 DEF Tick
    <3>2. pc \in {"planned", "asleep"} => Due' = Due
      BY <2>1, <3>1 DEF Due
    <3> QED
      BY <2>1, <3>1, <3>2 DEF ExactInv, SlotComes
  <2> QED
    BY <2>2, <2>3
<1>3. ASSUME NEW d \in 1..MaxJump, SetForward(d) PROVE ExactInv'
  <2>1. /\ UNCHANGED <<pc, ran, back>> /\ clock' = clock + d /\ SlotComes
        /\ timer' = IF pc = "planned" THEN timer - d ELSE timer
    BY <1>3 DEF SetForward
  <2>2. Due' = IF pc = "planned" THEN Due ELSE Due + d
    BY <2>1 DEF Due
  <2> QED
    BY <2>1, <2>2 DEF ExactInv, SlotComes
<1>4. ASSUME NEW d \in 1..MaxJump, SetBack(d) PROVE ExactInv'
  BY <1>4 DEF SetBack, ExactInv
<1> QED
  BY <1>1, <1>2, <1>3, <1>4

-----------------------------------------------------------------------------

\* Each month's first sleep ends after the slot, later ones in the next month.
MonthInv == TimerInv /\ ServedInv /\ OnceInv /\ ExactInv

LEMMA InitMonthInv == Init => MonthInv
BY InitTimerInv, InitServedInv, InitOnceInv, InitExactInv DEF MonthInv

LEMMA StepMonthInv == MonthInv /\ [Next]_vars => MonthInv'
<1>1. ASSUME MonthInv, UNCHANGED vars PROVE ServedInv' /\ OnceInv' /\ ExactInv'
  BY <1>1 DEF MonthInv, ServedInv, OnceInv, ExactInv, NeverTwice, Due, Late, vars, settings
<1> QED
  BY <1>1, StepTimerInv, DaemonServedInv, WorldServedInv, DaemonOnceInv, WorldOnceInv,
     DaemonExactInv, WorldExactInv DEF MonthInv, Next

\* However quickly a run is over, wherever the container is restarted and however
\* often the clock is set, only settings back can add to the one run a month.
THEOREM OnceAMonth == Spec => []NeverTwice
<1>1. MonthInv => NeverTwice
  BY DEF MonthInv, OnceInv
<1> QED
  BY <1>1, InitMonthInv, StepMonthInv, PTL DEF Spec

\* A sleep over the slot is over, and its run begun, before the month is; and unless the
\* clock was set back, a month has a run only if the daemon waited for its slot.
THEOREM EveryMonth == Spec => MonthServed
<1>1. ASSUME MonthInv, Next, clock = Month - 1, clock' = 0
      PROVE  slot # "owed" /\ (back = 0 => (ran > 0 <=> slot = "served"))
  <2> USE StateNumbers, Numbers DEF MonthInv
  <2>1. ~Daemon /\ ~Kill
    BY <1>1 DEF Daemon, Start, Plan, Sleep, Wake, RunJob, Kill
  <2>2. ASSUME NEW d \in 1..MaxJump PROVE ~SetForward(d) /\ ~SetBack(d)
    <3>1. ~SetForward(d)
      BY <1>1 DEF SetForward
    <3>2. back < MaxSets => d <= Drift
      BY <1>1, ShortJump
    <3> QED
      BY <1>1, <3>1, <3>2 DEF SetBack
  <2>3. Tick
    BY <1>1, <2>1, <2>2 DEF Next
  <2>4. (pc = "asleep" => timer > 0) /\ (pc = "planned" => timer >= 0)
    BY <2>3 DEF Tick
  <2>5. slot # "owed"
    BY <1>1, <2>4 DEF ServedInv
  <2> QED
    BY <1>1, <2>5 DEF ExactInv
<1>2. MonthInv /\ [Next]_vars =>
        [clock = Month - 1 /\ clock' = 0 =>
           /\ slot # "owed"
           /\ back = 0 => (ran > 0 <=> slot = "served")]_vars
  BY <1>1 DEF vars
<1> QED
  BY <1>2, InitMonthInv, StepMonthInv, PTL DEF Spec, MonthServed

=============================================================================
