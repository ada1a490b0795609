--------------------------- MODULE ScheduleProofs ---------------------------
(***************************************************************************)
(* Why ticks, catch-up, admin and restarts use each lock as JobLock says,  *)
(* why the two jobs come in time, for any interval and any TTLs, and, of   *)
(* JobLock itself, why the lease keeps two executions apart.               *)
(*                                                                         *)
(* Locks: a crash ends every worker at once, and JobLock lets one die at a *)
(* time: so the invariant that makes the lock worth having, at most one    *)
(* worker to a key, is what the refinement rests on.                       *)
(*                                                                         *)
(* Times: a run's age and what is left of its lease add up to its TTL, a   *)
(* trigger dealt with was dealt with at the last of its moments, and a     *)
(* catch-up is over before the clock first moves on, or holds the row.     *)
(***************************************************************************)
EXTENDS Schedule, JobLock, TLAPS

Rows == [holder : Holders \cup {None}, left : Int,
         running : SUBSET Workers, lease : [Workers -> Int]]

\* Whoever works under a row owns it, alone and within the time asked for.
OwnedRow(row) ==
  /\ \A v, w \in row.running : v = w
  /\ \A w \in row.running :
       row.holder = HolderOf[w] /\ row.left = row.lease[w] /\ row.lease[w] >= 0

LocksInv == locks \in [Jobs -> Rows] /\ \A j \in Jobs : OwnedRow(locks[j])

-----------------------------------------------------------------------------
(***************************************************************************)
(* What a step of the schedule may do to one row                           *)
(***************************************************************************)
RowStep(j, row) ==
  \/ row \in {locks[j], Deserted(j)}
  \/ \E w \in Workers : w \notin locks[j].running /\ Claimable(j) /\ row \in {Taken(j, w), Won(j, w)}
  \/ \E w \in locks[j].running : row \in {Ended(j, w), Released(j, w)}
  \/ (\A w \in locks[j].running : locks[j].lease[w] > 0) /\ row = Later(locks[j])

RowsStep == locks' \in [Jobs -> Rows] /\ \A j \in Jobs : RowStep(j, locks'[j])

LEMMA RowsStay == ASSUME LocksInv, UNCHANGED locks PROVE RowsStep
BY DEF LocksInv, RowsStep, RowStep

\* One row is written, the others stay.
LEMMA OneRowSteps ==
  ASSUME LocksInv, NEW j \in Jobs, NEW row \in Rows, RowStep(j, row),
         locks' = [locks EXCEPT ![j] = row]
  PROVE  RowsStep
BY DEF LocksInv, RowsStep, RowStep

LEMMA NamesAndTimes ==
  \A j \in Jobs, w \in Workers : TTL[j][w] \in Nat \ {0} /\ HolderOf[w] \in Holders
BY ScheduleAssumption DEF HolderOf, Holders, Workers

LEMMA RowsOfAClaim ==
  ASSUME LocksInv, NEW j \in Jobs, NEW w \in Workers
  PROVE  Taken(j, w) \in Rows /\ Won(j, w) \in Rows
<1>1. locks[j] \in Rows
  BY DEF LocksInv
<1> QED
  BY <1>1, NamesAndTimes DEF Rows, Taken, Won, Row

LEMMA RowsOfAnEnd ==
  ASSUME LocksInv, NEW j \in Jobs, NEW w \in Workers
  PROVE  Ended(j, w) \in Rows /\ Released(j, w) \in Rows
BY DEF LocksInv, Rows, Ended, Released

LEMMA BeginSteps ==
  ASSUME LocksInv, NEW j \in Jobs, NEW w \in Workers, w \notin locks[j].running, Begin(j, w)
  PROVE  RowsStep
BY RowsOfAClaim, OneRowSteps DEF Begin, RowStep

LEMMA ClaimFailsSteps ==
  ASSUME LocksInv, NEW j \in Jobs, NEW w \in Workers, w \notin locks[j].running, ClaimFails(j, w)
  PROVE  RowsStep
<1>1. CASE locks' = locks
  BY <1>1, RowsStay
<1>2. CASE Claimable(j) /\ locks' = [locks EXCEPT ![j] = Taken(j, w)]
  BY <1>2, RowsOfAClaim, OneRowSteps DEF RowStep
<1> QED
  BY <1>1, <1>2 DEF ClaimFails

LEMMA EndSteps ==
  ASSUME LocksInv, NEW j \in Jobs, NEW w \in Workers, End(j, w)
  PROVE  RowsStep
<1>1. PICK row \in {Released(j, w), Ended(j, w)} : locks' = [locks EXCEPT ![j] = row]
  BY DEF End
<1>2. RowStep(j, row)
  BY <1>1 DEF End, RowStep
<1> QED
  BY <1>1, <1>2, RowsOfAnEnd, OneRowSteps

LEMMA CrashSteps == ASSUME LocksInv, Crash PROVE RowsStep
BY DEF LocksInv, Crash, RowsStep, RowStep, Deserted, Rows

LEMMA TickSteps == ASSUME LocksInv, Tick PROVE RowsStep
<1>1. \A j \in Jobs : Later(locks[j]) \in Rows
  BY DEF LocksInv, Rows, Later, Row, Elapsed
<1>2. \A j \in Jobs : locks'[j] = Later(locks[j])
  BY DEF Tick
<1>3. \A j \in Jobs : \A w \in locks[j].running : locks[j].lease[w] > 0
  BY DEF Tick, LocksInv, Rows
<1> QED
  BY <1>1, <1>2, <1>3 DEF RowsStep, RowStep, Tick

LEMMA StepsOfRows == ASSUME LocksInv, [Next]_vars PROVE RowsStep
<1> USE DEF Workers
<1>1. ASSUME NEW j \in Jobs, Fire(j) PROVE RowsStep
  BY <1>1, BeginSteps, ClaimFailsSteps, RowsStay DEF Fire, Refused
<1>2. ASSUME NEW j \in Jobs, CatchUpStarts(j) PROVE RowsStep
  BY <1>2, BeginSteps, ClaimFailsSteps, RowsStay DEF CatchUpStarts, Refused
<1>3. ASSUME NEW j \in Jobs, CatchUpGoesOn(j) \/ EndTick(j) PROVE RowsStep
  BY <1>3, EndSteps DEF CatchUpGoesOn, EndTick
<1>4. CASE AdminTriggers \/ AdminEnds
  BY <1>4, BeginSteps, EndSteps DEF AdminTriggers, AdminEnds, Jobs
<1>5. CASE Boot \/ CatchUpAsks \/ (\E j \in Jobs : Misfire(j)) \/ UNCHANGED vars
  BY <1>5, RowsStay DEF Boot, CatchUpAsks, Misfire, vars
<1> QED
  BY <1>1, <1>2, <1>3, <1>4, <1>5, CrashSteps, TickSteps DEF Next

-----------------------------------------------------------------------------
(***************************************************************************)
(* One worker to a row                                                     *)
(***************************************************************************)
LEMMA RowStaysOwned ==
  ASSUME LocksInv, NEW j \in Jobs, NEW row \in Rows, RowStep(j, row)
  PROVE  OwnedRow(row)
<1> USE ScheduleAssumption DEF LocksInv, Rows, OwnedRow
<1>1. CASE row \in {locks[j], Deserted(j)}
  BY <1>1 DEF Deserted
<1>2. ASSUME NEW w \in Workers, w \notin locks[j].running, Claimable(j),
             row \in {Taken(j, w), Won(j, w)}
      PROVE  OwnedRow(row)
  <2>1. locks[j].running = {}
    <3> SUFFICES ASSUME NEW v \in locks[j].running PROVE FALSE
      OBVIOUS
    <3>1. v \in Workers /\ locks[j].left >= 0 /\ locks[j].holder = HolderOf[v]
      OBVIOUS
    <3>2. HolderOf[v] \in Holders
      BY <3>1, NamesAndTimes
    <3> QED
      BY <1>2, <3>1, <3>2 DEF Claimable
  <2>2. CASE row = Taken(j, w)
    BY <2>1, <2>2 DEF Taken, Row
  <2>3. CASE row = Won(j, w)
    BY <2>1, <2>3, NamesAndTimes DEF Won, Row
  <2> QED
    BY <1>2, <2>2, <2>3
<1>3. ASSUME NEW w \in locks[j].running, row \in {Ended(j, w), Released(j, w)}
      PROVE  OwnedRow(row)
  <2>1. row.running = {}
    <3>1. Ended(j, w).running = {} /\ Ended(j, w) \in Rows
      <4>1. locks[j] \in Rows /\ locks[j].running \ {w} = {}
        OBVIOUS
      <4>2. Ended(j, w).running = locks[j].running \ {w}
        BY <4>1 DEF Ended
      <4> QED
        BY <4>1, <4>2, RowsOfAnEnd
    <3>2. Released(j, w).running = Ended(j, w).running
      BY <3>1 DEF Released
    <3> QED
      BY <1>3, <3>1, <3>2
  <2> QED
    BY <2>1
<1>4. CASE (\A w \in locks[j].running : locks[j].lease[w] > 0) /\ row = Later(locks[j])
  BY <1>4 DEF Later, Row, Elapsed
<1> QED
  BY <1>1, <1>2, <1>3, <1>4 DEF RowStep

LEMMA LocksInvHolds == Spec => []LocksInv
<1>1. Init => LocksInv
  BY DEF Init, LocksInv, Free, Row, NoLease, Rows, OwnedRow
<1>2. LocksInv /\ [Next]_vars => LocksInv'
  BY StepsOfRows, RowStaysOwned DEF RowsStep, LocksInv
<1> QED
  BY <1>1, <1>2, PTL DEF Spec

-----------------------------------------------------------------------------
(***************************************************************************)
(* Refinement                                                              *)
(***************************************************************************)
\* A step of the row in terms of its fields, as JobLock has them.
ClaimOf(j, w, row) ==
  /\ w \notin locks[j].running
  /\ locks[j].holder = None \/ locks[j].left < 0
  /\ row.holder = HolderOf[w] /\ row.left = TTL[j][w]
  /\ \/ row.running = locks[j].running /\ row.lease = locks[j].lease
     \/ /\ row.running = locks[j].running \cup {w}
        /\ row.lease = [locks[j].lease EXCEPT ![w] = TTL[j][w]]

EndOf(j, w, row) ==
  /\ w \in locks[j].running
  /\ row.running = locks[j].running \ {w}
  /\ row.left = locks[j].left /\ row.lease = locks[j].lease
  /\ \/ row.holder = locks[j].holder
     \/ row.holder = IF locks[j].holder = HolderOf[w] THEN None ELSE locks[j].holder

TickOf(j, row) ==
  /\ \A w \in locks[j].running : locks[j].lease[w] > 0
  /\ row.holder = locks[j].holder /\ row.running = locks[j].running
  /\ row.left = Elapsed(locks[j].left)
  /\ row.lease = [w \in Workers |-> Elapsed(locks[j].lease[w])]

LEMMA StepInFields ==
  ASSUME LocksInv, NEW j \in Jobs, NEW row, RowStep(j, row)
  PROVE  \/ row = locks[j]
         \/ \E w \in Workers : ClaimOf(j, w, row) \/ EndOf(j, w, row)
         \/ TickOf(j, row)
<1>1. locks[j] \in Rows
  BY DEF LocksInv
<1>2. CASE row = Deserted(j)
  <2>1. CASE locks[j].running = {}
    <3>1. Deserted(j) = locks[j]
      BY <1>1, <2>1 DEF Deserted, Rows
    <3> QED
      BY <1>2, <3>1
  <2>2. ASSUME NEW w \in locks[j].running PROVE \E v \in Workers : EndOf(j, v, row)
    <3>1. w \in Workers /\ locks[j].running \ {w} = {}
      BY <1>1, <2>2 DEF LocksInv, OwnedRow, Rows
    <3>2. EndOf(j, w, Deserted(j))
      BY <1>1, <2>2, <3>1 DEF EndOf, Deserted, Rows
    <3> QED
      BY <1>2, <3>1, <3>2
  <2> QED
    BY <2>1, <2>2
<1>3. ASSUME NEW w \in Workers, w \notin locks[j].running, Claimable(j),
             row \in {Taken(j, w), Won(j, w)}
      PROVE  ClaimOf(j, w, row)
  BY <1>3 DEF ClaimOf, Claimable, Taken, Won, Row
<1>4. ASSUME NEW w \in locks[j].running, row \in {Ended(j, w), Released(j, w)}
      PROVE  w \in Workers /\ EndOf(j, w, row)
  <2>1. w \in Workers
    BY <1>1 DEF Rows
  <2>2. EndOf(j, w, Ended(j, w)) /\ Ended(j, w) \in Rows
    BY <1>1, <2>1, RowsOfAnEnd DEF EndOf, Ended, Rows
  <2>3. EndOf(j, w, Released(j, w))
    <3>1. /\ Released(j, w).holder = IF Ended(j, w).holder = HolderOf[w] THEN None
                                     ELSE Ended(j, w).holder
          /\ Released(j, w).running = Ended(j, w).running
          /\ Released(j, w).left = Ended(j, w).left
          /\ Released(j, w).lease = Ended(j, w).lease
      BY <2>2 DEF Released, Rows
    <3>2. Ended(j, w).holder = locks[j].holder
      BY <1>1 DEF Ended, Rows
    <3> QED
      BY <2>2, <3>1, <3>2 DEF EndOf
  <2> QED
    BY <1>4, <2>1, <2>2, <2>3
<1>5. ASSUME \A w \in locks[j].running : locks[j].lease[w] > 0, row = Later(locks[j])
      PROVE  TickOf(j, row)
  BY <1>5 DEF TickOf, Later, Row
<1> QED
  BY <1>2, <1>3, <1>4, <1>5 DEF RowStep

\* Each row by itself is a lock whose jobs keep their time.
LEMMA IngestionLockSteps ==
  ASSUME LocksInv, [Next]_vars
  PROVE  [IngestionLock!LockNext]_IngestionLock!lockVars
<1> DEFINE row == locks'["ingestion"]
<1>1. RowStep("ingestion", row)
  BY StepsOfRows DEF RowsStep, Jobs
<1>2. CASE row = locks["ingestion"]
  BY <1>2 DEF IngestionLock!lockVars
<1>3. ASSUME NEW w \in Workers, ClaimOf("ingestion", w, row) PROVE IngestionLock!LockNext
  BY <1>3 DEF ClaimOf, IngestionLock!LockNext, IngestionLock!Claim, IngestionLock!ClaimUnanswered,
     IngestionLock!Take, IngestionLock!RowIsOpen, IngestionLock!Expired
<1>4. ASSUME NEW w \in Workers, EndOf("ingestion", w, row) PROVE IngestionLock!LockNext
  BY <1>4 DEF EndOf, IngestionLock!LockNext, IngestionLock!Release, IngestionLock!Die
<1>5. CASE TickOf("ingestion", row)
  BY <1>5 DEF TickOf, IngestionLock!LockNext, IngestionLock!TimePasses, IngestionLock!Shortened, Elapsed
<1> QED
  BY <1>1, <1>2, <1>3, <1>4, <1>5, StepInFields DEF Jobs

LEMMA ForecastLockSteps ==
  ASSUME LocksInv, [Next]_vars
  PROVE  [ForecastLock!LockNext]_ForecastLock!lockVars
<1> DEFINE row == locks'["forecast"]
<1>1. RowStep("forecast", row)
  BY StepsOfRows DEF RowsStep, Jobs
<1>2. CASE row = locks["forecast"]
  BY <1>2 DEF ForecastLock!lockVars
<1>3. ASSUME NEW w \in Workers, ClaimOf("forecast", w, row) PROVE ForecastLock!LockNext
  BY <1>3 DEF ClaimOf, ForecastLock!LockNext, ForecastLock!Claim, ForecastLock!ClaimUnanswered,
     ForecastLock!Take, ForecastLock!RowIsOpen, ForecastLock!Expired
<1>4. ASSUME NEW w \in Workers, EndOf("forecast", w, row) PROVE ForecastLock!LockNext
  BY <1>4 DEF EndOf, ForecastLock!LockNext, ForecastLock!Release, ForecastLock!Die
<1>5. CASE TickOf("forecast", row)
  BY <1>5 DEF TickOf, ForecastLock!LockNext, ForecastLock!TimePasses, ForecastLock!Shortened, Elapsed
<1> QED
  BY <1>1, <1>2, <1>3, <1>4, <1>5, StepInFields DEF Jobs

LEMMA LocksStartFree == Init => IngestionLock!LockInit /\ ForecastLock!LockInit
BY DEF Init, Free, Row, NoLease, IngestionLock!LockInit, ForecastLock!LockInit, Jobs

\* Triggers, catch-up, admin, failures and restarts use the rows of job_locks exactly as
\* the lock lets its users, whatever the interval, the offset and the TTLs are
\* (jobs.py, forecasting/runner.py, 006_job_locks.sql).
THEOREM LocksAreKept == Spec => LocksKept
<1> QED
  BY LocksInvHolds, LocksStartFree, IngestionLockSteps, ForecastLockSteps, PTL
  DEF Spec, LocksKept, IngestionLock!LockSpec, ForecastLock!LockSpec

\* No two ingestions overlap, nor two forecasts, as nobody works past his lease.
THEOREM OneWorkerPerJob == Spec => [](\A j \in Jobs : \A v, w \in locks[j].running : v = w)
<1>1. LocksInv => \A j \in Jobs : \A v, w \in locks[j].running : v = w
  BY DEF LocksInv, OwnedRow
<1> QED
  BY <1>1, LocksInvHolds, PTL

-----------------------------------------------------------------------------
(***************************************************************************)
(* In time: what is left of a lease tells how long ago the work began, and *)
(* how far the clock is past a trigger how long ago that was dealt with.   *)
(***************************************************************************)
ING == "ingestion"
FC == "forecast"

\* Ticks since the last trigger of j, once there was one.
Phase(j, t) == (t - FirstDue(j)) % INTERVAL
Triggered(j) == clock >= FirstDue(j)
Fetching(w) == w \in locks[ING].running

DueInv == \A j \in due : Triggered(j)

WorkInv ==
  /\ \A j \in Jobs : \A w \in locks[j].running : up /\ age[j] = TTL[j][w] - locks[j].lease[w]
  /\ ~Fetching("admin")
  /\ Fetching("tick") => clock >= INTERVAL
  /\ Fetching("catchup") => catchup = ING /\ age[ING] = clock

CatchUpInv ==
  /\ catchup = "ask" => clock = 0
  /\ catchup = ING /\ ~Fetching("catchup") => clock = 0

\* The log's last success began no longer ago than it ended, and a lease.
SuccessInv == success = INTERVAL \/ age[ING] <= success + TTL[ING]["tick"]

\* Until the first trigger: the catch-up has looked, or is fetching.
CaughtUpInv ==
  up /\ clock < INTERVAL /\ ING \notin excused
     /\ (catchup \in {FC, "none"} \/ Fetching("catchup"))
    => age[ING] < INTERVAL + TTL[ING]["tick"] + clock

\* From then on a trigger that is dealt with has fetched.
FetchedInv == up /\ Triggered(ING) /\ ING \notin due \cup excused => age[ING] <= Phase(ING, clock)

\* A trigger that found another at work is no further behind than that one's lease.
ForecastInv ==
  up /\ Triggered(FC) /\ FC \notin due \cup excused
    => age[FC] <= Phase(FC, clock) + TTL[FC]["admin"]

TimeInv ==
  /\ TypeOK /\ LocksInv /\ DueInv /\ WorkInv /\ CatchUpInv /\ SuccessInv
  /\ CaughtUpInv /\ FetchedInv /\ ForecastInv

-----------------------------------------------------------------------------
LEMMA Remainders ==
  ASSUME NEW n \in Nat \ {0}, NEW x \in Nat, x < 3 * n
  PROVE  x % n = IF x < n THEN x ELSE IF x < 2 * n THEN x - n ELSE x - 2 * n
<1>1. CASE x < n
  BY <1>1
<1>2. CASE n <= x /\ x < 2 * n
  BY <1>2
<1>3. CASE 2 * n <= x
  BY <1>3
<1> QED
  BY <1>1, <1>2, <1>3

LEMMA FirstDueInRange ==
  /\ INTERVAL \in Nat /\ OFFSET \in Nat /\ 0 < OFFSET /\ OFFSET < INTERVAL
  /\ \A j \in Jobs : FirstDue(j) \in Nat /\ 0 < FirstDue(j) /\ FirstDue(j) <= INTERVAL
BY ScheduleAssumption DEF FirstDue

LEMMA PhaseInRange ==
  ASSUME NEW t \in 0 .. 3 * INTERVAL - 1, NEW j \in Jobs, t >= FirstDue(j)
  PROVE  Phase(j, t) \in 0 .. INTERVAL - 1
<1>1. t - FirstDue(j) \in Nat /\ t - FirstDue(j) < 3 * INTERVAL /\ INTERVAL \in Nat \ {0}
  BY FirstDueInRange
<1> QED
  BY <1>1, Remainders DEF Phase

\* From one tick to the next the phase goes up by one or the trigger is due.
LEMMA PhaseAdvances ==
  ASSUME NEW t \in 0 .. 3 * INTERVAL - 1, NEW j \in Jobs, TypeOK, clock = t,
         NextClock >= FirstDue(j), j \notin DueAt(NextClock)
  PROVE  t >= FirstDue(j) /\ Phase(j, NextClock) = Phase(j, t) + 1
<1> DEFINE f == FirstDue(j)
           n == NextClock
<1>1. /\ f \in Nat /\ 0 < f /\ f <= INTERVAL
      /\ INTERVAL \in Nat \ {0}
      /\ n = IF t + 1 = 3 * INTERVAL THEN 2 * INTERVAL ELSE t + 1
  BY FirstDueInRange DEF NextClock
<1>2. n - f \in Nat /\ n - f < 3 * INTERVAL /\ (n - f) % INTERVAL # 0
  BY <1>1 DEF DueAt
<1>3. t >= f
  <2> SUFFICES ASSUME t < f PROVE FALSE
    BY <1>1
  <2>1. n = f
    BY <1>1
  <2>2. (n - f) % INTERVAL = 0
    BY <1>1, <2>1, Remainders
  <2> QED
    BY <2>2, <1>2
<1>4. t - f \in Nat /\ t - f < 3 * INTERVAL
  BY <1>1, <1>3
<1>5. (n - f) % INTERVAL =
        IF n - f < INTERVAL THEN n - f ELSE IF n - f < 2 * INTERVAL THEN n - f - INTERVAL
        ELSE n - f - 2 * INTERVAL
  BY <1>1, <1>2, Remainders
<1>6. (t - f) % INTERVAL =
        IF t - f < INTERVAL THEN t - f ELSE IF t - f < 2 * INTERVAL THEN t - f - INTERVAL
        ELSE t - f - 2 * INTERVAL
  BY <1>1, <1>4, Remainders
<1>7. (n - f) % INTERVAL = ((t - f) % INTERVAL) + 1
  BY <1>1, <1>2, <1>3, <1>4, <1>5, <1>6
<1> QED
  BY <1>3, <1>7 DEF Phase

LEMMA InTimeFromInv == TimeInv => WorkedInTime
<1> SUFFICES ASSUME TimeInv PROVE WorkedInTime
  OBVIOUS
<1> USE DEF TimeInv, TypeOK
<1>1. /\ INTERVAL \in Nat /\ TTL[ING]["tick"] \in Nat /\ TTL[FC]["admin"] \in Nat
      /\ age[ING] \in Nat /\ age[FC] \in Nat
  BY ScheduleAssumption DEF Jobs, Workers, ING, FC, Longest
<1>2. FetchedInTime
  <2>1. Triggered(ING) => Phase(ING, clock) \in 0 .. INTERVAL - 1
    BY PhaseInRange, <1>1 DEF Triggered, Jobs, ING
  <2> QED
    BY <1>1, <2>1 DEF FetchedInTime, FetchedInv, CaughtUpInv, Triggered, FirstDue, ING, FC
<1>3. ForecastInTime
  <2>1. Triggered(FC) => Phase(FC, clock) \in 0 .. INTERVAL - 1
    BY PhaseInRange, <1>1 DEF Triggered, Jobs, FC
  <2> QED
    BY <1>1, <2>1 DEF ForecastInTime, ForecastInv, Triggered, FirstDue, FC
<1> QED
  BY <1>2, <1>3 DEF WorkedInTime

-----------------------------------------------------------------------------
(***************************************************************************)
(* What a claim and an end leave behind                                    *)
(***************************************************************************)
SameWork(j) == locks'[j].running = locks[j].running /\ locks'[j].lease = locks[j].lease

LEMMA BegunRow ==
  ASSUME LocksInv, NEW j \in Jobs, NEW w \in Workers, Begin(j, w)
  PROVE  /\ locks[j].running = {}
         /\ locks'[j].running = {w} /\ locks'[j].lease[w] = TTL[j][w]
         /\ \A i \in Jobs \ {j} : SameWork(i)
<1>1. locks[j] \in Rows /\ locks \in [Jobs -> Rows]
  BY DEF LocksInv
<1>2. locks[j].running = {}
  <2> SUFFICES ASSUME NEW v \in locks[j].running PROVE FALSE
    OBVIOUS
  <2>1. v \in Workers /\ locks[j].left >= 0 /\ locks[j].holder = HolderOf[v]
    BY <1>1 DEF Rows, LocksInv, OwnedRow
  <2>2. HolderOf[v] # None
    BY <2>1, NamesAndTimes, ScheduleAssumption
  <2> QED
    BY <1>1, <2>1, <2>2 DEF Begin, Claimable, Rows
<1>3. locks' = [locks EXCEPT ![j] = Won(j, w)]
  BY DEF Begin
<1>4. Won(j, w).running = {w} /\ Won(j, w).lease[w] = TTL[j][w]
  BY <1>1, <1>2 DEF Won, Row, Rows
<1> QED
  BY <1>1, <1>2, <1>3, <1>4 DEF SameWork

LEMMA UnclaimedRow ==
  ASSUME LocksInv, NEW j \in Jobs, NEW w \in Workers, Refused(j) \/ ClaimFails(j, w)
  PROVE  \A i \in Jobs : SameWork(i)
<1>1. locks \in [Jobs -> Rows]
  BY DEF LocksInv
<1>2. Taken(j, w).running = locks[j].running /\ Taken(j, w).lease = locks[j].lease
  BY DEF Taken, Row
<1>3. locks' = locks \/ locks' = [locks EXCEPT ![j] = Taken(j, w)]
  BY DEF Refused, ClaimFails
<1> QED
  BY <1>1, <1>2, <1>3 DEF SameWork

LEMMA EndedRow ==
  ASSUME LocksInv, NEW j \in Jobs, NEW w \in Workers, End(j, w)
  PROVE  /\ locks[j].running = {w} /\ locks'[j].running = {}
         /\ locks[j].lease[w] \in Nat
         /\ \A i \in Jobs \ {j} : SameWork(i)
<1>1. locks[j] \in Rows /\ locks \in [Jobs -> Rows]
  BY DEF LocksInv
<1>2. w \in locks[j].running
  BY DEF End
<1>3. locks[j].running = {w} /\ locks[j].lease[w] \in Nat
  BY <1>1, <1>2 DEF LocksInv, OwnedRow, Rows
<1>4. Ended(j, w).running = {}
  BY <1>1, <1>3 DEF Ended, Rows
<1>5. Released(j, w).running = Ended(j, w).running
  BY RowsOfAnEnd DEF Released, Rows
<1>6. PICK row \in {Released(j, w), Ended(j, w)} : locks' = [locks EXCEPT ![j] = row]
  BY DEF End
<1> QED
  BY <1>1, <1>3, <1>4, <1>5, <1>6 DEF SameWork

-----------------------------------------------------------------------------
LEMMA TypeKept == ASSUME TypeOK, LocksInv, [Next]_vars PROVE TypeOK'
<1> USE DEF TypeOK
<1>1. Longest \in Nat /\ INTERVAL \in Nat /\ INTERVAL > 0
  BY FirstDueInRange DEF Longest
<1>2. ASSUME NEW j \in Jobs, NEW w \in Workers,
             Begin(j, w) \/ Refused(j) \/ ClaimFails(j, w) \/ End(j, w)
      PROVE  age' \in [Jobs -> 0 .. Longest]
  BY <1>1, <1>2 DEF Begin, Refused, ClaimFails, End
<1>3. ASSUME NEW j \in Jobs, NEW w \in Workers, End(j, w) PROVE success' \in 0 .. INTERVAL
  BY <1>1, <1>3 DEF End
<1>4. ASSUME NEW j \in Jobs, Fire(j) PROVE TypeOK'
  BY <1>2, <1>4 DEF Fire, Workers
<1>5. ASSUME NEW j \in Jobs, CatchUpStarts(j) PROVE TypeOK'
  <2>1. age' \in [Jobs -> 0 .. Longest]
    BY <1>2, <1>5 DEF CatchUpStarts, Workers
  <2>2. up
    BY <1>5 DEF CatchUpStarts, Jobs
  <2> QED
    BY <1>5, <2>1, <2>2 DEF CatchUpStarts, After, Jobs
<1>6. ASSUME NEW j \in Jobs, CatchUpGoesOn(j) PROVE TypeOK'
  <2>1. age' \in [Jobs -> 0 .. Longest] /\ success' \in 0 .. INTERVAL
    BY <1>2, <1>3, <1>6 DEF CatchUpGoesOn, Workers
  <2>2. up
    BY <1>6 DEF CatchUpGoesOn, Jobs
  <2> QED
    BY <1>6, <2>1, <2>2 DEF CatchUpGoesOn, After, Jobs
<1>7. ASSUME NEW j \in Jobs, EndTick(j) PROVE TypeOK'
  BY <1>2, <1>3, <1>7 DEF EndTick, Workers
<1>8. CASE AdminTriggers
  BY <1>2, <1>8 DEF AdminTriggers, Workers, Jobs
<1>9. CASE AdminEnds
  BY <1>2, <1>3, <1>9 DEF AdminEnds, Workers, Jobs
<1>10. CASE Tick
  <2>1. NextClock \in 0 .. 3 * INTERVAL - 1
    BY <1>1 DEF NextClock
  <2>2. DueAt(NextClock) \subseteq Jobs
    BY DEF DueAt
  <2> QED
    BY <1>1, <1>10, <2>1, <2>2 DEF Tick, Min2
<1>11. CASE Boot
  BY <1>1, <1>11 DEF Boot
<1>13. CASE Crash
  BY <1>13 DEF Crash
<1>14. CASE CatchUpAsks
  BY <1>14 DEF CatchUpAsks, Jobs
<1>15. CASE UNCHANGED vars
  BY <1>15 DEF vars
<1>12. ASSUME NEW j \in Jobs, Misfire(j) PROVE TypeOK'
  BY <1>12 DEF Misfire
<1> QED
  BY <1>4, <1>5, <1>6, <1>7, <1>8, <1>9, <1>10, <1>11, <1>12, <1>13, <1>14, <1>15 DEF Next

-----------------------------------------------------------------------------
(***************************************************************************)
(* The invariant of the times, action by action                            *)
(***************************************************************************)
TimesInv ==
  DueInv /\ WorkInv /\ CatchUpInv /\ SuccessInv /\ CaughtUpInv /\ FetchedInv /\ ForecastInv

LEMMA Numbers ==
  ASSUME TypeOK
  PROVE  /\ INTERVAL \in Nat /\ OFFSET \in Nat /\ 0 < OFFSET /\ OFFSET < INTERVAL
         /\ \A j \in Jobs, w \in Workers :
              TTL[j][w] \in Nat /\ 0 < TTL[j][w] /\ TTL[j][w] + OFFSET < INTERVAL
         /\ clock \in Nat /\ success \in Nat /\ age[ING] \in Nat /\ age[FC] \in Nat
         /\ \A j \in Jobs : Triggered(j) => Phase(j, clock) \in 0 .. INTERVAL - 1
<1>1. \A j \in Jobs : Triggered(j) => Phase(j, clock) \in 0 .. INTERVAL - 1
  BY PhaseInRange DEF TypeOK, Triggered
<1> QED
  BY <1>1, ScheduleAssumption DEF TypeOK, Longest, Jobs, ING, FC

LEMMA NobodyWorksDown ==
  ASSUME TimeInv, ~up PROVE \A j \in Jobs : locks[j].running = {}
BY DEF TimeInv, WorkInv, LocksInv, Rows

LEMMA BootKeepsTimes == ASSUME TimeInv, Boot PROVE TimesInv'
<1>1. locks' = locks /\ \A j \in Jobs : locks[j].running = {}
  BY NobodyWorksDown DEF Boot
<1>2. due' = {} /\ clock' = 0 /\ catchup' = "ask" /\ age' = age /\ success' = success
  BY DEF Boot, TimeInv, TypeOK
<1>3. ~(clock' >= INTERVAL) /\ \A j \in Jobs : ~Triggered(j)'
  BY <1>2, FirstDueInRange DEF Triggered
<1>4. DueInv' /\ WorkInv' /\ CatchUpInv'
  BY <1>1, <1>2 DEF DueInv, WorkInv, CatchUpInv, Fetching, ING, Jobs
<1>5. SuccessInv' /\ CaughtUpInv'
  BY <1>1, <1>2 DEF TimeInv, SuccessInv, CaughtUpInv, Fetching, ING, FC, Jobs
<1>6. FetchedInv' /\ ForecastInv'
  BY <1>3 DEF FetchedInv, ForecastInv, ING, FC, Jobs
<1> QED
  BY <1>4, <1>5, <1>6 DEF TimesInv

LEMMA CrashKeepsTimes == ASSUME TimeInv, Crash PROVE TimesInv'
<1>1. ~up' /\ due' = {} /\ catchup' = "none" /\ age' = age /\ success' = success
  BY DEF Crash
<1>2. \A j \in Jobs : locks'[j].running = {}
  BY DEF Crash, Deserted, TimeInv, LocksInv, Rows
<1>3. DueInv' /\ WorkInv' /\ CatchUpInv'
  BY <1>1, <1>2 DEF DueInv, WorkInv, CatchUpInv, Fetching, ING, Jobs
<1> QED
  BY <1>1, <1>3 DEF TimesInv, TimeInv, SuccessInv, CaughtUpInv, FetchedInv, ForecastInv

\* The work begun is new, and whatever else holds of the row's job holds of age 0.
LEMMA BeginKeepsTimes ==
  ASSUME TimeInv, TypeOK', NEW j \in Jobs, NEW w \in Workers, Begin(j, w),
         up, up' = up, clock' = clock, success' = success, due' \in {due, due \ {j}},
         catchup' = catchup, j = ING => w # "admin",
         w = "tick" => Triggered(j),
         w = "catchup" => catchup = j
  PROVE  TimesInv'
<1>1. /\ locks'[j].running = {w} /\ locks'[j].lease[w] = TTL[j][w]
      /\ \A i \in Jobs \ {j} : SameWork(i)
  BY BegunRow DEF TimeInv
<1>2. age' = [age EXCEPT ![j] = 0] /\ excused' = excused \ {j}
  BY DEF Begin
<1>3. age'[j] = 0 /\ \A i \in Jobs \ {j} : age'[i] = age[i]
  BY <1>2 DEF TimeInv, TypeOK
<1>4. DueInv'
  BY DEF TimeInv, DueInv, Triggered
<1>5. SuccessInv' /\ CaughtUpInv' /\ FetchedInv' /\ ForecastInv'
  <2>1. CASE j = ING
    <3>1. age'[ING] = 0 /\ age'[FC] = age[FC] /\ (FC \in excused' <=> FC \in excused)
      BY <2>1, <1>2, <1>3 DEF Jobs, ING, FC
    <3>2. (ING \in due' => ING \in due) /\ (FC \in due' <=> FC \in due)
      BY <2>1 DEF ING, FC
    <3>3. SuccessInv' /\ CaughtUpInv' /\ FetchedInv'
      BY <3>1, Numbers DEF SuccessInv, CaughtUpInv, FetchedInv, Triggered, TimeInv, Jobs, Workers, ING
    <3>4. ForecastInv'
      BY <3>1, <3>2 DEF TimeInv, ForecastInv, Triggered
    <3> QED
      BY <3>3, <3>4
  <2>2. CASE j = FC
    <3>1. age'[FC] = 0 /\ age'[ING] = age[ING] /\ (ING \in excused' <=> ING \in excused)
      BY <2>2, <1>2, <1>3 DEF Jobs, ING, FC
    <3>2. (ING \in due' <=> ING \in due) /\ (Fetching("catchup")' <=> Fetching("catchup"))
      BY <2>2, <1>1 DEF ING, FC, Fetching, SameWork, Jobs
    <3>3. SuccessInv' /\ CaughtUpInv' /\ FetchedInv'
      BY <3>1, <3>2 DEF TimeInv, SuccessInv, CaughtUpInv, FetchedInv, Triggered
    <3>4. ForecastInv'
      BY <3>1, Numbers DEF TimeInv, ForecastInv, Triggered, Jobs, Workers, FC
    <3> QED
      BY <3>3, <3>4
  <2> QED
    BY <2>1, <2>2 DEF Jobs, ING, FC
<1>6. WorkInv' /\ CatchUpInv'
  <2>1. locks[j].running = {}
    BY BegunRow DEF TimeInv
  <2>2. ASSUME NEW i \in Jobs, NEW v \in locks'[i].running
        PROVE  up' /\ age'[i] = TTL[i][v] - locks'[i].lease[v]
    <3>1. CASE i = j
      BY <3>1, <2>2, <1>1, <1>3, Numbers DEF TimeInv
    <3>2. CASE i # j
      BY <3>2, <2>2, <1>1, <1>3 DEF TimeInv, WorkInv, SameWork
    <3> QED
      BY <3>1, <3>2
  <2>3. CASE j = ING
    <3>1. \A v : Fetching(v)' <=> v = w
      BY <2>3, <1>1 DEF Fetching, ING
    <3>2. \A v : ~Fetching(v)
      BY <2>3, <2>1 DEF Fetching
    <3>3. catchup = ING => clock = 0
      BY <3>2 DEF TimeInv, CatchUpInv
    <3>4. w = "tick" => clock >= INTERVAL
      BY <2>3 DEF Triggered, FirstDue, ING
    <3> QED
      BY <3>1, <3>3, <3>4, <2>2, <2>3, <1>3 DEF TimeInv, WorkInv, CatchUpInv
  <2>4. CASE j = FC
    <3>1. (\A v : Fetching(v)' <=> Fetching(v)) /\ age'[ING] = age[ING]
      BY <2>4, <1>1, <1>3 DEF Fetching, SameWork, ING, FC, Jobs
    <3> QED
      BY <3>1, <2>2 DEF TimeInv, WorkInv, CatchUpInv
  <2> QED
    BY <2>3, <2>4 DEF Jobs, ING, FC
<1> QED
  BY <1>4, <1>5, <1>6 DEF TimesInv

\* A trigger or a catch-up that finds an ingestion at work would find one too many.
LEMMA NobodyFetchesYet ==
  ASSUME TimeInv, NEW w \in {"tick", "catchup"}, ~Fetching(w),
         w = "tick" => Triggered(ING), w = "catchup" => catchup = ING
  PROVE  locks[ING].running = {}
<1> SUFFICES ASSUME NEW v \in Workers, Fetching(v) PROVE FALSE
  BY DEF Fetching, TimeInv, LocksInv, Rows, Jobs, ING
<1>1. v # "admin" /\ v # w
  BY DEF TimeInv, WorkInv
<1>2. CASE w = "tick"
  <2>1. v = "catchup" /\ clock >= INTERVAL
    BY <1>1, <1>2 DEF Workers, Triggered, FirstDue, ING
  <2>2. age[ING] = clock /\ age[ING] = TTL[ING]["catchup"] - locks[ING].lease["catchup"]
    BY <2>1 DEF TimeInv, WorkInv, Fetching, Jobs, ING
  <2>3. locks[ING].lease["catchup"] \in Int /\ locks[ING].lease["catchup"] >= 0
    BY <2>1 DEF Fetching, TimeInv, LocksInv, OwnedRow, Rows, Jobs, Workers, ING
  <2>4. TTL[ING]["catchup"] \in Nat /\ TTL[ING]["catchup"] < INTERVAL /\ INTERVAL \in Nat
    BY Numbers DEF TimeInv, Jobs, Workers, ING
  <2> QED
    BY <2>1, <2>2, <2>3, <2>4
<1>3. CASE w = "catchup"
  <2>1. v = "tick" /\ clock = 0
    BY <1>1, <1>3 DEF Workers, TimeInv, CatchUpInv
  <2>2. clock >= INTERVAL
    BY <2>1 DEF TimeInv, WorkInv
  <2> QED
    BY <2>1, <2>2, Numbers DEF TimeInv
<1> QED
  BY <1>2, <1>3

\* Whoever makes a forecast began it no longer ago than the longest lease.
LEMMA ForecastsUnderWayAreNew ==
  ASSUME TimeInv, NEW v \in locks[FC].running PROVE age[FC] <= TTL[FC]["admin"]
<1>1. v \in Workers /\ locks[FC].lease[v] \in Int /\ locks[FC].lease[v] >= 0
  BY DEF TimeInv, LocksInv, OwnedRow, Rows, Jobs, FC
<1>2. age[FC] = TTL[FC][v] - locks[FC].lease[v]
  BY DEF TimeInv, WorkInv, Jobs, FC
<1>3. TTL[FC][v] \in Nat /\ TTL[FC]["admin"] \in Nat /\ TTL[FC][v] <= TTL[FC]["admin"]
  BY <1>1, ScheduleAssumption DEF Jobs, Workers, FC
<1> QED
  BY <1>1, <1>2, <1>3

LEMMA UnclaimedKeepsTimes ==
  ASSUME TimeInv, TypeOK', NEW j \in Jobs, NEW w \in {"tick", "catchup"},
         Refused(j) \/ ClaimFails(j, w), w \notin locks[j].running,
         up, up' = up, clock' = clock, success' = success, due' \in {due, due \ {j}},
         w = "tick" => Triggered(j) /\ catchup' = catchup,
         w = "catchup" => catchup = j /\ catchup' \in {After(j), "none"} /\ due' = due
  PROVE  TimesInv'
<1>1. \A i \in Jobs : SameWork(i)
  BY UnclaimedRow DEF TimeInv, Workers
<1>2. (\A v : Fetching(v)' <=> Fetching(v)) /\ age' = age
  BY <1>1 DEF SameWork, Fetching, Refused, ClaimFails, Jobs, ING
<1>3. \A i \in Jobs : (i \in excused => i \in excused') /\ (i # j => (i \in due' <=> i \in due))
  BY DEF Refused, ClaimFails
<1>4. j = ING => ING \in excused'
  BY NobodyFetchesYet DEF Refused, ClaimFails, Fetching
<1>5. DueInv'
  BY DEF TimeInv, DueInv, Triggered
<1>6. WorkInv' /\ CatchUpInv'
  <2>1. w = "catchup" => catchup' # ING /\ catchup' # "ask" /\ ~Fetching("catchup")
    BY DEF After, TimeInv, WorkInv, Fetching, ING, Jobs
  <2>2. w = "tick" => catchup' = catchup
    OBVIOUS
  <2>3. \A i \in Jobs : \A v \in locks'[i].running : up' /\ age'[i] = TTL[i][v] - locks'[i].lease[v]
    BY <1>1, <1>2 DEF SameWork, TimeInv, WorkInv
  <2> QED
    BY <1>2, <2>1, <2>2, <2>3 DEF TimeInv, WorkInv, CatchUpInv
<1>7. SuccessInv'
  BY <1>2 DEF TimeInv, SuccessInv
<1>8. CASE j = ING
  <2>1. CaughtUpInv' /\ FetchedInv'
    BY <1>4, <1>8 DEF CaughtUpInv, FetchedInv
  <2>2. ForecastInv'
    BY <1>2, <1>3, <1>8 DEF TimeInv, ForecastInv, Triggered, ING, FC, Jobs
  <2> QED
    BY <1>5, <1>6, <1>7, <2>1, <2>2 DEF TimesInv
<1>9. CASE j = FC
  <2>1. FetchedInv'
    BY <1>2, <1>3, <1>9 DEF TimeInv, FetchedInv, Triggered, ING, FC, Jobs
  <2>2. CaughtUpInv'
    <3>1. catchup' \in {FC, "none"} => catchup \in {FC, "none"}
      BY <1>9
    <3> QED
      BY <3>1, <1>2, <1>3, <1>9 DEF TimeInv, CaughtUpInv, ING, FC, Jobs
  <2>3. ForecastInv'
    <3>1. CASE FC \in excused'
      BY <3>1 DEF ForecastInv
    <3>2. CASE w = "catchup"
      BY <3>2, <1>2, <1>3, <1>9 DEF TimeInv, ForecastInv, Triggered, FC, Jobs
    <3>3. CASE w = "tick" /\ FC \notin excused'
      <4>1. locks[FC].running # {}
        BY <3>3, <1>9 DEF Refused, ClaimFails
      <4>2. age[FC] <= TTL[FC]["admin"] /\ Triggered(FC)
        BY <4>1, <3>3, <1>9, ForecastsUnderWayAreNew
      <4>3. /\ Phase(FC, clock) \in 0 .. INTERVAL - 1 /\ INTERVAL \in Nat
            /\ age[FC] \in Nat /\ TTL[FC]["admin"] \in Nat
        BY <4>2, Numbers DEF TimeInv, Jobs, Workers, FC
      <4>4. age[FC] <= Phase(FC, clock) + TTL[FC]["admin"]
        BY <4>2, <4>3
      <4> QED
        BY <4>4, <1>2 DEF ForecastInv
    <3> QED
      BY <3>1, <3>2, <3>3
  <2> QED
    BY <1>5, <1>6, <1>7, <2>1, <2>2, <2>3 DEF TimesInv
<1> QED
  BY <1>8, <1>9 DEF Jobs, ING, FC

LEMMA EndKeepsTimes ==
  ASSUME TimeInv, TypeOK', NEW j \in Jobs, NEW w \in Workers, End(j, w),
         up' = up, clock' = clock, due' = due,
         w = "catchup" => catchup = j /\ catchup' \in {After(j), "none"},
         w # "catchup" => catchup' = catchup
  PROVE  TimesInv'
<1>1. /\ locks[j].running = {w} /\ locks'[j].running = {} /\ locks[j].lease[w] \in Nat
      /\ \A i \in Jobs \ {j} : SameWork(i)
  BY EndedRow DEF TimeInv
<1>2. age' = age /\ excused' = excused
  BY DEF End
<1>3. DueInv' /\ FetchedInv' /\ ForecastInv'
  BY <1>2 DEF TimeInv, DueInv, FetchedInv, ForecastInv, Triggered
<1>4. \A i \in Jobs : \A v \in locks'[i].running : up' /\ age'[i] = TTL[i][v] - locks'[i].lease[v]
  BY <1>1, <1>2 DEF SameWork, TimeInv, WorkInv
<1>5. CASE j = ING
  <2>1. (\A v : ~Fetching(v)') /\ (\A v : Fetching(v) <=> v = w)
    BY <1>1, <1>5 DEF Fetching, ING
  <2>2. SuccessInv'
    <3>1. w # "admin" /\ age[ING] = TTL[ING][w] - locks[ING].lease[w]
      BY <2>1, <1>5 DEF TimeInv, WorkInv, Fetching, Jobs, ING
    <3>2. TTL[ING][w] = TTL[ING]["tick"] /\ TTL[ING]["tick"] \in Nat
      BY <3>1, ScheduleAssumption DEF Workers, Jobs, ING
    <3>3. age[ING] <= 0 + TTL[ING]["tick"] /\ age[ING] \in Nat
      BY <3>1, <3>2, <1>1, <1>5, Numbers DEF TimeInv
    <3>4. success' \in {success, 0}
      BY <1>5 DEF End, ING
    <3> QED
      BY <3>3, <3>4, <1>2 DEF TimeInv, SuccessInv
  <2>3. CaughtUpInv' /\ WorkInv' /\ CatchUpInv'
    <3>1. catchup' # ING \/ (catchup = ING /\ ~Fetching("catchup"))
      BY <2>1, <1>5 DEF After, Jobs, ING
    <3>2. catchup' = "ask" => catchup = "ask"
      BY DEF After, Jobs
    <3>3. CaughtUpInv'
      BY <2>1, <1>2 DEF TimeInv, CaughtUpInv
    <3> QED
      BY <2>1, <3>1, <3>2, <3>3, <1>4 DEF TimeInv, WorkInv, CatchUpInv
  <2> QED
    BY <1>3, <2>2, <2>3 DEF TimesInv
<1>6. CASE j = FC
  <2>1. \A v : Fetching(v)' <=> Fetching(v)
    BY <1>1, <1>6 DEF Fetching, SameWork, Jobs, ING, FC
  <2>2. w = "catchup" => catchup' # ING /\ catchup' # "ask" /\ catchup = FC /\ ~Fetching("catchup")
    BY <1>6 DEF After, TimeInv, WorkInv, ING, FC, Jobs
  <2>3. success' = success
    BY <1>6 DEF End, FC
  <2>4. SuccessInv' /\ CaughtUpInv'
    BY <2>1, <2>2, <2>3, <1>2 DEF TimeInv, SuccessInv, CaughtUpInv
  <2>5. WorkInv' /\ CatchUpInv'
    BY <2>1, <2>2, <1>2, <1>4 DEF TimeInv, WorkInv, CatchUpInv
  <2> QED
    BY <1>3, <2>4, <2>5 DEF TimesInv
<1> QED
  BY <1>5, <1>6 DEF Jobs, ING, FC

LEMMA TickKeepsTimes == ASSUME TimeInv, TypeOK', Tick PROVE TimesInv'
<1>1. /\ up' = up /\ catchup' = catchup /\ excused' = excused /\ due = {}
      /\ catchup # "ask" /\ (catchup = ING => Fetching("catchup"))
      /\ \A j \in Jobs : locks'[j].running = locks[j].running
      /\ \A j \in Jobs, w \in Workers : locks'[j].lease[w] = Elapsed(locks[j].lease[w])
      /\ \A j \in Jobs, w \in Workers : w \in locks[j].running => locks[j].lease[w] > 0
  BY DEF Tick, Later, Row, Fetching, Jobs, ING
<1>2. /\ age'[ING] = Min2(age[ING] + 1, Longest) /\ age'[FC] = Min2(age[FC] + 1, Longest)
      /\ success' = Min2(success + 1, INTERVAL)
      /\ \A j \in Jobs : age'[j] = Min2(age[j] + 1, Longest)
  BY DEF Tick, Jobs, ING, FC
<1>3. \A w : Fetching(w)' <=> Fetching(w)
  BY <1>1 DEF Fetching, Jobs, ING
<1>4. /\ INTERVAL \in Nat /\ 0 < INTERVAL /\ Longest = 3 * INTERVAL
      /\ clock \in Nat /\ success \in Nat /\ age[ING] \in Nat /\ age[FC] \in Nat
      /\ TTL[ING]["tick"] \in Nat /\ TTL[FC]["admin"] \in Nat
  BY Numbers DEF TimeInv, Longest, Jobs, Workers, ING, FC
<1>5. age'[ING] <= age[ING] + 1 /\ age'[FC] <= age[FC] + 1 /\ age'[ING] \in Nat /\ age'[FC] \in Nat
  BY <1>2, <1>4 DEF Min2
<1>6. up => clock' = NextClock /\ due' = DueAt(NextClock)
  BY DEF Tick
<1>7. ASSUME NEW j \in Jobs, NEW w \in locks'[j].running
      PROVE  /\ up /\ w \in Workers /\ w \in locks[j].running
             /\ age[j] = TTL[j][w] - locks[j].lease[w]
             /\ age'[j] = age[j] + 1 /\ locks'[j].lease[w] = locks[j].lease[w] - 1
             /\ age[j] \in Nat /\ age[j] < TTL[j][w] /\ TTL[j][w] \in Nat /\ TTL[j][w] < INTERVAL
  <2>1. w \in Workers /\ w \in locks[j].running /\ locks[j].lease[w] \in Int
    BY <1>1, <1>7 DEF TimeInv, LocksInv, Rows
  <2>2. up /\ age[j] = TTL[j][w] - locks[j].lease[w] /\ locks[j].lease[w] > 0
    BY <2>1, <1>1 DEF TimeInv, WorkInv
  <2>3. TTL[j][w] \in Nat /\ TTL[j][w] < INTERVAL
    BY <2>1, Numbers DEF TimeInv
  <2>4. age[j] \in Nat
    BY DEF TimeInv, TypeOK
  <2>5. locks'[j].lease[w] = locks[j].lease[w] - 1
    BY <1>1, <2>1, <2>2 DEF Elapsed
  <2>6. age'[j] = age[j] + 1
    BY <1>2, <1>4, <2>1, <2>2, <2>3, <2>4 DEF Min2
  <2> QED
    BY <2>1, <2>2, <2>3, <2>4, <2>5, <2>6
<1>8. DueInv'
  <2>1. CASE up
    BY <2>1, <1>6 DEF DueInv, Triggered, DueAt
  <2>2. CASE ~up
    BY <2>2 DEF Tick, DueInv
  <2> QED
    BY <2>1, <2>2
<1>9. WorkInv'
  <2>1. \A j \in Jobs : \A w \in locks'[j].running : up' /\ age'[j] = TTL[j][w] - locks'[j].lease[w]
    <3> SUFFICES ASSUME NEW j \in Jobs, NEW w \in locks'[j].running
                 PROVE  up' /\ age'[j] = TTL[j][w] - locks'[j].lease[w]
      OBVIOUS
    <3>1. locks[j].lease[w] \in Int
      BY <1>7 DEF TimeInv, LocksInv, Rows
    <3> QED
      BY <1>1, <1>7, <3>1
  <2>2. Fetching("tick")' => clock' >= INTERVAL
    <3> SUFFICES ASSUME Fetching("tick") PROVE clock' >= INTERVAL
      BY <1>3
    <3>1. clock >= INTERVAL /\ up
      BY DEF TimeInv, WorkInv, Fetching, Jobs, ING
    <3> QED
      BY <3>1, <1>4, <1>6 DEF NextClock
  <2>3. Fetching("catchup")' => catchup' = ING /\ age'[ING] = clock'
    <3> SUFFICES ASSUME Fetching("catchup") PROVE catchup' = ING /\ age'[ING] = clock'
      BY <1>3
    <3>1. catchup = ING /\ age[ING] = clock
      BY DEF TimeInv, WorkInv
    <3>2. "catchup" \in locks'[ING].running /\ ING \in Jobs
      BY <1>1 DEF Fetching, Jobs, ING
    <3>3. up /\ age'[ING] = clock + 1 /\ clock + 1 <= INTERVAL
      BY <1>7, <3>1, <3>2, <1>4
    <3>4. clock' = clock + 1
      BY <1>4, <1>6, <3>3 DEF NextClock
    <3> QED
      BY <1>1, <3>1, <3>3, <3>4
  <2>4. ~Fetching("admin")'
    BY <1>3 DEF TimeInv, WorkInv
  <2> QED
    BY <2>1, <2>2, <2>3, <2>4 DEF WorkInv
<1>10. CatchUpInv'
  BY <1>1, <1>3 DEF CatchUpInv
<1>11. SuccessInv'
  BY <1>2, <1>4, <1>5 DEF TimeInv, SuccessInv, Min2
<1>12. CaughtUpInv'
  <2> SUFFICES ASSUME up', clock' < INTERVAL, ING \notin excused',
                      catchup' \in {FC, "none"} \/ Fetching("catchup")'
               PROVE  age'[ING] < INTERVAL + TTL[ING]["tick"] + clock'
    BY DEF CaughtUpInv
  <2>1. up /\ clock' = clock + 1
    BY <1>1, <1>4, <1>6 DEF NextClock
  <2>2. age[ING] < INTERVAL + TTL[ING]["tick"] + clock
    BY <2>1, <1>1, <1>3, <1>4 DEF TimeInv, CaughtUpInv
  <2> QED
    BY <2>1, <2>2, <1>4, <1>5
<1>13. ASSUME NEW j \in Jobs, up', Triggered(j)', j \notin due'
       PROVE  /\ up /\ Triggered(j)
              /\ Phase(j, clock)' = Phase(j, clock) + 1 /\ Phase(j, clock) \in Nat
  <2>1. up /\ NextClock >= FirstDue(j) /\ j \notin DueAt(NextClock)
    BY <1>1, <1>6, <1>13 DEF Triggered
  <2>2. clock >= FirstDue(j) /\ Phase(j, NextClock) = Phase(j, clock) + 1
    BY <2>1, PhaseAdvances DEF TimeInv, TypeOK
  <2>3. Phase(j, clock) \in Nat
    BY <2>2, Numbers DEF TimeInv, Triggered
  <2> QED
    BY <2>1, <2>2, <2>3, <1>6 DEF Triggered
<1>14. FetchedInv'
  <2> SUFFICES ASSUME up', Triggered(ING)', ING \notin due' \cup excused'
               PROVE  age'[ING] <= Phase(ING, clock)'
    BY DEF FetchedInv
  <2>1. /\ up /\ Triggered(ING) /\ Phase(ING, clock)' = Phase(ING, clock) + 1
        /\ Phase(ING, clock) \in Nat
    BY <1>13 DEF Jobs, ING
  <2>2. age[ING] <= Phase(ING, clock)
    BY <2>1, <1>1 DEF TimeInv, FetchedInv
  <2> QED
    BY <2>1, <2>2, <1>4, <1>5
<1>15. ForecastInv'
  <2> SUFFICES ASSUME up', Triggered(FC)', FC \notin due' \cup excused'
               PROVE  age'[FC] <= Phase(FC, clock)' + TTL[FC]["admin"]
    BY DEF ForecastInv
  <2>1. /\ up /\ Triggered(FC) /\ Phase(FC, clock)' = Phase(FC, clock) + 1
        /\ Phase(FC, clock) \in Nat
    BY <1>13 DEF Jobs, FC
  <2>2. age[FC] <= Phase(FC, clock) + TTL[FC]["admin"]
    BY <2>1, <1>1 DEF TimeInv, ForecastInv
  <2> QED
    BY <2>1, <2>2, <1>4, <1>5
<1> QED
  BY <1>8, <1>9, <1>10, <1>11, <1>12, <1>14, <1>15 DEF TimesInv

-----------------------------------------------------------------------------
LEMMA TimesKept == ASSUME TimeInv, [Next]_vars PROVE TimeInv'
<1>1. TypeOK'
  BY TypeKept DEF TimeInv
<1>2. LocksInv'
  BY StepsOfRows, RowStaysOwned DEF RowsStep, LocksInv, TimeInv
<1>3. ASSUME NEW j \in Jobs, Fire(j) PROVE TimesInv'
  <2>1. up /\ Triggered(j)
    BY <1>3 DEF Fire, TimeInv, TypeOK, DueInv
  <2>2. CASE Begin(j, "tick")
    BY <1>1, <1>3, <2>1, <2>2, BeginKeepsTimes DEF Fire, Workers
  <2>3. CASE Refused(j) \/ ClaimFails(j, "tick")
    BY <1>1, <1>3, <2>1, <2>3, UnclaimedKeepsTimes DEF Fire
  <2> QED
    BY <1>3, <2>2, <2>3 DEF Fire
<1>4. ASSUME NEW j \in Jobs, CatchUpStarts(j) PROVE TimesInv'
  <2>1. up
    BY <1>4 DEF CatchUpStarts, TimeInv, TypeOK, Jobs
  <2>2. CASE Begin(j, "catchup") /\ UNCHANGED catchup
    BY <1>1, <1>4, <2>1, <2>2, BeginKeepsTimes DEF CatchUpStarts, Workers
  <2>3. CASE (Refused(j) /\ catchup' = After(j)) \/ (ClaimFails(j, "catchup") /\ catchup' = "none")
    BY <1>1, <1>4, <2>1, <2>3, UnclaimedKeepsTimes DEF CatchUpStarts
  <2> QED
    BY <1>4, <2>2, <2>3 DEF CatchUpStarts
<1>5. ASSUME NEW j \in Jobs, CatchUpGoesOn(j) PROVE TimesInv'
  BY <1>1, <1>5, EndKeepsTimes DEF CatchUpGoesOn, Workers
<1>6. ASSUME NEW j \in Jobs, EndTick(j) PROVE TimesInv'
  BY <1>1, <1>6, EndKeepsTimes DEF EndTick, Workers
<1>7. ASSUME AdminTriggers PROVE TimesInv'
  <2>1. /\ Begin("forecast", "admin") /\ up /\ up' = up /\ clock' = clock /\ due' = due
        /\ catchup' = catchup /\ success' = success
    BY <1>7 DEF AdminTriggers
  <2>2. "forecast" \in Jobs /\ "admin" \in Workers /\ "forecast" # ING
    BY DEF Jobs, Workers, ING
  <2> QED
    BY <1>1, <2>1, <2>2, BeginKeepsTimes
<1>8. ASSUME AdminEnds PROVE TimesInv'
  <2>1. /\ End("forecast", "admin") /\ up' = up /\ clock' = clock /\ due' = due
        /\ catchup' = catchup
    BY <1>8 DEF AdminEnds
  <2>2. "forecast" \in Jobs /\ "admin" \in Workers
    BY DEF Jobs, Workers
  <2> QED
    BY <1>1, <2>1, <2>2, EndKeepsTimes
<1>9. ASSUME NEW j \in Jobs, Misfire(j) PROVE TimesInv'
  <2>1. /\ due' = due \ {j} /\ excused' = excused \cup {j}
        /\ up' = up /\ clock' = clock /\ catchup' = catchup /\ locks' = locks
        /\ success' = success /\ age' = age
    BY <1>9 DEF Misfire
  <2>2. DueInv' /\ WorkInv' /\ CatchUpInv' /\ SuccessInv'
    BY <2>1 DEF TimeInv, DueInv, WorkInv, CatchUpInv, SuccessInv, Fetching, Triggered
  <2>3. CaughtUpInv' /\ FetchedInv' /\ ForecastInv'
    BY <2>1 DEF TimeInv, CaughtUpInv, FetchedInv, ForecastInv, Fetching, Triggered
  <2> QED
    BY <2>2, <2>3 DEF TimesInv
<1>10. ASSUME CatchUpAsks PROVE TimesInv'
  <2>1. /\ due' = due /\ up' = up /\ clock' = clock /\ locks' = locks
        /\ success' = success /\ age' = age /\ catchup = "ask" /\ clock = 0
        /\ ~Fetching("catchup")
    BY <1>10 DEF CatchUpAsks, TimeInv, CatchUpInv, WorkInv, ING
  <2>2. /\ excused' \in {excused, Jobs}
        /\ catchup' \in {"none", ING}
        /\ catchup' = "none" => FreshEnough \/ excused' = Jobs
    BY <1>10 DEF CatchUpAsks, ING
  <2>3. DueInv' /\ WorkInv' /\ CatchUpInv' /\ SuccessInv'
    BY <2>1, <2>2 DEF TimeInv, DueInv, WorkInv, CatchUpInv, SuccessInv, Fetching, Triggered, ING
  <2>4. FetchedInv' /\ ForecastInv'
    <3>1. ~Triggered(ING)' /\ ~Triggered(FC)'
      BY <2>1, FirstDueInRange DEF Triggered, Jobs, ING, FC
    <3> QED
      BY <3>1 DEF FetchedInv, ForecastInv
  <2>5. CaughtUpInv'
    <3> SUFFICES ASSUME ING \notin excused', catchup' = "none"
                 PROVE  age[ING] < INTERVAL + TTL[ING]["tick"] + clock
      BY <2>1, <2>2 DEF CaughtUpInv, Fetching, ING, FC
    <3>1. success < INTERVAL
      BY <2>2 DEF FreshEnough, Jobs, ING
    <3>2. age[ING] <= success + TTL[ING]["tick"]
      BY <3>1, Numbers DEF TimeInv, SuccessInv
    <3>3. success \in Nat /\ age[ING] \in Nat /\ INTERVAL \in Nat /\ TTL[ING]["tick"] \in Nat
      BY Numbers DEF TimeInv, Jobs, Workers, ING
    <3> QED
      BY <3>1, <3>2, <3>3, <2>1
  <2> QED
    BY <2>3, <2>4, <2>5 DEF TimesInv
<1>11. ASSUME UNCHANGED vars PROVE TimesInv'
  <2>1. /\ due' = due /\ excused' = excused /\ up' = up /\ clock' = clock
        /\ catchup' = catchup /\ locks' = locks /\ success' = success /\ age' = age
    BY <1>11 DEF vars
  <2>2. DueInv' /\ WorkInv' /\ CatchUpInv' /\ SuccessInv'
    BY <2>1 DEF TimeInv, DueInv, WorkInv, CatchUpInv, SuccessInv, Fetching, Triggered
  <2>3. CaughtUpInv' /\ FetchedInv' /\ ForecastInv'
    BY <2>1 DEF TimeInv, CaughtUpInv, FetchedInv, ForecastInv, Fetching, Triggered
  <2> QED
    BY <2>2, <2>3 DEF TimesInv
<1>12. TimesInv'
  <2>1. CASE Boot
    BY <2>1, BootKeepsTimes
  <2>2. CASE Crash
    BY <2>2, CrashKeepsTimes
  <2>3. CASE Tick
    BY <2>3, <1>1, TickKeepsTimes
  <2> QED
    BY <2>1, <2>2, <2>3, <1>3, <1>4, <1>5, <1>6, <1>7, <1>8, <1>9, <1>10, <1>11 DEF Next
<1> QED
  BY <1>1, <1>2, <1>12 DEF TimeInv, TimesInv

LEMMA TimeInvHolds == Spec => []TimeInv
<1>1. Init => TimeInv
  <2> SUFFICES ASSUME Init PROVE TimeInv
    OBVIOUS
  <2>1. LocksInv
    BY DEF Init, LocksInv, Free, Row, NoLease, Rows, OwnedRow
  <2>2. /\ ~up /\ clock = 0 /\ due = {} /\ catchup = "none" /\ success = INTERVAL
        /\ \A j \in Jobs : locks[j].running = {}
    BY DEF Init, Free, Row
  <2>3. TypeOK
    BY FirstDueInRange DEF Init, TypeOK, Longest
  <2> QED
    BY <2>1, <2>2, <2>3 DEF TimeInv, DueInv, WorkInv, CatchUpInv, SuccessInv, CaughtUpInv,
       FetchedInv, ForecastInv, Fetching, Jobs, ING
<1> QED
  BY <1>1, TimesKept, PTL DEF Spec

\* Prices are fetched and forecasts made in time, whatever the interval, the offset and
\* the TTLs, as long as the latter fit into the former: what is not in time is excused by
\* a call that failed, a misfire or a row that a dead process left (jobs.py).
THEOREM WorkIsInTime == Spec => []WorkedInTime
<1> QED
  BY TimeInvHolds, InTimeFromInv, PTL

-----------------------------------------------------------------------------
(***************************************************************************)
(* The lock itself: why the lease keeps two executions apart, for any      *)
(* number of executions, any names and any TTLs.  An execution still       *)
(* within its time owns the row, with the same time left, so nobody else   *)
(* can claim; and nobody else can delete the row, because names are        *)
(* distinct or because nobody is overdue.                                  *)
(***************************************************************************)
\* How the lock has to be used: a name for each execution, or no overruns.
SafeUse ==
  \/ \A v, w \in Executions : v # w => NameOf[v] # NameOf[w]
  \/ ~MayOverrun

OwnsRow(w) == holder = NameOf[w] /\ left = lease[w]

\* The inductive invariant: the owner of an unexpired lease owns the row.
LeaseInv ==
  /\ LockTypeOK
  /\ LeaseExclusive
  /\ \A w \in Executions : InTime(w) => OwnsRow(w)
  /\ ~MayOverrun => \A w \in running : lease[w] >= 0

\* For any executions, names and TTLs the row and the leases keep their shape, and no row
\* outlasts what was asked for under its name (public.job_locks).
THEOREM LockIsTyped == LockSpec => []LockTypeOK
<1> USE LockAssumption DEF LockTypeOK
<1>1. LockInit => LockTypeOK
  BY DEF LockInit
<1>2. LockTypeOK /\ [LockNext]_lockVars => LockTypeOK'
  <2> SUFFICES ASSUME LockTypeOK, [LockNext]_lockVars PROVE LockTypeOK'
    OBVIOUS
  <2>1. ASSUME NEW w \in Executions, Claim(w) PROVE LockTypeOK'
    BY <2>1 DEF Claim, Take
  <2>2. ASSUME NEW w \in Executions, ClaimUnanswered(w) PROVE LockTypeOK'
    BY <2>2 DEF ClaimUnanswered, Take
  <2>3. ASSUME NEW w \in Executions, Release(w) PROVE LockTypeOK'
    BY <2>3 DEF Release
  <2>4. ASSUME NEW w \in Executions, Die(w) PROVE LockTypeOK'
    BY <2>4 DEF Die
  <2>5. CASE TimePasses
    BY <2>5 DEF TimePasses, Shortened
  <2>6. CASE UNCHANGED lockVars
    BY <2>6 DEF lockVars
  <2> QED
    BY <2>1, <2>2, <2>3, <2>4, <2>5, <2>6 DEF LockNext
<1> QED
  BY <1>1, <1>2, PTL DEF LockSpec

-----------------------------------------------------------------------------
\* One claim: the row was free or expired, so nobody was within their time.
LEMMA TakeFindsNobodyInTime ==
  ASSUME LeaseInv, NEW w \in Executions, Take(w)
  PROVE  \A v \in Executions : ~InTime(v)
BY LockAssumption DEF LeaseInv, LockTypeOK, OwnsRow, Take, RowIsOpen, Expired, InTime

\* One release by w: whoever else is within their time keeps the row.
LEMMA ReleaseSparesOthers ==
  ASSUME SafeUse, LeaseInv, NEW w \in Executions, Release(w),
         NEW v \in Executions, InTime(v), v # w
  PROVE  holder' = holder
<1>1. CASE ~MayOverrun
  <2>1. InTime(w)
    BY <1>1 DEF LeaseInv, Release, InTime
  <2> QED
    BY <2>1 DEF LeaseInv, LeaseExclusive
<1>2. CASE \A x, y \in Executions : x # y => NameOf[x] # NameOf[y]
  <2>1. holder = NameOf[v]
    BY DEF LeaseInv, OwnsRow
  <2> QED
    BY <1>2, <2>1 DEF Release
<1> QED
  BY <1>1, <1>2 DEF SafeUse

\* Two executions within the time they asked for never overlap, provided each
\* claims under a name of its own or none runs past its TTL
\* (claim_job_lock, release_job_lock).
THEOREM LeaseIsExclusive == SafeUse => (LockSpec => []LeaseExclusive)
<1> SUFFICES ASSUME SafeUse PROVE LockSpec => []LeaseExclusive
  OBVIOUS
<1>1. LockInit => LeaseInv
  BY LockAssumption DEF LockInit, LeaseInv, LockTypeOK, LeaseExclusive, InTime, OwnsRow
<1>2. LeaseInv /\ [LockNext]_lockVars => LeaseInv'
  <2> SUFFICES ASSUME LeaseInv, [LockNext]_lockVars PROVE LeaseInv'
    OBVIOUS
  <2> USE LockAssumption DEF LeaseInv, LockTypeOK, LeaseExclusive, InTime, OwnsRow
  <2>1. ASSUME NEW w \in Executions, Claim(w) PROVE LeaseInv'
    <3>1. \A v \in Executions : ~InTime(v)
      BY <2>1, TakeFindsNobodyInTime DEF Claim
    <3>2. \A v \in Executions : v # w => ~InTime(v)'
      BY <2>1, <3>1 DEF Claim
    <3>3. OwnsRow(w)' /\ LockTypeOK'
      BY <2>1 DEF Claim, Take
    <3>4. ~MayOverrun => \A v \in running' : lease'[v] >= 0
      BY <2>1 DEF Claim, Take
    <3> QED
      BY <3>2, <3>3, <3>4
  <2>2. ASSUME NEW w \in Executions, ClaimUnanswered(w) PROVE LeaseInv'
    <3>1. \A v \in Executions : ~InTime(v)
      BY <2>2, TakeFindsNobodyInTime DEF ClaimUnanswered
    <3> QED
      BY <2>2, <3>1 DEF ClaimUnanswered, Take
  <2>3. ASSUME NEW w \in Executions, Release(w) PROVE LeaseInv'
    <3>1. \A v \in Executions : InTime(v)' => InTime(v) /\ v # w
      BY <2>3 DEF Release
    <3>2. \A v \in Executions : InTime(v)' => OwnsRow(v)'
      BY <2>3, <3>1, ReleaseSparesOthers DEF Release
    <3>3. LockTypeOK'
      BY <2>3 DEF Release
    <3>4. ~MayOverrun => \A v \in running' : lease'[v] >= 0
      BY <2>3 DEF Release
    <3> QED
      BY <3>1, <3>2, <3>3, <3>4
  <2>4. ASSUME NEW w \in Executions, Die(w) PROVE LeaseInv'
    BY <2>4 DEF Die
  <2>5. CASE TimePasses
    BY <2>5 DEF TimePasses, Shortened
  <2>6. CASE UNCHANGED lockVars
    BY <2>6 DEF lockVars
  <2> QED
    BY <2>1, <2>2, <2>3, <2>4, <2>5, <2>6 DEF LockNext
<1>3. LeaseInv => LeaseExclusive
  BY DEF LeaseInv
<1> QED
  BY <1>1, <1>2, <1>3, PTL DEF LockSpec

\* If every execution ends within the time it asked for, no two ever overlap
\* (the comment on public.job_locks).
THEOREM NoDoubleExecutionInTime == ~MayOverrun => (LockSpec => []NoDoubleExecution)
<1> SUFFICES ASSUME ~MayOverrun PROVE LockSpec => []NoDoubleExecution
  OBVIOUS
<1>1. LockSpec => []LeaseExclusive
  BY LeaseIsExclusive DEF SafeUse
<1>2. LockSpec => []LockTypeOK
  BY LockIsTyped
<1>3. LockSpec => [](\A w \in running : lease[w] >= 0)
  <2>1. LockInit => \A w \in running : lease[w] >= 0
    BY DEF LockInit
  <2>2. LockTypeOK /\ (\A w \in running : lease[w] >= 0) /\ [LockNext]_lockVars
        => (\A w \in running : lease[w] >= 0)'
    BY LockAssumption DEF LockTypeOK, LockNext, Claim, ClaimUnanswered, Take, Release, Die,
       TimePasses, Shortened, lockVars
  <2> QED
    BY <2>1, <2>2, <1>2, PTL DEF LockSpec
<1>4. LeaseExclusive /\ LockTypeOK /\ (\A w \in running : lease[w] >= 0) => NoDoubleExecution
  BY DEF LeaseExclusive, LockTypeOK, InTime, NoDoubleExecution
<1> QED
  BY <1>1, <1>2, <1>3, <1>4, PTL
=============================================================================
