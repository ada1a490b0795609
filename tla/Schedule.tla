------------------------------ MODULE Schedule -------------------------------
(***************************************************************************)
(* When the ingestion and the forecast run: the interval triggers of one   *)
(* process's scheduler, the catch-up task of its start, the admin's        *)
(* trigger, and the job locks between them, with the process going down    *)
(* and up again.  Each key's lock is JobLock's (Lock).                     *)
(*                                                                         *)
(* clock counts the ticks since the start: an IntervalTrigger that starts  *)
(* now fires one interval later, one that starts later fires then.  Both   *)
(* intervals default to six hours.  Work ends within the time its lock was *)
(* asked for; what happens when it does not is JobLock's.                  *)
(***************************************************************************)
EXTENDS Integers

CONSTANTS
  INTERVAL,  \* ingestion_interval_hours and forecast_interval_hours, in ticks
  OFFSET,    \* the forecast's five minutes
  TTL,       \* p_ttl_minutes per job key and worker
  None

Jobs == {"ingestion", "forecast"}
Workers == {"tick", "catchup", "admin"}
Holders == {"scheduler", "admin_trigger"}
HolderOf == [w \in Workers |-> IF w = "admin" THEN "admin_trigger" ELSE "scheduler"]

ASSUME ScheduleAssumption ==
  /\ TTL \in [Jobs -> [Workers -> Nat \ {0}]]
  /\ {INTERVAL, OFFSET} \subseteq Nat \ {0} /\ OFFSET < INTERVAL
  /\ \A j \in Jobs, w \in Workers : TTL[j][w] + OFFSET < INTERVAL
  /\ \A j \in Jobs : TTL[j]["catchup"] = TTL[j]["tick"]       \* they call the same function
  /\ TTL["forecast"]["tick"] <= TTL["forecast"]["admin"]
  /\ None \notin Holders

VARIABLES
  up,       \* the process runs
  clock,    \* ticks since its start; goes round after the second interval
  due,      \* jobs whose trigger is reached and not yet dealt with
  catchup,  \* what the catch-up task does next
  locks,    \* per job key the row, the running worker and its lease, as in JobLock
  success,  \* ticks since the last success in ingestion_log, INTERVAL when longer
  age,      \* history: ticks since a run of the job last began, at most Longest
  excused   \* history: jobs of which a failure has prevented a run since then

vars == <<up, clock, due, catchup, locks, success, age, excused>>

Longest == 3 * INTERVAL
NoLease == [w \in Workers |-> -1]
Row(h, t, r, l) == [holder |-> h, left |-> t, running |-> r, lease |-> l]
Free == Row(None, -1, {}, NoLease)

Init ==
  /\ up = FALSE /\ clock = 0 /\ due = {} /\ catchup = "none"
  /\ locks = [j \in Jobs |-> Free]
  /\ success = INTERVAL
  /\ age = [j \in Jobs |-> Longest]
  /\ excused = {}

-----------------------------------------------------------------------------
\* Slip: the row can be taken over in the tick in which it expires.
Claimable_TooEarly(j) == locks[j].holder = None \/ locks[j].left <= 0

\* Slip: a row that is there is never taken over.
Claimable_NoSteal(j) == locks[j].holder = None

Claimable(j) == locks[j].holder = None \/ locks[j].left < 0
Taken(j, w) == Row(HolderOf[w], TTL[j][w], locks[j].running, locks[j].lease)
Won(j, w) == Row(HolderOf[w], TTL[j][w], locks[j].running \cup {w},
                 [locks[j].lease EXCEPT ![w] = TTL[j][w]])

\* The claim answers true and the job's work begins.
Begin(j, w) ==
  /\ Claimable(j)
  /\ locks' = [locks EXCEPT ![j] = Won(j, w)]
  /\ age' = [age EXCEPT ![j] = 0]
  /\ excused' = excused \ {j}

\* The claim answers false; a row that nobody works under is a failure's trace.
Refused(j) ==
  /\ ~Claimable(j)
  /\ excused' = IF locks[j].running = {} THEN excused \cup {j} ELSE excused
  /\ UNCHANGED <<locks, age>>

\* The call fails, before it has taken the row or after.
ClaimFails(j, w) ==
  /\ locks' = locks \/ (Claimable(j) /\ locks' = [locks EXCEPT ![j] = Taken(j, w)])
  /\ excused' = excused \cup {j}
  /\ UNCHANGED age

Ended(j, w) == [locks[j] EXCEPT !.running = @ \ {w}]
Released(j, w) == [Ended(j, w) EXCEPT !.holder = IF @ = HolderOf[w] THEN None ELSE @]

\* The work ends and the row is deleted, unless that call fails; an ingestion may or
\* may not have logged a success.
End(j, w) ==
  /\ w \in locks[j].running
  /\ \E row \in {Released(j, w), Ended(j, w)} : locks' = [locks EXCEPT ![j] = row]
  /\ success' \in IF j = "ingestion" THEN {success, 0} ELSE {success}
  /\ UNCHANGED <<age, excused>>

-----------------------------------------------------------------------------
\* lifespan: the scheduler starts and the catch-up task is created.
Boot ==
  /\ ~up
  /\ up' = TRUE /\ clock' = 0 /\ catchup' = "ask"
  /\ excused' = {}
  /\ UNCHANGED <<due, locks, success, age>>

Deserted(j) == [locks[j] EXCEPT !.running = {}]

\* The process goes down; rows in job_locks stay.
Crash ==
  /\ up
  /\ up' = FALSE /\ due' = {} /\ catchup' = "none"
  /\ locks' = [j \in Jobs |-> Deserted(j)]
  /\ UNCHANGED <<clock, success, age, excused>>

\* The trigger's run, of which there is one at a time (max_instances).
Fire(j) ==
  /\ j \in due /\ "tick" \notin locks[j].running
  /\ due' = due \ {j}
  /\ Begin(j, "tick") \/ Refused(j) \/ ClaimFails(j, "tick")
  /\ UNCHANGED <<up, clock, catchup, success>>

\* The event loop was busy for longer than the scheduler's grace, or the last run is
\* not over.
Misfire(j) ==
  /\ j \in due
  /\ due' = due \ {j}
  /\ excused' = excused \cup {j}
  /\ UNCHANGED <<up, clock, catchup, locks, success, age>>

\* Slip: the cutoff is not compared.
FreshEnough_Any == success <= INTERVAL

FreshEnough == success < INTERVAL

\* _run_catchup_task reads ingestion_log; an exception ends it.
CatchUpAsks ==
  /\ catchup = "ask"
  /\ \/ FreshEnough /\ catchup' = "none" /\ UNCHANGED excused
     \/ ~FreshEnough /\ catchup' = "ingestion" /\ UNCHANGED excused
     \/ catchup' = "none" /\ excused' = Jobs
  /\ UNCHANGED <<up, clock, due, locks, success, age>>

After(j) == IF j = "ingestion" THEN "forecast" ELSE "none"

\* It awaits the two jobs one after the other; one that is locked is passed over.
CatchUpStarts(j) ==
  /\ catchup = j /\ "catchup" \notin locks[j].running
  /\ \/ Begin(j, "catchup") /\ UNCHANGED catchup
     \/ Refused(j) /\ catchup' = After(j)
     \/ ClaimFails(j, "catchup") /\ catchup' = "none"
  /\ UNCHANGED <<up, clock, due, success>>

\* An exception from the work or the release ends the task as well.
CatchUpGoesOn(j) ==
  /\ catchup = j
  /\ End(j, "catchup")
  /\ catchup' \in {After(j), "none"}
  /\ UNCHANGED <<up, clock, due>>

EndTick(j) == up /\ End(j, "tick") /\ UNCHANGED <<up, clock, due, catchup>>

\* POST /admin/forecast: the only trigger beside the scheduler.
AdminTriggers ==
  /\ up /\ "admin" \notin locks["forecast"].running
  /\ Begin("forecast", "admin")
  /\ UNCHANGED <<up, clock, due, catchup, success>>

AdminEnds == up /\ End("forecast", "admin") /\ UNCHANGED <<up, clock, due, catchup>>

Min2(a, b) == IF a < b THEN a ELSE b
Elapsed(t) == IF t < 0 THEN t ELSE t - 1
Later(row) == Row(row.holder, Elapsed(row.left), row.running,
                  [w \in Workers |-> Elapsed(row.lease[w])])

\* Ticks after which a trigger fires first; it fires every INTERVAL from then on.
FirstDue(j) == IF j = "ingestion" THEN INTERVAL ELSE OFFSET

DueAt(t) == {j \in Jobs : t >= FirstDue(j) /\ (t - FirstDue(j)) % INTERVAL = 0}
NextClock == IF clock + 1 = 3 * INTERVAL THEN 2 * INTERVAL ELSE clock + 1

\* Work is done within its lease; the catch-up's read and claims take no tick.
Tick ==
  /\ due = {} /\ catchup # "ask"
  /\ \A j \in Jobs : catchup = j => "catchup" \in locks[j].running
  /\ \A j \in Jobs, w \in Workers : w \in locks[j].running => locks[j].lease[w] > 0
  /\ clock' = IF up THEN NextClock ELSE 0
  /\ due' = IF up THEN DueAt(NextClock) ELSE {}
  /\ locks' = [j \in Jobs |-> Later(locks[j])]
  /\ success' = Min2(success + 1, INTERVAL)
  /\ age' = [j \in Jobs |-> Min2(age[j] + 1, Longest)]
  /\ UNCHANGED <<up, catchup, excused>>

Next ==
  \/ Boot \/ Crash \/ Tick \/ CatchUpAsks \/ AdminTriggers \/ AdminEnds
  \/ \E j \in Jobs : Fire(j) \/ Misfire(j) \/ CatchUpStarts(j) \/ CatchUpGoesOn(j) \/ EndTick(j)

\* Time passes and what runs ends; a trigger does not fail for ever.
Spec ==
  /\ Init /\ [][Next]_vars
  /\ WF_vars(Tick) /\ WF_vars(CatchUpAsks) /\ WF_vars(AdminEnds)
  /\ \A j \in Jobs :
       /\ WF_vars(CatchUpStarts(j)) /\ WF_vars(CatchUpGoesOn(j)) /\ WF_vars(EndTick(j))
       /\ WF_vars(Fire(j)) /\ SF_vars(Fire(j) /\ Begin(j, "tick"))

-----------------------------------------------------------------------------
IngestionLock == INSTANCE JobLock WITH
  Executions <- Workers, Names <- Holders, NameOf <- HolderOf, Asked <- TTL["ingestion"],
  MayOverrun <- FALSE, Failures <- {"die", "lost_answer"}, Nobody <- None,
  holder <- locks["ingestion"].holder, left <- locks["ingestion"].left,
  running <- locks["ingestion"].running, lease <- locks["ingestion"].lease

ForecastLock == INSTANCE JobLock WITH
  Executions <- Workers, Names <- Holders, NameOf <- HolderOf, Asked <- TTL["forecast"],
  MayOverrun <- FALSE, Failures <- {"die", "lost_answer"}, Nobody <- None,
  holder <- locks["forecast"].holder, left <- locks["forecast"].left,
  running <- locks["forecast"].running, lease <- locks["forecast"].lease

\* Clock, triggers and the catch-up task keep their shape.
TypeOK ==
  /\ clock \in 0 .. 3 * INTERVAL - 1
  /\ due \subseteq Jobs
  /\ catchup \in {"none", "ask"} \cup Jobs
  /\ up \/ (due = {} /\ catchup = "none")
  /\ success \in 0 .. INTERVAL
  /\ age \in [Jobs -> 0 .. Longest]

\* Ticks, catch-up, admin and restarts use each key's row as JobLock says, so that no
\* two executions within their time overlap (LeaseIsExclusive; jobs.py, forecasting/runner.py).
LocksKept == IngestionLock!LockSpec /\ ForecastLock!LockSpec

\* The prices are fetched again in time: once the process's first trigger is dealt
\* with an ingestion began less than an interval ago, and until then the catch-up has
\* seen to it that one did within a lease more before the start, unless a call, the
\* timer or a dead run's row has prevented it (setup_scheduler, _run_catchup_task).
FetchedInTime ==
  up /\ catchup = "none" /\ "ingestion" \notin due \cup excused =>
    age["ingestion"] < INTERVAL + (IF clock < INTERVAL THEN TTL["ingestion"]["tick"] + clock ELSE 0)

\* The forecast is made in time: an admin's run puts the trigger's off to the next one,
\* but by no more than its lease (run_forecast_job, trigger_forecast).
ForecastInTime ==
  up /\ clock >= OFFSET /\ "forecast" \notin due \cup excused =>
    age["forecast"] < INTERVAL + TTL["forecast"]["admin"]

\* The schedule keeps its shape, and neither job comes late unexcused.
WorkedInTime == TypeOK /\ FetchedInTime /\ ForecastInTime

\* A process that stays up fetches again and again, whatever rows its predecessors
\* have left in job_locks.
FetchesForEver == <>[]up => []<>(age["ingestion"] = 0)
=============================================================================
