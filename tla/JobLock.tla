------------------------------ MODULE JobLock -------------------------------
(***************************************************************************)
(* The lease in public.job_locks that keeps two executions of one job      *)
(* apart: scheduler ticks (of one process or several), the start-up        *)
(* catch-up task and the admin triggers.  Rows of different job_keys never *)
(* touch each other, so one key is modelled.                               *)
(*                                                                         *)
(* Time is kept as what is left: `left` of the row's expires_at, `lease`   *)
(* of the time a running job asked for; 0 is the last instant that counts  *)
(* as unexpired (the steal condition is expires_at < now()), -1 is past.   *)
(***************************************************************************)
EXTENDS Integers

CONSTANTS
  Executions, \* executions of the job that may be under way
  Names,      \* the names they claim under
  NameOf,     \* p_holder: "scheduler" for every tick, "admin_trigger" for admins
  Asked,      \* p_ttl_minutes of each, in ticks
  MayOverrun, \* whether a job may run for longer than it asked for
  Failures,   \* "die": the process goes down; "lost_answer": the claim's reply is lost
  Nobody      \* in the place of a holder when there is no row

ASSUME LockAssumption ==
  /\ NameOf \in [Executions -> Names]
  /\ Asked \in [Executions -> Nat]
  /\ MayOverrun \in BOOLEAN
  /\ Failures \subseteq {"die", "lost_answer"}
  /\ Nobody \notin Names

VARIABLES
  holder,  \* job_locks.holder, Nobody when there is no row
  left,    \* ticks until the row's expires_at
  running, \* the executions between a claim that answered true and their release
  lease    \* ticks left of what each of them asked for

lockVars == <<holder, left, running, lease>>

Expired == left < 0

\* Slip: the row can be taken over in the tick in which it expires.
RowIsOpen_TooEarly == holder = Nobody \/ left <= 0

\* Slip: on conflict do nothing, a row left behind stays.
RowIsOpen_NoSteal == holder = Nobody

\* Insert, or on conflict update where expires_at < now().
RowIsOpen == holder = Nobody \/ Expired

LockInit ==
  /\ holder = Nobody
  /\ left = -1
  /\ running = {}
  /\ lease = [w \in Executions |-> -1]

\* Slip: on conflict only the expiry is updated, the row keeps its holder.
Take_KeepsHolder(w) ==
  /\ w \notin running
  /\ RowIsOpen
  /\ holder' = IF holder = Nobody THEN NameOf[w] ELSE holder
  /\ left' = Asked[w]

\* claim_job_lock; one that answers false changes nothing and ends the job.
Take(w) ==
  /\ w \notin running
  /\ RowIsOpen
  /\ holder' = NameOf[w]
  /\ left' = Asked[w]

Claim(w) ==
  /\ Take(w)
  /\ running' = running \cup {w}
  /\ lease' = [lease EXCEPT ![w] = Asked[w]]

\* The row is written but the caller never learns of it.
ClaimUnanswered(w) ==
  /\ "lost_answer" \in Failures
  /\ Take(w)
  /\ UNCHANGED <<running, lease>>

\* The job's body is over and release_job_lock deletes the row under its name.
Release(w) ==
  /\ w \in running
  /\ running' = running \ {w}
  /\ holder' = IF holder = NameOf[w] THEN Nobody ELSE holder
  /\ UNCHANGED <<left, lease>>

\* The process goes down, or the release itself fails: the row stays.
Die(w) ==
  /\ "die" \in Failures
  /\ w \in running
  /\ running' = running \ {w}
  /\ UNCHANGED <<holder, left, lease>>

Shortened(t) == IF t < 0 THEN t ELSE t - 1

TimePasses ==
  /\ MayOverrun \/ \A w \in running : lease[w] > 0
  /\ left' = Shortened(left)
  /\ lease' = [w \in Executions |-> Shortened(lease[w])]
  /\ UNCHANGED <<holder, running>>

LockNext ==
  \/ \E w \in Executions : Claim(w) \/ ClaimUnanswered(w) \/ Release(w) \/ Die(w)
  \/ TimePasses

LockSpec == LockInit /\ [][LockNext]_lockVars

\* Time passes, a job that runs ends, and the scheduler fires again and again;
\* not every answer to its claims is lost.
FairLockSpec ==
  /\ LockSpec
  /\ WF_lockVars(TimePasses)
  /\ \A w \in Executions : SF_lockVars(Claim(w)) /\ WF_lockVars(Release(w))

-----------------------------------------------------------------------------
\* The row and the leases keep their shape; the time left never exceeds what was
\* asked for under the name in the row (job_locks, 006_job_locks.sql).
LockTypeOK ==
  /\ holder \in Names \cup {Nobody}
  /\ left \in Int /\ left >= -1
  /\ holder # Nobody => \E w \in Executions : NameOf[w] = holder /\ left <= Asked[w]
  /\ running \subseteq Executions
  /\ lease \in [Executions -> Int]
  /\ \A w \in Executions : -1 <= lease[w] /\ lease[w] <= Asked[w]

InTime(w) == w \in running /\ lease[w] >= 0

\* Two executions that are both within the time they asked for never overlap
\* (claim_job_lock's steal condition and release_job_lock's holder condition).
LeaseExclusive == \A v, w \in Executions : InTime(v) /\ InTime(w) => v = w

\* No two executions overlap at all (the comment on job_locks).
NoDoubleExecution == \A v, w \in running : v = w

\* A row whose owner has died does not keep the job from running for ever
\* (claim_job_lock steals it once it has expired).
LockNotStuck == (holder # Nobody /\ running = {}) ~> (holder = Nobody \/ running # {})
=============================================================================
