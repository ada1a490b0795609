------------------------------- MODULE Alerts -------------------------------
(***************************************************************************)
(* Dispatch of price alerts: AlertChecker.run beside the farmers' edits of *)
(* their alerts.  Runs may overlap: the job lock (JobLock) is a lease that *)
(* a slow run outlives, so nothing here relies on it.                      *)
(*                                                                         *)
(* One step is one database call or one call of the SMS gateway.  Which    *)
(* alerts have users, commodities and a crossing price is decided by reads *)
(* of tables this module does not keep: Select picks any subset.           *)
(*                                                                         *)
(* Time is a tick counter.  A run takes its time stamp and its cooldown    *)
(* cutoff once, when it starts.                                            *)
(***************************************************************************)
EXTENDS Integers, FiniteSets

CONSTANTS
  Alerts,     \* alert ids; an id is used once
  Users,      \* farmers
  OwnerOf,    \* alerts.user_id, which no statement changes
  Workers,    \* runs that may overlap
  MaxSms,     \* MAX_SMS_PER_USER
  Cooldown,   \* 24 hours, in ticks
  MaxRun,     \* the longest a run takes, in ticks
  MaxTime,    \* the last tick
  MayFail,    \* whether a call may fail or the process go down in a run
  Never,      \* last_notified_at is null
  None        \* no alert

ASSUME AlertsAssumption ==
  /\ OwnerOf \in [Alerts -> Users]
  /\ MaxSms \in Nat
  /\ Cooldown \in Nat /\ MaxRun \in Nat
  /\ MaxRun <= Cooldown
  /\ MaxTime \in Nat
  /\ MayFail \in BOOLEAN
  /\ Never \notin Nat
  /\ None \notin Alerts

Statuses == {"absent", "active", "inactive", "deleted"}
Calls == {"idle", "select", "dispatch", "claim_null", "send", "rollback",
          "log_sent", "log_failed"}

VARIABLES
  status,  \* alerts.active, and whether the row exists
  last,    \* alerts.last_notified_at
  count,   \* alerts.notified_count
  lapsed,  \* alerts whose expires_at is in the past
  now,
  pc,      \* the next call of each run
  start,   \* now_iso of each run
  due,     \* due_alerts still to be dispatched by each run
  cur,     \* the alert each run is dispatching
  seen,    \* last_notified_at as each run selected it
  seenCount, \* notified_count, likewise
  texts,   \* user_sms_count of each run
  sent,    \* history: the stamps of the SMSs that went out, per alert
  logged,  \* history: the stamps of those notification_log has
  lost,    \* history: the stamps of claims whose run died before an answer
  late     \* history: SMSs for an alert since it was switched off

row == <<status, last, count>>
runs == <<pc, start, due, cur, seen, seenCount, texts>>
history == <<sent, logged, lost, late>>
vars == <<status, last, count, lapsed, now, pc, start, due, cur, seen, seenCount,
          texts, sent, logged, lost, late>>

Stamps == Nat \cup {Never}
Exists(a) == status[a] \in {"active", "inactive"}

\* Slip: whether the farmer has switched the alert off is not looked at.
Active_Ignored(a) == Exists(a)

Active(a) == status[a] = "active"

-----------------------------------------------------------------------------
(***************************************************************************)
(* The cooldown                                                            *)
(***************************************************************************)

\* Stamp t is older than the cooldown_cutoff of run w.
Cool(w, t) == t # Never /\ t < start[w] - Cooldown

\* Slip: the claim is keyed by id and active only.
ClaimHolds_ById(w, a) == Active(a) /\ last[a] # Never

\* WHERE id = a AND active AND last_notified_at < cutoff.
ClaimHolds(w, a) == Active(a) /\ Cool(w, last[a])

\* WHERE id = a AND active AND last_notified_at IS NULL.
NullClaimHolds(a) == Active(a) /\ last[a] = Never

(***************************************************************************)
(* Control of a run                                                        *)
(***************************************************************************)
At(w, call) == pc[w] = call

Goto(w, call, a) ==
  /\ pc'  = [pc EXCEPT ![w] = call]
  /\ cur' = [cur EXCEPT ![w] = a]

\* On to the next due alert, or the run is over.
NextAlert(w, rest) ==
  /\ due' = [due EXCEPT ![w] = rest]
  /\ Goto(w, IF rest = {} THEN "idle" ELSE "dispatch", None)

\* The update of a claim that found its row.
WriteClaim(w, a) ==
  /\ last'  = [last EXCEPT ![a] = start[w]]
  /\ count' = [count EXCEPT ![a] = seenCount[w][a] + 1]

-----------------------------------------------------------------------------
Init ==
  /\ status = [a \in Alerts |-> "absent"]
  /\ last   = [a \in Alerts |-> Never]
  /\ count  = [a \in Alerts |-> 0]
  /\ lapsed = {}
  /\ now    = 0
  /\ pc     = [w \in Workers |-> "idle"]
  /\ start  = [w \in Workers |-> 0]
  /\ due    = [w \in Workers |-> {}]
  /\ cur    = [w \in Workers |-> None]
  /\ seen   = [w \in Workers |-> [a \in Alerts |-> Never]]
  /\ seenCount = [w \in Workers |-> [a \in Alerts |-> 0]]
  /\ texts  = [w \in Workers |-> [u \in Users |-> 0]]
  /\ sent   = [a \in Alerts |-> {}]
  /\ logged = [a \in Alerts |-> {}]
  /\ lost   = [a \in Alerts |-> {}]
  /\ late   = [a \in Alerts |-> 0]

(***************************************************************************)
(* Farmers (routers/alerts.py): one statement each.                        *)
(***************************************************************************)
CreateAlert(a, past) ==
  /\ status[a] = "absent"
  /\ status' = [status EXCEPT ![a] = "active"]
  /\ lapsed' = IF past THEN lapsed \cup {a} ELSE lapsed
  /\ UNCHANGED <<last, count, now, runs, history>>

\* active and expires_at are written if given; nothing else is looked at.
UpdateAlert(a, s, past) ==
  /\ Exists(a)
  /\ status' = [status EXCEPT ![a] = s]
  /\ lapsed' = IF past THEN lapsed \cup {a} ELSE lapsed \ {a}
  /\ late' = IF status[a] = s THEN late ELSE [late EXCEPT ![a] = 0]
  /\ UNCHANGED <<last, count, now, runs, sent, logged, lost>>

DeleteAlert(a) ==
  /\ Exists(a)
  /\ status' = [status EXCEPT ![a] = "deleted"]
  /\ lapsed' = lapsed \ {a}
  /\ UNCHANGED <<last, count, now, runs, history>>

(***************************************************************************)
(* AlertChecker.run                                                        *)
(***************************************************************************)
\* The stamp is taken and alerts past their expiry are switched off.
StartRun(w) ==
  /\ At(w, "idle")
  /\ start' = [start EXCEPT ![w] = now]
  /\ status' = [a \in Alerts |-> IF a \in lapsed /\ Active(a) THEN "inactive" ELSE status[a]]
  /\ late' = [a \in Alerts |-> IF a \in lapsed /\ Active(a) THEN 0 ELSE late[a]]
  /\ texts' = [texts EXCEPT ![w] = [u \in Users |-> 0]]
  /\ Goto(w, "select", None)
  /\ UNCHANGED <<last, count, lapsed, now, due, seen, seenCount, sent, logged, lost>>

\* Active alerts out of their cooldown; the later reads keep some of them.
Select(w) ==
  /\ At(w, "select")
  /\ \E d \in SUBSET {a \in Alerts : Active(a) /\ (last[a] = Never \/ Cool(w, last[a]))} :
       NextAlert(w, d)
  /\ seen' = [seen EXCEPT ![w] = last]
  /\ seenCount' = [seenCount EXCEPT ![w] = count]
  /\ UNCHANGED <<row, lapsed, now, start, texts, history>>

\* The user has had enough SMSs from this run, or normalize_phone makes nothing
\* of the number, which is not kept here: any alert may be skipped.
Skip(w, a) ==
  /\ At(w, "dispatch")
  /\ a \in due[w]
  /\ NextAlert(w, due[w] \ {a})
  /\ UNCHANGED <<row, lapsed, now, start, seen, seenCount, texts, history>>

\* The conditional update; when it matches no row, the one for nulls is tried.
Claim(w, a) ==
  /\ At(w, "dispatch")
  /\ a \in due[w]
  /\ texts[w][OwnerOf[a]] < MaxSms
  /\ due' = [due EXCEPT ![w] = @ \ {a}]
  /\ IF ClaimHolds(w, a)
       THEN WriteClaim(w, a) /\ Goto(w, "send", a)
       ELSE Goto(w, "claim_null", a) /\ UNCHANGED <<last, count>>
  /\ UNCHANGED <<status, lapsed, now, start, seen, seenCount, texts, history>>

ClaimNull(w) ==
  /\ At(w, "claim_null")
  /\ IF NullClaimHolds(cur[w])
       THEN /\ WriteClaim(w, cur[w])
            /\ Goto(w, "send", cur[w])
            /\ UNCHANGED due
       ELSE NextAlert(w, due[w]) /\ UNCHANGED <<last, count>>
  /\ UNCHANGED <<status, lapsed, now, start, seen, seenCount, texts, history>>

\* The gateway answers sent or failed; any exception counts as failed.
SendSms(w) ==
  /\ At(w, "send")
  /\ LET a == cur[w]
     IN \/ /\ Goto(w, "log_sent", a)
           /\ sent' = [sent EXCEPT ![a] = @ \cup {start[w]}]
           /\ late' = IF status[a] = "active" THEN late ELSE [late EXCEPT ![a] = @ + 1]
        \/ Goto(w, "rollback", a) /\ UNCHANGED <<sent, late>>
  /\ UNCHANGED <<row, lapsed, now, start, due, seen, seenCount, texts, logged, lost>>

\* Slip: the time stamp is not put back.
Rollback_KeepsStamp(w) ==
  /\ At(w, "rollback")
  /\ LET a == cur[w]
     IN count' = [count EXCEPT ![a] = IF Exists(a) /\ last[a] = start[w] THEN seenCount[w][a] ELSE @]
  /\ Goto(w, "log_failed", cur[w])
  /\ UNCHANGED <<status, last, lapsed, now, start, due, seen, seenCount, texts, history>>

\* Slip: the counter is not put back.
Rollback_KeepsCount(w) ==
  /\ At(w, "rollback")
  /\ LET a == cur[w]
     IN last' = [last EXCEPT ![a] = IF Exists(a) /\ @ = start[w] THEN seen[w][a] ELSE @]
  /\ Goto(w, "log_failed", cur[w])
  /\ UNCHANGED <<status, count, lapsed, now, start, due, seen, seenCount, texts, history>>

\* Slip: one is taken off the count that was read before the claim.
Rollback_CountsDown(w) ==
  /\ At(w, "rollback")
  /\ LET a == cur[w]
     IN IF Exists(a) /\ last[a] = start[w]
          THEN /\ last'  = [last EXCEPT ![a] = seen[w][a]]
               /\ count' = [count EXCEPT ![a] = seenCount[w][a] - 1]
          ELSE UNCHANGED <<last, count>>
  /\ Goto(w, "log_failed", cur[w])
  /\ UNCHANGED <<status, lapsed, now, start, due, seen, seenCount, texts, history>>

\* The claim is undone if the row still carries this run's stamp.
Rollback(w) ==
  /\ At(w, "rollback")
  /\ LET a == cur[w]
     IN IF Exists(a) /\ last[a] = start[w]
          THEN /\ last'  = [last EXCEPT ![a] = seen[w][a]]
               /\ count' = [count EXCEPT ![a] = seenCount[w][a]]
          ELSE UNCHANGED <<last, count>>
  /\ Goto(w, "log_failed", cur[w])
  /\ UNCHANGED <<status, lapsed, now, start, due, seen, seenCount, texts, history>>

\* The insert refers to the alert: if it is gone, the exception ends the run.
WriteLog(w) ==
  /\ pc[w] \in {"log_sent", "log_failed"}
  /\ LET a == cur[w]
         success == At(w, "log_sent")
     IN IF Exists(a)
          THEN /\ logged' = IF success THEN [logged EXCEPT ![a] = @ \cup {start[w]}] ELSE logged
               /\ texts' = IF success THEN [texts EXCEPT ![w][OwnerOf[a]] = @ + 1] ELSE texts
               /\ NextAlert(w, due[w])
          ELSE NextAlert(w, {}) /\ UNCHANGED <<logged, texts>>
  /\ UNCHANGED <<row, lapsed, now, start, seen, seenCount, sent, lost, late>>

\* A call fails or the process goes down: the run ends where it is.
Die(w) ==
  /\ MayFail
  /\ ~At(w, "idle")
  /\ lost' = IF pc[w] \in {"send", "rollback"}
               THEN [lost EXCEPT ![cur[w]] = @ \cup {start[w]}] ELSE lost
  /\ NextAlert(w, {})
  /\ UNCHANGED <<row, lapsed, now, start, seen, seenCount, texts, sent, logged, late>>

(***************************************************************************)
(* Time                                                                    *)
(***************************************************************************)
Lapse(a) ==
  /\ Exists(a)
  /\ lapsed' = lapsed \cup {a}
  /\ UNCHANGED <<row, now, runs, history>>

Tick ==
  /\ now < MaxTime
  /\ \A w \in Workers : At(w, "idle") \/ now - start[w] < MaxRun
  /\ now' = now + 1
  /\ UNCHANGED <<row, lapsed, runs, history>>

Farmer(a) ==
  \/ \E past \in BOOLEAN : CreateAlert(a, past)
  \/ \E s \in {"active", "inactive"}, past \in BOOLEAN : UpdateAlert(a, s, past)
  \/ DeleteAlert(a)

Run(w) ==
  \/ Select(w)
  \/ \E a \in Alerts : Skip(w, a) \/ Claim(w, a)
  \/ ClaimNull(w) \/ SendSms(w) \/ Rollback(w) \/ WriteLog(w)

Next ==
  \/ \E a \in Alerts : Farmer(a) \/ Lapse(a)
  \/ \E w \in Workers : StartRun(w) \/ Run(w) \/ Die(w)
  \/ Tick

Spec == Init /\ [][Next]_vars

-----------------------------------------------------------------------------
InFlight(a) == {w \in Workers : cur[w] = a /\ pc[w] \in {"send", "rollback"}}

\* The columns and the runs keep their types, and a run between two calls about
\* an alert has that alert in hand (AlertChecker.run).
TypeOK ==
  /\ status \in [Alerts -> Statuses]
  /\ last \in [Alerts -> Stamps]
  /\ count \in [Alerts -> Nat]
  /\ lapsed \subseteq Alerts
  /\ now \in Nat
  /\ pc \in [Workers -> Calls]
  /\ start \in [Workers -> Nat]
  /\ due \in [Workers -> SUBSET Alerts]
  /\ cur \in [Workers -> Alerts \cup {None}]
  /\ seen \in [Workers -> [Alerts -> Stamps]]
  /\ seenCount \in [Workers -> [Alerts -> Nat]]
  /\ texts \in [Workers -> [Users -> Nat]]
  /\ sent \in [Alerts -> SUBSET Nat]
  /\ logged \in [Alerts -> SUBSET Nat]
  /\ lost \in [Alerts -> SUBSET Nat]
  /\ late \in [Alerts -> Nat]
  /\ \A w \in Workers : cur[w] = None <=> pc[w] \in {"idle", "select", "dispatch"}

\* However runs overlap, fail and are undone, whoever is about to send an SMS
\* for an alert is alone with it, and no SMS for it went out under a stamp
\* within the cooldown (the claim in AlertChecker.run).
CooldownKept ==
  \A a \in Alerts : \A w \in InFlight(a) :
    /\ InFlight(a) = {w}
    /\ At(w, "send") => \A t \in sent[a] : t < start[w] - Cooldown

\* notified_count counts the SMSs that went out, the one under way and those
\* a dead run leaves unknown: overlapping runs lose no update and a failed send
\* leaves no trace (new_count and the rollback in AlertChecker.run).
CountExact ==
  \A a \in Alerts : Exists(a) =>
    count[a] = Cardinality(sent[a]) + Cardinality(lost[a]) + Cardinality(InFlight(a))

\* An alert is in its cooldown only for an SMS that went out, is under way or
\* was lost with its run: never for a send that failed (the rollback).
CooldownHasCause ==
  \A a \in Alerts : Exists(a) /\ last[a] # Never =>
    last[a] \in sent[a] \cup lost[a] \cup {start[w] : w \in InFlight(a)}

\* An alert that is switched off, has expired or is deleted costs its farmer at
\* most the one SMS that was under way (the active condition of the claims).
QuietAfterOff == \A a \in Alerts : late[a] <= 1

\* Every SMS is in notification_log or about to be, when no call fails.
EverySmsLogged ==
  \A a \in Alerts :
    sent[a] \subseteq logged[a] \cup {start[w] : w \in {v \in Workers :
                                        cur[v] = a /\ At(v, "log_sent")}}
=============================================================================
