---------------------------- MODULE AlertsProofs ----------------------------
(***************************************************************************)
(* Why the cooldown holds however runs of the checker overlap.             *)
(*                                                                         *)
(* A claim writes the stamp of its run.  Until its run has rolled it back  *)
(* or moved on, the row carries that stamp, and no overlapping run can     *)
(* claim the row: its own stamp is at most MaxRun, hence at most Cooldown, *)
(* away.  A rollback puts back what its run selected; a run that has still *)
(* the alert before it either selected the same value or finds one too     *)
(* recent to claim, before the rollback and after it.                      *)
(*                                                                         *)
(* The same reasoning carries over to the counter, which is read and put   *)
(* back with the stamp, and to the SMS that may still follow when a farmer *)
(* switches an alert off: only the run with the claim can send it.         *)
(***************************************************************************)
EXTENDS Alerts, FiniteSetTheorems, TLAPS

Pending(w, a) == a \in due[w] \/ (cur[w] = a /\ pc[w] = "claim_null")
InHand(w, a) == cur[w] = a /\ pc[w] \in {"send", "rollback"}

\* Stamp t keeps run w from claiming.
TooRecent(w, t) == t # Never /\ t >= start[w] - Cooldown

\* Runs are no older than MaxRun.
ClockInv ==
  \A w \in Workers : pc[w] # "idle" => start[w] <= now /\ now <= start[w] + MaxRun

\* What a run holds in its hands.
ControlInv ==
  \A w \in Workers :
    /\ pc[w] \in {"idle", "select"} => due[w] = {}
    /\ cur[w] \notin due[w]

\* A claim is its run's alone, and older SMSs are out of the cooldown.
ClaimInv ==
  \A a \in Alerts : \A w \in Workers : InHand(w, a) =>
    /\ last[a] = start[w]
    /\ \A v \in Workers : InHand(v, a) => v = w
    /\ \A t \in sent[a] : seen[w][a] # Never /\ t <= seen[w][a] /\ t < start[w] - Cooldown

\* The row never forgets the last SMS.
SentInv == \A a \in Alerts : \A t \in sent[a] : last[a] # Never /\ t <= last[a]

\* What a run has selected is still true, or the claim will not succeed; a
\* rollback by another run keeps it so.
SeenInv ==
  \A a \in Alerts : \A w \in Workers : Pending(w, a) =>
    /\ last[a] = seen[w][a] \/ TooRecent(w, last[a])
    /\ \A v \in Workers : InHand(v, a) =>
         seen[v][a] = seen[w][a] \/ TooRecent(w, seen[v][a])

\* Stamp t on the row of a is of an SMS that went out or was lost, or in hand.
Settled(a, t) == t \in sent[a] \cup lost[a]
Carried(a, t) == \E w \in Workers : InHand(w, a) /\ t = start[w]

\* A stamp on the row, or the one a rollback would put back, has a cause.
CauseInv ==
  /\ \A a \in Alerts : status[a] = "absent" => last[a] = Never
  /\ \A a \in Alerts : status[a] # "deleted" /\ last[a] # Never =>
       Settled(a, last[a]) \/ Carried(a, last[a])
  /\ \A a \in Alerts : \A w \in Workers :
       status[a] # "deleted" /\ InHand(w, a) /\ seen[w][a] # Never => Settled(a, seen[w][a])

LEMMA TypeInit == Init => TypeOK
BY AlertsAssumption DEF Init, TypeOK, Statuses, Calls, Stamps

\* A run between two calls about an alert has an alert in hand.
LEMMA CurIsAlert ==
  ASSUME TypeOK, NEW w \in Workers,
         pc[w] \in {"claim_null", "send", "rollback", "log_sent", "log_failed"}
  PROVE  cur[w] \in Alerts
BY DEF TypeOK

\* A run goes to another call, and leaves off one alert for the next.
LEMMA GotoKeepsTypes ==
  ASSUME TypeOK, NEW w \in Workers, NEW call \in Calls, NEW a \in Alerts \cup {None},
         Goto(w, call, a)
  PROVE  pc' \in [Workers -> Calls] /\ cur' \in [Workers -> Alerts \cup {None}]
<1>1. pc' = [pc EXCEPT ![w] = call] /\ cur' = [cur EXCEPT ![w] = a]
  BY DEF Goto
<1>2. pc \in [Workers -> Calls] /\ cur \in [Workers -> Alerts \cup {None}]
  BY DEF TypeOK
<1> QED BY <1>1, <1>2

LEMMA NextAlertKeepsTypes ==
  ASSUME TypeOK, NEW w \in Workers, NEW rest \in SUBSET Alerts, NextAlert(w, rest)
  PROVE  /\ pc' \in [Workers -> Calls] /\ due' \in [Workers -> SUBSET Alerts]
         /\ cur' \in [Workers -> Alerts \cup {None}]
<1>1. due' = [due EXCEPT ![w] = rest] /\ due \in [Workers -> SUBSET Alerts]
  BY DEF NextAlert, TypeOK
<1>2. due' \in [Workers -> SUBSET Alerts]
  BY <1>1
<1>3. Goto(w, IF rest = {} THEN "idle" ELSE "dispatch", None)
  BY DEF NextAlert
<1>4. (IF rest = {} THEN "idle" ELSE "dispatch") \in Calls
  BY DEF Calls
<1> QED BY <1>2, <1>3, <1>4, GotoKeepsTypes

LEMMA TypeStep == TypeOK /\ [Next]_vars => TypeOK'
<1> SUFFICES ASSUME TypeOK, [Next]_vars PROVE TypeOK'
  OBVIOUS
<1>1. ASSUME NEW a \in Alerts, Farmer(a) PROVE TypeOK'
  <2>1. ASSUME NEW past \in BOOLEAN, CreateAlert(a, past) PROVE TypeOK'
    BY <2>1 DEF TypeOK, Statuses, CreateAlert, runs, history
  <2>2. ASSUME NEW s \in {"active", "inactive"}, NEW past \in BOOLEAN,
               UpdateAlert(a, s, past) PROVE TypeOK'
    <3>1. status' \in [Alerts -> Statuses] /\ lapsed' \subseteq Alerts
      BY <2>2 DEF TypeOK, Statuses, UpdateAlert
    <3>2. late' \in [Alerts -> Nat]
      BY <2>2 DEF TypeOK, UpdateAlert
    <3> QED
      BY <2>2, <3>1, <3>2 DEF TypeOK, UpdateAlert, runs
  <2>3. CASE DeleteAlert(a)
    BY <2>3 DEF TypeOK, Statuses, DeleteAlert, runs, history
  <2> QED
    BY <1>1, <2>1, <2>2, <2>3 DEF Farmer
<1>2. ASSUME NEW a \in Alerts, Lapse(a) PROVE TypeOK'
  BY <1>2 DEF TypeOK, Lapse, row, runs, history
<1>3. ASSUME NEW w \in Workers, StartRun(w) PROVE TypeOK'
  BY <1>3, AlertsAssumption DEF TypeOK, Statuses, Calls, StartRun, At, Goto
<1>4. ASSUME NEW w \in Workers, Select(w) PROVE TypeOK'
  BY <1>4, AlertsAssumption DEF TypeOK, Calls, Select, At, Goto, NextAlert, row, history
<1>5. ASSUME NEW w \in Workers, NEW a \in Alerts, Skip(w, a) PROVE TypeOK'
  BY <1>5, AlertsAssumption DEF TypeOK, Calls, Skip, At, Goto, NextAlert, row, history
<1>6. ASSUME NEW w \in Workers, NEW a \in Alerts, Claim(w, a) PROVE TypeOK'
  <2>1. start[w] \in Nat /\ seenCount[w][a] + 1 \in Nat
    BY DEF TypeOK
  <2>2. last' \in [Alerts -> Stamps] /\ count' \in [Alerts -> Nat]
    BY <1>6, <2>1 DEF TypeOK, Stamps, Claim, WriteClaim
  <2>3. pc' \in [Workers -> Calls] /\ cur' \in [Workers -> Alerts \cup {None}]
    <3>1. Goto(w, "send", a) \/ Goto(w, "claim_null", a)
      BY <1>6 DEF Claim
    <3>2. pc' \in [Workers -> Calls]
      BY <3>1 DEF TypeOK, Calls, Goto
    <3>3. cur' \in [Workers -> Alerts \cup {None}]
      BY <3>1 DEF TypeOK, Goto
    <3> QED
      BY <3>2, <3>3
  <2>5. due' \in [Workers -> SUBSET Alerts]
    BY <1>6 DEF TypeOK, Claim
  <2>4. \A v \in Workers : cur'[v] = None <=> pc'[v] \in {"idle", "select", "dispatch"}
    BY <1>6, AlertsAssumption DEF TypeOK, Claim, Goto
  <2> QED
    BY <1>6, <2>2, <2>3, <2>4, <2>5 DEF TypeOK, Claim, history
<1>7. ASSUME NEW w \in Workers, ClaimNull(w) PROVE TypeOK'
  <2>1. cur[w] \in Alerts
    BY <1>7, CurIsAlert DEF ClaimNull, At
  <2>2. start[w] \in Nat /\ seenCount[w][cur[w]] + 1 \in Nat
    BY <2>1 DEF TypeOK
  <2>3. last' \in [Alerts -> Stamps] /\ count' \in [Alerts -> Nat]
    BY <1>7, <2>1, <2>2 DEF TypeOK, Stamps, ClaimNull, WriteClaim
  <2>4. pc' \in [Workers -> Calls] /\ due' \in [Workers -> SUBSET Alerts]
        /\ cur' \in [Workers -> Alerts \cup {None}]
    <3>1. CASE Goto(w, "send", cur[w]) /\ UNCHANGED due
      <4>1. "send" \in Calls /\ due \in [Workers -> SUBSET Alerts]
        BY DEF Calls, TypeOK
      <4> QED BY <2>1, <3>1, <4>1, GotoKeepsTypes
    <3>2. CASE NextAlert(w, due[w])
      <4>1. due[w] \in SUBSET Alerts
        BY DEF TypeOK
      <4> QED BY <3>2, <4>1, NextAlertKeepsTypes
    <3> QED BY <1>7, <3>1, <3>2 DEF ClaimNull
  <2>5. \A v \in Workers : cur'[v] = None <=> pc'[v] \in {"idle", "select", "dispatch"}
    BY <1>7, <2>1, AlertsAssumption DEF TypeOK, ClaimNull, Goto, NextAlert
  <2> QED
    BY <1>7, <2>3, <2>4, <2>5 DEF TypeOK, ClaimNull, history
<1>8. ASSUME NEW w \in Workers, SendSms(w) PROVE TypeOK'
  <2>1. cur[w] \in Alerts
    BY <1>8, CurIsAlert DEF SendSms, At
  <2>2. sent' \in [Alerts -> SUBSET Nat] /\ late' \in [Alerts -> Nat]
    <3>1. sent[cur[w]] \cup {start[w]} \in SUBSET Nat /\ late[cur[w]] + 1 \in Nat
      BY <2>1 DEF TypeOK
    <3>2. /\ sent' = sent \/ sent' = [sent EXCEPT ![cur[w]] = @ \cup {start[w]}]
          /\ late' = late \/ late' = [late EXCEPT ![cur[w]] = @ + 1]
      BY <1>8 DEF SendSms
    <3>5. sent \in [Alerts -> SUBSET Nat] /\ late \in [Alerts -> Nat]
      BY DEF TypeOK
    <3>3. sent' \in [Alerts -> SUBSET Nat]
      BY <2>1, <3>1, <3>2, <3>5
    <3>4. late' \in [Alerts -> Nat]
      BY <2>1, <3>1, <3>2, <3>5
    <3> QED
      BY <3>3, <3>4
  <2>3. pc' \in [Workers -> Calls] /\ cur' \in [Workers -> Alerts \cup {None}]
    <3>1. Goto(w, "log_sent", cur[w]) \/ Goto(w, "rollback", cur[w])
      BY <1>8 DEF SendSms
    <3>2. {"log_sent", "rollback"} \subseteq Calls
      BY DEF Calls
    <3> QED BY <2>1, <3>1, <3>2, GotoKeepsTypes
  <2>4. \A v \in Workers : cur'[v] = None <=> pc'[v] \in {"idle", "select", "dispatch"}
    BY <1>8, <2>1, AlertsAssumption DEF TypeOK, SendSms, Goto
  <2> QED
    BY <1>8, <2>2, <2>3, <2>4 DEF TypeOK, SendSms, row
<1>9. ASSUME NEW w \in Workers, Rollback(w) PROVE TypeOK'
  <2>1. cur[w] \in Alerts
    BY <1>9, CurIsAlert DEF Rollback, At
  <2>2. seen[w][cur[w]] \in Stamps /\ seenCount[w][cur[w]] \in Nat
    BY <2>1 DEF TypeOK
  <2>3. last' \in [Alerts -> Stamps] /\ count' \in [Alerts -> Nat]
    BY <1>9, <2>1, <2>2 DEF TypeOK, Rollback
  <2>4. pc' \in [Workers -> Calls] /\ cur' \in [Workers -> Alerts \cup {None}]
    BY <1>9, <2>1 DEF TypeOK, Calls, Rollback, Goto
  <2>5. \A v \in Workers : cur'[v] = None <=> pc'[v] \in {"idle", "select", "dispatch"}
    BY <1>9, <2>1, AlertsAssumption DEF TypeOK, Rollback, Goto
  <2> QED
    BY <1>9, <2>3, <2>4, <2>5 DEF TypeOK, Rollback, history
<1>10. ASSUME NEW w \in Workers, WriteLog(w) PROVE TypeOK'
  <2>1. cur[w] \in Alerts /\ OwnerOf[cur[w]] \in Users
    BY <1>10, CurIsAlert, AlertsAssumption DEF WriteLog
  <2>2. logged' \in [Alerts -> SUBSET Nat]
    <3>1. logged[cur[w]] \cup {start[w]} \in SUBSET Nat
      BY <2>1 DEF TypeOK
    <3> QED
      <4>1. \/ logged' = logged
            \/ logged' = [logged EXCEPT ![cur[w]] = @ \cup {start[w]}]
        BY <1>10 DEF WriteLog
      <4>2. logged \in [Alerts -> SUBSET Nat]
        BY DEF TypeOK
      <4> QED BY <2>1, <3>1, <4>1, <4>2
  <2>3. texts' \in [Workers -> [Users -> Nat]]
    <3>1. texts[w] \in [Users -> Nat] /\ texts[w][OwnerOf[cur[w]]] + 1 \in Nat
      BY <2>1 DEF TypeOK
    <3>2. [texts[w] EXCEPT ![OwnerOf[cur[w]]] = @ + 1] \in [Users -> Nat]
      BY <2>1, <3>1
    <3> QED
      BY <1>10, <2>1, <3>2 DEF TypeOK, WriteLog
  <2>4. /\ pc' \in [Workers -> Calls]
        /\ due' \in [Workers -> SUBSET Alerts]
        /\ cur' \in [Workers -> Alerts \cup {None}]
    <3>1. NextAlert(w, due[w]) \/ NextAlert(w, {})
      BY <1>10 DEF WriteLog
    <3>2. due[w] \in SUBSET Alerts
      BY DEF TypeOK
    <3> QED
      BY <3>1, <3>2, NextAlertKeepsTypes
  <2>5. \A v \in Workers : cur'[v] = None <=> pc'[v] \in {"idle", "select", "dispatch"}
    BY <1>10, AlertsAssumption DEF TypeOK, WriteLog, Goto, NextAlert
  <2> QED
    BY <1>10, <2>2, <2>3, <2>4, <2>5 DEF TypeOK, WriteLog, row
<1>11. ASSUME NEW w \in Workers, Die(w) PROVE TypeOK'
  <2>1. lost' \in [Alerts -> SUBSET Nat]
    BY <1>11, CurIsAlert DEF TypeOK, Die
  <2>2. pc' \in [Workers -> Calls] /\ due' \in [Workers -> SUBSET Alerts]
        /\ cur' \in [Workers -> Alerts \cup {None}]
    BY <1>11 DEF TypeOK, Calls, Die, Goto, NextAlert
  <2>3. \A v \in Workers : cur'[v] = None <=> pc'[v] \in {"idle", "select", "dispatch"}
    BY <1>11, AlertsAssumption DEF TypeOK, Die, Goto, NextAlert
  <2> QED
    BY <1>11, <2>1, <2>2, <2>3 DEF TypeOK, Die, row
<1>12. CASE Tick
  BY <1>12 DEF TypeOK, Tick, row, runs, history
<1>13. CASE UNCHANGED vars
  BY <1>13 DEF TypeOK, vars
<1> QED
  BY <1>1, <1>2, <1>3, <1>4, <1>5, <1>6, <1>7, <1>8, <1>9, <1>10, <1>11, <1>12, <1>13
  DEF Next, Run

\* The columns and the runs keep their types, for any number of alerts, users
\* and overlapping runs (AlertChecker.run).
THEOREM TypeCorrect == Spec => []TypeOK
BY TypeInit, TypeStep, PTL DEF Spec

-----------------------------------------------------------------------------
IInv == TypeOK /\ ClockInv /\ ControlInv /\ ClaimInv /\ SentInv /\ SeenInv

\* The rows, the stamps and the selections that IInv speaks of.
Untouched == UNCHANGED <<last, start, seen, sent>>

\* A step that only takes alerts out of a run's hands keeps the invariant.
LEMMA LettingGo ==
  ASSUME IInv, TypeOK', Untouched, now' = now,
         NEW w \in Workers, pc[w] # "idle",
         \A v \in Workers : v # w => pc'[v] = pc[v] /\ cur'[v] = cur[v] /\ due'[v] = due[v],
         \A a \in Alerts : Pending(w, a)' => Pending(w, a),
         \A a \in Alerts : InHand(w, a)' => InHand(w, a),
         pc'[w] \in {"idle", "select"} => due'[w] = {},
         cur'[w] \notin due'[w]
  PROVE  IInv'
<1> USE DEF IInv, Untouched
<1>1. \A v \in Workers : \A a \in Alerts :
        (Pending(v, a)' => Pending(v, a)) /\ (InHand(v, a)' => InHand(v, a))
  BY DEF Pending, InHand
<1>2. ClockInv'
  BY DEF ClockInv
<1>3. ControlInv'
  BY DEF ControlInv
<1>4. ClaimInv'
  BY <1>1 DEF ClaimInv
<1>5. SentInv'
  BY DEF SentInv
<1>6. SeenInv'
  BY <1>1 DEF SeenInv, TooRecent
<1> QED
  BY <1>2, <1>3, <1>4, <1>5, <1>6

\* While some run has a claim in hand, no other run's cutoff lets it claim.
LEMMA ClaimShutsOut ==
  ASSUME IInv, NEW v \in Workers, NEW w \in Workers, NEW a \in Alerts,
         InHand(v, a), pc[w] # "idle"
  PROVE  TooRecent(w, last[a])
<1>1. last[a] = start[v] /\ start[v] \in Nat /\ start[w] \in Nat
  BY DEF IInv, ClaimInv, TypeOK
<1>2. now <= start[v] + MaxRun /\ start[w] <= now /\ now \in Nat
  BY DEF IInv, ClockInv, InHand, TypeOK
<1> QED
  BY <1>1, <1>2, AlertsAssumption DEF TooRecent

\* A claim that finds its row.
LEMMA ClaimKeeps ==
  ASSUME IInv, TypeOK', NEW w \in Workers, NEW a \in Alerts,
         Pending(w, a), pc[w] # "idle",
         last[a] = Never \/ Cool(w, last[a]),
         last' = [last EXCEPT ![a] = start[w]],
         pc' = [pc EXCEPT ![w] = "send"], cur' = [cur EXCEPT ![w] = a],
         \A v \in Workers : due'[v] = IF v = w THEN due[w] \ {a} ELSE due[v],
         UNCHANGED <<start, seen, sent, now>>
  PROVE  IInv'
<1> USE DEF IInv
<1>a. /\ \A v \in Workers : start[v] \in Nat /\ start'[v] = start[v]
      /\ now \in Nat /\ now' = now /\ start[w] <= now /\ now <= start[w] + MaxRun
      /\ pc'[w] = "send" /\ cur'[w] = a /\ last'[a] = start[w]
      /\ \A b \in Alerts : b # a => last'[b] = last[b]
      /\ \A v \in Workers : v # w => pc'[v] = pc[v] /\ cur'[v] = cur[v]
      /\ Never \notin Nat /\ Cooldown \in Nat /\ MaxRun \in Nat /\ MaxRun <= Cooldown
  BY AlertsAssumption DEF TypeOK, ClockInv
<1>1. ~TooRecent(w, last[a]) /\ last[a] \in Stamps
  BY <1>a DEF TooRecent, Cool, TypeOK, Stamps
<1>2. last[a] = seen[w][a]
  BY <1>1 DEF SeenInv
<1>3. \A v \in Workers : ~InHand(v, a)
  BY <1>1, ClaimShutsOut
<1>4. \A v \in Workers : \A b \in Alerts : InHand(v, b)' <=> (v # w /\ InHand(v, b)) \/ (v = w /\ b = a)
  BY <1>a DEF InHand
<1>5. \A v \in Workers : \A b \in Alerts : Pending(v, b)' => Pending(v, b) /\ (v # w \/ b # a)
  BY <1>a DEF Pending, TypeOK
<1>6. \A v \in Workers : pc[v] # "idle" => TooRecent(v, last'[a])
  BY <1>a DEF TooRecent, ClockInv
<1>7. ClockInv'
  BY <1>a DEF ClockInv
<1>8. ControlInv'
  BY <1>a DEF ControlInv
<1>9. ClaimInv'
  <2> SUFFICES ASSUME NEW b \in Alerts, NEW v \in Workers, InHand(v, b)'
               PROVE  /\ last'[b] = start[v]
                      /\ \A u \in Workers : InHand(u, b)' => u = v
                      /\ \A t \in sent[b] : seen[v][b] # Never /\ t <= seen[v][b]
                                            /\ t < start[v] - Cooldown
    BY <1>a DEF ClaimInv
  <2>1. CASE b = a
    <3>1. v = w /\ \A u \in Workers : InHand(u, b)' => u = v
      BY <1>3, <1>4, <2>1
    <3>2. \A t \in sent[a] : last[a] # Never /\ t <= last[a] /\ t \in Nat
      BY DEF SentInv, TypeOK
    <3>3. \A t \in sent[a] : t < start[w] - Cooldown
      BY <3>2, <1>a, <1>1 DEF TooRecent, Stamps
    <3> QED
      BY <3>1, <3>2, <3>3, <1>a, <1>2, <2>1
  <2>2. CASE b # a
    <3>1. v # w /\ InHand(v, b)
      BY <1>4, <2>2
    <3>2. \A u \in Workers : InHand(u, b)' => InHand(u, b)
      BY <1>4, <2>2
    <3> QED
      BY <3>1, <3>2, <2>2, <1>a DEF ClaimInv
  <2> QED
    BY <2>1, <2>2
<1>10. SentInv'
  <2> SUFFICES ASSUME NEW b \in Alerts, NEW t \in sent[b]
               PROVE  last'[b] # Never /\ t <= last'[b]
    BY DEF SentInv
  <2>1. last[b] # Never /\ t <= last[b] /\ t \in Nat
    BY DEF SentInv, TypeOK
  <2>2. CASE b = a
    BY <2>1, <2>2, <1>a, <1>1 DEF TooRecent, Stamps
  <2> QED
    BY <2>1, <2>2, <1>a
<1>11. SeenInv'
  <2> SUFFICES ASSUME NEW b \in Alerts, NEW v \in Workers, Pending(v, b)'
               PROVE  /\ last'[b] = seen[v][b] \/ TooRecent(v, last'[b])
                      /\ \A u \in Workers : InHand(u, b)' =>
                           seen[u][b] = seen[v][b] \/ TooRecent(v, seen[u][b])
    BY <1>a DEF SeenInv, TooRecent
  <2>1. Pending(v, b) /\ (v # w \/ b # a)
    BY <1>5
  <2>2. CASE b = a
    <3>1. pc[v] # "idle"
      BY <2>1 DEF Pending, ControlInv
    <3>2. TooRecent(v, last'[b])
      BY <1>6, <2>2, <3>1
    <3>3. last[a] = seen[v][a] \/ TooRecent(v, last[a])
      BY <2>1, <2>2 DEF SeenInv
    <3> QED
      BY <3>2, <3>3, <1>2, <1>3, <1>4, <2>2
  <2>3. CASE b # a
    BY <2>1, <2>3, <1>4, <1>a DEF SeenInv
  <2> QED
    BY <2>2, <2>3
<1> QED
  BY <1>7, <1>8, <1>9, <1>10, <1>11

\* A rollback puts back what its run selected.
LEMMA RollbackKeeps ==
  ASSUME IInv, TypeOK', NEW w \in Workers, Rollback(w)
  PROVE  IInv'
<1> USE DEF IInv
<1> DEFINE a == cur[w]
<1>a. /\ a \in Alerts /\ InHand(w, a) /\ seen[w][a] \in Stamps
      /\ pc'[w] = "log_failed" /\ cur'[w] = a
      /\ \A v \in Workers : v # w => pc'[v] = pc[v] /\ cur'[v] = cur[v]
      /\ start' = start /\ seen' = seen /\ sent' = sent /\ due' = due /\ now' = now
      /\ \A v \in Workers : start[v] \in Nat
      /\ now \in Nat /\ Never \notin Nat
  BY CurIsAlert, AlertsAssumption DEF Rollback, At, InHand, Goto, TypeOK, history
<1>b. /\ \A b \in Alerts : b # a => last'[b] = last[b]
      /\ last'[a] = last[a] \/ last'[a] = seen[w][a]
  BY <1>a DEF Rollback, TypeOK
<1>1. \A v \in Workers : \A b \in Alerts : InHand(v, b)' <=> v # w /\ InHand(v, b)
  BY <1>a DEF InHand
<1>2. \A v \in Workers : \A b \in Alerts : Pending(v, b)' <=> Pending(v, b)
  BY <1>a DEF Pending, InHand
<1>3. \A v \in Workers : \A b \in Alerts : b = a => ~InHand(v, b)'
  BY <1>1, <1>a DEF ClaimInv
<1>4. ClockInv'
  BY <1>a DEF ClockInv, InHand
<1>5. ControlInv'
  BY <1>a DEF ControlInv, InHand
<1>6. ClaimInv'
  <2> SUFFICES ASSUME NEW b \in Alerts, NEW v \in Workers, InHand(v, b)'
               PROVE  /\ last'[b] = start[v]
                      /\ \A u \in Workers : InHand(u, b)' => u = v
                      /\ \A t \in sent[b] : seen[v][b] # Never /\ t <= seen[v][b]
                                            /\ t < start[v] - Cooldown
    BY <1>a DEF ClaimInv
  <2>1. b # a /\ InHand(v, b) /\ \A u \in Workers : InHand(u, b)' => InHand(u, b)
    BY <1>1, <1>3
  <2> QED
    BY <2>1, <1>b DEF ClaimInv
<1>7. SentInv'
  <2>1. \A t \in sent[a] : seen[w][a] # Never /\ t <= seen[w][a]
    BY <1>a DEF ClaimInv
  <2> QED
    BY <2>1, <1>a, <1>b DEF SentInv
<1>8. SeenInv'
  <2> SUFFICES ASSUME NEW b \in Alerts, NEW v \in Workers, Pending(v, b)
               PROVE  /\ last'[b] = seen[v][b] \/ TooRecent(v, last'[b])
                      /\ \A u \in Workers : InHand(u, b) =>
                           seen[u][b] = seen[v][b] \/ TooRecent(v, seen[u][b])
    BY <1>a, <1>1, <1>2 DEF SeenInv, TooRecent
  <2>1. \A u \in Workers : InHand(u, b) => seen[u][b] = seen[v][b] \/ TooRecent(v, seen[u][b])
    BY DEF SeenInv
  <2>2. last[b] = seen[v][b] \/ TooRecent(v, last[b])
    BY DEF SeenInv
  <2> QED
    BY <2>1, <2>2, <1>a, <1>b
<1> QED
  BY <1>4, <1>5, <1>6, <1>7, <1>8

\* A selection takes only alerts nobody has a claim on.
LEMMA SelectKeeps ==
  ASSUME IInv, TypeOK', NEW w \in Workers, Select(w)
  PROVE  IInv'
<1> USE DEF IInv
<1>a. /\ last' = last /\ sent' = sent /\ start' = start /\ now' = now
      /\ seen' = [seen EXCEPT ![w] = last]
      /\ pc[w] = "select" /\ cur[w] = None /\ cur'[w] = None
      /\ pc'[w] \in {"idle", "dispatch"}
      /\ pc'[w] = "idle" => due'[w] = {}
      /\ \A v \in Workers : v # w => pc'[v] = pc[v] /\ cur'[v] = cur[v] /\ due'[v] = due[v]
      /\ None \notin Alerts
      /\ seen'[w] = last /\ \A v \in Workers : v # w => seen'[v] = seen[v]
  BY AlertsAssumption DEF Select, At, NextAlert, Goto, TypeOK, row, history
<1>b. \A b \in due'[w] : b \in Alerts /\ (last[b] = Never \/ Cool(w, last[b]))
  <2> PICK d \in SUBSET {b \in Alerts : Active(b) /\ (last[b] = Never \/ Cool(w, last[b]))} :
        NextAlert(w, d)
    BY DEF Select
  <2> QED
    BY DEF NextAlert, TypeOK
<1>1. \A v \in Workers : \A b \in Alerts : InHand(v, b)' <=> v # w /\ InHand(v, b)
  BY <1>a DEF InHand
<1>2. \A v \in Workers : \A b \in Alerts : v # w => (Pending(v, b)' <=> Pending(v, b))
  BY <1>a DEF Pending
<1>3. \A b \in Alerts : Pending(w, b)' => b \in due'[w]
  BY <1>a DEF Pending
<1>4. ClockInv'
  BY <1>a DEF ClockInv
<1>5. ControlInv'
  BY <1>a, <1>b DEF ControlInv
<1>6. ClaimInv'
  BY <1>1, <1>a DEF ClaimInv
<1>7. SentInv'
  BY <1>a DEF SentInv
<1>8. SeenInv'
  <2> SUFFICES ASSUME NEW b \in Alerts, NEW v \in Workers, Pending(v, b)'
               PROVE  /\ last[b] = seen'[v][b] \/ TooRecent(v, last[b])
                      /\ \A u \in Workers : u # w /\ InHand(u, b) =>
                           seen[u][b] = seen'[v][b] \/ TooRecent(v, seen[u][b])
    BY <1>a, <1>1 DEF SeenInv, TooRecent
  <2>1. CASE v = w
    <3>1. ~TooRecent(w, last[b])
      BY <2>1, <1>3, <1>b, AlertsAssumption DEF TooRecent, Cool, TypeOK, Stamps
    <3>2. \A u \in Workers : ~InHand(u, b)
      BY <3>1, <1>a, ClaimShutsOut
    <3> QED
      BY <3>2, <2>1, <1>a
  <2>2. CASE v # w
    BY <2>2, <1>2, <1>a DEF SeenInv
  <2> QED
    BY <2>1, <2>2
<1> QED
  BY <1>4, <1>5, <1>6, <1>7, <1>8

\* An SMS goes out under the stamp the row carries.
LEMMA SendKeeps ==
  ASSUME IInv, TypeOK', NEW w \in Workers, SendSms(w)
  PROVE  IInv'
<1> USE DEF IInv
<1> DEFINE a == cur[w]
<1>a. /\ a \in Alerts /\ InHand(w, a) /\ cur' = cur /\ due' = due /\ now' = now
      /\ last' = last /\ start' = start /\ seen' = seen
      /\ pc[w] = "send" /\ \A v \in Workers : v # w => pc'[v] = pc[v]
      /\ \A b \in Alerts : b # a => sent'[b] = sent[b]
  BY CurIsAlert DEF SendSms, At, InHand, Goto, TypeOK, row
<1>b. \/ pc'[w] = "log_sent" /\ sent'[a] = sent[a] \cup {start[w]}
      \/ pc'[w] = "rollback" /\ sent'[a] = sent[a]
  BY <1>a DEF SendSms, Goto, TypeOK
<1>1. \A v \in Workers : \A b \in Alerts : InHand(v, b)' => InHand(v, b)
  BY <1>a, <1>b DEF InHand
<1>2. \A v \in Workers : \A b \in Alerts : Pending(v, b)' => Pending(v, b)
  BY <1>a, <1>b DEF Pending
<1>3. ClockInv'
  BY <1>a DEF ClockInv
<1>4. ControlInv'
  BY <1>a, <1>b DEF ControlInv
<1>5. ClaimInv'
  <2> SUFFICES ASSUME NEW b \in Alerts, NEW v \in Workers, InHand(v, b)'
               PROVE  sent'[b] = sent[b]
    BY <1>1, <1>a DEF ClaimInv
  <2>1. CASE b = a /\ pc'[w] = "log_sent"
    <3>1. v = w
      BY <2>1, <1>1, <1>a DEF ClaimInv
    <3> QED
      BY <3>1, <2>1 DEF InHand
  <2> QED
    BY <2>1, <1>a, <1>b
<1>6. SentInv'
  <2>1. last[a] = start[w] /\ start[w] \in Nat /\ Never \notin Nat
    BY <1>a, AlertsAssumption DEF ClaimInv, TypeOK
  <2> QED
    BY <2>1, <1>a, <1>b DEF SentInv
<1>7. SeenInv'
  BY <1>1, <1>2, <1>a DEF SeenInv, TooRecent
<1> QED
  BY <1>3, <1>4, <1>5, <1>6, <1>7

-----------------------------------------------------------------------------
LEMMA InvInit == Init => IInv
BY TypeInit, AlertsAssumption
DEF Init, IInv, ClockInv, ControlInv, ClaimInv, SentInv, SeenInv, Pending, InHand

LEMMA InvStep == IInv /\ [Next]_vars => IInv'
<1> SUFFICES ASSUME IInv, [Next]_vars PROVE IInv'
  OBVIOUS
<1>0. TypeOK /\ TypeOK'
  BY TypeStep DEF IInv
<1> USE DEF Untouched
\* Steps that leave the runs alone.
<1>1. ASSUME Untouched, UNCHANGED <<pc, cur, due>>, now' = now PROVE IInv'
  BY <1>0, <1>1
  DEF IInv, ClockInv, ControlInv, ClaimInv, SentInv, SeenInv, Pending, InHand, TooRecent
<1>2. ASSUME NEW a \in Alerts, Farmer(a) PROVE IInv'
  BY <1>1, <1>2 DEF Farmer, CreateAlert, UpdateAlert, DeleteAlert, runs, history
<1>3. ASSUME NEW a \in Alerts, Lapse(a) PROVE IInv'
  BY <1>1, <1>3 DEF Lapse, row, runs, history
<1>4. CASE Tick
  <2>1. ClockInv'
    <3>1. \A w \in Workers : pc[w] # "idle" => now - start[w] < MaxRun
      BY <1>4 DEF Tick, At
    <3> QED
      BY <1>0, <1>4, <3>1, AlertsAssumption DEF IInv, ClockInv, TypeOK, Tick, runs
  <2> QED
    BY <1>0, <1>4, <2>1
    DEF Tick, row, runs, history, IInv, ControlInv, ClaimInv, SentInv, SeenInv, Pending,
        InHand, TooRecent
<1>5. ASSUME NEW w \in Workers, StartRun(w) PROVE IInv'
  <2>1. /\ last' = last /\ seen' = seen /\ sent' = sent /\ due' = due /\ now' = now
        /\ pc[w] = "idle" /\ pc'[w] = "select" /\ cur'[w] = None /\ start'[w] = now
        /\ \A v \in Workers : v # w => /\ pc'[v] = pc[v]
                                       /\ cur'[v] = cur[v]
                                       /\ start'[v] = start[v]
        /\ due[w] = {} /\ now \in Nat /\ None \notin Alerts
    BY <1>0, <1>5, AlertsAssumption DEF StartRun, At, Goto, TypeOK, IInv, ControlInv
  <2>2. \A v \in Workers : \A a \in Alerts :
          /\ InHand(v, a)' <=> v # w /\ InHand(v, a)
          /\ Pending(v, a)' <=> v # w /\ Pending(v, a)
    BY <2>1, <1>0 DEF InHand, Pending
  <2>3. ClockInv' /\ ControlInv'
    BY <2>1, AlertsAssumption DEF IInv, ClockInv, ControlInv
  <2>4. ClaimInv' /\ SentInv'
    BY <2>1, <2>2 DEF IInv, ClaimInv, SentInv
  <2>5. SeenInv'
    BY <2>1, <2>2 DEF IInv, SeenInv, TooRecent
  <2> QED
    BY <1>0, <2>3, <2>4, <2>5 DEF IInv
<1>6. ASSUME NEW w \in Workers, Select(w) PROVE IInv'
  BY <1>0, <1>6, SelectKeeps
<1>7. ASSUME NEW w \in Workers, NEW a \in Alerts, Skip(w, a) PROVE IInv'
  <2>1. /\ Untouched /\ now' = now /\ pc[w] = "dispatch" /\ cur[w] = None /\ cur'[w] = None
        /\ \A v \in Workers : v # w => pc'[v] = pc[v] /\ cur'[v] = cur[v] /\ due'[v] = due[v]
        /\ due'[w] = due[w] \ {a} /\ None \notin Alerts
        /\ pc'[w] = IF due'[w] = {} THEN "idle" ELSE "dispatch"
    BY <1>0, <1>7, AlertsAssumption DEF Skip, At, Goto, NextAlert, TypeOK, row, history
  <2>2. \A b \in Alerts : (Pending(w, b)' => Pending(w, b)) /\ (InHand(w, b)' => InHand(w, b))
    BY <2>1 DEF Pending, InHand
  <2>3. (pc'[w] \in {"idle", "select"} => due'[w] = {}) /\ cur'[w] \notin due'[w]
    BY <1>0, <2>1 DEF TypeOK
  <2> QED
    BY <1>0, <2>1, <2>2, <2>3, LettingGo
<1>8. ASSUME NEW w \in Workers, NEW a \in Alerts, Claim(w, a) PROVE IInv'
  <2>1. /\ pc[w] = "dispatch" /\ cur[w] = None /\ a \in due[w]
        /\ due' = [due EXCEPT ![w] = @ \ {a}]
        /\ now' = now /\ start' = start /\ seen' = seen /\ sent' = sent
    BY <1>0, <1>8 DEF Claim, At, TypeOK, history
  <2>2. \A v \in Workers : due'[v] = IF v = w THEN due[w] \ {a} ELSE due[v]
    BY <1>0, <2>1 DEF TypeOK
  <2>3. CASE ClaimHolds(w, a)
    <3>1. Pending(w, a)
      BY <2>1 DEF Pending
    <3>2. /\ Cool(w, last[a]) /\ last' = [last EXCEPT ![a] = start[w]]
          /\ pc' = [pc EXCEPT ![w] = "send"] /\ cur' = [cur EXCEPT ![w] = a]
      BY <1>8, <2>3 DEF Claim, ClaimHolds, WriteClaim, Goto
    <3> QED
      BY <1>0, <2>1, <2>2, <3>1, <3>2, ClaimKeeps
  <2>4. CASE ~ClaimHolds(w, a)
    <3>1. /\ last' = last /\ pc' = [pc EXCEPT ![w] = "claim_null"] /\ cur' = [cur EXCEPT ![w] = a]
      BY <1>8, <2>4 DEF Claim, Goto
    <3>2. /\ pc'[w] = "claim_null" /\ cur'[w] = a /\ due'[w] = due[w] \ {a}
          /\ \A v \in Workers : v # w => pc'[v] = pc[v] /\ cur'[v] = cur[v] /\ due'[v] = due[v]
      BY <1>0, <3>1, <2>2 DEF TypeOK
    <3>3. \A b \in Alerts : (Pending(w, b)' => Pending(w, b)) /\ (InHand(w, b)' => InHand(w, b))
      BY <3>2, <2>1 DEF Pending, InHand
    <3> QED
      BY <1>0, <2>1, <3>1, <3>2, <3>3, LettingGo
  <2> QED
    BY <2>3, <2>4
<1>9. ASSUME NEW w \in Workers, ClaimNull(w) PROVE IInv'
  <2>1. /\ pc[w] = "claim_null" /\ cur[w] \in Alerts
        /\ now' = now /\ start' = start /\ seen' = seen /\ sent' = sent
    BY <1>0, <1>9, CurIsAlert DEF ClaimNull, At, history
  <2>2. CASE NullClaimHolds(cur[w])
    <3>1. /\ last[cur[w]] = Never /\ last' = [last EXCEPT ![cur[w]] = start[w]]
          /\ pc' = [pc EXCEPT ![w] = "send"] /\ cur' = [cur EXCEPT ![w] = cur[w]]
          /\ due' = due
      BY <1>9, <2>2 DEF ClaimNull, NullClaimHolds, WriteClaim, Goto
    <3>2. \A v \in Workers : due'[v] = IF v = w THEN due[w] \ {cur[w]} ELSE due[v]
      BY <3>1 DEF IInv, ControlInv
    <3>3. Pending(w, cur[w])
      BY <2>1 DEF Pending
    <3> QED
      BY <1>0, <2>1, <3>1, <3>2, <3>3, ClaimKeeps
  <2>3. CASE ~NullClaimHolds(cur[w])
    <3>1. NextAlert(w, due[w]) /\ last' = last
      BY <1>9, <2>3 DEF ClaimNull
    <3>2. /\ cur'[w] = None /\ due'[w] = due[w] /\ None \notin Alerts
          /\ pc'[w] = IF due[w] = {} THEN "idle" ELSE "dispatch"
          /\ \A v \in Workers : v # w => pc'[v] = pc[v] /\ cur'[v] = cur[v] /\ due'[v] = due[v]
      BY <1>0, <3>1, AlertsAssumption DEF NextAlert, Goto, TypeOK
    <3>3. \A b \in Alerts : (Pending(w, b)' => Pending(w, b)) /\ (InHand(w, b)' => InHand(w, b))
      BY <3>2 DEF Pending, InHand
    <3>4. (pc'[w] \in {"idle", "select"} => due'[w] = {}) /\ cur'[w] \notin due'[w]
      BY <1>0, <3>2 DEF TypeOK
    <3> QED
      BY <1>0, <2>1, <3>1, <3>2, <3>3, <3>4, LettingGo
  <2> QED
    BY <2>2, <2>3
<1>10. ASSUME NEW w \in Workers, SendSms(w) PROVE IInv'
  BY <1>0, <1>10, SendKeeps
<1>11. ASSUME NEW w \in Workers, Rollback(w) PROVE IInv'
  BY <1>0, <1>11, RollbackKeeps
<1>12. ASSUME NEW w \in Workers, NEW rest \in {due[w], {}}, NextAlert(w, rest), Untouched,
              now' = now, pc[w] # "idle"
       PROVE  IInv'
  <2>1. /\ cur'[w] = None /\ due'[w] = rest /\ None \notin Alerts
        /\ pc'[w] = IF rest = {} THEN "idle" ELSE "dispatch"
        /\ \A v \in Workers : v # w => pc'[v] = pc[v] /\ cur'[v] = cur[v] /\ due'[v] = due[v]
    BY <1>0, <1>12, AlertsAssumption DEF NextAlert, Goto, TypeOK
  <2>2. \A b \in Alerts : (Pending(w, b)' => Pending(w, b)) /\ (InHand(w, b)' => InHand(w, b))
    BY <2>1 DEF Pending, InHand
  <2>3. (pc'[w] \in {"idle", "select"} => due'[w] = {}) /\ cur'[w] \notin due'[w]
    BY <1>0, <2>1 DEF TypeOK
  <2> QED
    BY <1>0, <1>12, <2>1, <2>2, <2>3, LettingGo
<1>13. ASSUME NEW w \in Workers, WriteLog(w) PROVE IInv'
  BY <1>12, <1>13 DEF WriteLog, row
<1>14. ASSUME NEW w \in Workers, Die(w) PROVE IInv'
  BY <1>12, <1>14 DEF Die, At, row
<1>15. CASE UNCHANGED vars
  BY <1>1, <1>15 DEF vars
<1> QED
  BY <1>2, <1>3, <1>4, <1>5, <1>6, <1>7, <1>8, <1>9, <1>10, <1>11, <1>13, <1>14, <1>15
  DEF Next, Run

\* However runs of the checker overlap, die and roll back, whoever is about to
\* send an SMS for an alert is alone with it and outside the cooldown of every
\* SMS that went out, for any number of alerts and runs, provided a run is no
\* longer than the cooldown (the claim in AlertChecker.run).
THEOREM CooldownIsKept == Spec => []CooldownKept
<1>1. IInv => CooldownKept
  BY DEF IInv, ClaimInv, CooldownKept, InFlight, InHand, At
<1> QED
  BY <1>1, InvInit, InvStep, PTL DEF Spec

-----------------------------------------------------------------------------
\* A step that neither writes stamps nor loses a claim keeps their causes.
LEMMA CausesStay ==
  ASSUME CauseInv, last' = last, seen' = seen,
         \A a \in Alerts : /\ status'[a] = "absent" => status[a] = "absent"
                           /\ status'[a] # "deleted" => status[a] # "deleted"
                           /\ sent[a] \subseteq sent'[a] /\ lost[a] \subseteq lost'[a],
         \A a \in Alerts : \A w \in Workers :
           /\ InHand(w, a)' => InHand(w, a)
           /\ InHand(w, a) => \/ InHand(w, a)' /\ start'[w] = start[w]
                              \/ start[w] \in sent'[a] \cup lost'[a]
  PROVE  CauseInv'
BY DEF CauseInv, Settled, Carried

\* A claim that finds its row.
LEMMA ClaimCauses ==
  ASSUME IInv, CauseInv, TypeOK', NEW w \in Workers, NEW a \in Alerts,
         Pending(w, a), pc[w] \in {"dispatch", "claim_null"}, Active(a),
         last[a] = Never \/ Cool(w, last[a]),
         last' = [last EXCEPT ![a] = start[w]],
         pc' = [pc EXCEPT ![w] = "send"], cur' = [cur EXCEPT ![w] = a],
         UNCHANGED <<status, start, seen, sent, lost>>
  PROVE  CauseInv'
<1>a. /\ pc'[w] = "send" /\ cur'[w] = a /\ last'[a] = start[w]
      /\ \A b \in Alerts : b # a => last'[b] = last[b]
      /\ \A v \in Workers : v # w => pc'[v] = pc[v] /\ cur'[v] = cur[v]
      /\ start' = start /\ seen' = seen /\ sent' = sent /\ lost' = lost /\ status' = status
  BY DEF IInv, TypeOK
<1>1. ~TooRecent(w, last[a])
  BY AlertsAssumption DEF TooRecent, Cool, IInv, TypeOK, Stamps
<1>2. last[a] = seen[w][a] /\ \A v \in Workers : ~InHand(v, a)
  BY <1>1, ClaimShutsOut DEF IInv, SeenInv
<1>3. last[a] # Never => Settled(a, last[a])
  BY <1>2 DEF CauseInv, Carried, Active
<1>4. /\ InHand(w, a)'
      /\ \A v \in Workers : \A b \in Alerts : InHand(v, b)' => (v = w /\ b = a) \/ InHand(v, b)
  BY <1>a DEF InHand
<1>5. \A v \in Workers : \A b \in Alerts : InHand(v, b) => InHand(v, b)'
  BY <1>a DEF InHand
<1>6. \A b \in Alerts : status[b] # "deleted" /\ last'[b] # Never =>
        (Settled(b, last[b]) \/ Carried(b, last[b]))' 
  BY <1>a, <1>4, <1>5 DEF CauseInv, Settled, Carried
<1>7. \A b \in Alerts : \A v \in Workers :
        status[b] # "deleted" /\ InHand(v, b)' /\ seen[v][b] # Never => Settled(b, seen[v][b])
  BY <1>2, <1>3, <1>4 DEF CauseInv
<1>8. \A b \in Alerts : status[b] = "absent" => last'[b] = Never
  BY <1>a DEF CauseInv, Active
<1> QED
  BY <1>a, <1>6, <1>7, <1>8 DEF CauseInv, Settled

LEMMA CauseStep == IInv /\ CauseInv /\ [Next]_vars => CauseInv'
<1> SUFFICES ASSUME IInv, CauseInv, [Next]_vars PROVE CauseInv'
  OBVIOUS
<1>0. TypeOK /\ TypeOK'
  BY TypeStep DEF IInv
<1>1. ASSUME NEW a \in Alerts, Farmer(a) \/ Lapse(a) PROVE CauseInv'
  <2>1. /\ last' = last /\ seen' = seen /\ sent' = sent /\ lost' = lost
        /\ pc' = pc /\ cur' = cur /\ start' = start
    BY <1>1 DEF Farmer, CreateAlert, UpdateAlert, DeleteAlert, Lapse, row, runs, history
  <2>2. \A b \in Alerts : /\ status'[b] = "absent" => status[b] = "absent"
                          /\ status'[b] # "deleted" => status[b] # "deleted"
    BY <1>0, <1>1
    DEF Farmer, CreateAlert, UpdateAlert, DeleteAlert, Lapse, Exists, TypeOK, row
  <2> QED
    BY <2>1, <2>2, CausesStay DEF InHand
<1>2. ASSUME NEW w \in Workers, StartRun(w) PROVE CauseInv'
  <2>1. /\ last' = last /\ seen' = seen /\ sent' = sent /\ lost' = lost
        /\ \A v \in Workers : v # w => pc'[v] = pc[v] /\ cur'[v] = cur[v] /\ start'[v] = start[v]
        /\ pc[w] = "idle" /\ pc'[w] = "select"
        /\ \A b \in Alerts : /\ status'[b] = "absent" => status[b] = "absent"
                             /\ status'[b] # "deleted" => status[b] # "deleted"
    BY <1>0, <1>2 DEF StartRun, At, Goto, TypeOK, Active
  <2> QED
    BY <2>1, CausesStay DEF InHand
<1>3. ASSUME NEW w \in Workers, Select(w) PROVE CauseInv'
  <2>1. /\ last' = last /\ start' = start /\ sent' = sent /\ lost' = lost /\ status' = status
        /\ \A v \in Workers : v # w => /\ pc'[v] = pc[v] /\ cur'[v] = cur[v]
                                       /\ seen'[v] = seen[v]
        /\ pc[w] = "select" /\ pc'[w] \in {"idle", "dispatch"}
    BY <1>0, <1>3 DEF Select, At, NextAlert, Goto, TypeOK, row, history
  <2>2. \A v \in Workers : \A b \in Alerts : InHand(v, b)' <=> v # w /\ InHand(v, b)
    BY <2>1 DEF InHand
  <2>3. \A v \in Workers : \A b \in Alerts : InHand(v, b) => v # w
    BY <2>1 DEF InHand
  <2> QED
    BY <2>1, <2>2, <2>3 DEF CauseInv, Settled, Carried
<1>4. ASSUME NEW w \in Workers, NEW a \in Alerts, Skip(w, a) PROVE CauseInv'
  <2>1. /\ last' = last /\ seen' = seen /\ sent' = sent /\ lost' = lost /\ start' = start
        /\ status' = status
        /\ \A v \in Workers : v # w => pc'[v] = pc[v] /\ cur'[v] = cur[v]
        /\ pc[w] = "dispatch" /\ pc'[w] \in {"idle", "dispatch"}
    BY <1>0, <1>4 DEF Skip, At, Goto, NextAlert, TypeOK, row, history
  <2> QED
    BY <2>1, CausesStay DEF InHand
<1>5. ASSUME NEW w \in Workers, NEW a \in Alerts, Claim(w, a) PROVE CauseInv'
  <2>1. /\ start' = start /\ seen' = seen /\ sent' = sent /\ lost' = lost /\ status' = status
        /\ pc[w] = "dispatch" /\ a \in due[w]
    BY <1>5 DEF Claim, At, history
  <2>2. CASE ClaimHolds(w, a)
    <3>1. /\ Cool(w, last[a]) /\ Active(a) /\ last' = [last EXCEPT ![a] = start[w]]
          /\ pc' = [pc EXCEPT ![w] = "send"] /\ cur' = [cur EXCEPT ![w] = a]
          /\ Pending(w, a)
      BY <1>5, <2>1, <2>2 DEF Claim, ClaimHolds, WriteClaim, Goto, Pending
    <3> QED
      BY <1>0, <2>1, <3>1, ClaimCauses
  <2>3. CASE ~ClaimHolds(w, a)
    <3>1. /\ last' = last
          /\ pc' = [pc EXCEPT ![w] = "claim_null"] /\ cur' = [cur EXCEPT ![w] = a]
      BY <1>5, <2>3 DEF Claim, Goto
    <3>2. /\ pc'[w] = "claim_null"
          /\ \A v \in Workers : v # w => pc'[v] = pc[v] /\ cur'[v] = cur[v]
      BY <1>0, <3>1 DEF TypeOK
    <3> QED
      BY <2>1, <3>1, <3>2, CausesStay DEF InHand
  <2> QED
    BY <2>2, <2>3
<1>6. ASSUME NEW w \in Workers, ClaimNull(w) PROVE CauseInv'
  <2>1. /\ start' = start /\ seen' = seen /\ sent' = sent /\ lost' = lost /\ status' = status
        /\ pc[w] = "claim_null" /\ cur[w] \in Alerts
    BY <1>0, <1>6, CurIsAlert DEF ClaimNull, At, history
  <2>2. CASE NullClaimHolds(cur[w])
    <3>1. /\ last[cur[w]] = Never /\ Active(cur[w])
          /\ last' = [last EXCEPT ![cur[w]] = start[w]]
          /\ pc' = [pc EXCEPT ![w] = "send"] /\ cur' = [cur EXCEPT ![w] = cur[w]]
          /\ Pending(w, cur[w])
      BY <1>6, <2>1, <2>2 DEF ClaimNull, NullClaimHolds, WriteClaim, Goto, Pending
    <3> QED
      BY <1>0, <2>1, <3>1, ClaimCauses
  <2>3. CASE ~NullClaimHolds(cur[w])
    <3>1. /\ last' = last /\ pc'[w] \in {"idle", "dispatch"}
          /\ \A v \in Workers : v # w => pc'[v] = pc[v] /\ cur'[v] = cur[v]
      BY <1>0, <1>6, <2>3 DEF ClaimNull, NextAlert, Goto, TypeOK
    <3> QED
      BY <2>1, <3>1, CausesStay DEF InHand
  <2> QED
    BY <2>2, <2>3
<1>7. ASSUME NEW w \in Workers, SendSms(w) PROVE CauseInv'
  <2>1. /\ cur[w] \in Alerts /\ cur' = cur /\ start' = start /\ seen' = seen /\ last' = last
        /\ status' = status /\ lost' = lost
        /\ pc[w] = "send" /\ \A v \in Workers : v # w => pc'[v] = pc[v]
        /\ \A b \in Alerts : b # cur[w] => sent'[b] = sent[b]
    BY <1>0, <1>7, CurIsAlert DEF SendSms, At, Goto, TypeOK, row
  <2>2. \/ pc'[w] = "log_sent" /\ sent'[cur[w]] = sent[cur[w]] \cup {start[w]}
        \/ pc'[w] = "rollback" /\ sent'[cur[w]] = sent[cur[w]]
    BY <1>0, <1>7, <2>1 DEF SendSms, Goto, TypeOK
  <2>3. \A b \in Alerts : sent[b] \subseteq sent'[b]
    BY <2>1, <2>2
  <2>4. \A b \in Alerts : \A v \in Workers :
          /\ InHand(v, b)' => InHand(v, b)
          /\ InHand(v, b) => \/ InHand(v, b)'
                             \/ start[v] \in sent'[b] \cup lost'[b]
    BY <2>1, <2>2 DEF InHand
  <2> QED
    BY <2>1, <2>3, <2>4, CausesStay
<1>8. ASSUME NEW w \in Workers, Rollback(w) PROVE CauseInv'
  <2>1. /\ cur[w] \in Alerts /\ InHand(w, cur[w])
        /\ start' = start /\ seen' = seen /\ sent' = sent /\ lost' = lost /\ status' = status
        /\ cur' = cur /\ pc'[w] = "log_failed"
        /\ \A v \in Workers : v # w => pc'[v] = pc[v]
        /\ \A b \in Alerts : b # cur[w] => last'[b] = last[b]
    BY <1>0, <1>8, CurIsAlert DEF Rollback, At, Goto, TypeOK, InHand, history
  <2>2. \A v \in Workers : \A b \in Alerts : InHand(v, b)' <=> v # w /\ InHand(v, b)
    BY <2>1 DEF InHand
  <2>3. last[cur[w]] = start[w] /\ start[w] # Never
    BY <2>1, AlertsAssumption DEF IInv, ClaimInv, TypeOK
  <2>4. status[cur[w]] # "deleted" => last'[cur[w]] = seen[w][cur[w]]
    <3>1. status[cur[w]] # "deleted" => Exists(cur[w])
      BY <1>0, <2>1, <2>3 DEF CauseInv, TypeOK, Statuses, Exists
    <3> QED
      BY <1>0, <1>8, <2>1, <2>3, <3>1 DEF Rollback, TypeOK
  <2>5. \A b \in Alerts : status[b] = "absent" => last'[b] = Never
    BY <2>1, <2>3 DEF CauseInv
  <2>6. \A b \in Alerts : status[b] # "deleted" /\ last'[b] # Never =>
          (Settled(b, last[b]) \/ Carried(b, last[b]))'
    <3> SUFFICES ASSUME NEW b \in Alerts, status[b] # "deleted", last'[b] # Never
                 PROVE  (Settled(b, last[b]) \/ Carried(b, last[b]))'
      OBVIOUS
    <3>1. CASE b = cur[w]
      BY <3>1, <2>1, <2>4 DEF CauseInv, Settled
    <3>2. CASE b # cur[w]
      <4>1. \A v \in Workers : InHand(v, b) => InHand(v, b)'
        BY <2>1, <2>2, <3>2 DEF InHand
      <4> QED
        BY <2>1, <3>2, <4>1 DEF CauseInv, Settled, Carried
    <3> QED
      BY <3>1, <3>2
  <2>7. \A b \in Alerts : \A v \in Workers :
          status[b] # "deleted" /\ InHand(v, b)' /\ seen[v][b] # Never => Settled(b, seen[v][b])
    BY <2>2 DEF CauseInv
  <2> QED
    BY <2>1, <2>5, <2>6, <2>7 DEF CauseInv, Settled
<1>9. ASSUME NEW w \in Workers, WriteLog(w) PROVE CauseInv'
  <2>1. NextAlert(w, due[w]) \/ NextAlert(w, {})
    BY <1>9 DEF WriteLog
  <2>2. /\ last' = last /\ seen' = seen /\ sent' = sent /\ lost' = lost /\ start' = start
        /\ status' = status /\ pc[w] \in {"log_sent", "log_failed"}
    BY <1>9 DEF WriteLog, row
  <2>3. /\ pc'[w] \in {"idle", "dispatch"}
        /\ \A v \in Workers : v # w => pc'[v] = pc[v] /\ cur'[v] = cur[v]
    BY <1>0, <2>1 DEF NextAlert, Goto, TypeOK
  <2> QED
    BY <2>2, <2>3, CausesStay DEF InHand
<1>10. ASSUME NEW w \in Workers, Die(w) PROVE CauseInv'
  <2>1. /\ last' = last /\ seen' = seen /\ sent' = sent /\ start' = start /\ status' = status
        /\ pc'[w] = "idle" /\ \A v \in Workers : v # w => pc'[v] = pc[v] /\ cur'[v] = cur[v]
    BY <1>0, <1>10 DEF Die, NextAlert, Goto, TypeOK, row
  <2>2. lost' = IF pc[w] \in {"send", "rollback"}
                  THEN [lost EXCEPT ![cur[w]] = @ \cup {start[w]}] ELSE lost
    BY <1>10 DEF Die
  <2>3. \A b \in Alerts : /\ lost[b] \subseteq lost'[b]
                          /\ InHand(w, b) => start[w] \in lost'[b]
    BY <1>0, <2>2 DEF TypeOK, InHand
  <2>4. \A b \in Alerts : \A v \in Workers :
          /\ InHand(v, b)' => InHand(v, b)
          /\ InHand(v, b) => InHand(v, b)' \/ start[v] \in sent'[b] \cup lost'[b]
    BY <2>1, <2>3 DEF InHand
  <2> QED
    BY <2>1, <2>3, <2>4, CausesStay
<1>11. CASE Tick \/ UNCHANGED vars
  <2>1. /\ last' = last /\ seen' = seen /\ sent' = sent /\ lost' = lost /\ start' = start
        /\ status' = status /\ pc' = pc /\ cur' = cur
    BY <1>11 DEF Tick, vars, row, runs, history
  <2> QED
    BY <2>1, CausesStay DEF InHand
<1> QED
  BY <1>1, <1>2, <1>3, <1>4, <1>5, <1>6, <1>7, <1>8, <1>9, <1>10, <1>11 DEF Next, Run

LEMMA CauseInit == Init => CauseInv
BY DEF Init, CauseInv, InHand

\* An alert is kept quiet only for an SMS that went out, is under way or was lost
\* with its run; a send that failed leaves no trace (the rollback in
\* AlertChecker.run).
THEOREM CooldownAlwaysHasCause == Spec => []CooldownHasCause
<1>1. CauseInv => CooldownHasCause
  BY DEF CauseInv, CooldownHasCause, Exists, Settled, Carried, InFlight, InHand
<1> QED
  BY <1>1, CauseInit, InvInit, InvStep, CauseStep, PTL DEF Spec

-----------------------------------------------------------------------------
(* An alert switched off                                                     *)

\* The farmer, or the expiry, has taken the alert out of service.
Off(a) == status[a] \in {"inactive", "deleted"}

\* At most one SMS for an alert since it was switched off, and then none under way.
QuietInv ==
  \A a \in Alerts :
    \/ late[a] = 0
    \/ /\ late[a] = 1 /\ Off(a)
       /\ \A w \in Workers : ~(cur[w] = a /\ pc[w] = "send")

\* A step that starts no SMS and switches nothing back on.
LEMMA QuietStays ==
  ASSUME QuietInv,
         \A a \in Alerts : late'[a] = 0 \/ (late'[a] = late[a] /\ (Off(a) => Off(a)')),
         \A a \in Alerts, w \in Workers :
           (cur'[w] = a /\ pc'[w] = "send") => (cur[w] = a /\ pc[w] = "send")
  PROVE  QuietInv'
BY DEF QuietInv

\* Only an active alert is claimed.
LEMMA QuietClaims ==
  ASSUME QuietInv, TypeOK, NEW w \in Workers, NEW a \in Alerts, Active(a),
         Goto(w, "send", a), status' = status, late' = late
  PROVE  QuietInv'
BY DEF QuietInv, Active, Off, Goto, TypeOK

LEMMA QuietStep == IInv /\ CauseInv /\ QuietInv /\ [Next]_vars => QuietInv'
<1> SUFFICES ASSUME IInv, CauseInv, QuietInv, [Next]_vars PROVE QuietInv'
  OBVIOUS
<1> USE DEF row, runs, history
<1>0. TypeOK
  BY DEF IInv
<1>1. ASSUME NEW a \in Alerts, Farmer(a) \/ Lapse(a) PROVE QuietInv'
  <2>1. pc' = pc /\ cur' = cur
    BY <1>1 DEF Farmer, CreateAlert, UpdateAlert, DeleteAlert, Lapse
  <2>2. \A b \in Alerts : late'[b] = 0 \/ (late'[b] = late[b] /\ (Off(b) => Off(b)'))
    BY <1>0, <1>1 DEF Farmer, CreateAlert, UpdateAlert, DeleteAlert, Lapse, TypeOK,
       Exists, Off
  <2> QED
    BY <2>1, <2>2, QuietStays
<1>2. ASSUME NEW w \in Workers, StartRun(w) PROVE QuietInv'
  <2>1. \A b \in Alerts : late'[b] = 0 \/ (late'[b] = late[b] /\ (Off(b) => Off(b)'))
    BY <1>2 DEF StartRun, Off
  <2>2. \A b \in Alerts, v \in Workers :
          (cur'[v] = b /\ pc'[v] = "send") => (cur[v] = b /\ pc[v] = "send")
    BY <1>0, <1>2 DEF StartRun, Goto, TypeOK
  <2> QED
    BY <2>1, <2>2, QuietStays
<1>3. ASSUME NEW w \in Workers, NEW a \in Alerts, Claim(w, a) PROVE QuietInv'
  <2>1. CASE ClaimHolds(w, a)
    BY <1>0, <1>3, <2>1, QuietClaims DEF Claim, ClaimHolds
  <2>2. CASE ~ClaimHolds(w, a)
    <3>1. status' = status /\ late' = late /\ Goto(w, "claim_null", a)
      BY <1>3, <2>2 DEF Claim
    <3> QED
      BY <1>0, <3>1, QuietStays DEF Goto, TypeOK, Off
  <2> QED
    BY <2>1, <2>2
<1>4. ASSUME NEW w \in Workers, ClaimNull(w) PROVE QuietInv'
  <2>1. cur[w] \in Alerts /\ status' = status /\ late' = late
    BY <1>0, <1>4, CurIsAlert DEF ClaimNull, At
  <2>2. CASE NullClaimHolds(cur[w])
    BY <1>0, <1>4, <2>1, <2>2, QuietClaims DEF ClaimNull, NullClaimHolds
  <2>3. CASE ~NullClaimHolds(cur[w])
    BY <1>0, <1>4, <2>1, <2>3, QuietStays DEF ClaimNull, NextAlert, Goto, TypeOK, Off
  <2> QED
    BY <2>2, <2>3
\* The one SMS that was under way: its run is alone with the alert.
<1>5. ASSUME NEW w \in Workers, SendSms(w) PROVE QuietInv'
  <2>1. /\ cur[w] \in Alerts /\ InHand(w, cur[w]) /\ pc[w] = "send"
        /\ status' = status /\ cur' = cur
        /\ pc'[w] # "send" /\ \A v \in Workers : v # w => pc'[v] = pc[v]
    BY <1>0, <1>5, CurIsAlert DEF SendSms, At, Goto, TypeOK, InHand
  <2>2. late[cur[w]] = 0
    BY <2>1 DEF QuietInv
  <2>3. \A v \in Workers : InHand(v, cur[w]) => v = w
    BY <2>1 DEF IInv, ClaimInv
  <2>4. \/ late' = late
        \/ status[cur[w]] # "active" /\ late' = [late EXCEPT ![cur[w]] = @ + 1]
    BY <1>5 DEF SendSms
  <2>5. status[cur[w]] # "absent"
    <3>1. last[cur[w]] = start[w] /\ start[w] # Never
      BY <2>1, AlertsAssumption DEF IInv, ClaimInv, TypeOK
    <3> QED
      BY <2>1, <3>1 DEF CauseInv
  <2> QED
    BY <1>0, <2>1, <2>2, <2>3, <2>4, <2>5 DEF QuietInv, InHand, Off, TypeOK, Statuses
<1>6. ASSUME NEW w \in Workers,
             Select(w) \/ (\E a \in Alerts : Skip(w, a)) \/ Rollback(w) \/ WriteLog(w) \/ Die(w)
      PROVE  QuietInv'
  <2>1. status' = status /\ late' = late
    BY <1>6 DEF Select, Skip, Rollback, WriteLog, Die
  <2>2. \A b \in Alerts, v \in Workers :
          (cur'[v] = b /\ pc'[v] = "send") => (cur[v] = b /\ pc[v] = "send")
    BY <1>0, <1>6 DEF Select, Skip, Rollback, WriteLog, Die, NextAlert, Goto, TypeOK
  <2> QED
    BY <2>1, <2>2, QuietStays DEF Off
<1>7. CASE Tick \/ UNCHANGED vars
  BY <1>7, QuietStays DEF Tick, vars, Off
<1> QED
  BY <1>1, <1>2, <1>3, <1>4, <1>5, <1>6, <1>7 DEF Next, Run

\* An alert that is switched off, has expired or is deleted costs its farmer at most
\* the one SMS that was under way, for any number of alerts and overlapping runs
\* (the active condition of the claims in AlertChecker.run).
THEOREM SwitchedOffIsQuiet == Spec => []QuietAfterOff
<1>1. Init => QuietInv
  BY DEF Init, QuietInv
<1>2. QuietInv => QuietAfterOff
  BY DEF QuietInv, QuietAfterOff
<1> QED
  BY <1>1, <1>2, InvInit, InvStep, CauseInit, CauseStep, QuietStep, PTL DEF Spec

-----------------------------------------------------------------------------
(* The counter                                                               *)

\* The row never forgets a lost claim, nor does the one that follows it.
LostInv ==
  /\ \A a \in Alerts : \A t \in lost[a] : last[a] # Never /\ t <= last[a]
  /\ \A a \in Alerts : \A w \in Workers : InHand(w, a) =>
       \A t \in lost[a] : seen[w][a] # Never /\ t <= seen[w][a] /\ t < start[w] - Cooldown

\* The SMSs the farmer got, or may have got.
Told(a) == Cardinality(sent[a]) + Cardinality(lost[a])

\* Finitely many SMSs have gone out.
FiniteInv == \A a \in Alerts : IsFiniteSet(sent[a]) /\ IsFiniteSet(lost[a])

\* The counter is one ahead while a claim is in hand, whose run knows what to put back.
TallyInv ==
  \A a \in Alerts : status[a] # "deleted" =>
    /\ (\A w \in Workers : ~InHand(w, a)) => count[a] = Told(a)
    /\ \A w \in Workers : InHand(w, a) =>
         seenCount[w][a] = Told(a) /\ count[a] = Told(a) + 1

\* The counter a run has selected is still true, or the claim will not succeed.
SeenCountInv ==
  \A a \in Alerts : \A w \in Workers : Pending(w, a) /\ status[a] # "deleted" =>
    /\ count[a] = seenCount[w][a] \/ TooRecent(w, last[a])
    /\ \A v \in Workers : InHand(v, a) =>
         seenCount[v][a] = seenCount[w][a] \/ TooRecent(w, seen[v][a])

CountInv == LostInv /\ FiniteInv /\ TallyInv /\ SeenCountInv

\* A step about none of the claims, at most dropping a selection.
LEMMA CountStays ==
  ASSUME CountInv, UNCHANGED <<last, count, seen, seenCount, sent, lost>>,
         \A a \in Alerts : status'[a] # "deleted" => status[a] # "deleted",
         \A w \in Workers, a \in Alerts :
           /\ InHand(w, a)' <=> InHand(w, a)
           /\ Pending(w, a)' => Pending(w, a)
           /\ Pending(w, a) \/ InHand(w, a) => start'[w] = start[w]
  PROVE  CountInv'
<1> USE DEF CountInv
<1>1. LostInv'
  BY DEF LostInv
<1>2. FiniteInv'
  BY DEF FiniteInv
<1>3. \A a \in Alerts : Told(a)' = Told(a)
  BY DEF Told
<1>4. TallyInv'
  BY <1>3 DEF TallyInv
<1>5. SeenCountInv'
  BY DEF SeenCountInv, TooRecent
<1> QED
  BY <1>1, <1>2, <1>4, <1>5

\* The stamp of a claim in hand is new to the alert.
LEMMA FreshStamp ==
  ASSUME IInv, LostInv, NEW w \in Workers, NEW a \in Alerts, InHand(w, a)
  PROVE  start[w] \notin sent[a] \cup lost[a]
<1>1. \A t \in sent[a] \cup lost[a] : t \in Nat /\ t < start[w] - Cooldown
  BY DEF IInv, TypeOK, ClaimInv, LostInv
<1>2. start[w] \in Nat /\ Cooldown \in Nat
  BY AlertsAssumption DEF IInv, TypeOK
<1> QED
  BY <1>1, <1>2

\* A claim in hand becomes an SMS that went out, or is lost with its run.
LEMMA CountSettles ==
  ASSUME IInv, CountInv, NEW w \in Workers, NEW a \in Alerts, InHand(w, a),
         UNCHANGED <<status, last, count, start, seen, seenCount>>,
         \/ sent' = [sent EXCEPT ![a] = @ \cup {start[w]}] /\ lost' = lost
         \/ lost' = [lost EXCEPT ![a] = @ \cup {start[w]}] /\ sent' = sent,
         \A v \in Workers, b \in Alerts :
           /\ InHand(v, b)' <=> v # w /\ InHand(v, b)
           /\ Pending(v, b)' => Pending(v, b)
  PROVE  CountInv'
<1> USE DEF CountInv
<1>a. /\ sent \in [Alerts -> SUBSET Nat] /\ lost \in [Alerts -> SUBSET Nat]
      /\ start[w] \in Nat /\ Never \notin Nat /\ last[a] = start[w]
      /\ \A v \in Workers : InHand(v, a) => v = w
  BY AlertsAssumption DEF IInv, TypeOK, ClaimInv
<1>b. /\ \A b \in Alerts : b # a => sent'[b] = sent[b] /\ lost'[b] = lost[b]
      /\ \/ sent'[a] = sent[a] \cup {start[w]} /\ lost'[a] = lost[a]
         \/ lost'[a] = lost[a] \cup {start[w]} /\ sent'[a] = sent[a]
  BY <1>a
<1>c. \A b \in Alerts : InHand(w, b) => b = a
  BY DEF InHand
<1>1. LostInv'
  <2>1. \A t \in lost'[a] : last[a] # Never /\ t <= last[a]
    BY <1>a DEF LostInv
  <2>2. \A v \in Workers : ~InHand(v, a)'
    BY <1>a
  <2> QED
    BY <1>b, <2>1, <2>2 DEF LostInv
<1>2. FiniteInv'
  <2>1. IsFiniteSet(sent'[a]) /\ IsFiniteSet(lost'[a])
    BY <1>b, FS_AddElement DEF FiniteInv
  <2> QED
    BY <1>b, <2>1 DEF FiniteInv
<1>3. Told(a)' = Told(a) + 1
  <2>1. IsFiniteSet(sent[a]) /\ IsFiniteSet(lost[a]) /\ start[w] \notin sent[a] \cup lost[a]
    BY FreshStamp DEF FiniteInv
  <2>2. /\ Cardinality(sent[a]) \in Nat /\ Cardinality(lost[a]) \in Nat
        /\ Cardinality(sent[a] \cup {start[w]}) = Cardinality(sent[a]) + 1
        /\ Cardinality(lost[a] \cup {start[w]}) = Cardinality(lost[a]) + 1
    BY <2>1, FS_AddElement, FS_CardinalityType
  <2> QED
    <3>1. Told(a)' = Cardinality(sent'[a]) + Cardinality(lost'[a])
      BY DEF Told
    <3>2. CASE sent'[a] = sent[a] \cup {start[w]} /\ lost'[a] = lost[a]
      BY <2>2, <3>1, <3>2 DEF Told
    <3>3. CASE lost'[a] = lost[a] \cup {start[w]} /\ sent'[a] = sent[a]
      BY <2>2, <3>1, <3>3 DEF Told
    <3> QED
      BY <1>b, <3>2, <3>3
<1>4. TallyInv'
  <2>1. \A b \in Alerts : b # a => Told(b)' = Told(b)
    BY <1>b DEF Told
  <2>2. \A v \in Workers : ~InHand(v, a)'
    BY <1>a
  <2>3. \A b \in Alerts, v \in Workers : b # a => (InHand(v, b)' <=> InHand(v, b))
    BY <1>c
  <2>4. status[a] # "deleted" => count[a] = Told(a) + 1
    BY DEF TallyInv
  <2> QED
    BY <1>3, <2>1, <2>2, <2>3, <2>4 DEF TallyInv
<1>5. SeenCountInv'
  BY DEF SeenCountInv, TooRecent
<1> QED
  BY <1>1, <1>2, <1>4, <1>5

\* A claim that finds its row.
LEMMA CountClaims ==
  ASSUME IInv, CountInv, TypeOK', NEW w \in Workers, NEW a \in Alerts,
         Pending(w, a), pc[w] \in {"dispatch", "claim_null"}, Active(a),
         last[a] = Never \/ Cool(w, last[a]),
         WriteClaim(w, a), Goto(w, "send", a),
         \A v \in Workers : due'[v] = IF v = w THEN due[w] \ {a} ELSE due[v],
         UNCHANGED <<status, start, seen, seenCount, sent, lost, now>>
  PROVE  CountInv'
<1> USE DEF CountInv
<1>a. /\ last'[a] = start[w] /\ count'[a] = seenCount[w][a] + 1
      /\ \A b \in Alerts : b # a => last'[b] = last[b] /\ count'[b] = count[b]
      /\ pc'[w] = "send" /\ cur'[w] = a
      /\ \A v \in Workers : v # w => pc'[v] = pc[v] /\ cur'[v] = cur[v]
      /\ \A v \in Workers : start[v] \in Nat
      /\ now \in Nat /\ start[w] <= now /\ now <= start[w] + MaxRun
      /\ last[a] \in Stamps /\ Never \notin Nat
      /\ Cooldown \in Nat /\ MaxRun \in Nat /\ MaxRun <= Cooldown
  BY AlertsAssumption DEF IInv, TypeOK, ClockInv, WriteClaim, Goto
<1>1. ~TooRecent(w, last[a])
  BY <1>a DEF TooRecent, Cool, Stamps
<1>2. last[a] = seen[w][a] /\ \A v \in Workers : ~InHand(v, a)
  BY <1>1, ClaimShutsOut DEF IInv, SeenInv
<1>3. count[a] = seenCount[w][a] /\ count[a] = Told(a)
  BY <1>1, <1>2 DEF SeenCountInv, TallyInv, Active
<1>4. \A v \in Workers, b \in Alerts :
        /\ InHand(v, b)' <=> (v # w /\ InHand(v, b)) \/ (v = w /\ b = a)
        /\ Pending(v, b)' => Pending(v, b) /\ (v # w \/ b # a)
  BY <1>a DEF InHand, Pending, IInv, ControlInv
<1>5. \A v \in Workers : pc[v] # "idle" => TooRecent(v, last'[a])
  BY <1>a DEF TooRecent, IInv, ClockInv
<1>6. LostInv'
  <2>1. \A t \in lost[a] : last[a] # Never /\ t <= last[a] /\ t \in Nat
    BY DEF LostInv, IInv, TypeOK
  <2>2. \A t \in lost[a] : t < start[w] - Cooldown
    BY <2>1, <1>a, <1>1 DEF TooRecent, Stamps
  <2>3. \A t \in lost[a] : last'[a] # Never /\ t <= last'[a]
    BY <2>1, <2>2, <1>a
  <2>4. \A b \in Alerts : \A t \in lost[b] : last'[b] # Never /\ t <= last'[b]
    BY <2>3, <1>a DEF LostInv
  <2>5. \A b \in Alerts, v \in Workers : InHand(v, b)' =>
          \A t \in lost[b] : seen[v][b] # Never /\ t <= seen[v][b] /\ t < start[v] - Cooldown
    BY <2>1, <2>2, <1>2, <1>4 DEF LostInv
  <2> QED
    BY <2>4, <2>5 DEF LostInv
<1>7. FiniteInv'
  BY DEF FiniteInv
<1>8. TallyInv'
  <2>1. \A b \in Alerts : Told(b)' = Told(b)
    BY DEF Told
  <2> QED
    <3>1. \A b \in Alerts, v \in Workers : b # a => (InHand(v, b)' <=> InHand(v, b))
      BY <1>4, <1>a DEF InHand
    <3>2. InHand(w, a)' /\ \A v \in Workers : InHand(v, a)' => v = w
      BY <1>2, <1>4
    <3>3. seenCount'[w][a] = Told(a)' /\ count'[a] = Told(a)' + 1
      BY <2>1, <1>a, <1>3
    <3>4. \A b \in Alerts : b # a /\ status'[b] # "deleted" =>
            /\ (\A v \in Workers : ~InHand(v, b)') => count'[b] = Told(b)'
            /\ \A v \in Workers : InHand(v, b)' =>
                 seenCount'[v][b] = Told(b)' /\ count'[b] = Told(b)' + 1
      BY <2>1, <3>1, <1>a DEF TallyInv
    <3> QED
      BY <3>2, <3>3, <3>4 DEF TallyInv
<1>9. SeenCountInv'
  <2> SUFFICES ASSUME NEW b \in Alerts, NEW v \in Workers, Pending(v, b)',
                      status[b] # "deleted"
               PROVE  /\ count'[b] = seenCount[v][b] \/ TooRecent(v, last'[b])
                      /\ \A u \in Workers : InHand(u, b)' =>
                           seenCount[u][b] = seenCount[v][b] \/ TooRecent(v, seen[u][b])
    BY DEF SeenCountInv, TooRecent
  <2>1. Pending(v, b) /\ (v # w \/ b # a)
    BY <1>4
  <2>2. CASE b = a
    <3>1. TooRecent(v, last'[a])
      BY <2>1, <1>5 DEF Pending, IInv, ControlInv
    <3>2. \A u \in Workers : InHand(u, a)' => u = w
      BY <1>2, <1>4
    <3>3. seenCount[w][a] = seenCount[v][a] \/ TooRecent(v, seen[w][a])
      BY <2>1, <2>2, <1>2, <1>3 DEF SeenCountInv
    <3> QED
      BY <2>2, <3>1, <3>2, <3>3
  <2>3. CASE b # a
    BY <2>1, <2>3, <1>4, <1>a DEF SeenCountInv
  <2> QED
    BY <2>2, <2>3
<1> QED
  BY <1>6, <1>7, <1>8, <1>9

\* A rollback puts the counter back to what the farmer was told.
LEMMA CountRollsBack ==
  ASSUME IInv, CauseInv, CountInv, NEW w \in Workers, Rollback(w)
  PROVE  CountInv'
<1> USE DEF CountInv
<1> DEFINE a == cur[w]
<1>a. /\ a \in Alerts /\ InHand(w, a)
      /\ pc'[w] = "log_failed" /\ cur' = cur
      /\ \A v \in Workers : v # w => pc'[v] = pc[v]
      /\ UNCHANGED <<status, start, seen, seenCount, sent, lost, due>>
      /\ Never \notin Nat /\ start[w] \in Nat
  BY CurIsAlert, AlertsAssumption DEF Rollback, At, InHand, Goto, IInv, TypeOK, history
<1>b. /\ last[a] = start[w] /\ \A v \in Workers : InHand(v, a) => v = w
  BY <1>a DEF IInv, ClaimInv
<1>c. /\ \A b \in Alerts : b # a => last'[b] = last[b] /\ count'[b] = count[b]
      /\ \/ last' = last /\ count' = count /\ status[a] = "deleted"
         \/ last'[a] = seen[w][a] /\ count'[a] = seenCount[w][a]
  <2>1. status[a] # "deleted" => Exists(a)
    BY <1>a, <1>b DEF CauseInv, IInv, TypeOK, Statuses, Exists
  <2> QED
    BY <1>a, <1>b, <2>1 DEF Rollback, IInv, TypeOK
<1>1. \A v \in Workers, b \in Alerts :
        /\ InHand(v, b)' <=> v # w /\ InHand(v, b)
        /\ Pending(v, b)' <=> Pending(v, b)
        /\ InHand(w, b) => b = a
  BY <1>a DEF InHand, Pending
<1>2. \A v \in Workers, b \in Alerts : b = a => ~InHand(v, b)'
  BY <1>1, <1>b
<1>3. LostInv'
  <2>1. \A t \in lost[a] : seen[w][a] # Never /\ t <= seen[w][a]
    BY <1>a DEF LostInv
  <2>2. \A b \in Alerts : \A t \in lost[b] : last'[b] # Never /\ t <= last'[b]
    BY <2>1, <1>c DEF LostInv
  <2> QED
    BY <2>2, <1>1, <1>a DEF LostInv
<1>4. FiniteInv'
  BY <1>a DEF FiniteInv
<1>5. TallyInv'
  <2>1. \A b \in Alerts : Told(b)' = Told(b)
    BY <1>a DEF Told
  <2>2. status[a] # "deleted" => count'[a] = Told(a)
    BY <1>a, <1>c DEF TallyInv
  <2>3. \A b \in Alerts, v \in Workers : b # a => (InHand(v, b)' <=> InHand(v, b))
    BY <1>1
  <2> QED
    BY <2>1, <2>2, <2>3, <1>2, <1>a, <1>c DEF TallyInv
<1>6. SeenCountInv'
  <2> SUFFICES ASSUME NEW b \in Alerts, NEW v \in Workers, Pending(v, b),
                      status[b] # "deleted"
               PROVE  /\ count'[b] = seenCount[v][b] \/ TooRecent(v, last'[b])
                      /\ \A u \in Workers : InHand(u, b) =>
                           seenCount[u][b] = seenCount[v][b] \/ TooRecent(v, seen[u][b])
    BY <1>a, <1>1 DEF SeenCountInv, TooRecent
  <2>1. \A u \in Workers : InHand(u, b) =>
          seenCount[u][b] = seenCount[v][b] \/ TooRecent(v, seen[u][b])
    BY DEF SeenCountInv
  <2>2. count[b] = seenCount[v][b] \/ TooRecent(v, last[b])
    BY DEF SeenCountInv
  <2> QED
    BY <2>1, <2>2, <1>a, <1>c
<1> QED
  BY <1>3, <1>4, <1>5, <1>6

\* A selection takes the counters with the stamps, of alerts nobody has a claim on.
LEMMA CountSelects ==
  ASSUME IInv, CountInv, NEW w \in Workers, Select(w)
  PROVE  CountInv'
<1> USE DEF CountInv
<1>a. /\ UNCHANGED <<status, last, count, start, sent, lost>>
      /\ seen' = [seen EXCEPT ![w] = last] /\ seenCount' = [seenCount EXCEPT ![w] = count]
      /\ pc[w] = "select" /\ cur'[w] = None /\ None \notin Alerts
      /\ \A v \in Workers : v # w => /\ pc'[v] = pc[v] /\ cur'[v] = cur[v] /\ due'[v] = due[v]
                                     /\ seen'[v] = seen[v] /\ seenCount'[v] = seenCount[v]
      /\ seen'[w] = last /\ seenCount'[w] = count
  BY AlertsAssumption DEF Select, At, NextAlert, Goto, IInv, TypeOK, row, history
<1>b. \A b \in due'[w] : b \in Alerts /\ (last[b] = Never \/ Cool(w, last[b]))
  <2> PICK d \in SUBSET {b \in Alerts : Active(b) /\ (last[b] = Never \/ Cool(w, last[b]))} :
        NextAlert(w, d)
    BY DEF Select
  <2> QED
    BY DEF NextAlert, IInv, TypeOK
<1>1. \A v \in Workers, b \in Alerts :
        /\ InHand(v, b)' <=> InHand(v, b)
        /\ InHand(v, b) => v # w
        /\ v # w => (Pending(v, b)' <=> Pending(v, b))
        /\ Pending(w, b)' => b \in due'[w]
  BY <1>a DEF InHand, Pending
<1>2. LostInv'
  BY <1>a, <1>1 DEF LostInv
<1>3. FiniteInv'
  BY <1>a DEF FiniteInv
<1>4. TallyInv'
  <2>1. \A b \in Alerts : Told(b)' = Told(b)
    BY <1>a DEF Told
  <2> QED
    BY <2>1, <1>a, <1>1 DEF TallyInv
<1>5. SeenCountInv'
  <2> SUFFICES ASSUME NEW b \in Alerts, NEW v \in Workers, Pending(v, b)',
                      status[b] # "deleted"
               PROVE  /\ count[b] = seenCount'[v][b] \/ TooRecent(v, last[b])
                      /\ \A u \in Workers : u # w /\ InHand(u, b) =>
                           seenCount[u][b] = seenCount'[v][b] \/ TooRecent(v, seen[u][b])
    BY <1>a, <1>1 DEF SeenCountInv, TooRecent
  <2>1. CASE v = w
    <3>1. ~TooRecent(w, last[b])
      BY <2>1, <1>1, <1>b, AlertsAssumption DEF TooRecent, Cool, IInv, TypeOK, Stamps
    <3>2. \A u \in Workers : ~InHand(u, b)
      BY <3>1, <1>a, ClaimShutsOut
    <3> QED
      BY <3>2, <2>1, <1>a
  <2>2. CASE v # w
    BY <2>2, <1>1, <1>a DEF SeenCountInv
  <2> QED
    BY <2>1, <2>2
<1> QED
  BY <1>2, <1>3, <1>4, <1>5

LEMMA CountStep == IInv /\ CauseInv /\ CountInv /\ [Next]_vars => CountInv'
<1> SUFFICES ASSUME IInv, CauseInv, CountInv, [Next]_vars PROVE CountInv'
  OBVIOUS
<1>0. TypeOK /\ TypeOK'
  BY TypeStep DEF IInv
<1>1. ASSUME NEW a \in Alerts, Farmer(a) \/ Lapse(a) PROVE CountInv'
  <2>1. UNCHANGED <<last, count, seen, seenCount, sent, lost, pc, cur, start, due>>
    BY <1>1 DEF Farmer, CreateAlert, UpdateAlert, DeleteAlert, Lapse, row, runs, history
  <2>2. \A b \in Alerts : status'[b] # "deleted" => status[b] # "deleted"
    BY <1>0, <1>1 DEF Farmer, CreateAlert, UpdateAlert, DeleteAlert, Lapse, Exists,
       TypeOK, row
  <2> QED
    BY <2>1, <2>2, CountStays DEF InHand, Pending
<1>2. ASSUME NEW w \in Workers, StartRun(w) PROVE CountInv'
  <2>1. /\ UNCHANGED <<last, count, seen, seenCount, sent, lost, due>>
        /\ \A v \in Workers : v # w => pc'[v] = pc[v] /\ cur'[v] = cur[v] /\ start'[v] = start[v]
        /\ pc[w] = "idle" /\ pc'[w] = "select" /\ due[w] = {}
        /\ \A b \in Alerts : status'[b] # "deleted" => status[b] # "deleted"
    BY <1>0, <1>2 DEF StartRun, At, Goto, TypeOK, Active, IInv, ControlInv
  <2> QED
    BY <2>1, CountStays DEF InHand, Pending
<1>3. ASSUME NEW w \in Workers, Select(w) PROVE CountInv'
  BY <1>3, CountSelects
<1>4. ASSUME NEW w \in Workers, NEW a \in Alerts, Skip(w, a) PROVE CountInv'
  <2>1. /\ UNCHANGED <<status, last, count, seen, seenCount, sent, lost, start>>
        /\ \A v \in Workers : v # w => pc'[v] = pc[v] /\ cur'[v] = cur[v] /\ due'[v] = due[v]
        /\ pc[w] = "dispatch" /\ pc'[w] \in {"idle", "dispatch"} /\ due'[w] = due[w] \ {a}
    BY <1>0, <1>4 DEF Skip, At, Goto, NextAlert, TypeOK, row, history
  <2> QED
    BY <2>1, CountStays DEF InHand, Pending
<1>5. ASSUME NEW w \in Workers, NEW a \in Alerts, Claim(w, a) PROVE CountInv'
  <2>1. /\ UNCHANGED <<status, start, seen, seenCount, sent, lost, now>>
        /\ pc[w] = "dispatch" /\ a \in due[w]
        /\ \A v \in Workers : due'[v] = IF v = w THEN due[w] \ {a} ELSE due[v]
    BY <1>0, <1>5 DEF Claim, At, TypeOK, history
  <2>2. CASE ClaimHolds(w, a)
    <3>1. /\ Cool(w, last[a]) /\ Active(a) /\ WriteClaim(w, a) /\ Goto(w, "send", a)
          /\ Pending(w, a)
      BY <1>5, <2>1, <2>2 DEF Claim, ClaimHolds, Pending
    <3> QED
      BY <1>0, <2>1, <3>1, CountClaims
  <2>3. CASE ~ClaimHolds(w, a)
    <3>1. UNCHANGED <<last, count>> /\ Goto(w, "claim_null", a)
      BY <1>5, <2>3 DEF Claim
    <3>2. /\ pc'[w] = "claim_null" /\ cur'[w] = a
          /\ \A v \in Workers : v # w => pc'[v] = pc[v] /\ cur'[v] = cur[v]
      BY <1>0, <3>1 DEF TypeOK, Goto
    <3> QED
      BY <2>1, <3>1, <3>2, CountStays DEF InHand, Pending
  <2> QED
    BY <2>2, <2>3
<1>6. ASSUME NEW w \in Workers, ClaimNull(w) PROVE CountInv'
  <2>1. /\ UNCHANGED <<status, start, seen, seenCount, sent, lost, now>>
        /\ pc[w] = "claim_null" /\ cur[w] \in Alerts /\ cur[w] \notin due[w]
    BY <1>0, <1>6, CurIsAlert DEF ClaimNull, At, history, IInv, ControlInv
  <2>2. CASE NullClaimHolds(cur[w])
    <3>1. /\ last[cur[w]] = Never /\ Active(cur[w]) /\ Pending(w, cur[w])
          /\ WriteClaim(w, cur[w]) /\ Goto(w, "send", cur[w]) /\ due' = due
      BY <1>6, <2>1, <2>2 DEF ClaimNull, NullClaimHolds, Pending
    <3>2. \A v \in Workers : due'[v] = IF v = w THEN due[w] \ {cur[w]} ELSE due[v]
      BY <2>1, <3>1
    <3> QED
      BY <1>0, <2>1, <3>1, <3>2, CountClaims
  <2>3. CASE ~NullClaimHolds(cur[w])
    <3>1. /\ UNCHANGED <<last, count>> /\ pc'[w] \in {"idle", "dispatch"} /\ due'[w] = due[w]
          /\ \A v \in Workers : v # w => pc'[v] = pc[v] /\ cur'[v] = cur[v] /\ due'[v] = due[v]
      BY <1>0, <1>6, <2>3 DEF ClaimNull, NextAlert, Goto, TypeOK
    <3> QED
      BY <2>1, <3>1, CountStays DEF InHand, Pending
  <2> QED
    BY <2>2, <2>3
<1>7. ASSUME NEW w \in Workers, SendSms(w) PROVE CountInv'
  <2>1. /\ cur[w] \in Alerts /\ InHand(w, cur[w]) /\ cur' = cur /\ due' = due /\ pc[w] = "send"
        /\ UNCHANGED <<status, last, count, start, seen, seenCount, lost>>
        /\ \A v \in Workers : v # w => pc'[v] = pc[v]
    BY <1>0, <1>7, CurIsAlert DEF SendSms, At, Goto, TypeOK, InHand, row
  <2>2. CASE pc'[w] = "log_sent"
    <3>1. sent' = [sent EXCEPT ![cur[w]] = @ \cup {start[w]}]
      BY <1>0, <1>7, <2>2 DEF SendSms, Goto, TypeOK
    <3>2. \A v \in Workers, b \in Alerts :
            /\ InHand(v, b)' <=> v # w /\ InHand(v, b)
            /\ Pending(v, b)' => Pending(v, b)
      BY <2>1, <2>2 DEF InHand, Pending
    <3> QED
      BY <2>1, <3>1, <3>2, CountSettles
  <2>3. CASE pc'[w] # "log_sent"
    <3>1. sent' = sent /\ pc'[w] = "rollback"
      BY <1>0, <1>7, <2>3 DEF SendSms, Goto, TypeOK
    <3> QED
      BY <2>1, <3>1, CountStays DEF InHand, Pending
  <2> QED
    BY <2>2, <2>3
<1>8. ASSUME NEW w \in Workers, Rollback(w) PROVE CountInv'
  BY <1>8, CountRollsBack
<1>9. ASSUME NEW w \in Workers, WriteLog(w) PROVE CountInv'
  <2>1. NextAlert(w, due[w]) \/ NextAlert(w, {})
    BY <1>9 DEF WriteLog
  <2>2. /\ UNCHANGED <<status, last, count, seen, seenCount, sent, lost, start>>
        /\ pc[w] \in {"log_sent", "log_failed"}
    BY <1>9 DEF WriteLog, row
  <2>3. /\ pc'[w] \in {"idle", "dispatch"} /\ due'[w] \subseteq due[w]
        /\ \A v \in Workers : v # w => pc'[v] = pc[v] /\ cur'[v] = cur[v] /\ due'[v] = due[v]
    BY <1>0, <2>1 DEF NextAlert, Goto, TypeOK
  <2> QED
    BY <2>2, <2>3, CountStays DEF InHand, Pending
<1>10. ASSUME NEW w \in Workers, Die(w) PROVE CountInv'
  <2>1. /\ UNCHANGED <<status, last, count, seen, seenCount, sent, start>>
        /\ pc'[w] = "idle" /\ due'[w] = {}
        /\ \A v \in Workers : v # w => pc'[v] = pc[v] /\ cur'[v] = cur[v] /\ due'[v] = due[v]
    BY <1>0, <1>10 DEF Die, NextAlert, Goto, TypeOK, row
  <2>2. \A v \in Workers, b \in Alerts :
          /\ InHand(v, b)' <=> v # w /\ InHand(v, b)
          /\ Pending(v, b)' => Pending(v, b)
    BY <2>1 DEF InHand, Pending
  <2>3. CASE pc[w] \in {"send", "rollback"}
    <3>1. cur[w] \in Alerts /\ InHand(w, cur[w])
      BY <1>0, <2>3, CurIsAlert DEF InHand
    <3>2. lost' = [lost EXCEPT ![cur[w]] = @ \cup {start[w]}]
      BY <1>10, <2>3 DEF Die
    <3> QED
      BY <2>1, <2>2, <3>1, <3>2, CountSettles
  <2>4. CASE pc[w] \notin {"send", "rollback"}
    <3>1. lost' = lost /\ \A b \in Alerts : ~InHand(w, b)
      BY <1>10, <2>4 DEF Die, InHand
    <3> QED
      BY <2>1, <2>2, <3>1, CountStays
  <2> QED
    BY <2>3, <2>4
<1>11. CASE Tick \/ UNCHANGED vars
  <2>1. UNCHANGED <<status, last, count, seen, seenCount, sent, lost, start, pc, cur, due>>
    BY <1>11 DEF Tick, vars, row, runs, history
  <2> QED
    BY <2>1, CountStays DEF InHand, Pending
<1> QED
  BY <1>1, <1>2, <1>3, <1>4, <1>5, <1>6, <1>7, <1>8, <1>9, <1>10, <1>11 DEF Next, Run

\* However runs overlap, die and roll back, notified_count is the number of SMSs that
\* went out, with the one under way and those a dead run leaves unknown: no update is
\* lost and a failed send leaves no trace (new_count and the rollback in
\* AlertChecker.run).
THEOREM CounterIsExact == Spec => []CountExact
<1>1. Init => CountInv
  <2> SUFFICES ASSUME Init PROVE CountInv
    OBVIOUS
  <2>1. \A a \in Alerts : Told(a) = 0 /\ IsFiniteSet(sent[a]) /\ IsFiniteSet(lost[a])
    BY FS_EmptySet DEF Init, Told
  <2> QED
    BY <2>1 DEF Init, CountInv, LostInv, FiniteInv, TallyInv, SeenCountInv, InHand,
       Pending
<1>2. IInv /\ CountInv => CountExact
  <2> SUFFICES ASSUME IInv, CountInv, NEW a \in Alerts, Exists(a)
               PROVE  count[a] = Cardinality(sent[a]) + Cardinality(lost[a]) + Cardinality(InFlight(a))
    BY DEF CountExact
  <2>0. Told(a) \in Nat /\ Told(a) = Cardinality(sent[a]) + Cardinality(lost[a])
    BY FS_CardinalityType DEF Told, CountInv, FiniteInv
  <2>1. CASE \A w \in Workers : ~InHand(w, a)
    <3>1. InFlight(a) = {}
      BY <2>1 DEF InFlight, InHand
    <3> QED
      BY <2>0, <2>1, <3>1, FS_EmptySet DEF CountInv, TallyInv, Exists
  <2>2. ASSUME NEW w \in Workers, InHand(w, a)
        PROVE  count[a] = Cardinality(sent[a]) + Cardinality(lost[a]) + Cardinality(InFlight(a))
    <3>1. InFlight(a) = {w}
      BY <2>2 DEF InFlight, InHand, IInv, ClaimInv
    <3>2. Cardinality(InFlight(a)) = 1
      BY <3>1, FS_Singleton
    <3> QED
      BY <2>0, <2>2, <3>2 DEF CountInv, TallyInv, Exists
  <2> QED
    BY <2>1, <2>2
<1> QED
  BY <1>1, <1>2, InvInit, InvStep, CauseInit, CauseStep, CountStep, PTL DEF Spec
=============================================================================
