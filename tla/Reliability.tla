----------------------------- MODULE Reliability -----------------------------
(***************************************************************************)
(* buyers.payment_reliability of one buyer: a grade computed from payments *)
(* and grievances that other handlers change meanwhile.  Rescoring one     *)
(* buyer touches no other, so one is enough.  One step is one database     *)
(* call, but for the write of a payment or a grievance, which is one step  *)
(* with its check (Deals has the calls of the payment handlers one by one) *)
(* and with the read of the offer's buyer.                                 *)
(***************************************************************************)
EXTENDS Integers, FiniteSets

CONSTANTS
  Offers,     \* offers to this buyer
  Payments,
  Grievances, \* those of category payment that name one of the offers
  OfferOf,    \* offer_id of payments and grievances
  Seed,       \* payment_reliability when the buyer was created
  Workers,
  MayFail     \* whether a call may fail, which ends its handler

Grades == {"high", "medium", "low"}

ASSUME ReliabilityAssumption ==
  /\ OfferOf \in [Payments \cup Grievances -> Offers]
  /\ IsFiniteSet(Payments) /\ IsFiniteSet(Grievances)
  /\ Seed \in Grades
  /\ MayFail \in BOOLEAN

PaymentStatus == {"pending", "paid", "failed", "disputed"}
GrievanceStatus == {"open", "in_progress", "resolved", "rejected"}

VARIABLES
  offers,      \* offers made so far
  pay, grief,  \* statuses, "absent" before the insert
  grade,       \* buyers.payment_reliability
  pc,          \* the next call of each worker's rescoring
  known,       \* offer_ids it has read
  tally,       \* evidence it has counted so far: paid, failed, disputed, grief
  undisturbed, \* history: rescorings with no change of the evidence since they began
  fresh,       \* history: the last grade written was written by one of those
  trouble      \* history: whether requests have overlapped or a call has failed

evidence == <<offers, pay, grief>>
handlers == <<pc, known, tally>>
vars == <<offers, pay, grief, grade, pc, known, tally, undisturbed, fresh,
          trouble>>

-----------------------------------------------------------------------------
(***************************************************************************)
(* The score                                                               *)
(***************************************************************************)
\* Payments of a status, and open grievances, about the offers in k.
Settled(k, s) == {p \in Payments : OfferOf[p] \in k /\ pay[p] = s}
Against(k) == {g \in Grievances : OfferOf[g] \in k /\ grief[g] \in {"open", "in_progress"}}

Nothing == [paid |-> 0, failed |-> 0, disputed |-> 0, grief |-> 0]

PaymentTally(k) ==
  [paid     |-> Cardinality(Settled(k, "paid")),
   failed   |-> Cardinality(Settled(k, "failed")),
   disputed |-> Cardinality(Settled(k, "disputed")),
   grief    |-> 0]

WithGrievances(t, G) == [t EXCEPT !.grief = Cardinality(G)]

Weighs(t) == t.paid + t.failed + t.disputed + t.grief > 0

Score(t) == 50 + 15 * t.paid - 20 * t.failed - 30 * t.disputed - 15 * t.grief

GradeOf(t) ==
  IF Score(t) >= 70 THEN "high" ELSE IF Score(t) >= 40 THEN "medium" ELSE "low"

-----------------------------------------------------------------------------
Idle == \A w \in Workers : pc[w] = "idle"
Overlaps == trouble' = (trouble \/ ~Idle)
Request(w) == pc[w] = "idle" /\ Overlaps

Goto(w, call) == pc' = [pc EXCEPT ![w] = call]

\* The rescoring is over and its variables are gone.
Return(w) ==
  /\ Goto(w, "idle")
  /\ known' = [known EXCEPT ![w] = {}]
  /\ tally' = [tally EXCEPT ![w] = Nothing]
  /\ undisturbed' = undisturbed \ {w}

\* Whatever is being counted is out of date.
Disturb == undisturbed' = {} /\ fresh' = FALSE

Init ==
  /\ offers = {}
  /\ pay   = [p \in Payments |-> "absent"]
  /\ grief = [g \in Grievances |-> "absent"]
  /\ grade = Seed
  /\ pc    = [w \in Workers |-> "idle"]
  /\ known = [w \in Workers |-> {}]
  /\ tally = [w \in Workers |-> Nothing]
  /\ undisturbed = {}
  /\ fresh = FALSE
  /\ trouble = FALSE

(***************************************************************************)
(* Statements that change the evidence                                     *)
(***************************************************************************)
MakeOffer(o) ==
  /\ Overlaps
  /\ offers' = offers \cup {o}
  /\ UNCHANGED <<pay, grief, grade, handlers, undisturbed, fresh>>

CreatePayment(p) ==
  /\ Overlaps
  /\ pay[p] = "absent" /\ OfferOf[p] \in offers
  /\ pay' = [pay EXCEPT ![p] = "pending"]
  /\ UNCHANGED <<offers, grief, grade, handlers, undisturbed, fresh>>

\* create_grievance rescores nobody.
CreateGrievance(g) ==
  /\ Overlaps
  /\ grief[g] = "absent" /\ OfferOf[g] \in offers
  /\ grief' = [grief EXCEPT ![g] = "open"]
  /\ Disturb
  /\ UNCHANGED <<offers, pay, grade, handlers>>

\* mark_paid and mark_failed answer 409 to some; mark_disputed takes any.
MaySettle(from, to) ==
  \/ to = "paid" /\ from \notin {"failed", "disputed"}
  \/ to = "failed" /\ from # "paid"
  \/ to = "disputed"

\* Slip: only mark_paid rescores the buyer.
SettlePayment_PaidRescores(w, p, s) ==
  /\ Request(w)
  /\ pay[p] # "absent" /\ MaySettle(pay[p], s)
  /\ pay' = [pay EXCEPT ![p] = s]
  /\ Disturb
  /\ Goto(w, IF s = "paid" THEN "offers" ELSE "idle")
  /\ UNCHANGED <<offers, grief, grade, known, tally>>

SettlePayment(w, p, s) ==
  /\ Request(w)
  /\ pay[p] # "absent" /\ MaySettle(pay[p], s)
  /\ pay' = [pay EXCEPT ![p] = s]
  /\ Disturb
  /\ Goto(w, "offers")
  /\ UNCHANGED <<offers, grief, grade, known, tally>>

AdminUpdateGrievance(w, g, s) ==
  /\ Request(w)
  /\ grief[g] # "absent"
  /\ grief' = [grief EXCEPT ![g] = s]
  /\ Disturb
  /\ Goto(w, "offers")
  /\ UNCHANGED <<offers, pay, grade, known, tally>>

AdminRescore(w) ==
  /\ Request(w)
  /\ Goto(w, "offers")
  /\ UNCHANGED <<evidence, grade, known, tally, undisturbed, fresh>>

(***************************************************************************)
(* recompute_buyer_reliability                                             *)
(***************************************************************************)
ReadOffers(w) ==
  /\ pc[w] = "offers"
  /\ known' = [known EXCEPT ![w] = offers]
  /\ undisturbed' = undisturbed \cup {w}
  /\ Goto(w, "payments")
  /\ UNCHANGED <<evidence, grade, tally, fresh, trouble>>

ReadPayments(w) ==
  /\ pc[w] = "payments"
  /\ tally' = [tally EXCEPT ![w] = PaymentTally(known[w])]
  /\ Goto(w, "grievances")
  /\ UNCHANGED <<evidence, grade, known, undisturbed, fresh, trouble>>

\* Slip: grievances are not reckoned with.
ReadGrievances_None(w) ==
  /\ pc[w] = "grievances"
  /\ IF ~Weighs(tally[w]) THEN Return(w) ELSE Goto(w, "write") /\ UNCHANGED <<known, tally, undisturbed>>
  /\ UNCHANGED <<evidence, grade, fresh, trouble>>

\* Without any evidence the grade is left alone.
ReadGrievances(w) ==
  /\ pc[w] = "grievances"
  /\ LET t == WithGrievances(tally[w], Against(known[w]))
     IN \/ ~Weighs(t) /\ Return(w)
        \/ /\ Weighs(t)
           /\ tally' = [tally EXCEPT ![w] = t]
           /\ Goto(w, "write")
           /\ UNCHANGED <<known, undisturbed>>
  /\ UNCHANGED <<evidence, grade, fresh, trouble>>

WriteGrade(w) ==
  /\ pc[w] = "write"
  /\ grade' = GradeOf(tally[w])
  /\ fresh' = (w \in undisturbed)
  /\ Return(w)
  /\ UNCHANGED <<evidence, trouble>>

Abort(w) ==
  /\ MayFail
  /\ pc[w] # "idle"
  /\ Return(w)
  /\ trouble' = TRUE
  /\ UNCHANGED <<evidence, grade, fresh>>

Next ==
  \/ \E o \in Offers : MakeOffer(o)
  \/ \E p \in Payments : CreatePayment(p)
  \/ \E g \in Grievances : CreateGrievance(g)
  \/ \E w \in Workers :
       \/ \E p \in Payments, s \in {"paid", "failed", "disputed"} : SettlePayment(w, p, s)
       \/ \E g \in Grievances, s \in GrievanceStatus : AdminUpdateGrievance(w, g, s)
       \/ AdminRescore(w)
       \/ ReadOffers(w) \/ ReadPayments(w) \/ ReadGrievances(w) \/ WriteGrade(w)
       \/ Abort(w)

Spec == Init /\ [][Next]_vars

-----------------------------------------------------------------------------
Evidence == WithGrievances(PaymentTally(offers), Against(offers))

\* Statuses and grades stay within their CHECK lists, and only offers that
\* exist have payments and grievances (008_marketplace.sql, foreign keys).
TypeOK ==
  /\ offers \subseteq Offers
  /\ pay \in [Payments -> PaymentStatus \cup {"absent"}]
  /\ grief \in [Grievances -> GrievanceStatus \cup {"absent"}]
  /\ grade \in Grades
  /\ pc \in [Workers -> {"idle", "offers", "payments", "grievances", "write"}]
  /\ known \in [Workers -> SUBSET offers]
  /\ tally \in [Workers -> [paid : Nat, failed : Nat, disputed : Nat, grief : Nat]]
  /\ undisturbed \subseteq Workers
  /\ fresh \in BOOLEAN /\ trouble \in BOOLEAN
  /\ \A p \in Payments : pay[p] # "absent" => OfferOf[p] \in offers
  /\ \A g \in Grievances : grief[g] # "absent" => OfferOf[g] \in offers

\* Whatever overlaps and fails: a grade written by a rescoring that nothing
\* disturbed is the score of what is now on record, until the record changes
\* (recompute_buyer_reliability's four calls fit together).
FreshGradeIsCurrent ==
  fresh /\ Weighs(Evidence) => grade = GradeOf(Evidence)

\* The record keeps its types, and what is fresh is current.
GradesConsistent == TypeOK /\ FreshGradeIsCurrent

\* As long as no requests overlap and no call fails: between requests the grade
\* follows from the record, leaving out at most grievances that are open: filed and
\* not looked at yet, or set back by an admin.  Every handler that settles a payment
\* or decides on a grievance rescores (payments.py, admin.py).
GradeFollowsRecord ==
  Idle /\ ~trouble =>
    \E new \in SUBSET {g \in Grievances : grief[g] = "open"} :
      LET counted == WithGrievances(PaymentTally(offers), Against(offers) \ new)
      IN ~Weighs(counted) \/ grade = GradeOf(counted)
=============================================================================
