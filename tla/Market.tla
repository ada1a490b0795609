------------------------------- MODULE Market -------------------------------
(***************************************************************************)
(* What the trade API promises a client whose requests do not overlap with *)
(* any other: each request takes effect at once, lot and offer (or lot and *)
(* payment) together.  Deals with a single worker implements this module   *)
(* (DealsSerial); with several workers it does not, and the runs that      *)
(* expect a violation show where it departs.                               *)
(***************************************************************************)
CONSTANTS Lots, Offers, Payments, LotOf, OfferOf

VARIABLES lot, offer, payment, aged

vars == <<lot, offer, payment, aged>>

Pending(l) == {o \in Offers : LotOf[o] = l /\ offer[o] = "pending"}
Open(o) == {p \in Payments : OfferOf[p] = o /\ payment[p] \in {"pending", "paid"}}

\* The lot after offer o, its offer, has stopped being pending.
Reopened(o) ==
  LET l == LotOf[o]
  IN IF lot[l] = "offered" /\ Pending(l) \subseteq {o}
     THEN [lot EXCEPT ![l] = "open"] ELSE lot

Init ==
  /\ lot     = [l \in Lots |-> "absent"]
  /\ offer   = [o \in Offers |-> "absent"]
  /\ payment = [p \in Payments |-> "absent"]
  /\ aged    = {}

List(l) ==
  /\ lot[l] = "absent"
  /\ lot' = [lot EXCEPT ![l] = "open"]
  /\ UNCHANGED <<offer, payment, aged>>

Withdraw(l) ==
  /\ lot[l] # "absent"
  /\ lot' = [lot EXCEPT ![l] = "withdrawn"]
  /\ UNCHANGED <<offer, payment, aged>>

Offer(o) ==
  /\ offer[o] = "absent"
  /\ lot[LotOf[o]] \in {"open", "offered"}
  /\ offer' = [offer EXCEPT ![o] = "pending"]
  /\ lot' = [lot EXCEPT ![LotOf[o]] = "offered"]
  /\ UNCHANGED <<payment, aged>>

Accept(o) ==
  /\ offer[o] = "pending"
  /\ o \notin aged
  /\ offer' = [offer EXCEPT ![o] = "accepted"]
  /\ lot' = [lot EXCEPT ![LotOf[o]] = "matched"]
  /\ UNCHANGED <<payment, aged>>

\* By the farmer, whatever became of the offer; or, past its time, by itself.
Close(o, s) ==
  /\ offer[o] # "absent"
  /\ offer[o] = "pending" /\ o \in aged => s = "expired"
  /\ offer' = [offer EXCEPT ![o] = s]
  /\ lot' = Reopened(o)
  /\ UNCHANGED <<payment, aged>>

Revive(o) ==
  /\ offer[o] \notin {"absent", "pending"}
  /\ offer' = [offer EXCEPT ![o] = "pending"]
  /\ UNCHANGED <<lot, payment, aged>>

RequestPayment(p) ==
  /\ payment[p] = "absent"
  /\ offer[OfferOf[p]] = "accepted"
  /\ Open(OfferOf[p]) = {}
  /\ payment' = [payment EXCEPT ![p] = "pending"]
  /\ UNCHANGED <<lot, offer, aged>>

Settle(p) ==
  /\ payment[p] \in {"pending", "paid"}
  /\ payment' = [payment EXCEPT ![p] = "paid"]
  /\ lot' = [lot EXCEPT ![LotOf[OfferOf[p]]] = "sold"]
  /\ UNCHANGED <<offer, aged>>

Fail(p) ==
  /\ payment[p] \in {"pending", "failed", "disputed"}
  /\ payment' = [payment EXCEPT ![p] = "failed"]
  /\ UNCHANGED <<lot, offer, aged>>

Dispute(p) ==
  /\ payment[p] # "absent"
  /\ payment' = [payment EXCEPT ![p] = "disputed"]
  /\ UNCHANGED <<lot, offer, aged>>

Outlive(o) ==
  /\ offer[o] # "absent"
  /\ aged' = aged \cup {o}
  /\ UNCHANGED <<lot, offer, payment>>

Next ==
  \/ \E l \in Lots : List(l) \/ Withdraw(l)
  \/ \E o \in Offers : Offer(o) \/ Accept(o) \/ Revive(o) \/ Outlive(o)
  \/ \E o \in Offers, s \in {"rejected", "expired"} : Close(o, s)
  \/ \E p \in Payments : RequestPayment(p) \/ Settle(p) \/ Fail(p) \/ Dispute(p)

Spec == Init /\ [][Next]_vars
=============================================================================
