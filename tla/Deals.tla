------------------------------- MODULE Deals --------------------------------
(***************************************************************************)
(* The trade core of the marketplace: lots, the offers made on them and    *)
(* the payments that settle an accepted offer.                             *)
(*                                                                         *)
(* Handlers are synchronous functions run by a pool of threads.  Each      *)
(* `.execute()` is one PostgREST request, hence one atomic statement, and  *)
(* nothing spans two of them.  A step of this module is therefore one      *)
(* database call together with the Python that follows it up to the next   *)
(* call; between two calls of one handler any other handler may run.       *)
(*                                                                         *)
(* A request that is refused before its first write (404, 409, 400) leaves *)
(* the state as it was: its first read is simply not enabled here.         *)
(*                                                                         *)
(* buyers.payment_reliability is not kept here.  The payment handlers end  *)
(* with a rescore of the buyer, visible in this module only as the time    *)
(* spent in it (Rescored).                                                 *)
(***************************************************************************)
EXTENDS Naturals, FiniteSets

CONSTANTS
  Lots,      \* lot ids
  Offers,    \* offer ids; an id is used once, for an offer on LotOf[o]
  Payments,  \* payment ids; an id is used once, for a payment of OfferOf[p]
  LotOf,     \* offers.lot_id, which no statement ever changes
  OfferOf,   \* payments.offer_id, likewise
  Workers,   \* threads that run handlers and jobs
  Cron,      \* the workers that belong to the scheduler: they only sweep
  Workload,  \* the operations clients ask for
  Failing,   \* the workers whose calls may fail, which ends the handler
  SWEEP_LIMIT, \* rows the select of expire_stale_offers returns at most
  None       \* no target

Operations == {"create_lot", "withdraw_lot", "create_offer", "update_offer",
               "expire_stale_offers", "create_payment", "mark_paid",
               "mark_failed", "mark_disputed"}

ASSUME DealsAssumption ==
  /\ LotOf \in [Offers -> Lots]
  /\ OfferOf \in [Payments -> Offers]
  /\ Cron \subseteq Workers
  /\ Workload \subseteq Operations
  /\ Failing \subseteq Workers
  /\ SWEEP_LIMIT \in Nat \ {0}
  /\ None \notin Lots \cup Offers \cup Payments

LotStatus     == {"open", "offered", "matched", "sold", "withdrawn"}
OfferStatus   == {"pending", "accepted", "rejected", "expired"}
PaymentStatus == {"pending", "paid", "failed", "disputed"}

\* Where a handler stands: the call it makes next, by the kind of row it is about.
LotCalls     == {"offer_insert", "offer_mark", "match_lot",
                 "reopen_pending", "reopen_lot", "reopen_write"}
OfferCalls   == {"expire_write", "patch_write", "pay_check", "pay_insert"}
PaymentCalls == {"paid_write", "sell_lot", "revert_write", "fail_write",
                 "dispute_write", "rescore"}
Calls        == LotCalls \cup OfferCalls \cup PaymentCalls \cup {"sweep"}

VARIABLES
  lot,          \* lots.status, or "absent" before the insert
  offer,        \* offers.status, or "absent"
  payment,      \* payments.status, or "absent"
  aged,         \* offers created more than OFFER_TTL_HOURS ago
  pc,           \* the next call of each worker, or "idle"
  tgt,          \* the row that call is about
  val,          \* a status the handler carries from one call to a later one
  todo,         \* the stale offers a sweep has still to expire
  everAccepted, \* history: offers that have been accepted
  everPaid      \* history: payments that have been marked paid

tables == <<lot, offer, payment>>
locals == <<pc, tgt, val, todo>>
history == <<everAccepted, everPaid>>
vars == <<lot, offer, payment, aged, pc, tgt, val, todo, everAccepted, everPaid>>

-----------------------------------------------------------------------------
(***************************************************************************)
(* Queries                                                                 *)
(***************************************************************************)
OffersOn(l)    == {o \in Offers : LotOf[o] = l}
PaymentsFor(o) == {p \in Payments : OfferOf[p] = o}
PendingOn(l)   == {o \in OffersOn(l) : offer[o] = "pending"}

\* The statuses the partial unique index and create_payment look at.
OpenPayment == {"pending", "paid"}
OpenFor(o)  == {p \in PaymentsFor(o) : payment[p] \in OpenPayment}

\* Slip: the age is not looked at.
Stale_IgnoresAge(o) == offer[o] = "pending"

\* A pending offer older than its time to live.
Stale(o) == offer[o] = "pending" /\ o \in aged

\* Slip: migration 012 not applied.
IndexAllows_NoIndex(p, s) == TRUE

\* uq_payments_one_open_per_offer lets p take status s.
IndexAllows(p, s) == s \in OpenPayment => OpenFor(OfferOf[p]) \subseteq {p}

(***************************************************************************)
(* Control of a handler                                                    *)
(***************************************************************************)
Goto(w, call, id, s) ==
  /\ pc'  = [pc EXCEPT ![w] = call]
  /\ tgt' = [tgt EXCEPT ![w] = id]
  /\ val' = [val EXCEPT ![w] = s]

\* The handler answers; a sweep turns to its next offer instead.
Return(w) == Goto(w, IF todo[w] = {} THEN "idle" ELSE "sweep", None, "none")

\* A client's request for operation op reaches the idle worker w.
Request(w, op) == pc[w] = "idle" /\ w \notin Cron /\ op \in Workload

At(w, call) == pc[w] = call

-----------------------------------------------------------------------------
Init ==
  /\ lot     = [l \in Lots |-> "absent"]
  /\ offer   = [o \in Offers |-> "absent"]
  /\ payment = [p \in Payments |-> "absent"]
  /\ aged    = {}
  /\ pc      = [w \in Workers |-> "idle"]
  /\ tgt     = [w \in Workers |-> None]
  /\ val     = [w \in Workers |-> "none"]
  /\ todo    = [w \in Workers |-> {}]
  /\ everAccepted = {}
  /\ everPaid     = {}

(***************************************************************************)
(* Lots                                                                    *)
(***************************************************************************)
CreateLot(w, l) ==
  /\ Request(w, "create_lot")
  /\ lot[l] = "absent"
  /\ lot' = [lot EXCEPT ![l] = "open"]
  /\ UNCHANGED <<offer, payment, aged, locals, history>>

\* The update is keyed by id and owner only: any status is overwritten.
WithdrawLot(w, l) ==
  /\ Request(w, "withdraw_lot")
  /\ lot[l] # "absent"
  /\ lot' = [lot EXCEPT ![l] = "withdrawn"]
  /\ UNCHANGED <<offer, payment, aged, locals, history>>

(***************************************************************************)
(* create_offer: read the lot, insert the offer, mark the lot offered.     *)
(***************************************************************************)
CreateOffer(w, l) ==
  /\ Request(w, "create_offer")
  /\ lot[l] \in {"open", "offered"}
  /\ \E o \in OffersOn(l) : offer[o] = "absent"
  /\ Goto(w, "offer_insert", l, "none")
  /\ UNCHANGED <<tables, aged, todo, history>>

\* With every offer id of the instance in use, the insert fails.
InsertOffer(w) ==
  /\ At(w, "offer_insert")
  /\ \/ \E o \in OffersOn(tgt[w]) :
          /\ offer[o] = "absent"
          /\ offer' = [offer EXCEPT ![o] = "pending"]
          /\ Goto(w, "offer_mark", tgt[w], "none")
     \/ /\ \A o \in OffersOn(tgt[w]) : offer[o] # "absent"
        /\ Return(w)
        /\ UNCHANGED offer
  /\ UNCHANGED <<lot, payment, aged, todo, history>>

MarkLotOffered(w) ==
  /\ At(w, "offer_mark")
  /\ lot' = [lot EXCEPT ![tgt[w]] = "offered"]
  /\ Return(w)
  /\ UNCHANGED <<offer, payment, aged, todo, history>>

(***************************************************************************)
(* update_offer: read the offer; a stale one is expired whatever was asked *)
(* for; only a pending one can be accepted; otherwise the asked status is  *)
(* written over whatever the row holds by then, and the lot follows.       *)
(***************************************************************************)
UpdateStaleOffer(w, o) ==
  /\ Request(w, "update_offer")
  /\ Stale(o)
  /\ Goto(w, "expire_write", o, "none")
  /\ UNCHANGED <<tables, aged, todo, history>>

UpdateOffer(w, o, s) ==
  /\ Request(w, "update_offer")
  /\ offer[o] # "absent"
  /\ ~Stale(o)
  /\ s = "accepted" => offer[o] = "pending"
  /\ Goto(w, "patch_write", o, s)
  /\ UNCHANGED <<tables, aged, todo, history>>

PatchOffer(w) ==
  /\ At(w, "patch_write")
  /\ LET o == tgt[w]
         s == val[w]
     IN /\ offer' = [offer EXCEPT ![o] = s]
        /\ everAccepted' = IF s = "accepted" THEN everAccepted \cup {o}
                                             ELSE everAccepted
        /\ \/ s = "accepted" /\ Goto(w, "match_lot", LotOf[o], "none")
           \/ s \in {"rejected", "expired"} /\ Goto(w, "reopen_pending", LotOf[o], "none")
           \/ s = "pending" /\ Return(w)
  /\ UNCHANGED <<lot, payment, aged, todo, everPaid>>

MatchLot(w) ==
  /\ At(w, "match_lot")
  /\ lot' = [lot EXCEPT ![tgt[w]] = "matched"]
  /\ Return(w)
  /\ UNCHANGED <<offer, payment, aged, todo, history>>

(***************************************************************************)
(* expire_stale_offers: one select of pending offers, whichever the limit  *)
(* lets through, then for each stale one among them an update keyed by id  *)
(* only, and a reopen of its lot.  A sweep that has found none just ends.  *)
(***************************************************************************)
Pending == {o \in Offers : offer[o] = "pending"}
Crowded == Cardinality(Pending) > SWEEP_LIMIT

\* What the select may return: no order is asked for.
Selections ==
  IF Crowded THEN {read \in SUBSET Pending : Cardinality(read) = SWEEP_LIMIT} ELSE {Pending}

\* Slip: the sweep only looks at lots still on offer.
StartSweep_OfferedLots(w) ==
  /\ pc[w] = "idle"
  /\ w \in Cron \/ "expire_stale_offers" \in Workload
  /\ \E read \in Selections :
       todo' = [todo EXCEPT ![w] = {o \in read : Stale(o) /\ lot[LotOf[o]] = "offered"}]
  /\ Goto(w, "sweep", None, "none")
  /\ UNCHANGED <<tables, aged, history>>

StartSweep(w) ==
  /\ pc[w] = "idle"
  /\ w \in Cron \/ "expire_stale_offers" \in Workload
  /\ \E read \in Selections : todo' = [todo EXCEPT ![w] = {o \in read : Stale(o)}]
  /\ Goto(w, "sweep", None, "none")
  /\ UNCHANGED <<tables, aged, history>>

EndSweep(w) ==
  /\ At(w, "sweep")
  /\ todo[w] = {}
  /\ Return(w)
  /\ UNCHANGED <<tables, aged, todo, history>>

ExpireInSweep(w, o) ==
  /\ At(w, "sweep")
  /\ o \in todo[w]
  /\ offer' = [offer EXCEPT ![o] = "expired"]
  /\ todo' = [todo EXCEPT ![w] = @ \ {o}]
  /\ Goto(w, "reopen_pending", LotOf[o], "none")
  /\ UNCHANGED <<lot, payment, aged, history>>

\* Slip: the lot of an offer found stale is not reopened.
ExpireStale_NoReopen(w) ==
  /\ At(w, "expire_write")
  /\ offer' = [offer EXCEPT ![tgt[w]] = "expired"]
  /\ Return(w)
  /\ UNCHANGED <<lot, payment, aged, todo, history>>

\* The same write in update_offer, for one offer.
ExpireStale(w) ==
  /\ At(w, "expire_write")
  /\ offer' = [offer EXCEPT ![tgt[w]] = "expired"]
  /\ Goto(w, "reopen_pending", LotOf[tgt[w]], "none")
  /\ UNCHANGED <<lot, payment, aged, todo, history>>

(***************************************************************************)
(* _reopen_lot_if_idle: two reads and a write, each a call of its own.     *)
(***************************************************************************)
\* Slip: other pending offers on the lot are not looked for.
ReopenReadOffers_None(w) ==
  /\ At(w, "reopen_pending")
  /\ Goto(w, "reopen_lot", tgt[w], "none")
  /\ UNCHANGED <<tables, aged, todo, history>>

ReopenReadOffers(w) ==
  /\ At(w, "reopen_pending")
  /\ IF PendingOn(tgt[w]) # {} THEN Return(w)
                               ELSE Goto(w, "reopen_lot", tgt[w], "none")
  /\ UNCHANGED <<tables, aged, todo, history>>

\* Slip: the lot is reopened whatever its status.
ReopenReadLot_Any(w) ==
  /\ At(w, "reopen_lot")
  /\ Goto(w, "reopen_write", tgt[w], "none")
  /\ UNCHANGED <<tables, aged, todo, history>>

ReopenReadLot(w) ==
  /\ At(w, "reopen_lot")
  /\ IF lot[tgt[w]] # "offered" THEN Return(w)
                                ELSE Goto(w, "reopen_write", tgt[w], "none")
  /\ UNCHANGED <<tables, aged, todo, history>>

ReopenWrite(w) ==
  /\ At(w, "reopen_write")
  /\ lot' = [lot EXCEPT ![tgt[w]] = "open"]
  /\ Return(w)
  /\ UNCHANGED <<offer, payment, aged, todo, history>>

(***************************************************************************)
(* create_payment: the offer must read accepted; an open payment found for *)
(* it is returned (or refused); else insert, under the unique index.       *)
(***************************************************************************)
\* Slip: any offer can be paid for.
CreatePayment_AnyOffer(w, o) ==
  /\ Request(w, "create_payment")
  /\ offer[o] # "absent"
  /\ Goto(w, "pay_check", o, "none")
  /\ UNCHANGED <<tables, aged, todo, history>>

CreatePayment(w, o) ==
  /\ Request(w, "create_payment")
  /\ offer[o] = "accepted"
  /\ Goto(w, "pay_check", o, "none")
  /\ UNCHANGED <<tables, aged, todo, history>>

CheckPayments(w) ==
  /\ At(w, "pay_check")
  /\ IF OpenFor(tgt[w]) # {} THEN Return(w) ELSE Goto(w, "pay_insert", tgt[w], "none")
  /\ UNCHANGED <<tables, aged, todo, history>>

\* The insert, or the 23505 it meets (answered 409), or no id left to model it.
InsertPayment(w) ==
  /\ At(w, "pay_insert")
  /\ \/ \E p \in PaymentsFor(tgt[w]) :
          /\ payment[p] = "absent"
          /\ IndexAllows(p, "pending")
          /\ payment' = [payment EXCEPT ![p] = "pending"]
     \/ /\ \A p \in PaymentsFor(tgt[w]) :
             payment[p] = "absent" => ~IndexAllows(p, "pending")
        /\ UNCHANGED payment
  /\ Return(w)
  /\ UNCHANGED <<lot, offer, aged, todo, history>>

(***************************************************************************)
(* mark_paid: read the payment, write it paid, write its lot sold, rescore *)
(* the buyer.  The read of offers.lot_id between the two writes is folded  *)
(* into the second: the column never changes.                              *)
(***************************************************************************)
\* Slip: the status to put back is not kept.
MarkPaid_NoSnapshot(w, p) ==
  /\ Request(w, "mark_paid")
  /\ payment[p] \notin {"absent", "failed", "disputed"}
  /\ Goto(w, "paid_write", p, "none")
  /\ UNCHANGED <<tables, aged, todo, history>>

MarkPaid(w, p) ==
  /\ Request(w, "mark_paid")
  /\ payment[p] \notin {"absent", "failed", "disputed"}
  /\ Goto(w, "paid_write", p, payment[p])
  /\ UNCHANGED <<tables, aged, todo, history>>

\* The row may have left the index since the read, and another entered it.
WritePaid(w) ==
  /\ At(w, "paid_write")
  /\ IF IndexAllows(tgt[w], "paid")
     THEN /\ payment' = [payment EXCEPT ![tgt[w]] = "paid"]
          /\ everPaid' = everPaid \cup {tgt[w]}
          /\ Goto(w, "sell_lot", tgt[w], val[w])
     ELSE Return(w) /\ UNCHANGED <<payment, everPaid>>
  /\ UNCHANGED <<lot, offer, aged, todo, everAccepted>>

\* An update that returns no row sends the handler to its compensation.
SellLot(w) ==
  /\ At(w, "sell_lot")
  /\ \/ /\ lot' = [lot EXCEPT ![LotOf[OfferOf[tgt[w]]]] = "sold"]
        /\ Goto(w, "rescore", tgt[w], "none")
     \/ /\ w \in Failing
        /\ Goto(w, "revert_write", tgt[w], val[w])
        /\ UNCHANGED lot
  /\ UNCHANGED <<offer, payment, aged, todo, history>>

\* The compensation puts back the status read at the start, then answers 503.
RevertPayment(w) ==
  /\ At(w, "revert_write")
  /\ payment' = IF IndexAllows(tgt[w], val[w])
                THEN [payment EXCEPT ![tgt[w]] = val[w]]
                ELSE payment
  /\ Return(w)
  /\ UNCHANGED <<lot, offer, aged, todo, history>>

MarkFailed(w, p) ==
  /\ Request(w, "mark_failed")
  /\ payment[p] \notin {"absent", "paid"}
  /\ Goto(w, "fail_write", p, "none")
  /\ UNCHANGED <<tables, aged, todo, history>>

MarkDisputed(w, p) ==
  /\ Request(w, "mark_disputed")
  /\ payment[p] # "absent"
  /\ Goto(w, "dispute_write", p, "none")
  /\ UNCHANGED <<tables, aged, todo, history>>

WriteFailed(w) ==
  /\ At(w, "fail_write")
  /\ payment' = [payment EXCEPT ![tgt[w]] = "failed"]
  /\ Goto(w, "rescore", tgt[w], "none")
  /\ UNCHANGED <<lot, offer, aged, todo, history>>

WriteDisputed(w) ==
  /\ At(w, "dispute_write")
  /\ payment' = [payment EXCEPT ![tgt[w]] = "disputed"]
  /\ Goto(w, "rescore", tgt[w], "none")
  /\ UNCHANGED <<lot, offer, aged, todo, history>>

\* _rescore_offer_buyer is over: it touches no table of this module.
Rescored(w) ==
  /\ At(w, "rescore")
  /\ Return(w)
  /\ UNCHANGED <<tables, aged, todo, history>>

(***************************************************************************)
(* The environment                                                         *)
(***************************************************************************)
\* A database call raises, or the process dies: the handler goes no further
\* and what it has written stays.
Abort(w) ==
  /\ w \in Failing
  /\ pc[w] # "idle"
  /\ Goto(w, "idle", None, "none")
  /\ todo' = [todo EXCEPT ![w] = {}]
  /\ UNCHANGED <<tables, aged, history>>

\* OFFER_TTL_HOURS pass.  No request lasts that long, so the one that created
\* the offer is over.
Age(o) ==
  /\ offer[o] # "absent"
  /\ o \notin aged
  /\ \A w \in Workers : At(w, "offer_mark") => tgt[w] # LotOf[o]
  /\ aged' = aged \cup {o}
  /\ UNCHANGED <<tables, locals, history>>

-----------------------------------------------------------------------------
\* What worker w does once a request or a tick of the scheduler has reached it.
Continue(w) ==
  \/ \E o \in Offers : ExpireInSweep(w, o)
  \/ EndSweep(w)
  \/ InsertOffer(w) \/ MarkLotOffered(w) \/ PatchOffer(w) \/ MatchLot(w) \/ ExpireStale(w)
  \/ ReopenReadOffers(w) \/ ReopenReadLot(w) \/ ReopenWrite(w)
  \/ CheckPayments(w) \/ InsertPayment(w)
  \/ WritePaid(w) \/ SellLot(w) \/ RevertPayment(w)
  \/ WriteFailed(w) \/ WriteDisputed(w) \/ Rescored(w)

Begin(w) ==
  \/ \E l \in Lots : CreateLot(w, l) \/ WithdrawLot(w, l) \/ CreateOffer(w, l)
  \/ \E o \in Offers : UpdateStaleOffer(w, o) \/ CreatePayment(w, o)
  \/ \E o \in Offers, s \in OfferStatus : UpdateOffer(w, o, s)
  \/ \E p \in Payments : MarkPaid(w, p) \/ MarkFailed(w, p) \/ MarkDisputed(w, p)
  \/ StartSweep(w)

Next ==
  \/ \E w \in Workers : Begin(w) \/ Continue(w) \/ Abort(w)
  \/ \E o \in Offers : Age(o)

Spec == Init /\ [][Next]_vars

\* Threads are scheduled, so a handler that has begun goes on; the scheduler's
\* interval job fires again and again.
Fairness ==
  /\ \A w \in Workers : WF_vars(Continue(w))
  /\ \A w \in Cron : WF_vars(StartSweep(w))

FairSpec == Spec /\ Fairness

-----------------------------------------------------------------------------
(***************************************************************************)
(* Invariants                                                              *)
(***************************************************************************)
\* Every variable has its type, and a handler about to make a call of one
\* kind has a row of that kind as its target.
TypeOK ==
  /\ lot \in [Lots -> LotStatus \cup {"absent"}]
  /\ offer \in [Offers -> OfferStatus \cup {"absent"}]
  /\ payment \in [Payments -> PaymentStatus \cup {"absent"}]
  /\ aged \subseteq Offers
  /\ pc \in [Workers -> Calls \cup {"idle"}]
  /\ tgt \in [Workers -> Lots \cup Offers \cup Payments \cup {None}]
  /\ val \in [Workers -> OfferStatus \cup OpenPayment \cup {"none"}]
  /\ todo \in [Workers -> SUBSET Offers]
  /\ everAccepted \subseteq Offers
  /\ everPaid \subseteq Payments
  /\ \A w \in Workers :
       /\ pc[w] \in LotCalls => tgt[w] \in Lots
       /\ pc[w] \in OfferCalls => tgt[w] \in Offers
       /\ pc[w] \in PaymentCalls => tgt[w] \in Payments
       /\ pc[w] = "patch_write" => val[w] \in OfferStatus
       /\ pc[w] \in {"paid_write", "sell_lot", "revert_write"} => val[w] \in OpenPayment

\* An offer never has two payments that are pending or paid, however the
\* requests that create, pay, revert and dispute payments overlap, although
\* create_payment only looks for one before it inserts.
OneOpenPaymentPerOffer ==
  \A p, q \in Payments :
    (p # q /\ OfferOf[p] = OfferOf[q]) =>
      ~(payment[p] \in OpenPayment /\ payment[q] \in OpenPayment)

\* A payment is only ever recorded for an offer that was accepted at some
\* time, and a lot is only sold when a payment for it was marked paid.
SettlementHasGround ==
  /\ \A p \in Payments : payment[p] # "absent" => OfferOf[p] \in everAccepted
  /\ \A l \in Lots : lot[l] = "sold" => \E p \in everPaid : LotOf[OfferOf[p]] = l

-----------------------------------------------------------------------------
(***************************************************************************)
(* What a step may never do, and what must happen                          *)
(***************************************************************************)
\* A lot that is matched, sold or withdrawn never comes back on offer:
\* create_offer refuses it, and a reopen only turns offered into open.
ClosedLotStaysClosed ==
  [][\A l \in Lots : lot[l] \in {"matched", "sold", "withdrawn"} =>
                       lot'[l] \notin {"open", "offered"}]_lot

\* An offer younger than OFFER_TTL_HOURS only expires when a request says so.
FreshOfferNotExpired ==
  [][\A o \in Offers :
       (offer[o] # "expired" /\ offer'[o] = "expired" /\ o \notin aged) =>
         \E w \in Workers : pc[w] = "patch_write" /\ tgt[w] = o /\ val[w] = "expired"]_vars

\* "illegal state (pay a rejected offer)": a payment becomes paid only while
\* its offer stands accepted.
PaidOfferIsAccepted ==
  [][\A p \in Payments : (payment[p] # "paid" /\ payment'[p] = "paid") =>
                           offer[OfferOf[p]] = "accepted"]_payment

Quiet == \A w \in Workers : pc[w] = "idle"

\* Between requests, an offered lot has an offer that is still pending:
\* whoever takes the last one away also reopens or closes the lot.
OfferedLotHasOffer ==
  Quiet => \A l \in Lots : lot[l] = "offered" => PendingOn(l) # {}

\* Between requests, a paid payment's lot has left the market for good.
PaidLotIsClosed ==
  Quiet => \A p \in Payments : payment[p] = "paid" =>
             lot[LotOf[OfferOf[p]]] \in {"matched", "sold", "withdrawn"}

\* Between requests a lot and its deals tell the same story, whatever requests
\* and sweeps came before.
LotFitsItsDeals == OfferedLotHasOffer /\ PaidLotIsClosed

\* The hourly sweep gets to every stale offer, whatever clients do meanwhile, unless more
\* offers are pending than its select returns (the limit comes before the age is looked at).
StaleOffersExpire == \A o \in Offers : Stale(o) ~> ~Stale(o) \/ Crowded

=============================================================================
