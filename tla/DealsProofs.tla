---------------------------- MODULE DealsProofs -----------------------------
(***************************************************************************)
(* Deals, for any number of lots, offers, payments and workers, with or    *)
(* without failing calls: its types, the uniqueness of open payments, the  *)
(* ground of every settlement, the expiry of fresh offers, and that only   *)
(* writes on an outdated reading take back what others have decided.       *)
(*                                                                         *)
(* Then, for requests that come one at a time: closed lots stay closed,    *)
(* lots fit their deals and the whole implements Market.  With overlapping *)
(* handlers none of these three holds: no statement spans two tables.      *)
(***************************************************************************)
EXTENDS DealsSerial, LateWrites, TLAPS

-----------------------------------------------------------------------------
(* Types                                                                   *)

\* The empty database with every worker idle is well typed.
LEMMA TypeInit == Init => TypeOK
  BY DealsAssumption DEF Init, TypeOK, LotCalls, OfferCalls, PaymentCalls, Calls,
     LotStatus, OfferStatus, PaymentStatus, OpenPayment

\* Whatever the select returns, the sweep goes on with stale offers only.
LEMMA SweepRead ==
  ASSUME NEW w \in Workers, StartSweep(w)
  PROVE  \E due \in SUBSET Offers :
           (\A o \in due : Stale(o)) /\ todo' = [todo EXCEPT ![w] = due]
<1>1. PICK read \in Selections : todo' = [todo EXCEPT ![w] = {o \in read : Stale(o)}]
  BY DEF StartSweep
<1>2. read \subseteq Offers
  BY DEF Selections, Pending
<1>3. QED
  BY <1>1, <1>2

\* The first step of a request or of a sweep picks a call and a row for it.
LEMMA TypeBegin ==
  ASSUME TypeOK, NEW w \in Workers, Begin(w)
  PROVE  TypeOK'
<1> USE DealsAssumption DEF TypeOK, LotCalls, OfferCalls, PaymentCalls, Calls,
        LotStatus, OfferStatus, PaymentStatus, OpenPayment, Request, Goto,
        tables, locals, history
<1>1. ASSUME NEW l \in Lots, CreateLot(w, l) PROVE TypeOK'
  BY <1>1 DEF CreateLot
<1>2. ASSUME NEW l \in Lots, WithdrawLot(w, l) PROVE TypeOK'
  BY <1>2 DEF WithdrawLot
<1>3. ASSUME NEW l \in Lots, CreateOffer(w, l) PROVE TypeOK'
  BY <1>3 DEF CreateOffer
<1>4. ASSUME NEW o \in Offers, UpdateStaleOffer(w, o) PROVE TypeOK'
  BY <1>4 DEF UpdateStaleOffer
<1>5. ASSUME NEW o \in Offers, CreatePayment(w, o) PROVE TypeOK'
  BY <1>5 DEF CreatePayment
<1>6. ASSUME NEW o \in Offers, NEW s \in OfferStatus, UpdateOffer(w, o, s)
      PROVE  TypeOK'
  BY <1>6 DEF UpdateOffer
<1>7. ASSUME NEW p \in Payments, MarkPaid(w, p) PROVE TypeOK'
  BY <1>7 DEF MarkPaid
<1>8. ASSUME NEW p \in Payments, MarkFailed(w, p) PROVE TypeOK'
  BY <1>8 DEF MarkFailed
<1>9. ASSUME NEW p \in Payments, MarkDisputed(w, p) PROVE TypeOK'
  BY <1>9 DEF MarkDisputed
<1>10. ASSUME StartSweep(w) PROVE TypeOK'
  <2>1. PICK due \in SUBSET Offers : todo' = [todo EXCEPT ![w] = due]
    BY <1>10, SweepRead
  <2>2. todo' \in [Workers -> SUBSET Offers]
    BY <2>1
  <2>3. QED
    BY <1>10, <2>2 DEF StartSweep
<1>11. QED
  BY <1>1, <1>2, <1>3, <1>4, <1>5, <1>6, <1>7, <1>8, <1>9, <1>10 DEF Begin

\* The later calls of a handler find a row of the right kind and write a status.
LEMMA TypeContinue ==
  ASSUME TypeOK, NEW w \in Workers, Continue(w)
  PROVE  TypeOK'
<1> USE DealsAssumption DEF TypeOK, LotCalls, OfferCalls, PaymentCalls, Calls,
        LotStatus, OfferStatus, PaymentStatus, OpenPayment, At, Goto, Return,
        tables, history
<1>1. ASSUME NEW o \in Offers, ExpireInSweep(w, o) PROVE TypeOK'
  BY <1>1 DEF ExpireInSweep
<1>2. CASE InsertOffer(w)
  BY <1>2 DEF InsertOffer, OffersOn
<1>3. CASE MarkLotOffered(w)
  BY <1>3 DEF MarkLotOffered
<1>4. CASE PatchOffer(w)
  BY <1>4 DEF PatchOffer
<1>5. CASE MatchLot(w)
  BY <1>5 DEF MatchLot
<1>6. CASE ExpireStale(w)
  BY <1>6 DEF ExpireStale
<1>7. CASE ReopenReadOffers(w)
  BY <1>7 DEF ReopenReadOffers
<1>8. CASE ReopenReadLot(w)
  BY <1>8 DEF ReopenReadLot
<1>9. CASE ReopenWrite(w)
  BY <1>9 DEF ReopenWrite
<1>10. CASE CheckPayments(w)
  BY <1>10 DEF CheckPayments
<1>11. CASE InsertPayment(w)
  BY <1>11 DEF InsertPayment, PaymentsFor
<1>12. CASE WritePaid(w)
  BY <1>12 DEF WritePaid
<1>13. CASE SellLot(w)
  BY <1>13 DEF SellLot
<1>14. CASE RevertPayment(w)
  BY <1>14 DEF RevertPayment
<1>15. CASE WriteFailed(w)
  BY <1>15 DEF WriteFailed
<1>16. CASE WriteDisputed(w)
  BY <1>16 DEF WriteDisputed
<1>17. CASE Rescored(w)
  BY <1>17 DEF Rescored
<1>18. CASE EndSweep(w)
  BY <1>18 DEF EndSweep
<1>19. QED
  BY <1>1, <1>2, <1>3, <1>4, <1>5, <1>6, <1>7, <1>8, <1>9, <1>10, <1>11, <1>12,
     <1>13, <1>14, <1>15, <1>16, <1>17, <1>18 DEF Continue

LEMMA TypeNext == TypeOK /\ [Next]_vars => TypeOK'
<1> SUFFICES ASSUME TypeOK, [Next]_vars PROVE TypeOK'
  OBVIOUS
<1>1. ASSUME NEW w \in Workers, Abort(w) PROVE TypeOK'
  BY <1>1, DealsAssumption DEF Abort, Goto, TypeOK, LotCalls, OfferCalls,
     PaymentCalls, tables, history
<1>2. ASSUME NEW o \in Offers, Age(o) PROVE TypeOK'
  BY <1>2 DEF Age, TypeOK, tables, locals, history
<1>3. CASE UNCHANGED vars
  BY <1>3 DEF vars, TypeOK
<1>4. QED
  BY <1>1, <1>2, <1>3, TypeBegin, TypeContinue DEF Next

\* Whatever requests overlap, whatever calls fail: every table keeps to its
\* statuses and every handler holds a row of the kind its next call is about.
THEOREM TypeCorrect == Spec => []TypeOK
  BY TypeInit, TypeNext, PTL DEF Spec

-----------------------------------------------------------------------------
(* At most one open payment of an offer                                    *)

LEMMA UniquePreserved == TypeOK /\ OneOpenPaymentPerOffer /\ [Next]_vars
                           => OneOpenPaymentPerOffer'
<1> SUFFICES ASSUME TypeOK, OneOpenPaymentPerOffer, [Next]_vars
             PROVE  OneOpenPaymentPerOffer'
  OBVIOUS
<1> USE DEF OneOpenPaymentPerOffer, At
\* The only way into the index is past IndexAllows.
<1>1. ASSUME NEW p \in Payments, NEW s, IndexAllows(p, s),
             payment' = [payment EXCEPT ![p] = s]
      PROVE  OneOpenPaymentPerOffer'
  BY <1>1 DEF IndexAllows, OpenFor, PaymentsFor, TypeOK
<1>2. ASSUME payment' = payment PROVE OneOpenPaymentPerOffer'
  BY <1>2
<1>3. ASSUME NEW w \in Workers, InsertPayment(w) PROVE OneOpenPaymentPerOffer'
  BY <1>1, <1>2, <1>3 DEF InsertPayment, PaymentsFor
<1>4. ASSUME NEW w \in Workers, WritePaid(w) PROVE OneOpenPaymentPerOffer'
  BY <1>1, <1>2, <1>4 DEF WritePaid, TypeOK, PaymentCalls
<1>5. ASSUME NEW w \in Workers, RevertPayment(w) PROVE OneOpenPaymentPerOffer'
  BY <1>1, <1>2, <1>5 DEF RevertPayment, TypeOK, PaymentCalls
<1>6. ASSUME NEW w \in Workers, WriteFailed(w) \/ WriteDisputed(w)
      PROVE  OneOpenPaymentPerOffer'
  <2>1. tgt[w] \in Payments
    BY <1>6 DEF WriteFailed, WriteDisputed, TypeOK, PaymentCalls
  <2>2. PICK s \in {"failed", "disputed"} : payment' = [payment EXCEPT ![tgt[w]] = s]
    BY <1>6 DEF WriteFailed, WriteDisputed
  <2>3. IndexAllows(tgt[w], s)
    BY <2>2 DEF IndexAllows, OpenPayment
  <2>4. QED
    BY <1>1, <2>1, <2>2, <2>3
<1>7. ASSUME NEW w \in Workers, Begin(w) PROVE payment' = payment
  BY <1>7 DEF Begin, CreateLot, WithdrawLot, CreateOffer, UpdateStaleOffer,
     CreatePayment, UpdateOffer, MarkPaid, MarkFailed, MarkDisputed, StartSweep, tables
<1>8. ASSUME NEW w \in Workers, Continue(w),
             ~InsertPayment(w), ~WritePaid(w), ~RevertPayment(w),
             ~WriteFailed(w), ~WriteDisputed(w)
      PROVE  payment' = payment
  BY <1>8 DEF Continue, ExpireInSweep, EndSweep, InsertOffer, MarkLotOffered, PatchOffer,
     MatchLot, ExpireStale, ReopenReadOffers, ReopenReadLot, ReopenWrite,
     CheckPayments, SellLot, Rescored, tables
<1>9. ASSUME NEW w \in Workers, Abort(w) PROVE payment' = payment
  BY <1>9 DEF Abort, tables
<1>10. ASSUME NEW o \in Offers, Age(o) PROVE payment' = payment
  BY <1>10 DEF Age, tables
<1>11. CASE UNCHANGED vars
  BY <1>11, <1>2 DEF vars
<1>12. QED
  BY <1>2, <1>3, <1>4, <1>5, <1>6, <1>7, <1>8, <1>9, <1>10, <1>11 DEF Next

\* However requests that open, settle, revert, fail and dispute payments
\* overlap, an offer never has two payments pending or paid.
THEOREM UniqueOpenPayment == Spec => []OneOpenPaymentPerOffer
<1>1. Init => OneOpenPaymentPerOffer
  BY DEF Init, OneOpenPaymentPerOffer, OpenPayment
<1>2. QED
  BY <1>1, UniquePreserved, TypeCorrect, PTL DEF Spec

-----------------------------------------------------------------------------
(* Every payment and every sale has its ground                             *)

\* A handler about to write carries the evidence it read earlier: what
\* create_payment found accepted, what the mark_* handlers found recorded,
\* what mark_paid has just written.
GroundInv ==
  /\ SettlementHasGround
  /\ \A o \in Offers : offer[o] = "accepted" => o \in everAccepted
  /\ \A w \in Workers :
       /\ pc[w] \in {"pay_check", "pay_insert"} => tgt[w] \in everAccepted
       /\ pc[w] \in {"paid_write", "sell_lot", "revert_write", "fail_write", "dispute_write"}
            => OfferOf[tgt[w]] \in everAccepted
       /\ pc[w] = "sell_lot" => tgt[w] \in everPaid

LEMMA GroundBegin ==
  ASSUME TypeOK, GroundInv, NEW w \in Workers, Begin(w)
  PROVE  GroundInv'
<1> USE DealsAssumption DEF TypeOK, GroundInv, SettlementHasGround, Request, Goto,
        tables, locals, history
<1>1. ASSUME NEW l \in Lots, CreateLot(w, l) PROVE GroundInv'
  BY <1>1 DEF CreateLot
<1>2. ASSUME NEW l \in Lots, WithdrawLot(w, l) PROVE GroundInv'
  BY <1>2 DEF WithdrawLot
<1>3. ASSUME NEW l \in Lots, CreateOffer(w, l) PROVE GroundInv'
  BY <1>3 DEF CreateOffer
<1>4. ASSUME NEW o \in Offers, UpdateStaleOffer(w, o) PROVE GroundInv'
  BY <1>4 DEF UpdateStaleOffer
<1>5. ASSUME NEW o \in Offers, CreatePayment(w, o) PROVE GroundInv'
  BY <1>5 DEF CreatePayment
<1>6. ASSUME NEW o \in Offers, NEW s \in OfferStatus, UpdateOffer(w, o, s)
      PROVE  GroundInv'
  BY <1>6 DEF UpdateOffer
<1>7. ASSUME NEW p \in Payments, MarkPaid(w, p) PROVE GroundInv'
  BY <1>7 DEF MarkPaid
<1>8. ASSUME NEW p \in Payments, MarkFailed(w, p) PROVE GroundInv'
  BY <1>8 DEF MarkFailed
<1>9. ASSUME NEW p \in Payments, MarkDisputed(w, p) PROVE GroundInv'
  BY <1>9 DEF MarkDisputed
<1>10. ASSUME StartSweep(w) PROVE GroundInv'
  BY <1>10 DEF StartSweep
<1>11. QED
  BY <1>1, <1>2, <1>3, <1>4, <1>5, <1>6, <1>7, <1>8, <1>9, <1>10 DEF Begin

LEMMA GroundContinue ==
  ASSUME TypeOK, GroundInv, NEW w \in Workers, Continue(w)
  PROVE  GroundInv'
<1> USE DealsAssumption DEF TypeOK, GroundInv, SettlementHasGround, At, Goto, Return,
        LotCalls, OfferCalls, PaymentCalls, tables, history
<1>1. ASSUME NEW o \in Offers, ExpireInSweep(w, o) PROVE GroundInv'
  BY <1>1 DEF ExpireInSweep
<1>2. CASE InsertOffer(w)
  BY <1>2 DEF InsertOffer, OffersOn
<1>3. CASE MarkLotOffered(w)
  BY <1>3 DEF MarkLotOffered
<1>4. CASE PatchOffer(w)
  BY <1>4 DEF PatchOffer
<1>5. CASE MatchLot(w)
  BY <1>5 DEF MatchLot
<1>6. CASE ExpireStale(w)
  BY <1>6 DEF ExpireStale
<1>7. CASE ReopenReadOffers(w)
  BY <1>7 DEF ReopenReadOffers
<1>8. CASE ReopenReadLot(w)
  BY <1>8 DEF ReopenReadLot
<1>9. CASE ReopenWrite(w)
  BY <1>9 DEF ReopenWrite
<1>10. CASE CheckPayments(w)
  BY <1>10 DEF CheckPayments
<1>11. CASE InsertPayment(w)
  BY <1>11 DEF InsertPayment, PaymentsFor
<1>12. CASE WritePaid(w)
  BY <1>12 DEF WritePaid
<1>13. CASE SellLot(w)
  BY <1>13 DEF SellLot
<1>14. CASE RevertPayment(w)
  BY <1>14 DEF RevertPayment
<1>15. CASE WriteFailed(w)
  BY <1>15 DEF WriteFailed
<1>16. CASE WriteDisputed(w)
  BY <1>16 DEF WriteDisputed
<1>17. CASE Rescored(w)
  BY <1>17 DEF Rescored
<1>18. CASE EndSweep(w)
  BY <1>18 DEF EndSweep
<1>19. QED
  BY <1>1, <1>2, <1>3, <1>4, <1>5, <1>6, <1>7, <1>8, <1>9, <1>10, <1>11, <1>12,
     <1>13, <1>14, <1>15, <1>16, <1>17, <1>18 DEF Continue

LEMMA GroundNext == TypeOK /\ GroundInv /\ [Next]_vars => GroundInv'
<1> SUFFICES ASSUME TypeOK, GroundInv, [Next]_vars PROVE GroundInv'
  OBVIOUS
<1>1. ASSUME NEW w \in Workers, Abort(w) PROVE GroundInv'
  BY <1>1 DEF Abort, Goto, TypeOK, GroundInv, SettlementHasGround, tables, history
<1>2. ASSUME NEW o \in Offers, Age(o) PROVE GroundInv'
  BY <1>2 DEF Age, GroundInv, SettlementHasGround, tables, locals, history
<1>3. CASE UNCHANGED vars
  BY <1>3 DEF vars, GroundInv, SettlementHasGround
<1>4. QED
  BY <1>1, <1>2, <1>3, GroundBegin, GroundContinue DEF Next

\* Whatever overlaps or fails: no payment is recorded for an offer nobody
\* accepted, and no lot is sold that no payment was marked paid for.
THEOREM SettlementGrounded == Spec => []SettlementHasGround
<1>1. Init => GroundInv
  BY DealsAssumption DEF Init, GroundInv, SettlementHasGround
<1>2. GroundInv => SettlementHasGround
  BY DEF GroundInv
<1>3. QED
  BY <1>1, <1>2, GroundNext, TypeCorrect, PTL DEF Spec

-----------------------------------------------------------------------------
(* Fresh offers expire only on request                                     *)

\* An offer on its way to expiry has outlived its time, and stays so.
AgedInv ==
  \A w \in Workers : /\ todo[w] \subseteq aged
                     /\ At(w, "expire_write") => tgt[w] \in aged

\* Each sweep and each stale request starts from aged offers.
LEMMA AgedNext == TypeOK /\ AgedInv /\ [Next]_vars => AgedInv'
<1> SUFFICES ASSUME TypeOK, AgedInv, [Next]_vars PROVE AgedInv'
  OBVIOUS
<1> USE DEF AgedInv, At, TypeOK, Goto, Return, Request, tables, locals, history
<1>1. ASSUME NEW w \in Workers, Begin(w) PROVE AgedInv'
  BY <1>1 DEF Begin, CreateLot, WithdrawLot, CreateOffer, UpdateStaleOffer,
     CreatePayment, UpdateOffer, MarkPaid, MarkFailed, MarkDisputed, StartSweep, Stale
<1>2. ASSUME NEW w \in Workers, Continue(w) PROVE AgedInv'
  BY <1>2 DEF Continue, ExpireInSweep, EndSweep, InsertOffer, MarkLotOffered, PatchOffer,
     MatchLot, ExpireStale, ReopenReadOffers, ReopenReadLot, ReopenWrite, CheckPayments,
     InsertPayment, WritePaid, SellLot, RevertPayment, WriteFailed, WriteDisputed,
     Rescored
<1>3. ASSUME NEW w \in Workers, Abort(w) PROVE AgedInv'
  BY <1>3 DEF Abort
<1>4. ASSUME NEW o \in Offers, Age(o) PROVE AgedInv'
  BY <1>4 DEF Age
<1>5. CASE UNCHANGED vars
  BY <1>5 DEF vars
<1>6. QED
  BY <1>1, <1>2, <1>3, <1>4, <1>5 DEF Next

\* Whatever requests and sweeps overlap, whatever calls fail: update_offer and
\* expire_stale_offers only expire offers that have outlived OFFER_TTL_HOURS; a
\* younger offer turns expired only where the farmer's update asked for it.
THEOREM FreshOfferStands == Spec => FreshOfferNotExpired
<1>1. Init => AgedInv
  BY DEF Init, AgedInv, At
<1> DEFINE Kept == \A o \in Offers :
       (offer[o] # "expired" /\ offer'[o] = "expired" /\ o \notin aged) =>
         \E w \in Workers : pc[w] = "patch_write" /\ tgt[w] = o /\ val[w] = "expired"
<1>2. ASSUME TypeOK, AgedInv, [Next]_vars PROVE Kept
  <2> SUFFICES ASSUME NEW o \in Offers, offer[o] # "expired", offer'[o] = "expired",
                      o \notin aged
               PROVE \E w \in Workers : pc[w] = "patch_write" /\ tgt[w] = o /\ val[w] = "expired"
    BY DEF Kept
  <2>1. ASSUME NEW w \in Workers, Begin(w) PROVE FALSE
    BY <2>1 DEF tables, Begin, CreateLot, WithdrawLot, CreateOffer, UpdateStaleOffer,
       CreatePayment, UpdateOffer, MarkPaid, MarkFailed, MarkDisputed, StartSweep
  <2>2. ASSUME NEW w \in Workers, Continue(w), ~PatchOffer(w) PROVE FALSE
    BY <1>2, <2>2 DEF TypeOK, AgedInv, At, tables, Continue, ExpireInSweep, EndSweep,
       InsertOffer, MarkLotOffered, MatchLot, ExpireStale, ReopenReadOffers,
       ReopenReadLot, ReopenWrite, CheckPayments, InsertPayment, WritePaid, SellLot,
       RevertPayment, WriteFailed, WriteDisputed, Rescored
  <2>3. ASSUME NEW w \in Workers, PatchOffer(w)
        PROVE  pc[w] = "patch_write" /\ tgt[w] = o /\ val[w] = "expired"
    BY <1>2, <2>3 DEF PatchOffer, At, TypeOK
  <2>4. ASSUME NEW w \in Workers, Abort(w) PROVE FALSE
    BY <2>4 DEF Abort, tables
  <2>5. ASSUME NEW a \in Offers, Age(a) PROVE FALSE
    BY <2>5 DEF Age, tables
  <2>6. CASE UNCHANGED vars
    BY <2>6 DEF vars
  <2>7. QED
    BY <1>2, <2>1, <2>2, <2>3, <2>4, <2>5, <2>6 DEF Next
<1>3. QED
  BY <1>1, <1>2, AgedNext, TypeCorrect, PTL DEF Spec, FreshOfferNotExpired

-----------------------------------------------------------------------------
(* Handlers that overlap: only what was missed is taken back               *)

\* The row of worker w is as the handler found it, or its change was missed.
Intact(w) ==
  /\ pc[w] \in LotRests =>
       lot[tgt[w]] \in {"open", "offered"} \/ Reading(w, "lot", tgt[w]) \in missed
  /\ pc[w] = "expire_write" \/ (pc[w] = "patch_write" /\ val[w] = "accepted") =>
       offer[tgt[w]] = "pending" \/ Reading(w, "offer", tgt[w]) \in missed
  /\ pc[w] = "paid_write" =>
       payment[tgt[w]] \in OpenPayment \/ Reading(w, "payment", tgt[w]) \in missed
  /\ pc[w] = "fail_write" =>
       payment[tgt[w]] # "paid" \/ Reading(w, "payment", tgt[w]) \in missed
  /\ pc[w] \in Undoing =>
       payment[tgt[w]] = "paid" \/ Reading(w, "undo", tgt[w]) \in missed
  /\ \A o \in todo[w] : offer[o] = "pending" \/ Reading(w, "sweep", o) \in missed

LateInv == \A w \in Workers : Intact(w)

\* The row of a reading that is still to be acted upon stands, or its change is missed.
LEMMA RowStands ==
  ASSUME Remember, NEW d \in Readings, d \in Readings'
  PROVE  (Said(d)' = Said(d) /\ d \notin missed) \/ d \in missed'
BY DEF Remember

\* The same, kind by kind, for the row r that worker w holds before and after a step.
LEMMA RowsStand ==
  ASSUME Remember, NEW w \in Workers, NEW r
  PROVE  /\ {pc[w], pc'[w]} \subseteq LotRests /\ tgt[w] = r /\ tgt'[w] = r =>
              \/ lot'[r] = lot[r] /\ Reading(w, "lot", r) \notin missed
              \/ Reading(w, "lot", r) \in missed'
         /\ {pc[w], pc'[w]} \subseteq OfferRests /\ tgt[w] = r /\ tgt'[w] = r =>
              \/ offer'[r] = offer[r] /\ Reading(w, "offer", r) \notin missed
              \/ Reading(w, "offer", r) \in missed'
         /\ {pc[w], pc'[w]} \subseteq PaymentRests /\ tgt[w] = r /\ tgt'[w] = r =>
              \/ payment'[r] = payment[r] /\ Reading(w, "payment", r) \notin missed
              \/ Reading(w, "payment", r) \in missed'
         /\ {pc[w], pc'[w]} \subseteq Undoing /\ tgt[w] = r /\ tgt'[w] = r =>
              \/ payment'[r] = payment[r] /\ Reading(w, "undo", r) \notin missed
              \/ Reading(w, "undo", r) \in missed'
         /\ r \in todo[w] /\ r \in todo'[w] =>
              \/ offer'[r] = offer[r] /\ Reading(w, "sweep", r) \notin missed
              \/ Reading(w, "sweep", r) \in missed'
<1>1. ASSUME NEW kind, Reading(w, kind, r) \in Readings, Reading(w, kind, r) \in Readings'
      PROVE  \/ /\ Said(Reading(w, kind, r))' = Said(Reading(w, kind, r))
                /\ Reading(w, kind, r) \notin missed
             \/ Reading(w, kind, r) \in missed'
  <2> DEFINE d == Reading(w, kind, r)
  <2>1. d \in Readings /\ d \in Readings'
    BY <1>1
  <2> HIDE DEF d
  <2>2. (Said(d)' = Said(d) /\ d \notin missed) \/ d \in missed'
    BY <2>1, RowStands
  <2>3. QED
    BY <2>2 DEF d
<1>2. /\ Said(Reading(w, "lot", r)) = lot[r]
      /\ Said(Reading(w, "offer", r)) = offer[r]
      /\ Said(Reading(w, "sweep", r)) = offer[r]
      /\ Said(Reading(w, "payment", r)) = payment[r]
      /\ Said(Reading(w, "undo", r)) = payment[r]
  BY DEF Said, Reading
<1>3. /\ Said(Reading(w, "lot", r))' = lot'[r]
      /\ Said(Reading(w, "offer", r))' = offer'[r]
      /\ Said(Reading(w, "sweep", r))' = offer'[r]
      /\ Said(Reading(w, "payment", r))' = payment'[r]
      /\ Said(Reading(w, "undo", r))' = payment'[r]
  BY DEF Said, Reading
<1>4. /\ pc[w] \in LotRests /\ tgt[w] = r => Reading(w, "lot", r) \in Readings
      /\ pc[w] \in OfferRests /\ tgt[w] = r => Reading(w, "offer", r) \in Readings
      /\ pc[w] \in PaymentRests /\ tgt[w] = r => Reading(w, "payment", r) \in Readings
      /\ pc[w] \in Undoing /\ tgt[w] = r => Reading(w, "undo", r) \in Readings
      /\ r \in todo[w] => Reading(w, "sweep", r) \in Readings
  BY DEF Readings
<1>5. /\ pc'[w] \in LotRests /\ tgt'[w] = r => Reading(w, "lot", r) \in Readings'
      /\ pc'[w] \in OfferRests /\ tgt'[w] = r => Reading(w, "offer", r) \in Readings'
      /\ pc'[w] \in PaymentRests /\ tgt'[w] = r => Reading(w, "payment", r) \in Readings'
      /\ pc'[w] \in Undoing /\ tgt'[w] = r => Reading(w, "undo", r) \in Readings'
      /\ r \in todo'[w] => Reading(w, "sweep", r) \in Readings'
  BY DEF Readings, Reading
<1>6. QED
  BY <1>1, <1>2, <1>3, <1>4, <1>5

\* While worker w waits, the others change its rows only into missed ones.
LEMMA IntactWaiting ==
  ASSUME Remember, NEW w \in Workers, Intact(w), pc'[w] = pc[w], tgt'[w] = tgt[w],
         val'[w] = val[w], todo'[w] = todo[w]
  PROVE  Intact(w)'
BY RowsStand DEF Intact, OfferRests, PaymentRests

\* The offers a sweep still has to expire stay as they are while it reopens a lot.
LEMMA TodoWaits ==
  ASSUME Remember, NEW w \in Workers, Intact(w), todo'[w] \subseteq todo[w]
  PROVE  \A o \in todo'[w] : offer'[o] = "pending" \/ Reading(w, "sweep", o) \in missed'
BY RowsStand DEF Intact

\* A request or a sweep that begins has just read its rows.
LEMMA IntactBegin ==
  ASSUME TypeOK, Remember, NEW w \in Workers, Intact(w), Begin(w)
  PROVE  Intact(w)'
<1> USE DealsAssumption DEF TypeOK, Request, Goto, tables, locals, history, LotRests,
        OfferRests, PaymentRests, Undoing, Intact
<1>1. ASSUME ~StartSweep(w)
      PROVE \A o \in todo'[w] : offer'[o] = "pending" \/ Reading(w, "sweep", o) \in missed'
  <2>1. todo' = todo
    BY <1>1 DEF Begin, CreateLot, WithdrawLot, CreateOffer, UpdateStaleOffer,
       CreatePayment, UpdateOffer, MarkPaid, MarkFailed, MarkDisputed
  <2>2. QED
    BY <2>1, TodoWaits
<1>2. ASSUME StartSweep(w) PROVE Intact(w)'
  BY <1>2, SweepRead DEF StartSweep, Stale
<1>3. ASSUME NEW l \in Lots, CreateLot(w, l) \/ WithdrawLot(w, l) PROVE pc'[w] = "idle"
  BY <1>3 DEF CreateLot, WithdrawLot
<1>4. ASSUME NEW l \in Lots, CreateOffer(w, l)
      PROVE pc'[w] = "offer_insert" /\ lot'[tgt'[w]] \in {"open", "offered"}
  BY <1>4 DEF CreateOffer
<1>5. ASSUME NEW o \in Offers, UpdateStaleOffer(w, o)
      PROVE pc'[w] = "expire_write" /\ offer'[tgt'[w]] = "pending"
  BY <1>5 DEF UpdateStaleOffer, Stale
<1>6. ASSUME NEW o \in Offers, CreatePayment(w, o) PROVE pc'[w] = "pay_check"
  BY <1>6 DEF CreatePayment
<1>7. ASSUME NEW o \in Offers, NEW s \in OfferStatus, UpdateOffer(w, o, s)
      PROVE /\ pc'[w] = "patch_write"
            /\ val'[w] = "accepted" => offer'[tgt'[w]] = "pending"
  BY <1>7 DEF UpdateOffer
<1>8. ASSUME NEW p \in Payments, MarkPaid(w, p)
      PROVE pc'[w] = "paid_write" /\ payment'[tgt'[w]] \in OpenPayment
  BY <1>8 DEF MarkPaid, PaymentStatus, OpenPayment
<1>9. ASSUME NEW p \in Payments, MarkFailed(w, p) \/ MarkDisputed(w, p)
      PROVE /\ pc'[w] \in {"fail_write", "dispute_write"}
            /\ pc'[w] = "fail_write" => payment'[tgt'[w]] # "paid"
  BY <1>9 DEF MarkFailed, MarkDisputed
<1>10. QED
  BY <1>1, <1>2, <1>3, <1>4, <1>5, <1>6, <1>7, <1>8, <1>9 DEF Begin

\* A call leaves the next one a row it has just read or written, or the old reading.
LEMMA IntactContinue ==
  ASSUME TypeOK, Remember, NEW w \in Workers, Intact(w), Continue(w)
  PROVE  Intact(w)'
<1> USE DealsAssumption DEF At, LotRests, OfferRests, PaymentRests, Undoing
<1>1. \A o \in todo'[w] : offer'[o] = "pending" \/ Reading(w, "sweep", o) \in missed'
  <2>1. todo'[w] \subseteq todo[w]
    BY DEF TypeOK, Continue, ExpireInSweep, EndSweep, InsertOffer, MarkLotOffered,
       PatchOffer, MatchLot, ExpireStale, ReopenReadOffers, ReopenReadLot, ReopenWrite,
       CheckPayments, InsertPayment, WritePaid, SellLot, RevertPayment, WriteFailed,
       WriteDisputed, Rescored
  <2>2. QED
    BY <2>1, TodoWaits
<1>2. CASE InsertOffer(w)
  <2>1. pc'[w] \notin LotRests \cup OfferRests \cup PaymentRests \cup Undoing
          \/ /\ pc[w] = "offer_insert" /\ pc'[w] = "offer_mark" /\ tgt'[w] = tgt[w]
             /\ lot' = lot
    BY <1>2 DEF InsertOffer, Goto, Return, TypeOK
  <2>2. ASSUME pc[w] = "offer_insert", pc'[w] = "offer_mark", tgt'[w] = tgt[w], lot' = lot
        PROVE lot'[tgt[w]] \in {"open", "offered"} \/ Reading(w, "lot", tgt[w]) \in missed'
    BY <2>2, RowsStand DEF Intact
  <2>3. QED
    BY <1>1, <2>1, <2>2 DEF Intact
<1>3. CASE ReopenReadLot(w)
  <2>1. /\ pc'[w] \notin OfferRests \cup PaymentRests \cup Undoing
        /\ pc'[w] \in LotRests => lot'[tgt'[w]] = "offered"
    BY <1>3 DEF ReopenReadLot, Goto, Return, TypeOK, tables
  <2>2. QED
    BY <1>1, <2>1 DEF Intact
<1>4. CASE WritePaid(w)
  <2>1. /\ pc'[w] \notin LotRests \cup OfferRests \cup PaymentRests
        /\ pc'[w] \in Undoing => payment'[tgt'[w]] = "paid"
    BY <1>4 DEF WritePaid, Goto, Return, TypeOK, PaymentCalls
  <2>2. QED
    BY <1>1, <2>1 DEF Intact
<1>5. CASE SellLot(w)
  <2>1. pc'[w] \notin LotRests \cup OfferRests \cup PaymentRests \cup Undoing
          \/ /\ pc[w] = "sell_lot" /\ pc'[w] = "revert_write" /\ tgt'[w] = tgt[w]
             /\ payment' = payment
    BY <1>5 DEF SellLot, Goto, TypeOK
  <2>2. ASSUME pc[w] = "sell_lot", pc'[w] = "revert_write", tgt'[w] = tgt[w],
               payment' = payment
        PROVE payment'[tgt[w]] = "paid" \/ Reading(w, "undo", tgt[w]) \in missed'
    BY <2>2, RowsStand DEF Intact
  <2>3. QED
    BY <1>1, <2>1, <2>2 DEF Intact
<1>6. ASSUME ~InsertOffer(w), ~ReopenReadLot(w), ~WritePaid(w), ~SellLot(w)
      PROVE  pc'[w] \notin LotRests \cup OfferRests \cup PaymentRests \cup Undoing
  BY <1>6 DEF TypeOK, Goto, Return, Continue, ExpireInSweep, EndSweep, MarkLotOffered,
     PatchOffer, MatchLot, ExpireStale, ReopenReadOffers, ReopenWrite, CheckPayments,
     InsertPayment, RevertPayment, WriteFailed, WriteDisputed, Rescored
<1>7. QED
  BY <1>1, <1>2, <1>3, <1>4, <1>5, <1>6 DEF Intact

LEMMA LateInvNext ==
  ASSUME TypeOK, LateInv, [LateNext]_lateVars
  PROVE  LateInv'
<1> SUFFICES ASSUME NEW w \in Workers PROVE Intact(w)'
  BY DEF LateInv
<1> USE DEF LateInv
<1>1. CASE UNCHANGED lateVars
  BY <1>1 DEF lateVars, vars, Intact, Reading
<1>2. ASSUME Next, Remember PROVE Intact(w)'
  <2> DEFINE Waits == /\ pc'[w] = pc[w] /\ tgt'[w] = tgt[w]
                      /\ val'[w] = val[w] /\ todo'[w] = todo[w]
  <2>1. ASSUME NEW v \in Workers, Begin(v), v # w PROVE Waits
    BY <2>1 DEF TypeOK, Begin, CreateLot, WithdrawLot, CreateOffer, UpdateStaleOffer,
       CreatePayment, UpdateOffer, MarkPaid, MarkFailed, MarkDisputed, StartSweep, Goto,
       locals
  <2>2. ASSUME NEW v \in Workers, Continue(v), v # w PROVE Waits
    BY <2>2 DEF TypeOK, Goto, Return, Continue, ExpireInSweep, EndSweep, InsertOffer,
       MarkLotOffered, PatchOffer, MatchLot, ExpireStale, ReopenReadOffers,
       ReopenReadLot, ReopenWrite, CheckPayments, InsertPayment, WritePaid, SellLot,
       RevertPayment, WriteFailed, WriteDisputed, Rescored
  <2>3. ASSUME NEW v \in Workers, Abort(v), v # w PROVE Waits
    BY <2>3 DEF TypeOK, Abort, Goto
  <2>4. ASSUME Abort(w) PROVE Intact(w)'
    BY <2>4 DEF TypeOK, Abort, Goto, Intact, LotRests, Undoing
  <2>5. ASSUME NEW o \in Offers, Age(o) PROVE Waits
    BY <2>5 DEF Age, locals
  <2>6. ASSUME Waits PROVE Intact(w)'
    BY <1>2, <2>6, IntactWaiting
  <2>7. QED
    BY <1>2, <2>1, <2>2, <2>3, <2>4, <2>5, <2>6, IntactBegin, IntactContinue DEF Next
<1>3. QED
  BY <1>1, <1>2 DEF LateNext

\* A closed lot is put back on offer by a handler that has missed its closing.
LEMMA LotLate ==
  ASSUME TypeOK, LateInv, Next, NEW l \in Lots, LotTakenBack(l)
  PROVE  ByLateWrite(l)
<1> USE DEF LotTakenBack
<1>1. ASSUME NEW w \in Workers, Begin(w) PROVE FALSE
  BY <1>1 DEF Begin, CreateLot, WithdrawLot, CreateOffer, UpdateStaleOffer,
     CreatePayment, UpdateOffer, MarkPaid, MarkFailed, MarkDisputed, StartSweep, tables,
     TypeOK
<1>2. ASSUME NEW w \in Workers, Continue(w), ~MarkLotOffered(w), ~ReopenWrite(w)
      PROVE  FALSE
  BY <1>2 DEF TypeOK, Continue, ExpireInSweep, EndSweep, InsertOffer, PatchOffer,
     MatchLot, ExpireStale, ReopenReadOffers, ReopenReadLot, CheckPayments,
     InsertPayment, WritePaid, SellLot, RevertPayment, WriteFailed, WriteDisputed,
     Rescored, tables
<1>3. ASSUME NEW w \in Workers, MarkLotOffered(w) \/ ReopenWrite(w)
      PROVE  ByLateWrite(l)
  <2>1. /\ pc[w] \in LotRests /\ tgt[w] = l
        /\ pc'[w] # pc[w]
    BY <1>3 DEF MarkLotOffered, ReopenWrite, At, Return, Goto, TypeOK, LotRests
  <2>2. Reading(w, "lot", l) \in missed
    BY <2>1 DEF LateInv, Intact
  <2>3. QED
    BY <2>1, <2>2 DEF ByLateWrite, Reading
<1>4. ASSUME NEW w \in Workers, Abort(w) PROVE FALSE
  BY <1>4 DEF Abort, tables
<1>5. ASSUME NEW o \in Offers, Age(o) PROVE FALSE
  BY <1>5 DEF Age, tables
<1>6. QED
  BY <1>1, <1>2, <1>3, <1>4, <1>5 DEF Next

\* A decided offer is accepted, or expires of age, by a handler that has missed that.
LEMMA OfferLate ==
  ASSUME TypeOK, LateInv, Next, NEW o \in Offers, OfferTakenBack(o)
  PROVE  ByLateWrite(o)
<1> USE DEF OfferTakenBack
<1>1. ASSUME NEW w \in Workers, Begin(w) PROVE FALSE
  BY <1>1 DEF Begin, CreateLot, WithdrawLot, CreateOffer, UpdateStaleOffer,
     CreatePayment, UpdateOffer, MarkPaid, MarkFailed, MarkDisputed, StartSweep, tables
<1>2. ASSUME NEW w \in Workers, Continue(w), ~PatchOffer(w), ~ExpireStale(w),
             ~\E q \in Offers : ExpireInSweep(w, q)
      PROVE  FALSE
  BY <1>2 DEF TypeOK, Continue, EndSweep, InsertOffer, MarkLotOffered, MatchLot,
     ReopenReadOffers, ReopenReadLot, ReopenWrite, CheckPayments, InsertPayment,
     WritePaid, SellLot, RevertPayment, WriteFailed, WriteDisputed, Rescored, tables
<1>3. ASSUME NEW w \in Workers, PatchOffer(w) PROVE ByLateWrite(o)
  <2>1. pc[w] = "patch_write" /\ tgt[w] = o /\ pc'[w] # pc[w] /\ offer'[o] = val[w]
    BY <1>3 DEF PatchOffer, At, Return, Goto, TypeOK
  <2>2. val[w] = "accepted" /\ offer[o] # "pending"
    BY <2>1 DEF Asked
  <2>3. Reading(w, "offer", o) \in missed
    BY <2>1, <2>2 DEF LateInv, Intact
  <2>4. QED
    BY <2>1, <2>3 DEF ByLateWrite, Reading
<1>4. ASSUME NEW w \in Workers, ExpireStale(w) PROVE ByLateWrite(o)
  <2>1. /\ pc[w] = "expire_write" /\ tgt[w] = o /\ pc'[w] # pc[w]
        /\ offer[o] # "pending"
    BY <1>4 DEF ExpireStale, At, Goto, TypeOK
  <2>2. Reading(w, "offer", o) \in missed
    BY <2>1 DEF LateInv, Intact
  <2>3. QED
    BY <2>1, <2>2 DEF ByLateWrite, Reading
<1>5. ASSUME NEW w \in Workers, NEW q \in Offers, ExpireInSweep(w, q)
      PROVE  ByLateWrite(o)
  <2>1. q = o /\ o \in todo[w] /\ pc'[w] # pc[w] /\ offer[o] # "pending"
    BY <1>5 DEF ExpireInSweep, At, Goto, TypeOK
  <2>2. Reading(w, "sweep", o) \in missed
    BY <2>1 DEF LateInv, Intact
  <2>3. QED
    BY <2>1, <2>2 DEF ByLateWrite, Reading
<1>6. ASSUME NEW w \in Workers, Abort(w) PROVE FALSE
  BY <1>6 DEF Abort, tables
<1>7. ASSUME NEW q \in Offers, Age(q) PROVE FALSE
  BY <1>7 DEF Age, tables
<1>8. QED
  BY <1>1, <1>2, <1>3, <1>4, <1>5, <1>6, <1>7 DEF Next

\* A payment is unpaid, or opened again, by a handler that has missed its change.
LEMMA PaymentLate ==
  ASSUME TypeOK, LateInv, Next, NEW p \in Payments, PaymentTakenBack(p)
  PROVE  ByLateWrite(p)
<1> USE DEF PaymentTakenBack, OpenPayment
<1>1. ASSUME NEW w \in Workers, Begin(w) PROVE FALSE
  BY <1>1 DEF Begin, CreateLot, WithdrawLot, CreateOffer, UpdateStaleOffer,
     CreatePayment, UpdateOffer, MarkPaid, MarkFailed, MarkDisputed, StartSweep, tables
<1>2. ASSUME NEW w \in Workers, Continue(w), ~WritePaid(w), ~RevertPayment(w),
             ~WriteFailed(w)
      PROVE  FALSE
  BY <1>2 DEF TypeOK, Continue, ExpireInSweep, EndSweep, InsertOffer, MarkLotOffered,
     PatchOffer, MatchLot, ExpireStale, ReopenReadOffers, ReopenReadLot, ReopenWrite,
     CheckPayments, InsertPayment, PaymentsFor, SellLot, WriteDisputed, Rescored, tables
<1>3. ASSUME NEW w \in Workers, WritePaid(w) PROVE ByLateWrite(p)
  <2>1. /\ pc[w] = "paid_write" /\ tgt[w] = p /\ pc'[w] # pc[w]
        /\ payment[p] \notin OpenPayment
    BY <1>3 DEF WritePaid, At, Return, Goto, TypeOK
  <2>2. Reading(w, "payment", p) \in missed
    BY <2>1 DEF LateInv, Intact
  <2>3. QED
    BY <2>1, <2>2 DEF ByLateWrite, Reading
<1>4. ASSUME NEW w \in Workers, RevertPayment(w) PROVE ByLateWrite(p)
  <2>1. /\ pc[w] \in Undoing /\ tgt[w] = p /\ pc'[w] # pc[w]
        /\ payment[p] # "paid"
    BY <1>4 DEF RevertPayment, At, Return, Goto, TypeOK, Undoing
  <2>2. Reading(w, "undo", p) \in missed
    BY <2>1 DEF LateInv, Intact
  <2>3. QED
    BY <2>1, <2>2 DEF ByLateWrite, Reading
<1>5. ASSUME NEW w \in Workers, WriteFailed(w) PROVE ByLateWrite(p)
  <2>1. /\ pc[w] = "fail_write" /\ tgt[w] = p /\ pc'[w] # pc[w]
        /\ payment[p] = "paid"
    BY <1>5 DEF WriteFailed, At, Goto, TypeOK
  <2>2. Reading(w, "payment", p) \in missed
    BY <2>1 DEF LateInv, Intact
  <2>3. QED
    BY <2>1, <2>2 DEF ByLateWrite, Reading
<1>6. ASSUME NEW w \in Workers, Abort(w) PROVE FALSE
  BY <1>6 DEF Abort, tables
<1>7. ASSUME NEW o \in Offers, Age(o) PROVE FALSE
  BY <1>7 DEF Age, tables
<1>8. QED
  BY <1>1, <1>2, <1>3, <1>4, <1>5, <1>6, <1>7 DEF Next

\* However many handlers overlap and whatever calls fail: a closed lot back on offer, a
\* decided offer accepted or expired of age, a paid payment failed and a failed or
\* disputed one open again are each the write of a handler that missed the change it
\* takes back, between its read and its update by id.
THEOREM OnlyLateWrites == LateSpec => OnlyLateWritesTakeBack
<1> DEFINE Late == /\ \A l \in Lots : LotTakenBack(l) => ByLateWrite(l)
                   /\ \A o \in Offers : OfferTakenBack(o) => ByLateWrite(o)
                   /\ \A p \in Payments : PaymentTakenBack(p) => ByLateWrite(p)
<1>1. LateInit => TypeOK /\ LateInv
  BY TypeInit DEF LateInit, Init, LateInv, Intact, LotRests, Undoing
<1>2. TypeOK /\ [LateNext]_lateVars => TypeOK'
  <2>1. [LateNext]_lateVars => [Next]_vars
    BY DEF LateNext, lateVars
  <2>2. QED
    BY <2>1, TypeNext
<1>3. TypeOK /\ LateInv /\ [LateNext]_lateVars => LateInv'
  BY LateInvNext
<1>4. TypeOK /\ LateInv /\ LateNext => Late
  BY LotLate, OfferLate, PaymentLate DEF LateNext
<1>5. TypeOK /\ LateInv /\ [LateNext]_lateVars => [Late]_lateVars
  BY <1>4
<1>6. QED
  BY <1>1, <1>2, <1>3, <1>5, PTL DEF LateSpec, OnlyLateWritesTakeBack

-----------------------------------------------------------------------------
(* One request at a time: what a handler knows between its calls           *)

\* Requests, and the scheduler's sweeps, come one after the other.
OneAtATime == \A v, w \in Workers : v = w

\* What a handler that runs alone knows of its rows between its calls.
HandlerKnows(w) ==
  /\ At(w, "offer_insert") => lot[tgt[w]] \in {"open", "offered"}
  /\ At(w, "offer_mark") => lot[tgt[w]] \in {"open", "offered"} /\ PendingOn(tgt[w]) # {}
  /\ At(w, "patch_write") => /\ offer[tgt[w]] # "absent"
                             /\ val[w] = "accepted" => offer[tgt[w]] = "pending"
  /\ At(w, "expire_write") => offer[tgt[w]] = "pending"
  /\ At(w, "reopen_lot") => PendingOn(tgt[w]) = {}
  /\ At(w, "reopen_write") => PendingOn(tgt[w]) = {} /\ lot[tgt[w]] = "offered"
  /\ pc[w] \in {"pay_check", "pay_insert"} => offer[tgt[w]] = "accepted"
  /\ At(w, "pay_insert") => OpenFor(tgt[w]) = {}
  /\ At(w, "paid_write") => payment[tgt[w]] \in OpenPayment
  /\ At(w, "sell_lot") => payment[tgt[w]] = "paid"
  /\ At(w, "revert_write") => w \in Failing
  /\ At(w, "fail_write") => payment[tgt[w]] \notin {"absent", "paid"}
  /\ At(w, "dispute_write") => payment[tgt[w]] # "absent"
  /\ \A o \in todo[w] : offer[o] = "pending"
  /\ todo[w] # {} => pc[w] \in {"sweep", "reopen_pending", "reopen_lot", "reopen_write"}

\* A lot that does not fit its deals is the one the running handler is at.
LotFitsOrFollows ==
  /\ \A l \in Lots : lot[l] = "offered" /\ PendingOn(l) = {} =>
       \E w \in Workers :
          /\ pc[w] \in {"match_lot", "reopen_pending", "reopen_lot", "reopen_write"}
          /\ tgt[w] = l
  /\ \A p \in Payments : payment[p] = "paid" =>
       \/ lot[LotOf[OfferOf[p]]] \in {"matched", "sold", "withdrawn"}
       \/ \E w \in Workers : At(w, "sell_lot") /\ tgt[w] = p

KnowInv == \A w \in Workers : HandlerKnows(w)

\* The first read of a request gives the handler what it needs to know.
LEMMA KnowBegin ==
  ASSUME OneAtATime, TypeOK, NEW w \in Workers, HandlerKnows(w), Begin(w)
  PROVE  HandlerKnows(w)'
<1> USE DealsAssumption DEF TypeOK, HandlerKnows, At, Request, Goto, tables, locals,
        history
<1>1. ASSUME NEW l \in Lots, CreateLot(w, l) PROVE HandlerKnows(w)'
  BY <1>1 DEF CreateLot
<1>2. ASSUME NEW l \in Lots, WithdrawLot(w, l) PROVE HandlerKnows(w)'
  BY <1>2 DEF WithdrawLot
<1>3. ASSUME NEW l \in Lots, CreateOffer(w, l) PROVE HandlerKnows(w)'
  BY <1>3 DEF CreateOffer
<1>4. ASSUME NEW o \in Offers, UpdateStaleOffer(w, o) PROVE HandlerKnows(w)'
  BY <1>4 DEF UpdateStaleOffer, Stale
<1>5. ASSUME NEW o \in Offers, CreatePayment(w, o) PROVE HandlerKnows(w)'
  BY <1>5 DEF CreatePayment
<1>6. ASSUME NEW o \in Offers, NEW s \in OfferStatus, UpdateOffer(w, o, s)
      PROVE  HandlerKnows(w)'
  BY <1>6 DEF UpdateOffer
<1>7. ASSUME NEW p \in Payments, MarkPaid(w, p) PROVE HandlerKnows(w)'
  BY <1>7 DEF MarkPaid, PaymentStatus, OpenPayment
<1>8. ASSUME NEW p \in Payments, MarkFailed(w, p) PROVE HandlerKnows(w)'
  BY <1>8 DEF MarkFailed
<1>9. ASSUME NEW p \in Payments, MarkDisputed(w, p) PROVE HandlerKnows(w)'
  BY <1>9 DEF MarkDisputed
<1>10. ASSUME StartSweep(w) PROVE HandlerKnows(w)'
  BY <1>10, SweepRead DEF StartSweep, Stale
<1>11. QED
  BY <1>1, <1>2, <1>3, <1>4, <1>5, <1>6, <1>7, <1>8, <1>9, <1>10 DEF Begin

\* Each call leaves the next one with what it needs to know.
LEMMA KnowContinue ==
  ASSUME OneAtATime, TypeOK, NEW w \in Workers, HandlerKnows(w), Continue(w)
  PROVE  HandlerKnows(w)'
<1> USE DealsAssumption DEF TypeOK, HandlerKnows, At, Goto, Return, tables, history,
        LotCalls, OfferCalls, PaymentCalls, OpenPayment, OffersOn, PendingOn,
        PaymentsFor, OpenFor
<1>1. ASSUME NEW o \in Offers, ExpireInSweep(w, o) PROVE HandlerKnows(w)'
  BY <1>1 DEF ExpireInSweep
<1>2. CASE InsertOffer(w)
  BY <1>2 DEF InsertOffer
<1>3. CASE MarkLotOffered(w)
  BY <1>3 DEF MarkLotOffered
<1>4. CASE PatchOffer(w)
  BY <1>4 DEF PatchOffer
<1>5. CASE MatchLot(w)
  BY <1>5 DEF MatchLot
<1>6. CASE ExpireStale(w)
  BY <1>6 DEF ExpireStale
<1>7. CASE ReopenReadOffers(w)
  BY <1>7 DEF ReopenReadOffers
<1>8. CASE ReopenReadLot(w)
  BY <1>8 DEF ReopenReadLot
<1>9. CASE ReopenWrite(w)
  BY <1>9 DEF ReopenWrite
<1>10. CASE CheckPayments(w)
  BY <1>10 DEF CheckPayments
<1>11. CASE InsertPayment(w)
  BY <1>11 DEF InsertPayment
<1>12. CASE WritePaid(w)
  BY <1>12 DEF WritePaid
<1>13. CASE SellLot(w)
  BY <1>13 DEF SellLot
<1>14. CASE RevertPayment(w)
  BY <1>14 DEF RevertPayment
<1>15. CASE WriteFailed(w)
  BY <1>15 DEF WriteFailed
<1>16. CASE WriteDisputed(w)
  BY <1>16 DEF WriteDisputed
<1>17. CASE Rescored(w)
  BY <1>17 DEF Rescored
<1>18. CASE EndSweep(w)
  BY <1>18 DEF EndSweep
<1>19. QED
  BY <1>1, <1>2, <1>3, <1>4, <1>5, <1>6, <1>7, <1>8, <1>9, <1>10, <1>11, <1>12, <1>13,
     <1>14, <1>15, <1>16, <1>17, <1>18 DEF Continue

LEMMA KnowNext == OneAtATime /\ TypeOK /\ KnowInv /\ [Next]_vars => KnowInv'
<1> SUFFICES ASSUME OneAtATime, TypeOK, KnowInv, [Next]_vars, NEW w \in Workers
             PROVE  HandlerKnows(w)'
  BY DEF KnowInv
<1>1. ASSUME NEW v \in Workers, Begin(v) \/ Continue(v) PROVE HandlerKnows(w)'
  <2>1. v = w
    BY DEF OneAtATime
  <2>2. QED
    BY <1>1, <2>1, KnowBegin, KnowContinue DEF KnowInv
<1>2. ASSUME NEW v \in Workers, Abort(v) PROVE HandlerKnows(w)'
  <2>1. v = w
    BY DEF OneAtATime
  <2>2. QED
    BY <1>2, <2>1 DEF Abort, HandlerKnows, At, Goto, TypeOK, tables
<1>3. ASSUME NEW o \in Offers, Age(o) PROVE HandlerKnows(w)'
  BY <1>3 DEF Age, KnowInv, HandlerKnows, At, PendingOn, OffersOn, OpenFor, PaymentsFor,
     tables, locals
<1>4. CASE UNCHANGED vars
  BY <1>4 DEF vars, KnowInv, HandlerKnows, At, PendingOn, OffersOn, OpenFor, PaymentsFor
<1>5. QED
  BY <1>1, <1>2, <1>3, <1>4 DEF Next

\* Failing calls included: an aborted handler knows nothing and owes nothing here.
LEMMA KnowAlways ==
  ASSUME OneAtATime
  PROVE  Spec => [](TypeOK /\ KnowInv)
<1>1. Init => KnowInv
  BY DEF Init, KnowInv, HandlerKnows, At
<1>2. KnowInv /\ TypeOK /\ [Next]_vars => KnowInv'
  BY KnowNext
<1>3. QED
  BY <1>1, <1>2, TypeCorrect, PTL DEF Spec

\* No single step takes a closed lot back on offer.
LEMMA ClosedStep ==
  ASSUME TypeOK, KnowInv, [Next]_vars, NEW l \in Lots,
         lot[l] \in {"matched", "sold", "withdrawn"}
  PROVE  lot'[l] \notin {"open", "offered"}
<1>1. ASSUME NEW w \in Workers, Begin(w) PROVE lot'[l] \notin {"open", "offered"}
  BY <1>1 DEF Begin, CreateLot, WithdrawLot, CreateOffer, UpdateStaleOffer,
     CreatePayment, UpdateOffer, MarkPaid, MarkFailed, MarkDisputed, StartSweep, tables,
     TypeOK
<1>2. ASSUME NEW w \in Workers, Continue(w), ~MarkLotOffered(w), ~MatchLot(w),
             ~ReopenWrite(w), ~SellLot(w)
      PROVE  lot' = lot
  BY <1>2 DEF Continue, ExpireInSweep, EndSweep, InsertOffer, PatchOffer, ExpireStale,
     ReopenReadOffers, ReopenReadLot, CheckPayments, InsertPayment, WritePaid,
     RevertPayment, WriteFailed, WriteDisputed, Rescored, tables
\* The two writes that put a lot on offer go to a lot that was on offer.
<1>3. ASSUME NEW w \in Workers, MarkLotOffered(w) \/ ReopenWrite(w)
      PROVE  lot'[l] \notin {"open", "offered"}
  BY <1>3 DEF MarkLotOffered, ReopenWrite, KnowInv, HandlerKnows, At, TypeOK
<1>4. ASSUME NEW w \in Workers, MatchLot(w) \/ SellLot(w)
      PROVE  lot'[l] \notin {"open", "offered"}
  BY <1>4 DEF MatchLot, SellLot, TypeOK
<1>5. ASSUME NEW w \in Workers, Abort(w) PROVE lot' = lot
  BY <1>5 DEF Abort, tables
<1>6. ASSUME NEW o \in Offers, Age(o) PROVE lot' = lot
  BY <1>6 DEF Age, tables
<1>7. CASE UNCHANGED vars
  BY <1>7 DEF vars
<1>8. QED
  BY <1>1, <1>2, <1>3, <1>4, <1>5, <1>6, <1>7 DEF Next

\* One request at a time, failing calls included: a lot matched, sold or
\* withdrawn is never put back on offer by create_offer or by a reopen.
THEOREM ClosedLotsStayClosed ==
  ASSUME OneAtATime
  PROVE  Spec => ClosedLotStaysClosed
<1> DEFINE Kept == \A l \in Lots : lot[l] \in {"matched", "sold", "withdrawn"} =>
                       lot'[l] \notin {"open", "offered"}
<1>1. TypeOK /\ KnowInv /\ [Next]_vars => Kept
  BY ClosedStep DEF Kept
<1>2. QED
  BY <1>1, KnowAlways, PTL DEF Spec, ClosedLotStaysClosed

-----------------------------------------------------------------------------
(* One request at a time, no failing call: lots fit their deals            *)

\* A request's first step leaves no lot offered without an offer.
LEMMA FollowsBegin ==
  ASSUME OneAtATime, TypeOK, LotFitsOrFollows, NEW w \in Workers, HandlerKnows(w),
         Begin(w)
  PROVE  LotFitsOrFollows'
<1> USE DealsAssumption DEF TypeOK, OneAtATime, HandlerKnows, LotFitsOrFollows, At,
        Request, Goto, tables, locals, history, OffersOn, PendingOn
<1>1. ASSUME NEW l \in Lots, CreateLot(w, l) PROVE LotFitsOrFollows'
  BY <1>1 DEF CreateLot
<1>2. ASSUME NEW l \in Lots, WithdrawLot(w, l) PROVE LotFitsOrFollows'
  BY <1>2 DEF WithdrawLot
<1>3. ASSUME NEW l \in Lots, CreateOffer(w, l) PROVE LotFitsOrFollows'
  BY <1>3 DEF CreateOffer
<1>4. ASSUME NEW o \in Offers, UpdateStaleOffer(w, o) PROVE LotFitsOrFollows'
  BY <1>4 DEF UpdateStaleOffer, Stale
<1>5. ASSUME NEW o \in Offers, CreatePayment(w, o) PROVE LotFitsOrFollows'
  BY <1>5 DEF CreatePayment
<1>6. ASSUME NEW o \in Offers, NEW s \in OfferStatus, UpdateOffer(w, o, s)
      PROVE  LotFitsOrFollows'
  BY <1>6 DEF UpdateOffer
<1>7. ASSUME NEW p \in Payments, MarkPaid(w, p) PROVE LotFitsOrFollows'
  BY <1>7 DEF MarkPaid
<1>8. ASSUME NEW p \in Payments, MarkFailed(w, p) PROVE LotFitsOrFollows'
  BY <1>8 DEF MarkFailed
<1>9. ASSUME NEW p \in Payments, MarkDisputed(w, p) PROVE LotFitsOrFollows'
  BY <1>9 DEF MarkDisputed
<1>10. ASSUME StartSweep(w) PROVE LotFitsOrFollows'
  BY <1>10 DEF StartSweep, Stale
<1>11. QED
  BY <1>1, <1>2, <1>3, <1>4, <1>5, <1>6, <1>7, <1>8, <1>9, <1>10 DEF Begin

\* A call that upsets a lot is followed by the one that puts it right.
LEMMA FollowsContinue ==
  ASSUME OneAtATime, TypeOK, LotFitsOrFollows, NEW w \in Workers, HandlerKnows(w),
         Continue(w), Failing = {}
  PROVE  LotFitsOrFollows'
<1> USE DealsAssumption DEF TypeOK, OneAtATime, HandlerKnows, LotFitsOrFollows, At,
        Goto, Return, tables, history, LotCalls, OfferCalls, PaymentCalls, OffersOn,
        PendingOn, PaymentsFor
<1>1. ASSUME NEW o \in Offers, ExpireInSweep(w, o) PROVE LotFitsOrFollows'
  BY <1>1 DEF ExpireInSweep
<1>2. CASE InsertOffer(w)
  BY <1>2 DEF InsertOffer
<1>3. CASE MarkLotOffered(w)
  BY <1>3 DEF MarkLotOffered
<1>4. CASE PatchOffer(w)
  BY <1>4 DEF PatchOffer
<1>5. CASE MatchLot(w)
  BY <1>5 DEF MatchLot
<1>6. CASE ExpireStale(w)
  BY <1>6 DEF ExpireStale
<1>7. CASE ReopenReadOffers(w)
  BY <1>7 DEF ReopenReadOffers
<1>8. CASE ReopenReadLot(w)
  BY <1>8 DEF ReopenReadLot
<1>9. CASE ReopenWrite(w)
  BY <1>9 DEF ReopenWrite
<1>10. CASE CheckPayments(w)
  BY <1>10 DEF CheckPayments
<1>11. CASE InsertPayment(w)
  BY <1>11 DEF InsertPayment
<1>12. CASE WritePaid(w)
  BY <1>12 DEF WritePaid
<1>13. CASE SellLot(w)
  BY <1>13 DEF SellLot
<1>14. CASE RevertPayment(w)
  BY <1>14 DEF RevertPayment
<1>15. CASE WriteFailed(w)
  BY <1>15, SMTT(30) DEF WriteFailed
<1>16. CASE WriteDisputed(w)
  BY <1>16 DEF WriteDisputed
<1>17. CASE Rescored(w)
  BY <1>17 DEF Rescored
<1>18. CASE EndSweep(w)
  BY <1>18 DEF EndSweep
<1>19. QED
  BY <1>1, <1>2, <1>3, <1>4, <1>5, <1>6, <1>7, <1>8, <1>9, <1>10, <1>11, <1>12, <1>13,
     <1>14, <1>15, <1>16, <1>17, <1>18 DEF Continue

LEMMA FollowsNext ==
  ASSUME OneAtATime, Failing = {}, TypeOK, KnowInv, LotFitsOrFollows, [Next]_vars
  PROVE  LotFitsOrFollows'
<1>1. ASSUME NEW w \in Workers, Begin(w) \/ Continue(w) PROVE LotFitsOrFollows'
  BY <1>1, FollowsBegin, FollowsContinue DEF KnowInv
<1>2. ASSUME NEW w \in Workers, Abort(w) PROVE FALSE
  BY <1>2 DEF Abort
<1>3. ASSUME NEW o \in Offers, Age(o) PROVE LotFitsOrFollows'
  BY <1>3 DEF Age, LotFitsOrFollows, At, PendingOn, OffersOn, tables, locals
<1>4. CASE UNCHANGED vars
  BY <1>4 DEF vars, LotFitsOrFollows, At, PendingOn, OffersOn
<1>5. QED
  BY <1>1, <1>2, <1>3, <1>4 DEF Next

\* One request at a time, none of them cut short: whenever no handler runs, an
\* offered lot has a pending offer and the lot of a paid payment is off the market.
THEOREM LotsFitTheirDeals ==
  ASSUME OneAtATime, Failing = {}
  PROVE  Spec => []LotFitsItsDeals
<1>1. Init => LotFitsOrFollows
  BY DealsAssumption DEF Init, LotFitsOrFollows
<1>2. TypeOK /\ KnowInv /\ LotFitsOrFollows /\ [Next]_vars => LotFitsOrFollows'
  BY FollowsNext
<1>3. LotFitsOrFollows => LotFitsItsDeals
  BY DEF LotFitsOrFollows, LotFitsItsDeals, OfferedLotHasOffer, PaidLotIsClosed, Quiet,
     At
<1>4. QED
  BY <1>1, <1>2, <1>3, KnowAlways, PTL DEF Spec

-----------------------------------------------------------------------------
(* One request at a time, no failing call: Deals implements Market         *)

\* The mapping of DealsSerial when w is the only worker: what w has still to write.
OfferSeen(w) ==
  [o \in Offers |->
     IF At(w, "patch_write") /\ tgt[w] = o THEN val[w]
     ELSE IF At(w, "expire_write") /\ tgt[w] = o THEN "expired"
     ELSE offer[o]]

\* Worker w is on its way to reopen lot l.
Reopening(w, l) ==
  /\ \/ pc[w] \in {"reopen_pending", "reopen_lot", "reopen_write"} /\ tgt[w] = l
     \/ At(w, "expire_write") /\ LotOf[tgt[w]] = l
     \/ At(w, "patch_write") /\ val[w] \in {"rejected", "expired"} /\ LotOf[tgt[w]] = l
  /\ lot[l] = "offered"
  /\ \A o \in Offers : LotOf[o] = l => OfferSeen(w)[o] # "pending"

LotSeen(w) ==
  [l \in Lots |->
     IF At(w, "offer_mark") /\ tgt[w] = l THEN "offered"
     ELSE IF \/ At(w, "match_lot") /\ tgt[w] = l
             \/ At(w, "patch_write") /\ val[w] = "accepted" /\ LotOf[tgt[w]] = l
          THEN "matched"
     ELSE IF At(w, "sell_lot") /\ LotOf[OfferOf[tgt[w]]] = l THEN "sold"
     ELSE IF Reopening(w, l) THEN "open"
     ELSE lot[l]]

\* The CHOOSEs of the mapping meet exactly one worker and one status.
LEMMA SeenIsDone ==
  OneAtATime => \A w \in Workers : OfferDone = OfferSeen(w) /\ LotDone = LotSeen(w)
<1> SUFFICES ASSUME OneAtATime, NEW w \in Workers
             PROVE  OfferDone = OfferSeen(w) /\ LotDone = LotSeen(w)
  OBVIOUS
<1>1. \A v \in Workers : v = w
  BY DEF OneAtATime
<1>2. OfferDone = OfferSeen(w)
  BY <1>1 DEF OfferDone, OfferSeen
<1>3. ASSUME NEW l \in Lots PROVE LotDone[l] = LotSeen(w)[l]
  <2> DEFINE debt == IF At(w, "offer_mark") /\ tgt[w] = l THEN "offered"
     ELSE IF \/ At(w, "match_lot") /\ tgt[w] = l
             \/ At(w, "patch_write") /\ val[w] = "accepted" /\ LotOf[tgt[w]] = l
          THEN "matched"
     ELSE IF At(w, "sell_lot") /\ LotOf[OfferOf[tgt[w]]] = l THEN "sold"
     ELSE IF Reopening(w, l) THEN "open" ELSE "none"
  <2>1. \A s \in LotStatus : Owes(w, l, s) <=> s = debt
    BY <1>2 DEF Owes, Reopening, At, OffersOn, LotStatus
  <2>2. debt # "none" => debt \in LotStatus
    BY DEF LotStatus
  <2>3. LotSeen(w)[l] = IF debt = "none" THEN lot[l] ELSE debt
    BY DEF LotSeen
  <2>4. "none" \notin LotStatus
    BY DEF LotStatus
  <2> HIDE DEF debt
  <2>5. CASE debt = "none"
    <3>1. ~\E v \in Workers, s \in LotStatus : Owes(v, l, s)
      BY <1>1, <2>1, <2>4, <2>5
    <3>2. QED
      BY <3>1, <2>3, <2>5 DEF LotDone
  <2>6. CASE debt # "none"
    <3>1. \A s \in LotStatus : (\E v \in Workers : Owes(v, l, s)) <=> s = debt
      BY <1>1, <2>1
    <3>2. (CHOOSE s \in LotStatus : \E v \in Workers : Owes(v, l, s)) = debt
      BY <3>1, <2>2, <2>6
    <3>3. \E v \in Workers, s \in LotStatus : Owes(v, l, s)
      BY <3>1, <2>2, <2>6
    <3>4. LotDone[l] = CHOOSE s \in LotStatus : \E v \in Workers : Owes(v, l, s)
      BY <3>3 DEF LotDone
    <3>5. QED
      BY <3>2, <3>4, <2>3, <2>6
  <2>7. QED
    BY <2>5, <2>6
<1>4. LotDone = LotSeen(w)
  BY <1>3 DEF LotDone, LotSeen
<1>5. QED
  BY <1>2, <1>4

\* The mapped tables, read off worker w.
Seen(w) == OfferDone = OfferSeen(w) /\ LotDone = LotSeen(w)

\* A handler that has changed nothing yet, or all it had to, owes nothing.
LEMMA IdleSeen ==
  ASSUME TypeOK, NEW w \in Workers, Seen(w),
         pc[w] \in {"idle", "sweep", "offer_insert", "pay_check", "pay_insert",
                    "paid_write", "fail_write", "dispute_write", "rescore"}
  PROVE  OfferDone = offer /\ LotDone = lot
BY DEF TypeOK, Seen, OfferSeen, LotSeen, Reopening, At

\* What closing offer o with status s owes its lot is what Market does at once.
LEMMA CloseSeen ==
  ASSUME TypeOK, NEW o \in Offers, NEW s \in {"rejected", "expired"},
         OfferDone = offer, LotDone = lot,
         OfferDone' = [offer EXCEPT ![o] = s],
         LotDone' = [l \in Lots |->
           IF /\ l = LotOf[o] /\ lot[l] = "offered"
              /\ \A q \in Offers : LotOf[q] = l => OfferDone'[q] # "pending"
           THEN "open" ELSE lot[l]]
  PROVE  LotDone' = M!Reopened(o)
<1> DEFINE last == \A q \in Offers : LotOf[q] = LotOf[o] => OfferDone'[q] # "pending"
<1>1. last <=> M!Pending(LotOf[o]) \subseteq {o}
  BY DEF M!Pending, TypeOK
<1>2. M!Reopened(o) = IF lot[LotOf[o]] = "offered" /\ last
                      THEN [lot EXCEPT ![LotOf[o]] = "open"] ELSE lot
  BY <1>1 DEF M!Reopened
<1>3. LotDone' = [l \in Lots |-> IF l = LotOf[o] /\ lot[LotOf[o]] = "offered" /\ last
                                 THEN "open" ELSE lot[l]]
  BY DealsAssumption DEF TypeOK
<1>4. lot = [l \in Lots |-> lot[l]]
  BY DEF TypeOK
<1> HIDE DEF last
<1>5. CASE lot[LotOf[o]] = "offered" /\ last
  BY <1>2, <1>3, <1>4, <1>5
<1>6. CASE ~(lot[LotOf[o]] = "offered" /\ last)
  BY <1>2, <1>3, <1>4, <1>6
<1>7. QED
  BY <1>5, <1>6

\* A first step is a request of Market taking effect, or invisible.
LEMMA MarketBegin ==
  ASSUME OneAtATime, TypeOK, TypeOK', NEW w \in Workers, HandlerKnows(w), Begin(w),
         Seen(w), Seen(w)'
  PROVE  [M!Next]_(M!vars)
<1>1. OfferDone = offer /\ LotDone = lot
  BY IdleSeen DEF Begin, CreateLot, WithdrawLot, CreateOffer, UpdateStaleOffer,
     CreatePayment, UpdateOffer, MarkPaid, MarkFailed, MarkDisputed, StartSweep, Request
<1>2. ASSUME NEW l \in Lots, CreateLot(w, l) PROVE M!List(l)
  BY <1>1, <1>2 DEF CreateLot, Request, M!List, TypeOK, Seen, OfferSeen, LotSeen,
     Reopening, At, locals
<1>3. ASSUME NEW l \in Lots, WithdrawLot(w, l) PROVE M!Withdraw(l)
  BY <1>1, <1>3 DEF WithdrawLot, Request, M!Withdraw, TypeOK, Seen, OfferSeen, LotSeen,
     Reopening, At, locals
<1>4. ASSUME NEW l \in Lots, CreateOffer(w, l) PROVE UNCHANGED M!vars
  BY <1>1, <1>4 DEF CreateOffer, Request, Goto, M!vars, TypeOK, Seen, OfferSeen,
     LotSeen, Reopening, At, tables
<1>5. ASSUME NEW o \in Offers, UpdateStaleOffer(w, o) PROVE M!Close(o, "expired")
  <2>1. OfferDone' = [offer EXCEPT ![o] = "expired"]
    BY <1>1, <1>5 DEF UpdateStaleOffer, Request, Goto, TypeOK, Seen, OfferSeen, At,
       tables
  <2>2. LotDone' = [l \in Lots |->
           IF /\ l = LotOf[o] /\ lot[l] = "offered"
              /\ \A q \in Offers : LotOf[q] = l => OfferDone'[q] # "pending"
           THEN "open" ELSE lot[l]]
    BY <1>1, <1>5, DealsAssumption DEF UpdateStaleOffer, Request, Goto, TypeOK, Seen,
       LotSeen, Reopening, At, tables
  <2>3. LotDone' = M!Reopened(o)
    BY <1>1, <1>5, <2>1, <2>2, CloseSeen
  <2>4. QED
    BY <1>1, <1>5, <2>1, <2>3 DEF UpdateStaleOffer, Stale, M!Close, tables
<1>6. ASSUME NEW o \in Offers, CreatePayment(w, o) PROVE UNCHANGED M!vars
  BY <1>1, <1>6 DEF CreatePayment, Request, Goto, M!vars, TypeOK, Seen, OfferSeen,
     LotSeen, Reopening, At, tables
<1>7. ASSUME NEW o \in Offers, NEW s \in OfferStatus, UpdateOffer(w, o, s),
             s = "accepted"
      PROVE  M!Accept(o)
  BY <1>1, <1>7, DealsAssumption DEF UpdateOffer, Stale, Request, Goto, M!Accept,
     TypeOK, Seen, OfferSeen, LotSeen, Reopening, At, tables
<1>8. ASSUME NEW o \in Offers, NEW s \in OfferStatus, UpdateOffer(w, o, s),
             s \in {"rejected", "expired"}
      PROVE  M!Close(o, s)
  <2>1. OfferDone' = [offer EXCEPT ![o] = s]
    BY <1>1, <1>8 DEF UpdateOffer, Request, Goto, TypeOK, Seen, OfferSeen, At, tables
  <2>2. LotDone' = [l \in Lots |->
           IF /\ l = LotOf[o] /\ lot[l] = "offered"
              /\ \A q \in Offers : LotOf[q] = l => OfferDone'[q] # "pending"
           THEN "open" ELSE lot[l]]
    BY <1>1, <1>8, DealsAssumption DEF UpdateOffer, Request, Goto, TypeOK, Seen,
       LotSeen, Reopening, At, tables
  <2>3. LotDone' = M!Reopened(o)
    BY <1>1, <1>8, <2>1, <2>2, CloseSeen
  <2>4. QED
    BY <1>1, <1>8, <2>1, <2>3 DEF UpdateOffer, Stale, M!Close, tables
<1>9. ASSUME NEW o \in Offers, NEW s \in OfferStatus, UpdateOffer(w, o, s),
             s = "pending"
      PROVE M!Revive(o) \/ UNCHANGED M!vars
  BY <1>1, <1>9 DEF UpdateOffer, Stale, Request, Goto, M!Revive, M!vars, TypeOK, Seen,
     OfferSeen, LotSeen, Reopening, At, tables
<1>10. ASSUME NEW p \in Payments,
              MarkPaid(w, p) \/ MarkFailed(w, p) \/ MarkDisputed(w, p)
       PROVE  UNCHANGED M!vars
  BY <1>1, <1>10 DEF MarkPaid, MarkFailed, MarkDisputed, Request, Goto, M!vars, TypeOK,
     Seen, OfferSeen, LotSeen, Reopening, At, tables
<1>11. ASSUME StartSweep(w) PROVE UNCHANGED M!vars
  BY <1>1, <1>11 DEF StartSweep, Goto, M!vars, TypeOK, Seen, OfferSeen, LotSeen,
     Reopening, At, tables
<1>12. QED
  BY <1>2, <1>3, <1>4, <1>5, <1>6, <1>7, <1>8, <1>9, <1>10, <1>11 DEF Begin, M!Next,
     OfferStatus

\* A later call is the effect of the request, or a write already counted.
LEMMA MarketContinue ==
  ASSUME OneAtATime, Failing = {}, TypeOK, TypeOK', NEW w \in Workers, HandlerKnows(w),
         Continue(w),
         Seen(w), Seen(w)'
  PROVE  [M!Next]_(M!vars)
<1> USE DealsAssumption DEF TypeOK, HandlerKnows, At, Goto, Return, Seen, LotCalls,
        OfferCalls, PaymentCalls
\* The steps at which a request takes effect.
<1>1. ASSUME NEW o \in Offers, ExpireInSweep(w, o) PROVE M!Close(o, "expired")
  <2>1. OfferDone = offer /\ LotDone = lot
    BY <1>1, IdleSeen DEF ExpireInSweep
  <2>2. OfferDone' = [offer EXCEPT ![o] = "expired"]
    <3>1. pc'[w] = "reopen_pending" /\ offer' = [offer EXCEPT ![o] = "expired"]
      BY <1>1 DEF ExpireInSweep
    <3>2. OfferDone' = [q \in Offers |-> offer'[q]]
      BY <3>1 DEF OfferSeen
    <3>3. QED
      BY <3>1, <3>2
  <2>3. LotDone' = [l \in Lots |->
           IF /\ l = LotOf[o] /\ lot[l] = "offered"
              /\ \A q \in Offers : LotOf[q] = l => OfferDone'[q] # "pending"
           THEN "open" ELSE lot[l]]
    BY <1>1 DEF ExpireInSweep, LotSeen, Reopening
  <2>4. LotDone' = M!Reopened(o)
    BY <2>1, <2>2, <2>3, CloseSeen
  <2>5. QED
    BY <1>1, <2>1, <2>2, <2>4 DEF ExpireInSweep, M!Close
<1>2. ASSUME InsertOffer(w)
      PROVE  (\E o \in Offers : M!Offer(o)) \/ UNCHANGED M!vars
  <2>1. OfferDone = offer /\ LotDone = lot
    BY <1>2, IdleSeen DEF InsertOffer
  <2>2. ASSUME NEW o \in OffersOn(tgt[w]), offer[o] = "absent",
               offer' = [offer EXCEPT ![o] = "pending"],
               Goto(w, "offer_mark", tgt[w], "none")
        PROVE  M!Offer(o)
    BY <1>2, <2>1, <2>2 DEF InsertOffer, M!Offer, OffersOn, OfferSeen, LotSeen,
       Reopening
  <2>3. ASSUME Return(w), UNCHANGED offer PROVE UNCHANGED M!vars
    BY <1>2, <2>1, <2>3 DEF InsertOffer, M!vars, OfferSeen, LotSeen, Reopening
  <2>4. QED
    BY <1>2, <2>2, <2>3 DEF InsertOffer, OffersOn
<1>3. ASSUME InsertPayment(w)
      PROVE  (\E p \in Payments : M!RequestPayment(p)) \/ UNCHANGED M!vars
  <2>1. OfferDone = offer /\ LotDone = lot
    BY <1>3, IdleSeen DEF InsertPayment
  <2>2. OfferDone' = offer /\ LotDone' = lot /\ aged' = aged
    BY <1>3 DEF InsertPayment, OfferSeen, LotSeen, Reopening
  <2>3. M!Open(tgt[w]) = {}
    BY <1>3 DEF InsertPayment, M!Open, OpenFor, PaymentsFor, OpenPayment
  <2>4. QED
    BY <1>3, <2>1, <2>2, <2>3 DEF InsertPayment, M!RequestPayment, M!vars, PaymentsFor
<1>4. ASSUME WritePaid(w) PROVE M!Settle(tgt[w]) \/ UNCHANGED M!vars
  <2>1. OfferDone = offer /\ LotDone = lot
    BY <1>4, IdleSeen DEF WritePaid
  <2>2. QED
    BY <1>4, <2>1 DEF WritePaid, M!Settle, M!vars, OfferSeen, LotSeen, Reopening,
       OpenPayment
<1>5. ASSUME WriteFailed(w) PROVE M!Fail(tgt[w])
  <2>1. OfferDone = offer /\ LotDone = lot
    BY <1>5, IdleSeen DEF WriteFailed
  <2>2. QED
    BY <1>5, <2>1 DEF WriteFailed, M!Fail, OfferSeen, LotSeen, Reopening, PaymentStatus
<1>6. ASSUME WriteDisputed(w) PROVE M!Dispute(tgt[w])
  <2>1. OfferDone = offer /\ LotDone = lot
    BY <1>6, IdleSeen DEF WriteDisputed
  <2>2. QED
    BY <1>6, <2>1 DEF WriteDisputed, M!Dispute, OfferSeen, LotSeen, Reopening
\* The others do what is already counted.
<1> USE DEF OfferSeen, LotSeen, Reopening, M!vars, tables
<1>7. ASSUME MarkLotOffered(w) PROVE UNCHANGED M!vars
  BY <1>7 DEF MarkLotOffered
<1>8. ASSUME PatchOffer(w) PROVE UNCHANGED M!vars
  BY <1>8 DEF PatchOffer
<1>9. ASSUME MatchLot(w) PROVE UNCHANGED M!vars
  BY <1>9 DEF MatchLot
<1>10. ASSUME ExpireStale(w) PROVE UNCHANGED M!vars
  BY <1>10 DEF ExpireStale
<1>11. ASSUME ReopenReadOffers(w) PROVE UNCHANGED M!vars
  BY <1>11 DEF ReopenReadOffers, PendingOn, OffersOn
<1>12. ASSUME ReopenReadLot(w) PROVE UNCHANGED M!vars
  BY <1>12 DEF ReopenReadLot
<1>13. ASSUME ReopenWrite(w) PROVE UNCHANGED M!vars
  BY <1>13 DEF ReopenWrite, PendingOn, OffersOn
<1>14. ASSUME CheckPayments(w) PROVE UNCHANGED M!vars
  BY <1>14 DEF CheckPayments
<1>15. ASSUME SellLot(w) PROVE UNCHANGED M!vars
  BY <1>15 DEF SellLot
<1>16. ASSUME RevertPayment(w) PROVE FALSE
  BY <1>16 DEF RevertPayment
<1>17. ASSUME Rescored(w) PROVE UNCHANGED M!vars
  BY <1>17 DEF Rescored
<1>18. ASSUME EndSweep(w) PROVE UNCHANGED M!vars
  BY <1>18 DEF EndSweep
<1>19. tgt[w] \in Payments \/ ~(WritePaid(w) \/ WriteFailed(w) \/ WriteDisputed(w))
  BY DEF WritePaid, WriteFailed, WriteDisputed
<1>20. QED
  BY <1>1, <1>2, <1>3, <1>4, <1>5, <1>6, <1>7, <1>8, <1>9, <1>10, <1>11, <1>12, <1>13,
     <1>14, <1>15, <1>16, <1>17, <1>18, <1>19 DEF Continue, M!Next

\* Every step of Deals is a step of Market or leaves its variables alone.
LEMMA MarketNext ==
  ASSUME OneAtATime, Failing = {}, TypeOK, TypeOK', KnowInv, [Next]_vars
  PROVE  [M!Next]_(M!vars)
<1>1. \A w \in Workers : Seen(w)
  BY SeenIsDone DEF Seen
<1>2. \A w \in Workers : Seen(w)'
  <2>1. (OneAtATime => \A w \in Workers : OfferDone = OfferSeen(w) /\ LotDone = LotSeen(w))'
    BY SeenIsDone, PTL
  <2>2. QED
    BY <2>1 DEF Seen, OneAtATime
<1>3. ASSUME NEW w \in Workers, Begin(w) \/ Continue(w) PROVE [M!Next]_(M!vars)
  BY <1>1, <1>2, <1>3, MarketBegin, MarketContinue DEF KnowInv
<1>4. ASSUME NEW w \in Workers, Abort(w) PROVE FALSE
  BY <1>4 DEF Abort
<1>5. ASSUME NEW o \in Offers, Age(o) PROVE M!Outlive(o)
  <2>1. aged' = aged \cup {o} /\ offer[o] # "absent"
    BY <1>5 DEF Age
  <2>2. CASE Workers = {}
    BY <1>5, <2>1, <2>2 DEF Age, OfferDone, LotDone, M!Outlive, tables, locals
  <2>3. ASSUME NEW w \in Workers PROVE M!Outlive(o)
    <3>1. OfferDone = OfferSeen(w) /\ LotDone = LotSeen(w)
      BY <1>1 DEF Seen
    <3>2. OfferDone' = OfferSeen(w)' /\ LotDone' = LotSeen(w)'
      BY <1>2 DEF Seen
    <3>3. OfferDone' = OfferDone /\ LotDone' = LotDone /\ payment' = payment
      BY <1>5, <3>1, <3>2 DEF Age, OfferSeen, LotSeen, Reopening, At, tables, locals
    <3>4. OfferDone[o] # "absent"
      BY <2>1, <3>1 DEF OfferSeen, At, TypeOK, OfferStatus
    <3>5. QED
      BY <2>1, <3>3, <3>4 DEF M!Outlive
  <2>4. QED
    BY <2>2, <2>3
<1>6. ASSUME UNCHANGED vars PROVE UNCHANGED M!vars
  <2>1. CASE Workers = {}
    BY <1>6, <2>1 DEF vars, OfferDone, LotDone, M!vars
  <2>2. ASSUME NEW w \in Workers PROVE UNCHANGED M!vars
    <3>1. OfferDone = OfferSeen(w) /\ LotDone = LotSeen(w)
      BY <1>1 DEF Seen
    <3>2. OfferDone' = OfferSeen(w)' /\ LotDone' = LotSeen(w)'
      BY <1>2 DEF Seen
    <3>3. QED
      BY <1>6, <3>1, <3>2 DEF vars, OfferSeen, LotSeen, Reopening, At, M!vars
  <2>3. QED
    BY <2>1, <2>2
<1>7. QED
  BY <1>3, <1>4, <1>5, <1>6 DEF Next, M!Next

\* One request at a time, none of them cut short: every request changes lot and
\* offer, or lot and payment, as if in one transaction.
THEOREM DealsImplementMarket ==
  ASSUME OneAtATime, Failing = {}
  PROVE  Spec => ImplementsMarket
<1>1. Init => M!Init
  <2> SUFFICES ASSUME Init PROVE M!Init
    OBVIOUS
  <2>1. OfferDone = offer
    BY DEF Init, OfferDone, At
  <2>2. LotDone = lot
    BY DEF Init, LotDone, Owes, At
  <2>3. QED
    BY <2>1, <2>2 DEF Init, M!Init
<1>2. TypeOK /\ TypeOK' /\ KnowInv /\ [Next]_vars => [M!Next]_(M!vars)
  BY MarketNext
<1>3. QED
  BY <1>1, <1>2, KnowAlways, PTL DEF Spec, ImplementsMarket, M!Spec
=============================================================================
