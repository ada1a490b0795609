----------------------------- MODULE LateWrites -----------------------------
(***************************************************************************)
(* What overlapping handlers of Deals may take back.  Every handler checks *)
(* a row in one call and writes it, by id, in a later one; the history     *)
(* variable here notes which rows were changed by others in between.       *)
(***************************************************************************)
EXTENDS Deals

VARIABLE missed  \* reads whose row another handler has changed since

lateVars == <<vars, missed>>

\* The calls that rest on an earlier reading of the row they write.
LotRests     == {"offer_insert", "offer_mark", "reopen_write"}
OfferRests   == {"patch_write", "expire_write"}
PaymentRests == {"paid_write", "fail_write"}
\* mark_paid knows what it has written itself.
Undoing      == {"sell_lot", "revert_write"}

\* A reading that worker w has still to act upon: of which kind, and of which row.
Reading(w, kind, r) == [worker |-> w, kind |-> kind, row |-> r]

Readings ==
  {Reading(w, "lot", tgt[w]) : w \in {v \in Workers : pc[v] \in LotRests}}
  \cup {Reading(w, "offer", tgt[w]) : w \in {v \in Workers : pc[v] \in OfferRests}}
  \cup {Reading(w, "payment", tgt[w]) : w \in {v \in Workers : pc[v] \in PaymentRests}}
  \cup {Reading(w, "undo", tgt[w]) : w \in {v \in Workers : pc[v] \in Undoing}}
  \cup UNION {{Reading(w, "sweep", o) : o \in todo[w]} : w \in Workers}

\* What the row of a reading says.
Said(d) ==
  CASE d.kind = "lot" -> lot[d.row]
    [] d.kind \in {"offer", "sweep"} -> offer[d.row]
    [] OTHER -> payment[d.row]

Remember ==
  missed' = {d \in Readings \cap Readings' : d \in missed \/ Said(d)' # Said(d)}

LateInit == Init /\ missed = {}
LateNext == Next /\ Remember
LateSpec == LateInit /\ [][LateNext]_lateVars

-----------------------------------------------------------------------------
\* What no request takes back when it runs alone.
LotTakenBack(l) ==
  lot[l] \in {"matched", "sold", "withdrawn"} /\ lot'[l] \in {"open", "offered"}

\* The farmer may ask for any offer to be expired; age expires pending ones.
Asked(o) ==
  \E w \in Workers : /\ pc[w] = "patch_write" /\ tgt[w] = o /\ val[w] = "expired"
                     /\ pc'[w] # "patch_write"

OfferTakenBack(o) ==
  \/ offer[o] \in {"rejected", "expired"} /\ offer'[o] = "accepted"
  \/ offer[o] \in {"accepted", "rejected"} /\ offer'[o] = "expired" /\ ~Asked(o)

PaymentTakenBack(p) ==
  \/ payment[p] = "paid" /\ payment'[p] = "failed"
  \/ payment[p] \in {"failed", "disputed"} /\ payment'[p] \in OpenPayment

\* The step is one of a handler that has missed a change of row r.
ByLateWrite(r) == \E d \in missed : d.row = r /\ pc'[d.worker] # pc[d.worker]

\* However many handlers overlap and wherever they stop: a closed lot comes back on offer,
\* a decided offer is accepted or expires of age, a paid payment fails and a failed or
\* disputed one is open again only by the write of a handler that read the row before
\* another one changed it.  No request takes such a step on what it has read itself.
OnlyLateWritesTakeBack ==
  [][/\ \A l \in Lots : LotTakenBack(l) => ByLateWrite(l)
     /\ \A o \in Offers : OfferTakenBack(o) => ByLateWrite(o)
     /\ \A p \in Payments : PaymentTakenBack(p) => ByLateWrite(p)]_lateVars
=============================================================================
