---------------------------- MODULE DealsSerial -----------------------------
(***************************************************************************)
(* Deals with requests one after the other implements Market.              *)
(*                                                                         *)
(* A request takes effect, in the mapping below, at the step after which   *)
(* nothing can stop it: update_offer at its read, the others at their      *)
(* first write.  The writes it has still to make are already counted.      *)
(***************************************************************************)
EXTENDS Deals

\* The offers as they will stand when the running request has answered.
OfferDone ==
  [o \in Offers |->
     IF \E w \in Workers : At(w, "patch_write") /\ tgt[w] = o
     THEN val[CHOOSE w \in Workers : At(w, "patch_write") /\ tgt[w] = o]
     ELSE IF \E w \in Workers : At(w, "expire_write") /\ tgt[w] = o
     THEN "expired"
     ELSE offer[o]]

\* Worker w has still to write status s to lot l.
Owes(w, l, s) ==
  \/ s = "offered" /\ At(w, "offer_mark") /\ tgt[w] = l
  \/ s = "matched" /\ \/ At(w, "match_lot") /\ tgt[w] = l
                      \/ At(w, "patch_write") /\ val[w] = "accepted" /\ LotOf[tgt[w]] = l
  \/ s = "sold" /\ At(w, "sell_lot") /\ LotOf[OfferOf[tgt[w]]] = l
  \/ /\ s = "open"
     /\ lot[l] = "offered"
     /\ \A o \in OffersOn(l) : OfferDone[o] # "pending"
     /\ \/ pc[w] \in {"reopen_pending", "reopen_lot", "reopen_write"} /\ tgt[w] = l
        \/ At(w, "expire_write") /\ LotOf[tgt[w]] = l
        \/ At(w, "patch_write") /\ val[w] \in {"rejected", "expired"} /\ LotOf[tgt[w]] = l

LotDone ==
  [l \in Lots |->
     IF \E w \in Workers, s \in LotStatus : Owes(w, l, s)
     THEN CHOOSE s \in LotStatus : \E w \in Workers : Owes(w, l, s)
     ELSE lot[l]]

M == INSTANCE Market WITH lot <- LotDone, offer <- OfferDone

\* Seen through the mapping, every request of a single client is one atomic
\* change of the lot together with its offer or its payment.
ImplementsMarket == M!Spec
=============================================================================
