------------------------------ MODULE MCDeals -------------------------------
(* Instances of Deals for TLC: one lot takes every offer, and every payment *)
(* is for the first offer.                                                  *)
EXTENDS Deals

CONSTANTS l1, o1

MCLotOf == [o \in Offers |-> l1]
MCOfferOf == [p \in Payments |-> o1]
=============================================================================
