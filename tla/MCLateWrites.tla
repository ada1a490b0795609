---------------------------- MODULE MCLateWrites ----------------------------
(* The instance of LateWrites: as MCDeals, with the history of readings.   *)
EXTENDS LateWrites

CONSTANTS l1, o1

MCLotOf == [o \in Offers |-> l1]
MCOfferOf == [p \in Payments |-> o1]
=============================================================================
