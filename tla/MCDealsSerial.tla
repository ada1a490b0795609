--------------------------- MODULE MCDealsSerial ----------------------------
(* The instance of DealsSerial: as MCDeals, with the mapping to Market.    *)
EXTENDS DealsSerial

CONSTANTS l1, o1

MCLotOf == [o \in Offers |-> l1]
MCOfferOf == [p \in Payments |-> o1]
=============================================================================
