----------------------------- MODULE MCBookings -----------------------------
(* An instance of Bookings for TLC: four bookings of one lot compete for a   *)
(* storage option that holds any two of them; all four would exceed it by    *)
(* more than the largest.                                                    *)
EXTENDS Bookings

CONSTANTS l1, store, b1

MCLotOf == [b \in Bookings |-> l1]
MCOptionOf == [b \in Bookings |-> store]
MCQty == [b \in Bookings |-> IF b = b1 THEN 3 ELSE 2]
MCCapacity == [o \in Options |-> 5]
=============================================================================
