--------------------------- MODULE MCReliability ----------------------------
(* An instance of Reliability for TLC: two offers, one with two payments and *)
(* each with a grievance.                                                    *)
EXTENDS Reliability

CONSTANTS o1, o2, p1, p2, p3, g1, g2

MCOfferOf == [x \in Payments \cup Grievances |-> IF x \in {p3, g2} THEN o2 ELSE o1]
=============================================================================
