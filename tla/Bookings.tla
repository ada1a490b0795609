------------------------------ MODULE Bookings ------------------------------
(***************************************************************************)
(* Storage and transport bookings against the capacity of a listed option. *)
(* The capacity is a sum that a handler reads before it writes; nothing in *)
(* the database enforces it.  One step is one database call.               *)
(*                                                                         *)
(* No code closes a logistics option or changes its capacity, so the read  *)
(* of the option is folded into the call before it.                        *)
(***************************************************************************)
EXTENDS Naturals, FiniteSets, FiniteSetsExt

CONSTANTS
  Lots, Options,
  Bookings,    \* booking ids; an id is used once
  LotOf,       \* logistics_bookings.lot_id
  OptionOf,    \* logistics_bookings.logistics_id
  Qty,         \* quantity_qtl, at most the lot's quantity
  Capacity,    \* logistics_options.capacity_qtl, or None
  Workers,     \* threads that run handlers
  MayFail,     \* whether a call may fail, which ends its handler
  None

ASSUME BookingsAssumption ==
  /\ IsFiniteSet(Bookings) /\ Bookings # {}
  /\ IsFiniteSet(Workers) /\ Workers # {}
  /\ LotOf \in [Bookings -> Lots]
  /\ OptionOf \in [Bookings -> Options]
  /\ Qty \in [Bookings -> Nat \ {0}]
  /\ Capacity \in [Options -> Nat \cup {None}]
  /\ MayFail \in BOOLEAN
  /\ None \notin Nat \cup Bookings

BookingStatus == {"requested", "confirmed", "cancelled", "completed"}
ActiveBookingStatuses == {"requested", "confirmed"}

VARIABLES
  status, \* logistics_bookings.status, or "absent" before the insert
  closed, \* lots that are sold or withdrawn
  pc,     \* the next call of each worker
  tgt,    \* the booking it is about
  val,    \* the status to be written
  overlap \* history: whether two requests have ever been under way at a time

vars == <<status, closed, pc, tgt, val, overlap>>

-----------------------------------------------------------------------------
Using(o) == {b \in Bookings : OptionOf[b] = o /\ status[b] \in ActiveBookingStatuses}

\* booked_quantity without the bookings in x.
BookedQuantity(o, x) == MapThenSumSet(LAMBDA b : Qty[b], Using(o) \ x)

\* Slip: only what is still to be confirmed counts.
HasRoom_RequestedOnly(b, x) ==
  LET o == OptionOf[b]
  IN Capacity[o] = None \/
     MapThenSumSet(LAMBDA c : Qty[c], {c \in Using(o) \ x : status[c] = "requested"}) + Qty[b]
       <= Capacity[o]

\* _assert_capacity: what b asks for still fits.
HasRoom(b, x) ==
  LET o == OptionOf[b]
  IN Capacity[o] = None \/ BookedQuantity(o, x) + Qty[b] <= Capacity[o]

Overlaps == overlap' = (overlap \/ \E v \in Workers : pc[v] # "idle")

Request(w) == pc[w] = "idle" /\ Overlaps

Goto(w, call, b, s) ==
  /\ pc'  = [pc EXCEPT ![w] = call]
  /\ tgt' = [tgt EXCEPT ![w] = b]
  /\ val' = [val EXCEPT ![w] = s]

Return(w) == Goto(w, "idle", None, "none")

Init ==
  /\ status = [b \in Bookings |-> "absent"]
  /\ closed = {}
  /\ pc  = [w \in Workers |-> "idle"]
  /\ tgt = [w \in Workers |-> None]
  /\ val = [w \in Workers |-> "none"]
  /\ overlap = FALSE

(***************************************************************************)
(* create_booking: the lot, the sum of what is booked, the insert.         *)
(***************************************************************************)

\* Slip: the status of the lot is not looked at.
CreateBooking_AnyLot(w, b) ==
  /\ Request(w)
  /\ status[b] = "absent" /\ \A v \in Workers : tgt[v] # b
  /\ Goto(w, "create_sum", b, "requested")
  /\ UNCHANGED <<status, closed>>

CreateBooking(w, b) ==
  /\ Request(w)
  /\ status[b] = "absent" /\ \A v \in Workers : tgt[v] # b
  /\ LotOf[b] \notin closed
  /\ Goto(w, "create_sum", b, "requested")
  /\ UNCHANGED <<status, closed>>

CheckNew(w) ==
  /\ pc[w] = "create_sum"
  /\ IF HasRoom(tgt[w], {}) THEN Goto(w, "write", tgt[w], val[w]) ELSE Return(w)
  /\ UNCHANGED <<status, closed, overlap>>

(***************************************************************************)
(* update_booking: the booking, the sum of the others if it is to be       *)
(* active, the update keyed by id and owner.                               *)
(***************************************************************************)

\* Slip: only a confirmation is checked for room.
UpdateBooking_ConfirmChecked(w, b, s) ==
  /\ Request(w)
  /\ status[b] # "absent"
  /\ status[b] = "completed" => s = "completed"
  /\ Goto(w, IF s = "confirmed" THEN "update_sum" ELSE "write", b, s)
  /\ UNCHANGED <<status, closed>>

UpdateBooking(w, b, s) ==
  /\ Request(w)
  /\ status[b] # "absent"
  /\ status[b] = "completed" => s = "completed"
  /\ Goto(w, IF s \in ActiveBookingStatuses THEN "update_sum" ELSE "write", b, s)
  /\ UNCHANGED <<status, closed>>

CheckUpdate(w) ==
  /\ pc[w] = "update_sum"
  /\ IF HasRoom(tgt[w], {tgt[w]}) THEN Goto(w, "write", tgt[w], val[w]) ELSE Return(w)
  /\ UNCHANGED <<status, closed, overlap>>

\* The insert or the update; the update looks at no status.
Write(w) ==
  /\ pc[w] = "write"
  /\ status' = [status EXCEPT ![tgt[w]] = val[w]]
  /\ Return(w)
  /\ UNCHANGED <<closed, overlap>>

Abort(w) ==
  /\ MayFail
  /\ pc[w] # "idle"
  /\ Return(w)
  /\ UNCHANGED <<status, closed, overlap>>

\* The trade core sells or withdraws a lot.
CloseLot(l) ==
  /\ Overlaps
  /\ closed' = closed \cup {l}
  /\ UNCHANGED <<status, pc, tgt, val>>

Next ==
  \/ \E w \in Workers :
       \/ \E b \in Bookings : CreateBooking(w, b) \/ \E s \in BookingStatus : UpdateBooking(w, b, s)
       \/ CheckNew(w) \/ CheckUpdate(w) \/ Write(w) \/ Abort(w)
  \/ \E l \in Lots : CloseLot(l)

Spec == Init /\ [][Next]_vars

-----------------------------------------------------------------------------
Active(b) == status[b] \in ActiveBookingStatuses

\* Statuses stay within the CHECK list, and a handler between two calls has a
\* booking and a status to write (routers/logistics.py).
TypeOK ==
  /\ status \in [Bookings -> BookingStatus \cup {"absent"}]
  /\ closed \subseteq Lots
  /\ pc \in [Workers -> {"idle", "create_sum", "update_sum", "write"}]
  /\ tgt \in [Workers -> Bookings \cup {None}]
  /\ val \in [Workers -> BookingStatus \cup {"none"}]
  /\ overlap \in BOOLEAN
  /\ \A w \in Workers : (pc[w] = "idle" <=> tgt[w] = None) /\ (pc[w] = "idle" <=> val[w] = "none")

Overbooked(o) ==
  IF Capacity[o] = None \/ BookedQuantity(o, {}) <= Capacity[o] THEN 0
  ELSE BookedQuantity(o, {}) - Capacity[o]

\* What is requested and confirmed never exceeds an option's capacity
\* (the header of 009_logistics_bookings.sql).
CapacityEnforced == \A o \in Options : Overbooked(o) = 0

\* As long as no requests overlap, no option is overbooked, also when cancelled
\* bookings are taken up again and calls fail (_assert_capacity).
CapacityKept == overlap \/ CapacityEnforced

MaxQty == Max({Qty[b] : b \in Bookings})

\* However requests overlap, an option is overbooked by at most one booking for
\* every handler but one (the check and the write of one handler).
OverbookingBounded ==
  \A o \in Options : Overbooked(o) <= (Cardinality(Workers) - 1) * MaxQty

\* As long as no requests overlap, a completed booking stays completed (the 409
\* of update_booking).
CompletedIsFinal ==
  [][\A b \in Bookings : status[b] = "completed" /\ ~overlap' => status'[b] = "completed"]_vars

\* As long as no requests overlap, nothing new is booked for a lot that is sold or
\* withdrawn, though the lot is read two calls before the insert (the 409 of
\* _own_lot).
NewBookingOnOpenLot ==
  [][\A b \in Bookings : status[b] = "absent" /\ status'[b] # "absent" /\ ~overlap' =>
       LotOf[b] \notin closed]_vars

\* The rows keep their types while requests overbook by no more than that.
BookingsConsistent == TypeOK /\ OverbookingBounded

\* As long as no requests overlap, neither 409 can be got around.
RefusalsHold == CompletedIsFinal /\ NewBookingOnOpenLot
=============================================================================
