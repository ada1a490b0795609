------------------------------- MODULE Pooling -------------------------------
(***************************************************************************)
(* aggregate_lots: an FPO rolls open lots, pooled ones too, into a new lot *)
(* and takes the members off sale one by one.  One step is one database    *)
(* call; beside it lots are listed, offered, matched and withdrawn, each   *)
(* in one step here (Deals has those handlers call by call).  A lot that   *)
(* is sold is a matched one here: nothing tells the two apart.             *)
(*                                                                         *)
(* All lots are of one commodity: a request that mixes commodities is      *)
(* refused before anything is written.                                     *)
(***************************************************************************)
EXTENDS Naturals, Sequences, FiniteSets, SequencesExt, Functions

CONSTANTS
  Harvests,  \* the lots farmers list
  Pools,     \* ids of pooled lots; an id is used once
  Weight,    \* quantity_qtl of each harvest
  MaxIds,    \* the longest lot_ids
  MaxOffers, \* bound: pairs of a lot and a status of an offer on it, at a time
  Workers,
  MayFail,   \* whether a call may fail, which ends its handler
  None

ASSUME PoolingAssumption ==
  /\ IsFiniteSet(Harvests) /\ Harvests \cap Pools = {}
  /\ Weight \in [Harvests -> Nat \ {0}]
  /\ MaxIds \in Nat /\ MaxOffers \in Nat
  /\ MayFail \in BOOLEAN
  /\ None \notin Harvests \cup Pools

Lots == Harvests \cup Pools
LotStatus == {"open", "offered", "matched", "withdrawn"}

\* Offers that are rejected or expired are closed alike.
OfferStatus == {"pending", "accepted", "closed"}

VARIABLES
  status,   \* lots.status, "absent" before the insert
  qty,      \* lots.quantity_qtl
  offers,   \* the statuses that the offers on each lot have
  ids,      \* members each handler has read and will pool
  pool,     \* the lot it has inserted, None before
  todo,     \* members it has still to take off sale
  parts,    \* history: the harvests in each lot
  dealt,    \* history: lots on which an offer has been accepted
  revived,  \* history: lots on which a decided offer was made pending again
  repeated, \* history: pools whose lot_ids, or those of a member, name a lot twice
  trouble   \* history: requests have overlapped or a call has failed

handlers == <<ids, pool, todo>>
deals == <<offers, dealt, revived>>
vars == <<status, qty, offers, ids, pool, todo, parts, dealt, revived, repeated, trouble>>

-----------------------------------------------------------------------------
Exists(l) == status[l] # "absent"
Idle(w) == ids[w] = <<>>
Quiet == \A w \in Workers : Idle(w)
Overlaps == trouble' = (trouble \/ ~Quiet)

Return(w) ==
  /\ ids'  = [ids EXCEPT ![w] = <<>>]
  /\ pool' = [pool EXCEPT ![w] = None]
  /\ todo' = [todo EXCEPT ![w] = <<>>]

Init ==
  /\ status = [l \in Lots |-> "absent"]
  /\ qty = [l \in Lots |-> 0]
  /\ offers = [l \in Lots |-> {}]
  /\ ids = [w \in Workers |-> <<>>]
  /\ pool = [w \in Workers |-> None]
  /\ todo = [w \in Workers |-> <<>>]
  /\ parts = [l \in Lots |-> {}]
  /\ dealt = {} /\ revived = {} /\ repeated = {}
  /\ trouble = FALSE

ListLot(l) ==
  /\ Overlaps
  /\ ~Exists(l)
  /\ status' = [status EXCEPT ![l] = "open"]
  /\ qty' = [qty EXCEPT ![l] = Weight[l]]
  /\ parts' = [parts EXCEPT ![l] = {l}]
  /\ UNCHANGED <<deals, handlers, repeated>>

FewOffers ==
  Cardinality({d \in Lots \X OfferStatus : d[2] \in offers[d[1]]}) <= MaxOffers

\* The lot has to be open or offered.
CreateOffer(l) ==
  /\ Overlaps
  /\ status[l] \in {"open", "offered"}
  /\ status' = [status EXCEPT ![l] = "offered"]
  /\ offers' = [offers EXCEPT ![l] = @ \cup {"pending"}]
  /\ FewOffers'
  /\ UNCHANGED <<qty, handlers, parts, dealt, revived, repeated>>

\* One of the offers that say `from` says `to` now, because the farmer or its age wants
\* it.  Only the acceptance looks at the offer, and nothing looks at the lot: it is
\* matched whatever it was, or reopened when the offer closed was the last pending one.
UpdateOffer(l, from, to) ==
  /\ Overlaps
  /\ from \in offers[l]
  /\ to = "accepted" => from = "pending"
  /\ \E rest \in {offers[l], offers[l] \ {from}} :
       LET idle == to = "closed" /\ status[l] = "offered" /\ "pending" \notin rest
       IN /\ offers' = [offers EXCEPT ![l] = rest \cup {to}]
          /\ \/ to = "accepted" /\ status' = [status EXCEPT ![l] = "matched"]
             \/ idle /\ status' = [status EXCEPT ![l] = "open"]
             \/ to # "accepted" /\ ~idle /\ UNCHANGED status
  /\ FewOffers'
  /\ dealt' = IF to = "accepted" THEN dealt \cup {l} ELSE dealt
  /\ revived' = IF to = "pending" /\ from # "pending" THEN revived \cup {l} ELSE revived
  /\ UNCHANGED <<qty, handlers, parts, repeated>>

\* An accepted offer is paid: the lot is sold, even one withdrawn since.
Sell(l) ==
  /\ Overlaps
  /\ l \in dealt
  /\ status' = [status EXCEPT ![l] = "matched"]
  /\ UNCHANGED <<qty, handlers, parts, deals, repeated>>

\* The owner withdraws, whatever the status.
Withdraw(l) ==
  /\ Overlaps
  /\ Exists(l)
  /\ status' = [status EXCEPT ![l] = "withdrawn"]
  /\ UNCHANGED <<qty, handlers, parts, deals, repeated>>

Trade(l) ==
  \/ CreateOffer(l) \/ Sell(l) \/ Withdraw(l)
  \/ \E from, to \in OfferStatus : UpdateOffer(l, from, to)

(***************************************************************************)
(* aggregate_lots                                                          *)
(***************************************************************************)
\* Slip: the lots only have to exist.
Aggregate_AnyStatus(w, s) ==
  /\ Idle(w)
  /\ Overlaps
  /\ \A i \in DOMAIN s : Exists(s[i])
  /\ ids' = [ids EXCEPT ![w] = s]
  /\ UNCHANGED <<status, qty, deals, pool, todo, parts, repeated>>

\* The members are read in one call; each has to be open.  lot_ids may name one twice.
Aggregate(w, s) ==
  /\ Idle(w)
  /\ Overlaps
  /\ \A i \in DOMAIN s : status[s[i]] = "open"
  /\ ids' = [ids EXCEPT ![w] = s]
  /\ UNCHANGED <<status, qty, deals, pool, todo, parts, repeated>>

Total(s) == SumFunctionOnSet([i \in DOMAIN s |-> qty[s[i]]], DOMAIN s)

\* Slip: the last member is left out of the sum.
InsertPool_SkipsLast(w, l) ==
  /\ ~Idle(w) /\ pool[w] = None
  /\ ~Exists(l)
  /\ status' = [status EXCEPT ![l] = "open"]
  /\ qty' = [qty EXCEPT ![l] = Total(Front(ids[w]))]
  /\ parts' = [parts EXCEPT ![l] = UNION {parts[ids[w][i]] : i \in DOMAIN ids[w]}]
  /\ pool' = [pool EXCEPT ![w] = l]
  /\ todo' = [todo EXCEPT ![w] = ids[w]]
  /\ UNCHANGED <<deals, ids, repeated, trouble>>

\* The pool is inserted with the quantities read; quantities never change.
InsertPool(w, l) ==
  /\ ~Idle(w) /\ pool[w] = None
  /\ ~Exists(l)
  /\ status' = [status EXCEPT ![l] = "open"]
  /\ qty' = [qty EXCEPT ![l] = Total(ids[w])]
  /\ parts' = [parts EXCEPT ![l] = UNION {parts[ids[w][i]] : i \in DOMAIN ids[w]}]
  /\ pool' = [pool EXCEPT ![w] = l]
  /\ todo' = [todo EXCEPT ![w] = ids[w]]
  /\ repeated' = IF IsInjective(ids[w]) /\ \A i \in DOMAIN ids[w] : ids[w][i] \notin repeated
                   THEN repeated ELSE repeated \cup {l}
  /\ UNCHANGED <<deals, ids, trouble>>

\* Slip: the members are taken off sale before the pool is there.
MarkMember_First(w) ==
  /\ ~Idle(w)
  /\ \E i \in DOMAIN ids[w] : status' = [status EXCEPT ![ids[w][i]] = "matched"]
  /\ UNCHANGED <<qty, deals, handlers, parts, repeated, trouble>>

\* Keyed by id alone; after the last member the handler answers.
MarkMember(w) ==
  /\ pool[w] # None
  /\ status' = [status EXCEPT ![Head(todo[w])] = "matched"]
  /\ IF Len(todo[w]) = 1
       THEN Return(w)
       ELSE todo' = [todo EXCEPT ![w] = Tail(@)] /\ UNCHANGED <<ids, pool>>
  /\ UNCHANGED <<qty, deals, parts, repeated, trouble>>

Abort(w) ==
  /\ MayFail
  /\ ~Idle(w)
  /\ Return(w)
  /\ trouble' = TRUE
  /\ UNCHANGED <<status, qty, deals, parts, repeated>>

Next ==
  \/ \E l \in Harvests : ListLot(l)
  \/ \E l \in Lots : Trade(l)
  \/ \E w \in Workers :
       \/ \E n \in 2..MaxIds : \E s \in [1..n -> Lots] : Aggregate(w, s)
       \/ \E l \in Pools : InsertPool(w, l)
       \/ MarkMember(w) \/ Abort(w)

Spec == Init /\ [][Next]_vars

-----------------------------------------------------------------------------
OnSale(l) == status[l] \in {"open", "offered"}

\* A lot on sale, or one with an offer that is accepted or still can be.
Promising(l) == OnSale(l) \/ (offers[l] \cap {"pending", "accepted"} # {} /\ l \notin revived)

\* The columns keep their types, and a handler that still has members to take
\* off sale has inserted its pool (aggregate_lots).
TypeOK ==
  /\ status \in [Lots -> LotStatus \cup {"absent"}]
  /\ qty \in [Lots -> Nat]
  /\ offers \in [Lots -> SUBSET OfferStatus]
  /\ ids \in [Workers -> Seq(Lots)]
  /\ pool \in [Workers -> Pools \cup {None}]
  /\ todo \in [Workers -> Seq(Lots)]
  /\ parts \in [Lots -> SUBSET Harvests]
  /\ dealt \subseteq Lots /\ revived \subseteq Lots /\ repeated \subseteq Pools
  /\ trouble \in BOOLEAN
  /\ \A w \in Workers : pool[w] # None <=> todo[w] # <<>>

\* As long as no requests overlap and no call fails: between requests a harvest is on
\* sale, promised to a buyer or open to an acceptance through one lot only, as it was
\* listed or in one pool.  Lots off sale on which a decided offer was made pending again
\* are left out: such an offer can be accepted after the lot has been pooled (the open
\* check and the marking in aggregate_lots, what update_offer checks and does not).
SoldOnce ==
  Quiet /\ ~trouble =>
    \A h \in Harvests : \A k, l \in Lots :
      Promising(k) /\ Promising(l) /\ h \in parts[k] \cap parts[l] => k = l

\* Whatever happens a pool is never lighter than the harvests in it, pools of pools
\* included, and it is heavier if its lot_ids, or those of a pool in it, name a lot
\* twice; with no overlap and no failure only then (qty in aggregate_lots).
PoolWeighsItsParts ==
  \A l \in Lots :
    LET weight == SumFunctionOnSet(Weight, parts[l])
    IN /\ qty[l] >= weight
       /\ l \in repeated => qty[l] > weight
       /\ ~trouble /\ l \notin repeated => qty[l] = weight

\* The columns keep their types, and pools their weight.
PoolsConsistent == TypeOK /\ PoolWeighsItsParts

\* However requests overlap and wherever they fail: a lot that is matched, and on which
\* no offer was ever accepted, is in some pool.  Nobody's lot is taken off sale by an FPO
\* with nothing to show for it (the insert comes before the updates of the members).
MatchedIsPooled ==
  \A l \in Lots : status[l] = "matched" /\ l \notin dealt =>
    \E k \in Pools : k # l /\ parts[l] \subseteq parts[k] /\ parts[k] # {}
=============================================================================
