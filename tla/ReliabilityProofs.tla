-------------------------- MODULE ReliabilityProofs --------------------------
(***************************************************************************)
(* What the rescoring of a buyer keeps, for any number of offers,          *)
(* payments, grievances and threads, whether or not calls fail.            *)
(***************************************************************************)
EXTENDS Reliability, FiniteSetTheorems, TLAPS

Reading == {"payments", "grievances", "write"}

\* Only offers that exist have evidence, so all of it is about offers.
LEMMA OnRecord ==
  ASSUME TypeOK
  PROVE  /\ \A s \in {"paid", "failed", "disputed"} :
              Settled(offers, s) = {p \in Payments : pay[p] = s}
         /\ Against(offers) = {g \in Grievances : grief[g] \in {"open", "in_progress"}}
BY ReliabilityAssumption DEF TypeOK, Settled, Against

\* What is counted is finite.
LEMMA Counts ==
  ASSUME NEW k
  PROVE  /\ PaymentTally(k) \in [paid : Nat, failed : Nat, disputed : Nat, grief : Nat]
         /\ \A G \in SUBSET Grievances : Cardinality(G) \in Nat
         /\ Against(k) \subseteq Grievances
<1>1. \A G \in SUBSET Grievances : Cardinality(G) \in Nat
  BY ReliabilityAssumption, FS_Subset, FS_CardinalityType
<1>2. \A s : Cardinality(Settled(k, s)) \in Nat
  <2> SUFFICES ASSUME NEW s PROVE Cardinality(Settled(k, s)) \in Nat
    OBVIOUS
  <2>1. Settled(k, s) \in SUBSET Payments
    BY DEF Settled
  <2> QED BY <2>1, ReliabilityAssumption, FS_Subset, FS_CardinalityType
<1> QED BY <1>1, <1>2 DEF PaymentTally, Against

-----------------------------------------------------------------------------
(***************************************************************************)
(* Types                                                                   *)
(***************************************************************************)

LEMMA InitTypeOK == Init => TypeOK
<1> SUFFICES ASSUME Init PROVE TypeOK
  OBVIOUS
<1>1. Nothing \in [paid : Nat, failed : Nat, disputed : Nat, grief : Nat]
  BY DEF Nothing
<1> QED BY <1>1, ReliabilityAssumption DEF Init, TypeOK, Grades

\* Every handler and every call of the rescoring keeps the types.
LEMMA TypeStep == TypeOK /\ [Next]_vars => TypeOK'
<1> SUFFICES ASSUME TypeOK, [Next]_vars PROVE TypeOK'
  OBVIOUS
<1> USE DEF TypeOK
<1> DEFINE Tallies == [paid : Nat, failed : Nat, disputed : Nat, grief : Nat]
<1>0. Nothing \in Tallies
  BY DEF Nothing
<1>1. ASSUME NEW o \in Offers, MakeOffer(o) PROVE TypeOK'
  BY <1>1 DEF MakeOffer, Overlaps, Idle, handlers
<1>2. ASSUME NEW p \in Payments, CreatePayment(p) PROVE TypeOK'
  BY <1>2 DEF CreatePayment, Overlaps, Idle, handlers, PaymentStatus
<1>3. ASSUME NEW g \in Grievances, CreateGrievance(g) PROVE TypeOK'
  BY <1>3 DEF CreateGrievance, Overlaps, Idle, handlers, Disturb, GrievanceStatus
<1>4. ASSUME NEW w \in Workers, NEW p \in Payments,
             NEW s \in {"paid", "failed", "disputed"},
             SettlePayment(w, p, s)
      PROVE  TypeOK'
  BY <1>4 DEF SettlePayment, Request, Overlaps, Idle, Goto, Disturb, PaymentStatus
<1>5. ASSUME NEW w \in Workers, NEW g \in Grievances, NEW s \in GrievanceStatus,
             AdminUpdateGrievance(w, g, s)
      PROVE  TypeOK'
  BY <1>5 DEF AdminUpdateGrievance, Request, Overlaps, Idle, Goto, Disturb,
     GrievanceStatus
<1>6. ASSUME NEW w \in Workers, AdminRescore(w) PROVE TypeOK'
  BY <1>6 DEF AdminRescore, Request, Overlaps, Idle, Goto, evidence
<1>7. ASSUME NEW w \in Workers, ReadOffers(w) PROVE TypeOK'
  BY <1>7 DEF ReadOffers, Goto, evidence
<1>8. ASSUME NEW w \in Workers, ReadPayments(w) PROVE TypeOK'
  BY <1>8, Counts DEF ReadPayments, Goto, evidence
<1>9. ASSUME NEW w \in Workers, ReadGrievances(w) PROVE TypeOK'
  <2> DEFINE t == WithGrievances(tally[w], Against(known[w]))
  <2>1. t \in Tallies
    BY Counts DEF WithGrievances
  <2>2. CASE ~Weighs(t) /\ Return(w)
    BY <1>9, <2>2, <1>0 DEF ReadGrievances, Return, Goto, evidence
  <2>3. CASE /\ tally' = [tally EXCEPT ![w] = t]
             /\ Goto(w, "write")
             /\ UNCHANGED <<known, undisturbed>>
    <3> HIDE DEF t
    <3> QED BY <1>9, <2>1, <2>3 DEF ReadGrievances, Goto, evidence
  <2> QED BY <1>9, <2>2, <2>3 DEF ReadGrievances
<1>10. ASSUME NEW w \in Workers, WriteGrade(w) PROVE TypeOK'
  BY <1>10, <1>0 DEF WriteGrade, Return, Goto, evidence, GradeOf, Grades
<1>11. ASSUME NEW w \in Workers, Abort(w) PROVE TypeOK'
  BY <1>11, <1>0 DEF Abort, Return, Goto, evidence
<1>12. CASE UNCHANGED vars
  BY <1>12 DEF vars, evidence, handlers
<1> QED BY <1>1, <1>2, <1>3, <1>4, <1>5, <1>6, <1>7, <1>8, <1>9, <1>10, <1>11, <1>12 DEF Next

\* The record and the rescorings keep their types (the CHECK lists and foreign keys
\* of 008_marketplace.sql; recompute_buyer_reliability).
THEOREM TypeCorrect == Spec => []TypeOK
BY InitTypeOK, TypeStep, PTL DEF Spec

-----------------------------------------------------------------------------
(***************************************************************************)
(* What an undisturbed rescoring has read is what is on record             *)
(***************************************************************************)

\* All the evidence is about offers the rescoring knows.
KnowsAll(w) ==
  /\ \A p \in Payments : pay[p] \in {"paid", "failed", "disputed"} => OfferOf[p] \in known[w]
  /\ \A g \in Grievances : grief[g] \in {"open", "in_progress"} => OfferOf[g] \in known[w]

\* Between its calls an undisturbed rescoring has counted what is on record so
\* far, and a fresh grade is that of the record.
ReadingInv ==
  /\ \A w \in undisturbed :
       /\ pc[w] \in Reading
       /\ KnowsAll(w)
       /\ pc[w] = "grievances" => tally[w] = PaymentTally(offers)
       /\ pc[w] = "write" => tally[w] = Evidence
  /\ fresh /\ Weighs(Evidence) => grade = GradeOf(Evidence)

\* An offer or a pending payment more is no evidence.
LEMMA NoNewEvidence ==
  ASSUME TypeOK, TypeOK', grief' = grief,
         \A p \in Payments, s \in {"paid", "failed", "disputed"} : pay'[p] = s <=> pay[p] = s
  PROVE  /\ PaymentTally(offers)' = PaymentTally(offers)
         /\ Against(offers)' = Against(offers)
         /\ Evidence' = Evidence
<1>1. \A s \in {"paid", "failed", "disputed"} : Settled(offers, s)' = Settled(offers, s)
  <2>1. \A s \in {"paid", "failed", "disputed"} : Settled(offers, s) = {p \in Payments : pay[p] = s}
    BY OnRecord
  <2>2. (\A s \in {"paid", "failed", "disputed"} : Settled(offers, s) = {p \in Payments : pay[p] = s})'
    BY OnRecord, PTL
  <2> QED BY <2>1, <2>2
<1>2. Against(offers)' = Against(offers)
  BY ReliabilityAssumption DEF TypeOK, Against
<1>3. PaymentTally(offers)' = PaymentTally(offers)
  BY <1>1 DEF PaymentTally
<1> QED BY <1>2, <1>3 DEF Evidence, WithGrievances

\* A payment or an offer that is added disturbs nobody.
LEMMA ReadingUndisturbed ==
  ASSUME TypeOK, TypeOK', ReadingInv,
         UNCHANGED <<grief, grade, handlers, undisturbed, fresh>>,
         \A p \in Payments, s \in {"paid", "failed", "disputed"} : pay'[p] = s <=> pay[p] = s
  PROVE  ReadingInv'
<1>1. /\ PaymentTally(offers)' = PaymentTally(offers)
      /\ Evidence' = Evidence
  BY NoNewEvidence
<1> QED BY <1>1 DEF ReadingInv, KnowsAll, handlers

\* Once disturbed, nothing is claimed until the offers are read again.
LEMMA ReadingDisturbed == ASSUME Disturb PROVE ReadingInv'
BY DEF Disturb, ReadingInv

LEMMA ReadingInit == Init => ReadingInv
BY DEF Init, ReadingInv

LEMMA ReadingReturns ==
  ASSUME TypeOK, ReadingInv, NEW w \in Workers, Return(w), UNCHANGED evidence,
         fresh' /\ Weighs(Evidence) => grade' = GradeOf(Evidence)
  PROVE  ReadingInv'
<1>1. /\ PaymentTally(offers)' = PaymentTally(offers)
      /\ Evidence' = Evidence
  BY DEF evidence, PaymentTally, Evidence, Settled, Against
<1>2. ASSUME NEW v \in undisturbed'
      PROVE  /\ pc'[v] = pc[v] /\ known'[v] = known[v] /\ tally'[v] = tally[v]
             /\ v \in undisturbed
  BY <1>2 DEF TypeOK, Return, Goto
<1> QED BY <1>1, <1>2 DEF ReadingInv, KnowsAll, evidence

LEMMA ReadingStep == TypeOK /\ TypeOK' /\ ReadingInv /\ [Next]_vars => ReadingInv'
<1> SUFFICES ASSUME TypeOK, TypeOK', ReadingInv, [Next]_vars PROVE ReadingInv'
  OBVIOUS
<1>1. ASSUME NEW o \in Offers, MakeOffer(o) PROVE ReadingInv'
  BY <1>1, ReadingUndisturbed DEF MakeOffer
<1>2. ASSUME NEW p \in Payments, CreatePayment(p) PROVE ReadingInv'
  <2>1. \A q \in Payments, s \in {"paid", "failed", "disputed"} : pay'[q] = s <=> pay[q] = s
    BY <1>2 DEF CreatePayment, TypeOK
  <2> QED BY <1>2, <2>1, ReadingUndisturbed DEF CreatePayment
<1>3. ASSUME NEW g \in Grievances, CreateGrievance(g) PROVE ReadingInv'
  BY <1>3, ReadingDisturbed DEF CreateGrievance
<1>4. ASSUME NEW w \in Workers, NEW p \in Payments,
             NEW s \in {"paid", "failed", "disputed"},
             SettlePayment(w, p, s)
      PROVE  ReadingInv'
  BY <1>4, ReadingDisturbed DEF SettlePayment
<1>5. ASSUME NEW w \in Workers, NEW g \in Grievances, NEW s \in GrievanceStatus,
             AdminUpdateGrievance(w, g, s)
      PROVE  ReadingInv'
  BY <1>5, ReadingDisturbed DEF AdminUpdateGrievance
<1>6. ASSUME NEW w \in Workers, UNCHANGED <<evidence, grade, fresh>>,
             undisturbed' \in {undisturbed, undisturbed \cup {w}},
             \A v \in Workers \ {w} : pc'[v] = pc[v] /\ known'[v] = known[v] /\ tally'[v] = tally[v],
             w \in undisturbed' =>
               /\ pc'[w] \in Reading
               /\ KnowsAll(w)'
               /\ pc'[w] = "grievances" => tally'[w] = PaymentTally(offers)
               /\ pc'[w] = "write" => tally'[w] = Evidence
      PROVE  ReadingInv'
  <2>1. /\ PaymentTally(offers)' = PaymentTally(offers)
        /\ Evidence' = Evidence
    BY <1>6 DEF evidence, PaymentTally, Evidence, Settled, Against
  <2>2. \A v \in undisturbed' : v = w \/ (v \in undisturbed /\ v \in Workers \ {w})
    BY <1>6 DEF TypeOK
  <2>3. \A v \in Workers \ {w} : KnowsAll(v) => KnowsAll(v)'
    BY <1>6 DEF KnowsAll, evidence
  <2> QED BY <1>6, <2>1, <2>2, <2>3 DEF ReadingInv
<1>7. ASSUME NEW w \in Workers, AdminRescore(w) PROVE ReadingInv'
  <2>1. w \notin undisturbed
    BY <1>7 DEF AdminRescore, Request, ReadingInv, Reading
  <2> QED BY <1>6, <1>7, <2>1 DEF AdminRescore, Goto, TypeOK
<1>8. ASSUME NEW w \in Workers, ReadOffers(w) PROVE ReadingInv'
  <2>1. pc'[w] = "payments" /\ known'[w] = offers
    BY <1>8 DEF ReadOffers, Goto, TypeOK
  <2>2. KnowsAll(w)'
    BY <1>8, <2>1 DEF KnowsAll, ReadOffers, evidence, TypeOK
  <2> QED BY <1>6, <1>8, <2>1, <2>2 DEF ReadOffers, Goto, TypeOK, Reading
<1>9. ASSUME NEW w \in Workers, ReadPayments(w) PROVE ReadingInv'
  <2>1. w \in undisturbed => PaymentTally(known[w]) = PaymentTally(offers)
    <3>1. ASSUME w \in undisturbed, NEW s \in {"paid", "failed", "disputed"}
          PROVE  Settled(known[w], s) = Settled(offers, s)
      BY <3>1 DEF ReadingInv, KnowsAll, Settled, TypeOK
    <3> QED BY <3>1 DEF PaymentTally
  <2>2. pc'[w] = "grievances" /\ tally'[w] = PaymentTally(known[w])
    BY <1>9 DEF ReadPayments, Goto, TypeOK
  <2>3. w \in undisturbed => KnowsAll(w)'
    BY <1>9 DEF KnowsAll, ReadPayments, evidence, ReadingInv
  <2> QED BY <1>6, <1>9, <2>1, <2>2, <2>3 DEF ReadPayments, Goto, TypeOK, Reading
<1>10. ASSUME NEW w \in Workers, ReadGrievances(w) PROVE ReadingInv'
  <2> DEFINE t == WithGrievances(tally[w], Against(known[w]))
  <2>1. CASE ~Weighs(t) /\ Return(w)
    BY <1>10, <2>1, ReadingReturns DEF ReadGrievances, ReadingInv
  <2>2. CASE /\ tally' = [tally EXCEPT ![w] = t]
             /\ Goto(w, "write")
             /\ UNCHANGED <<known, undisturbed>>
    <3>1. w \in undisturbed => t = Evidence
      <4>1. w \in undisturbed => Against(known[w]) = Against(offers)
        BY DEF ReadingInv, KnowsAll, Against, TypeOK
      <4> QED BY <1>10, <4>1 DEF ReadingInv, Evidence, ReadGrievances
    <3> HIDE DEF t
    <3>2. pc'[w] = "write" /\ tally'[w] = t
      BY <2>2 DEF Goto, TypeOK
    <3>3. w \in undisturbed => KnowsAll(w)'
      BY <1>10, <2>2 DEF KnowsAll, ReadGrievances, evidence, ReadingInv
    <3> QED BY <1>6, <1>10, <2>2, <3>1, <3>2, <3>3 DEF ReadGrievances, Goto, TypeOK, Reading
  <2> QED BY <1>10, <2>1, <2>2 DEF ReadGrievances
<1>11. ASSUME NEW w \in Workers, WriteGrade(w) PROVE ReadingInv'
  <2>1. w \in undisturbed => grade' = GradeOf(Evidence)
    BY <1>11 DEF WriteGrade, ReadingInv
  <2>2. fresh' /\ Weighs(Evidence) => grade' = GradeOf(Evidence)
    BY <1>11, <2>1 DEF WriteGrade
  <2> QED BY <1>11, <2>2, ReadingReturns DEF WriteGrade
<1>12. ASSUME NEW w \in Workers, Abort(w) PROVE ReadingInv'
  BY <1>12, ReadingReturns DEF Abort, ReadingInv
<1>13. CASE UNCHANGED vars
  BY <1>13, ReadingUndisturbed DEF vars, evidence, handlers
<1> QED BY <1>1, <1>2, <1>3, <1>4, <1>5, <1>7, <1>8, <1>9, <1>10, <1>11, <1>12, <1>13 DEF Next

\* However requests overlap and fail, a grade written by a rescoring that nothing
\* disturbed is the score of what is on record, until the record changes.
THEOREM GradesStayConsistent == Spec => []GradesConsistent
<1>1. TypeOK /\ ReadingInv => GradesConsistent
  BY DEF ReadingInv, GradesConsistent, FreshGradeIsCurrent
<1> QED BY <1>1, InitTypeOK, TypeStep, ReadingInit, ReadingStep, PTL DEF Spec

-----------------------------------------------------------------------------
(***************************************************************************)
(* One request after another                                               *)
(***************************************************************************)

\* The grade follows from the record, less the untouched grievances in new.
FollowsBut(new) ==
  LET counted == WithGrievances(PaymentTally(offers), Against(offers) \ new)
  IN ~Weighs(counted) \/ grade = GradeOf(counted)

Follows == \E new \in SUBSET {g \in Grievances : grief[g] = "open"} : FollowsBut(new)

\* Without trouble there is one rescoring at most, nothing disturbs it, and
\* between two of them the grade follows from the record.
SoloInv ==
  ~trouble =>
    /\ \A v, w \in Workers : pc[v] # "idle" /\ pc[w] # "idle" => v = w
    /\ \A w \in Workers : pc[w] \in Reading => w \in undisturbed
    /\ Idle => Follows

LEMMA SoloInit == Init => SoloInv
<1> SUFFICES ASSUME Init PROVE SoloInv
  OBVIOUS
<1>1. Settled(offers, "paid") = {} /\ Settled(offers, "failed") = {} /\ Settled(offers, "disputed") = {}
  BY DEF Init, Settled
<1>2. Against(offers) \ {} = {}
  BY DEF Init, Against
<1>3. Cardinality({}) = 0
  BY FS_EmptySet
<1>4. FollowsBut({})
  BY <1>1, <1>2, <1>3 DEF FollowsBut, Weighs, WithGrievances, PaymentTally
<1> QED BY <1>4 DEF Init, SoloInv, Follows, Reading

\* The grade of the record as a whole follows from it.
LEMMA CurrentFollows == ASSUME Weighs(Evidence) => grade = GradeOf(Evidence) PROVE Follows
<1>1. Against(offers) \ {} = Against(offers)
  OBVIOUS
<1>2. FollowsBut({})
  BY <1>1 DEF FollowsBut, Evidence
<1> QED BY <1>2 DEF Follows

LEMMA FollowsStays ==
  ASSUME TypeOK, TypeOK', UNCHANGED <<grief, grade>>, Follows,
         \A p \in Payments, s \in {"paid", "failed", "disputed"} : pay'[p] = s <=> pay[p] = s
  PROVE  Follows'
<1>1. PICK new \in SUBSET {g \in Grievances : grief[g] = "open"} : FollowsBut(new)
  BY DEF Follows
<1>2. /\ PaymentTally(offers)' = PaymentTally(offers)
      /\ Against(offers)' = Against(offers)
  BY NoNewEvidence
<1>3. FollowsBut(new)'
  BY <1>1, <1>2 DEF FollowsBut, Weighs, GradeOf, Score, WithGrievances
<1> QED BY <1>3 DEF Follows

LEMMA SoloStep ==
  TypeOK /\ TypeOK' /\ ReadingInv /\ ReadingInv' /\ SoloInv /\ [Next]_vars => SoloInv'
<1> SUFFICES ASSUME TypeOK, TypeOK', ReadingInv, SoloInv, [Next]_vars, ~trouble' PROVE SoloInv'
  BY DEF SoloInv
<1>0. ~trouble
  BY DEF Next, vars, MakeOffer, CreatePayment, CreateGrievance, SettlePayment,
     AdminUpdateGrievance, AdminRescore, ReadOffers, ReadPayments, ReadGrievances,
     WriteGrade, Abort, Request, Overlaps
<1>1. ASSUME NEW o \in Offers, MakeOffer(o) PROVE SoloInv'
  <2>1. Idle /\ Idle'
    BY <1>1 DEF MakeOffer, Overlaps, handlers, Idle
  <2>2. Follows'
    BY <1>0, <1>1, <2>1, FollowsStays DEF MakeOffer, SoloInv
  <2> QED BY <1>1, <2>1, <2>2 DEF MakeOffer, SoloInv, Idle, Reading
<1>2. ASSUME NEW p \in Payments, CreatePayment(p) PROVE SoloInv'
  <2>1. Idle /\ Idle'
    BY <1>2 DEF CreatePayment, Overlaps, handlers, Idle
  <2>2. \A q \in Payments, s \in {"paid", "failed", "disputed"} : pay'[q] = s <=> pay[q] = s
    BY <1>2 DEF CreatePayment, TypeOK
  <2>3. Follows'
    BY <1>0, <1>2, <2>1, <2>2, FollowsStays DEF CreatePayment, SoloInv
  <2> QED BY <1>2, <2>1, <2>3 DEF CreatePayment, SoloInv, Idle, Reading
<1>3. ASSUME NEW g \in Grievances, CreateGrievance(g) PROVE SoloInv'
  <2>1. Idle /\ Idle'
    BY <1>3 DEF CreateGrievance, Overlaps, handlers, Idle
  <2>2. PICK new \in SUBSET {h \in Grievances : grief[h] = "open"} : FollowsBut(new)
    BY <1>0, <2>1 DEF SoloInv, Follows
  <2>3. new \cup {g} \in SUBSET {h \in Grievances : grief'[h] = "open"}
    BY <1>3 DEF CreateGrievance, TypeOK
  <2>4. Against(offers)' \ (new \cup {g}) = Against(offers) \ new
    BY <1>3 DEF CreateGrievance, TypeOK, Against
  <2>5. PaymentTally(offers)' = PaymentTally(offers)
    BY <1>3 DEF CreateGrievance, PaymentTally, Settled
  <2>6. FollowsBut(new \cup {g})'
    BY <1>3, <2>2, <2>4, <2>5 DEF FollowsBut, Weighs, GradeOf, Score, WithGrievances,
       CreateGrievance
  <2>7. Follows'
    BY <2>3, <2>6 DEF Follows
  <2> QED BY <1>3, <2>1, <2>7 DEF CreateGrievance, SoloInv, Idle, Reading
<1>4. ASSUME NEW w \in Workers, Idle, pc' = [pc EXCEPT ![w] = "offers"] PROVE SoloInv'
  BY <1>4 DEF SoloInv, Idle, TypeOK, Reading
<1>5. ASSUME NEW w \in Workers, NEW p \in Payments,
             NEW s \in {"paid", "failed", "disputed"},
             SettlePayment(w, p, s)
      PROVE  SoloInv'
  BY <1>4, <1>5 DEF SettlePayment, Request, Overlaps, Goto
<1>6. ASSUME NEW w \in Workers, NEW g \in Grievances, NEW s \in GrievanceStatus,
             AdminUpdateGrievance(w, g, s)
      PROVE  SoloInv'
  BY <1>4, <1>6 DEF AdminUpdateGrievance, Request, Overlaps, Goto
<1>7. ASSUME NEW w \in Workers, AdminRescore(w) PROVE SoloInv'
  BY <1>4, <1>7 DEF AdminRescore, Request, Overlaps, Goto
<1>8. ASSUME NEW w \in Workers, NEW call \in Reading, pc[w] # "idle", Goto(w, call),
             undisturbed \subseteq undisturbed', w \in undisturbed'
      PROVE  SoloInv'
  <2>1. ~Idle'
    BY <1>8 DEF Idle, Goto, TypeOK, Reading
  <2> QED BY <1>0, <1>8, <2>1 DEF SoloInv, Goto, TypeOK
<1>9. ASSUME NEW w \in Workers, pc[w] # "idle", Return(w), UNCHANGED evidence,
             Weighs(Evidence) => grade' = GradeOf(Evidence)
      PROVE  SoloInv'
  <2>1. Evidence' = Evidence
    BY <1>9 DEF evidence, PaymentTally, Evidence, Settled, Against
  <2>2. (Weighs(Evidence) => grade = GradeOf(Evidence))'
    BY <1>9, <2>1 DEF Weighs, GradeOf, Score
  <2>3. ((Weighs(Evidence) => grade = GradeOf(Evidence)) => Follows)'
    BY CurrentFollows, PTL
  <2> QED BY <1>0, <1>9, <2>2, <2>3 DEF SoloInv, Return, Goto, TypeOK, Reading
<1>10. ASSUME NEW w \in Workers, ReadOffers(w) PROVE SoloInv'
  BY <1>8, <1>10 DEF ReadOffers, Reading
<1>11. ASSUME NEW w \in Workers, ReadPayments(w) PROVE SoloInv'
  BY <1>0, <1>8, <1>11 DEF ReadPayments, Reading, SoloInv
<1>12. ASSUME NEW w \in Workers, ReadGrievances(w) PROVE SoloInv'
  <2>1. w \in undisturbed /\ pc[w] = "grievances"
    BY <1>0, <1>12 DEF ReadGrievances, SoloInv, Reading
  <2>2. WithGrievances(tally[w], Against(known[w])) = Evidence
    <3>1. Against(known[w]) = Against(offers)
      BY <2>1 DEF ReadingInv, KnowsAll, Against, TypeOK
    <3> QED BY <2>1, <3>1 DEF ReadingInv, Evidence
  <2>3. CASE ~Weighs(Evidence) /\ Return(w)
    BY <1>9, <1>12, <2>1, <2>3 DEF ReadGrievances
  <2>4. CASE Goto(w, "write") /\ UNCHANGED undisturbed
    BY <1>8, <2>1, <2>4 DEF Reading
  <2> QED BY <1>12, <2>2, <2>3, <2>4 DEF ReadGrievances
<1>13. ASSUME NEW w \in Workers, WriteGrade(w) PROVE SoloInv'
  <2>1. tally[w] = Evidence
    BY <1>0, <1>13 DEF WriteGrade, SoloInv, Reading, ReadingInv
  <2> QED BY <1>9, <1>13, <2>1 DEF WriteGrade
<1>14. ASSUME NEW w \in Workers, Abort(w) PROVE SoloInv'
  BY <1>14 DEF Abort
<1>15. CASE UNCHANGED vars
  <2>1. Follows => Follows'
    BY <1>15, FollowsStays DEF vars, evidence
  <2> QED BY <1>15, <2>1 DEF vars, SoloInv, Idle, handlers
<1> QED BY <1>1, <1>2, <1>3, <1>5, <1>6, <1>7, <1>10, <1>11, <1>12, <1>13, <1>14, <1>15 DEF Next

\* As long as no requests overlap and no call fails, the grade between requests
\* follows from the record, less at most grievances that are open: every handler that
\* settles a payment or decides on a grievance rescores the buyer.
THEOREM GradeFollows == Spec => []GradeFollowsRecord
<1>1. SoloInv => GradeFollowsRecord
  BY DEF SoloInv, GradeFollowsRecord, Follows, FollowsBut
<1> QED BY <1>1, InitTypeOK, TypeStep, ReadingInit, ReadingStep, SoloInit, SoloStep, PTL DEF Spec
=============================================================================
