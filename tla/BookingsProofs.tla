---------------------------- MODULE BookingsProofs ----------------------------
(***************************************************************************)
(* What the checks of create_booking and update_booking keep, for any      *)
(* number of lots, options, bookings and threads.                          *)
(*                                                                         *)
(* The capacity is a sum over a set, so the first half is about sums: the  *)
(* recursive function that MapThenSumSet is defined by exists, the order   *)
(* in which it takes the elements does not matter, and what a booking more *)
(* adds.  These are inductions, and the provers instantiate no theorem     *)
(* that takes an operator; so what is proved by induction is a set C, and  *)
(* its complement would have a least element (WFMin).                      *)
(***************************************************************************)
EXTENDS Bookings, FiniteSetTheorems, TLAPS

-----------------------------------------------------------------------------
(***************************************************************************)
(* Sums                                                                    *)
(***************************************************************************)
\* Induction over the subsets of a finite set: what holds of a set whenever it holds
\* of its proper subsets holds of all.
LEMMA SubsetInduction ==
  ASSUME NEW S, IsFiniteSet(S), NEW C,
         \A T \in SUBSET S : (\A U \in SUBSET T : U # T => U \in C) => T \in C
  PROVE  \A T \in SUBSET S : T \in C
<1> DEFINE Bad == (SUBSET S) \ C
<1> SUFFICES ASSUME Bad # {} PROVE FALSE
  OBVIOUS
<1>1. IsWellFoundedOn(StrictSubsetOrdering(S), SUBSET S)
  <2>1. FiniteSubsetsOf(S) = SUBSET S
    BY FS_FiniteSubsetsOfFinite
  <2>2. IsWellFoundedOn(StrictSubsetOrdering(S), FiniteSubsetsOf(S))
    BY FS_StrictSubsetOrderingWellFounded
  <2> QED BY <2>1, <2>2
<1>2. PICK T \in Bad : \A U \in Bad : <<U, T>> \notin StrictSubsetOrdering(S)
  <2>1. Bad \subseteq SUBSET S
    OBVIOUS
  <2> HIDE DEF Bad
  <2> QED BY <1>1, <2>1, WFMin
<1>3. \A U \in SUBSET T : U # T => U \in C
  BY <1>2 DEF StrictSubsetOrdering
<1> QED BY <1>2, <1>3

\* The same for numbers.
LEMMA StepInduction ==
  ASSUME NEW C, 0 \in C, \A n \in Nat : n \in C => n + 1 \in C
  PROVE  Nat \subseteq C
<1> DEFINE Bad == Nat \ C
<1> SUFFICES ASSUME Bad # {} PROVE FALSE
  OBVIOUS
<1>1. PICK n \in Bad : \A m \in Bad : <<m, n>> \notin OpToRel(<, Nat)
  <2>1. Bad \subseteq Nat
    OBVIOUS
  <2> QED BY <2>1, NatLessThanWellFounded, WFMin
<1>2. n \in Nat /\ n # 0
  OBVIOUS
<1>3. n - 1 \in Nat /\ n - 1 < n /\ (n - 1) + 1 = n
  BY <1>2
<1>4. <<n - 1, n>> \in OpToRel(<, Nat)
  BY <1>2, <1>3 DEF OpToRel
<1> QED BY <1>1, <1>2, <1>3, <1>4

\* The element of s that is added first.
Any(s) == CHOOSE x \in s : TRUE

\* What the bookings in S weigh.
Sum(S) == MapThenSumSet(LAMBDA b : Qty[b], S)

\* f is the recursive function by which the sum over S is defined.
IsSum(f, S) ==
  f = [s \in SUBSET S |-> IF s = {} THEN 0 ELSE Qty[Any(s)] + f[s \ {Any(s)}]]

LEMMA SumDef == ASSUME NEW S PROVE Sum(S) = (CHOOSE f : IsSum(f, S))[S]
BY DEF Sum, MapThenSumSet, MapThenFoldSet, IsSum, Any

LEMMA AnyIsIn == ASSUME NEW S, S # {} PROVE Any(S) \in S
BY DEF Any

LEMMA FiniteBookings ==
  ASSUME NEW S \in SUBSET Bookings
  PROVE  IsFiniteSet(S) /\ Cardinality(S) \in Nat
BY BookingsAssumption, FS_Subset, FS_CardinalityType

\* Such a function exists: it can be given for the subsets of each size in turn.
LEMMA SumExists ==
  ASSUME NEW S \in SUBSET Bookings
  PROVE  \E f : IsSum(f, S)
<1> DEFINE P == SUBSET S
           Step(f) == [s \in P |-> IF s = {} THEN 0 ELSE Qty[Any(s)] + f[s \ {Any(s)}]]
           UpTo(n, f) == \A s \in P : Cardinality(s) <= n => f[s] = Step(f)[s]
           C == {n \in Nat : \E f \in [P -> Nat] : UpTo(n, f)}
<1>1. ASSUME NEW s \in P
      PROVE  /\ Cardinality(s) \in Nat
             /\ Cardinality(s) <= Cardinality(S)
             /\ Cardinality(s) = 0 => s = {}
             /\ s # {} => /\ s \ {Any(s)} \in P
                          /\ Cardinality(s \ {Any(s)}) = Cardinality(s) - 1
                          /\ Qty[Any(s)] \in Nat
  <2>1. IsFiniteSet(s) /\ Cardinality(s) \in Nat
    BY FiniteBookings
  <2>2. s # {} => Cardinality(s \ {Any(s)}) = Cardinality(s) - 1
    BY <2>1, AnyIsIn, FS_RemoveElement
  <2>3. Cardinality(s) <= Cardinality(S)
    BY FiniteBookings, FS_Subset
  <2>4. s # {} => Any(s) \in Bookings
    BY AnyIsIn
  <2> QED BY <2>1, <2>2, <2>3, <2>4, FS_EmptySet, BookingsAssumption
<1>2. ASSUME NEW s \in P, Cardinality(s) <= 0 PROVE s = {}
  <2>1. Cardinality(s) \in Nat /\ (Cardinality(s) = 0 => s = {})
    BY <1>1
  <2>2. Cardinality(s) = 0
    BY <2>1, <1>2
  <2> QED BY <2>1, <2>2
<1>3. S \in P /\ Cardinality(S) \in Nat
  BY FiniteBookings
<1>4. ASSUME NEW f PROVE Step(f) = f => IsSum(f, S)
  BY DEF IsSum
<1> HIDE DEF P
<1>5. 0 \in C
  <2> DEFINE z == [s \in P |-> 0]
  <2>1. ASSUME NEW s \in P, Cardinality(s) <= 0 PROVE z[s] = Step(z)[s]
    <3>1. s = {}
      BY <1>2, <2>1
    <3> QED BY <3>1
  <2>2. z \in [P -> Nat]
    OBVIOUS
  <2> QED BY <2>1, <2>2
<1>6. ASSUME NEW n \in Nat, n \in C PROVE n + 1 \in C
  <2>1. PICK f \in [P -> Nat] : UpTo(n, f)
    BY <1>6
  <2> DEFINE g == Step(f)
  <2>2. g \in [P -> Nat]
    <3>1. ASSUME NEW s \in P, s # {} PROVE Qty[Any(s)] + f[s \ {Any(s)}] \in Nat
      <4>1. Qty[Any(s)] \in Nat /\ s \ {Any(s)} \in P
        BY <1>1, <3>1
      <4>2. f[s \ {Any(s)}] \in Nat
        BY <4>1
      <4> QED BY <4>1, <4>2
    <3> QED BY <3>1
  <2>3. ASSUME NEW s \in P, Cardinality(s) <= n + 1 PROVE g[s] = Step(g)[s]
    <3>1. CASE s = {}
      BY <3>1
    <3>2. CASE s # {}
      <4>1. s \ {Any(s)} \in P /\ Cardinality(s \ {Any(s)}) <= n
        <5>1. /\ s \ {Any(s)} \in P /\ Cardinality(s) \in Nat
              /\ Cardinality(s \ {Any(s)}) = Cardinality(s) - 1
          BY <1>1, <3>2
        <5>2. Cardinality(s) - 1 <= n
          BY <2>3, <5>1
        <5> QED BY <5>1, <5>2
      <4>2. f[s \ {Any(s)}] = g[s \ {Any(s)}]
        BY <2>1, <4>1
      <4> QED BY <3>2, <4>2
    <3> QED BY <3>1, <3>2
  <2>4. UpTo(n + 1, g)
    BY <2>3
  <2> HIDE DEF g, UpTo
  <2> QED BY <2>2, <2>4
<1>7. Cardinality(S) \in C
  <2> HIDE DEF C
  <2>1. Nat \subseteq C
    BY <1>5, <1>6, StepInduction
  <2> QED BY <1>3, <2>1
<1>8. PICK f \in [P -> Nat] : UpTo(Cardinality(S), f)
  BY <1>7
<1>9. f = Step(f)
  BY <1>1, <1>8
<1> QED BY <1>4, <1>9

\* There is only one, also where the sets differ.
LEMMA SumUnique ==
  ASSUME NEW S \in SUBSET Bookings, NEW T \in SUBSET S,
         NEW f, IsSum(f, S), NEW g, IsSum(g, T)
  PROVE  f[T] = g[T] /\ f[T] \in Nat
<1> DEFINE C == {U \in SUBSET T : f[U] = g[U] /\ f[U] \in Nat}
<1>1. ASSUME NEW U \in SUBSET T, \A V \in SUBSET U : V # U => V \in C PROVE U \in C
  <2>1. CASE U = {}
    BY <2>1 DEF IsSum
  <2>2. CASE U # {}
    <3>1. U \ {Any(U)} \in C /\ Qty[Any(U)] \in Nat
      BY <1>1, <2>2, AnyIsIn, BookingsAssumption
    <3>2. /\ f[U] = Qty[Any(U)] + f[U \ {Any(U)}]
          /\ g[U] = Qty[Any(U)] + g[U \ {Any(U)}]
      BY <2>2 DEF IsSum
    <3> QED BY <3>1, <3>2
  <2> QED BY <2>1, <2>2
<1>2. \A U \in SUBSET T : U \in C
  <2> HIDE DEF C
  <2> QED BY <1>1, FiniteBookings, SubsetInduction
<1> QED BY <1>2

\* The sum of a set, from an element of it.
LEMMA SumUnfolds ==
  ASSUME NEW S \in SUBSET Bookings
  PROVE  /\ Sum(S) \in Nat
         /\ S = {} => Sum(S) = 0
         /\ S # {} => Sum(S) = Qty[Any(S)] + Sum(S \ {Any(S)})
<1> DEFINE F(T) == CHOOSE f : IsSum(f, T)
<1>1. ASSUME NEW T \in SUBSET S PROVE IsSum(F(T), T)
  BY SumExists
<1>2. ASSUME NEW T \in SUBSET S PROVE F(S)[T] = Sum(T) /\ Sum(T) \in Nat
  <2> HIDE DEF F
  <2>1. IsSum(F(S), S) /\ IsSum(F(T), T)
    BY <1>1
  <2>2. F(S)[T] = F(T)[T] /\ F(S)[T] \in Nat
    BY <2>1, SumUnique
  <2> QED BY <2>2, SumDef DEF F
<1>3. /\ S = {} => F(S)[S] = 0
      /\ S # {} => F(S)[S] = Qty[Any(S)] + F(S)[S \ {Any(S)}]
  <2>1. IsSum(F(S), S)
    BY <1>1
  <2> HIDE DEF F
  <2> QED BY <2>1 DEF IsSum
<1> HIDE DEF F
<1> QED BY <1>2, <1>3

\* The elements may be taken in any order.
LEMMA SumAdds ==
  ASSUME NEW S \in SUBSET Bookings, NEW b \in Bookings, b \notin S
  PROVE  Sum(S \cup {b}) = Sum(S) + Qty[b]
<1> DEFINE C == {T \in SUBSET Bookings :
                   \A c \in Bookings \ T : Sum(T \cup {c}) = Sum(T) + Qty[c]}
<1>1. ASSUME NEW T \in SUBSET Bookings, \A U \in SUBSET T : U # T => U \in C
      PROVE  T \in C
  <2> SUFFICES ASSUME NEW c \in Bookings \ T
               PROVE  Sum(T \cup {c}) = Sum(T) + Qty[c]
    OBVIOUS
  <2> DEFINE x == Any(T \cup {c})
             U == T \ {x}
  <2>1. x \in T \cup {c}
    BY AnyIsIn
  <2>2. Sum(T \cup {c}) = Qty[x] + Sum((T \cup {c}) \ {x})
    BY SumUnfolds
  <2>3. Sum(T) \in Nat /\ Sum(U) \in Nat /\ Qty[x] \in Nat /\ Qty[c] \in Nat
    BY SumUnfolds, <2>1, BookingsAssumption
  <2> HIDE DEF x
  <2>4. CASE x = c
    <3>1. (T \cup {c}) \ {x} = T
      BY <2>4
    <3> QED BY <2>2, <2>3, <2>4, <3>1
  <2>5. CASE x # c
    <3>1. x \in T /\ x \in Bookings \ U /\ c \in Bookings \ U
      BY <2>1, <2>5
    <3>2. (T \cup {c}) \ {x} = U \cup {c} /\ U \cup {x} = T
      BY <2>5, <3>1
    <3>3. U \in C
      BY <1>1, <3>1
    <3>4. Sum(U \cup {c}) = Sum(U) + Qty[c] /\ Sum(U \cup {x}) = Sum(U) + Qty[x]
      BY <3>1, <3>3
    <3>5. Sum(T \cup {c}) = Qty[x] + Sum(U \cup {c}) /\ Sum(T) = Sum(U \cup {x})
      BY <2>2, <3>2
    <3> HIDE DEF U
    <3> QED BY <2>3, <3>4, <3>5
  <2> QED BY <2>4, <2>5
<1>2. \A T \in SUBSET Bookings : T \in C
  <2> HIDE DEF C
  <2> QED BY <1>1, BookingsAssumption, SubsetInduction
<1> QED BY <1>2

\* More bookings weigh no less.
LEMMA SumGrows ==
  ASSUME NEW S \in SUBSET Bookings, NEW T \in SUBSET S
  PROVE  Sum(T) <= Sum(S)
<1> DEFINE C == {U \in SUBSET S : Sum(T \cap U) <= Sum(U)}
<1>1. ASSUME NEW U \in SUBSET S, \A V \in SUBSET U : V # U => V \in C PROVE U \in C
  <2>1. CASE U = {}
    <3>1. T \cap U = U
      BY <2>1
    <3>2. Sum(T \cap U) = Sum(U) /\ Sum(U) \in Nat
      BY <3>1, SumUnfolds
    <3>3. Sum(T \cap U) <= Sum(U)
      BY <3>2
    <3> QED BY <3>3
  <2>2. CASE U # {}
    <3> DEFINE x == Any(U)
               V == U \ {x}
    <3>1. x \in U /\ x \in Bookings /\ V \in SUBSET U /\ V # U /\ x \notin V
      BY <2>2, AnyIsIn
    <3> HIDE DEF x
    <3>2. Sum(T \cap V) <= Sum(V)
      BY <1>1, <3>1
    <3>3. U = V \cup {x}
      BY <3>1
    <3>4. Sum(V) \in Nat /\ Sum(T \cap V) \in Nat /\ Qty[x] \in Nat
      BY <3>1, SumUnfolds, BookingsAssumption
    <3>5. Sum(U) = Sum(V) + Qty[x]
      BY <3>1, <3>3, SumAdds
    <3>6. ASSUME x \in T PROVE Sum(T \cap U) <= Sum(U)
      <4>1. T \cap U = (T \cap V) \cup {x}
        BY <3>1, <3>6
      <4>2. Sum(T \cap U) = Sum(T \cap V) + Qty[x]
        BY <3>1, <4>1, SumAdds
      <4> QED BY <3>2, <3>4, <3>5, <4>2
    <3>7. ASSUME x \notin T PROVE Sum(T \cap U) <= Sum(U)
      <4>1. T \cap U = T \cap V
        BY <3>7
      <4>2. Sum(T \cap U) = Sum(T \cap V)
        BY <4>1
      <4> HIDE DEF V
      <4> QED BY <3>2, <3>4, <3>5, <4>2
    <3> QED BY <3>6, <3>7
  <2> QED BY <2>1, <2>2
<1>2. \A U \in SUBSET S : U \in C
  <2> HIDE DEF C
  <2> QED BY <1>1, FiniteBookings, SubsetInduction
<1>3. T \cap S = T
  OBVIOUS
<1> QED BY <1>2, <1>3

\* The largest quantity is one.
LEMMA MaxQtyIsMax ==
  /\ MaxQty \in Nat
  /\ \A b \in Bookings : Qty[b] <= MaxQty
<1> DEFINE C == {T \in SUBSET Bookings : T # {} => \E m \in T : \A b \in T : Qty[m] >= Qty[b]}
<1>1. ASSUME NEW T \in SUBSET Bookings, \A U \in SUBSET T : U # T => U \in C
      PROVE  T \in C
  <2>1. CASE T # {}
    <3> DEFINE x == Any(T)
               U == T \ {x}
    <3>1. x \in T /\ U \in C
      BY <1>1, <2>1, AnyIsIn
    <3> HIDE DEF x
    <3>2. \A b \in T : Qty[b] \in Nat
      BY BookingsAssumption
    <3>3. CASE U = {}
      <4>1. \A b \in T : b = x
        BY <3>3
      <4> QED BY <3>1, <3>2, <4>1
    <3>4. CASE U # {}
      <4>1. PICK m \in U : \A b \in U : Qty[m] >= Qty[b]
        BY <3>1, <3>4
      <4>2. \A b \in T : b = x \/ b \in U
        OBVIOUS
      <4>3. CASE Qty[m] >= Qty[x]
        <5>1. \A b \in T : Qty[m] >= Qty[b]
          BY <4>1, <4>2, <4>3
        <5> QED BY <5>1
      <4>4. CASE ~(Qty[m] >= Qty[x])
        <5>1. \A b \in T : Qty[x] >= Qty[b]
          BY <3>1, <3>2, <4>1, <4>2, <4>4
        <5> QED BY <3>1, <5>1
      <4> QED BY <4>3, <4>4
    <3> QED BY <3>3, <3>4
  <2> QED BY <2>1
<1>2. \A T \in SUBSET Bookings : T \in C
  <2> HIDE DEF C
  <2> QED BY <1>1, BookingsAssumption, SubsetInduction
<1>3. PICK m \in Bookings : \A b \in Bookings : Qty[m] >= Qty[b]
  BY <1>2, BookingsAssumption
<1> DEFINE Q == {Qty[b] : b \in Bookings}
<1>4. \E x \in Q : \A y \in Q : x >= y
  BY <1>3
<1>5. MaxQty \in Q /\ \A y \in Q : MaxQty >= y
  BY <1>4 DEF MaxQty, Max
<1>6. \A b \in Bookings : Qty[b] \in Q /\ Qty[b] \in Nat
  BY BookingsAssumption
<1> QED BY <1>5, <1>6

\* Every worker that adds a booking to S adds MaxQty at most.
LEMMA SumCovers ==
  ASSUME NEW S \in SUBSET Bookings, NEW V \in SUBSET Workers, NEW t,
         \A w \in V : t[w] \in Bookings
  PROVE  Sum(S \cup {t[w] : w \in V}) <= Sum(S) + Cardinality(V) * MaxQty
<1> DEFINE With(U) == S \cup {t[w] : w \in U}
           C == {U \in SUBSET V : Sum(With(U)) <= Sum(S) + Cardinality(U) * MaxQty}
<1>1. ASSUME NEW U \in SUBSET V, \A T \in SUBSET U : T # U => T \in C PROVE U \in C
  <2>1. CASE U = {}
    <3>1. With(U) = S /\ Cardinality(U) = 0
      BY <2>1, FS_EmptySet
    <3>2. Sum(S) \in Nat
      BY SumUnfolds
    <3>3. 0 * MaxQty = 0
      BY MaxQtyIsMax
    <3>4. Sum(With(U)) = Sum(S) /\ Cardinality(U) * MaxQty = 0
      BY <3>1, <3>3
    <3> HIDE DEF With
    <3> QED BY <3>2, <3>4
  <2>2. CASE U # {}
    <3> DEFINE x == Any(U)
               T == U \ {x}
               W == With(T)
    <3>1. x \in U /\ T \in SUBSET U /\ T # U /\ t[x] \in Bookings
      BY <2>2, AnyIsIn
    <3> HIDE DEF x
    <3>2. Cardinality(U) = Cardinality(T) + 1 /\ Cardinality(T) \in Nat
      <4>1. IsFiniteSet(U)
        BY BookingsAssumption, FS_Subset
      <4>2. /\ Cardinality(T) = Cardinality(U) - 1
            /\ Cardinality(U) \in Nat
        BY <3>1, <4>1, FS_RemoveElement, FS_CardinalityType
      <4>3. Cardinality(T) \in Nat
        BY <4>1, FS_RemoveElement, FS_CardinalityType
      <4> HIDE DEF T
      <4> QED BY <4>2, <4>3
    <3>3. Sum(W) <= Sum(S) + Cardinality(T) * MaxQty
      BY <1>1, <3>1
    <3>4. With(U) = W \cup {t[x]} /\ W \in SUBSET Bookings
      BY <3>1
    <3>5. /\ Sum(W) \in Nat /\ Sum(S) \in Nat /\ MaxQty \in Nat
          /\ Qty[t[x]] \in Nat /\ Qty[t[x]] <= MaxQty
      BY <3>1, <3>4, SumUnfolds, MaxQtyIsMax, BookingsAssumption
    <3>6. Sum(With(U)) <= Sum(W) + Qty[t[x]]
      <4> HIDE DEF W, With
      <4>1. CASE t[x] \in W
        <5>1. With(U) = W
          BY <3>4, <4>1
        <5> QED BY <3>5, <5>1
      <4>2. CASE t[x] \notin W
        <5>1. Sum(W \cup {t[x]}) = Sum(W) + Qty[t[x]]
          BY <3>1, <3>4, <4>2, SumAdds
        <5> QED BY <3>4, <3>5, <5>1
      <4> QED BY <4>1, <4>2
    <3>7. Cardinality(U) * MaxQty = Cardinality(T) * MaxQty + MaxQty
      BY <3>2, <3>5
    <3>8. Sum(With(U)) \in Nat
      BY <3>1, <3>4, SumUnfolds
    <3>9. Cardinality(T) * MaxQty \in Nat
      BY <3>2, <3>5
    <3> HIDE DEF W, With
    <3>10. Sum(With(U)) <= Sum(S) + Cardinality(U) * MaxQty
      BY <3>3, <3>5, <3>6, <3>7, <3>8, <3>9
    <3> QED BY <3>10
  <2> QED BY <2>1, <2>2
<1>2. \A U \in SUBSET V : U \in C
  <2> HIDE DEF C
  <2>1. IsFiniteSet(V)
    BY BookingsAssumption, FS_Subset
  <2> QED BY <1>1, <2>1, SubsetInduction
<1> QED BY <1>2

-----------------------------------------------------------------------------
(***************************************************************************)
(* Types                                                                   *)
(***************************************************************************)

LEMMA InitTypeOK == Init => TypeOK
BY BookingsAssumption DEF Init, TypeOK

LEMMA TypeStep == TypeOK /\ [Next]_vars => TypeOK'
<1> SUFFICES ASSUME TypeOK, [Next]_vars PROVE TypeOK'
  OBVIOUS
<1> USE DEF TypeOK
<1>0. None \notin Bookings
  BY BookingsAssumption
<1>1. ASSUME NEW w \in Workers, Return(w), overlap' \in BOOLEAN,
             closed' \in SUBSET Lots,
             status' \in [Bookings -> BookingStatus \cup {"absent"}]
      PROVE  TypeOK'
  BY <1>0, <1>1 DEF Return, Goto, BookingStatus
<1>2. ASSUME NEW w \in Workers, NEW b \in Bookings, NEW s \in BookingStatus,
             NEW call \in {"create_sum", "update_sum", "write"}, Goto(w, call, b, s),
             UNCHANGED <<status, closed>>, overlap' \in BOOLEAN
      PROVE  TypeOK'
  BY <1>0, <1>2 DEF Goto, BookingStatus
<1>3. ASSUME NEW w \in Workers, NEW b \in Bookings, CreateBooking(w, b) PROVE TypeOK'
  BY <1>2, <1>3 DEF CreateBooking, Request, Overlaps, BookingStatus
<1>4. ASSUME NEW w \in Workers, NEW b \in Bookings, NEW s \in BookingStatus,
             UpdateBooking(w, b, s)
      PROVE  TypeOK'
  BY <1>2, <1>4 DEF UpdateBooking, Request, Overlaps
<1>5. ASSUME NEW w \in Workers, pc[w] # "idle"
      PROVE  tgt[w] \in Bookings /\ val[w] \in BookingStatus
  BY <1>5 DEF BookingStatus
<1>6. ASSUME NEW w \in Workers, CheckNew(w) PROVE TypeOK'
  BY <1>1, <1>2, <1>5, <1>6 DEF CheckNew
<1>7. ASSUME NEW w \in Workers, CheckUpdate(w) PROVE TypeOK'
  BY <1>1, <1>2, <1>5, <1>7 DEF CheckUpdate
<1>8. ASSUME NEW w \in Workers, Write(w) PROVE TypeOK'
  BY <1>1, <1>5, <1>8 DEF Write
<1>9. ASSUME NEW w \in Workers, Abort(w) PROVE TypeOK'
  BY <1>1, <1>9 DEF Abort
<1>10. ASSUME NEW l \in Lots, CloseLot(l) PROVE TypeOK'
  BY <1>10 DEF CloseLot, Overlaps
<1>11. CASE UNCHANGED vars
  BY <1>11 DEF vars
<1> QED BY <1>3, <1>4, <1>6, <1>7, <1>8, <1>9, <1>10, <1>11 DEF Next

-----------------------------------------------------------------------------
(***************************************************************************)
(* One handler at a time                                                   *)
(***************************************************************************)

\* Without overlap at most one handler is under way.
SoloInv == ~overlap => \A v, w \in Workers : pc[v] # "idle" /\ pc[w] # "idle" => v = w

LEMMA SoloInit == Init => SoloInv
BY DEF Init, SoloInv

LEMMA SoloStep == TypeOK /\ SoloInv /\ [Next]_vars => SoloInv'
<1> SUFFICES ASSUME TypeOK, SoloInv, [Next]_vars, ~overlap' PROVE SoloInv'
  BY DEF SoloInv
<1> USE DEF TypeOK, SoloInv
<1>1. ASSUME NEW w \in Workers, NEW b \in Bookings, CreateBooking(w, b) PROVE SoloInv'
  BY <1>1 DEF CreateBooking, Request, Overlaps, Goto
<1>2. ASSUME NEW w \in Workers, NEW b \in Bookings, NEW s \in BookingStatus,
             UpdateBooking(w, b, s)
      PROVE  SoloInv'
  BY <1>2 DEF UpdateBooking, Request, Overlaps, Goto
<1>3. ASSUME NEW w \in Workers, CheckNew(w) \/ CheckUpdate(w) \/ Write(w) \/ Abort(w)
      PROVE  SoloInv'
  <2>1. pc[w] # "idle" /\ ~overlap
    BY <1>3 DEF CheckNew, CheckUpdate, Write, Abort
  <2>2. \A v \in Workers \ {w} : pc'[v] = pc[v]
    BY <1>3 DEF CheckNew, CheckUpdate, Write, Abort, Return, Goto
  <2> QED BY <2>1, <2>2
<1>4. ASSUME NEW l \in Lots, CloseLot(l) PROVE SoloInv'
  BY <1>4 DEF CloseLot, Overlaps
<1>5. CASE UNCHANGED vars
  BY <1>5 DEF vars
<1> QED BY <1>1, <1>2, <1>3, <1>4, <1>5 DEF Next

-----------------------------------------------------------------------------
(***************************************************************************)
(* Capacity                                                                *)
(***************************************************************************)

\* Handlers that have passed the check for o and are about to make a booking active.
Writers(o) ==
  {w \in Workers : pc[w] = "write" /\ val[w] \in ActiveBookingStatuses /\ OptionOf[tgt[w]] = o}

\* What is active and what is about to be.
Claimed(o) == Using(o) \cup {tgt[w] : w \in Writers(o)}

\* How far the claims may exceed the capacity.
Slack == IF overlap THEN (Cardinality(Workers) - 1) * MaxQty ELSE 0

ClaimInv ==
  \A o \in Options : Capacity[o] # None => Sum(Claimed(o)) <= Capacity[o] + Slack

LEMMA SlackIsNat == ASSUME TypeOK PROVE Slack \in Nat
<1>1. Cardinality(Workers) \in Nat /\ Cardinality(Workers) # 0
  BY BookingsAssumption, FS_CardinalityType, FS_EmptySet
<1>2. Cardinality(Workers) - 1 \in Nat
  BY <1>1
<1>3. (Cardinality(Workers) - 1) * MaxQty \in Nat
  BY <1>2, MaxQtyIsMax
<1> QED BY <1>3 DEF Slack, TypeOK

LEMMA ClaimedAreBookings ==
  ASSUME TypeOK, NEW o
  PROVE  Claimed(o) \in SUBSET Bookings /\ Using(o) \in SUBSET Claimed(o)
<1>1. \A w \in Writers(o) : tgt[w] \in Bookings
  BY DEF Writers, TypeOK
<1> QED BY <1>1 DEF Claimed, Using

\* A step that adds no claim keeps within the bounds.
LEMMA ClaimsStay ==
  ASSUME TypeOK, TypeOK', ClaimInv, overlap => overlap',
         \A o \in Options : Claimed(o)' \subseteq Claimed(o)
  PROVE  ClaimInv'
<1> SUFFICES ASSUME NEW o \in Options, Capacity[o] # None
             PROVE  Sum(Claimed(o)') <= Capacity[o] + Slack'
  BY DEF ClaimInv
<1>1. Sum(Claimed(o)') <= Sum(Claimed(o)) /\ Sum(Claimed(o)) \in Nat
  BY ClaimedAreBookings, SumGrows, SumUnfolds
<1>2. Sum(Claimed(o)') \in Nat
  BY ClaimedAreBookings, SumUnfolds
<1>3. Slack \in Nat /\ Slack' \in Nat /\ Slack <= Slack'
  <2>1. Slack \in Nat
    BY SlackIsNat
  <2>2. (TypeOK => Slack \in Nat)'
    BY SlackIsNat, PTL
  <2> QED BY <2>1, <2>2 DEF Slack, TypeOK
<1>4. Capacity[o] \in Nat
  BY BookingsAssumption
<1>5. Sum(Claimed(o)) <= Capacity[o] + Slack
  BY DEF ClaimInv
<1> QED BY <1>1, <1>2, <1>3, <1>4, <1>5

\* What _assert_capacity lets pass fits beside what is booked.
LEMMA RoomForOne ==
  ASSUME TypeOK, NEW b \in Bookings, NEW x \in SUBSET {b}, HasRoom(b, x),
         Capacity[OptionOf[b]] # None
  PROVE  Sum(Using(OptionOf[b]) \cup {b}) <= Capacity[OptionOf[b]]
<1> DEFINE o == OptionOf[b]
           U == Using(o) \ x
           T == U \ {b}
<1>1. U \in SUBSET Bookings /\ T \in SUBSET U /\ b \notin T
  BY DEF Using
<1>2. Sum(U) + Qty[b] <= Capacity[o]
  BY DEF HasRoom, BookedQuantity, Sum
<1>3. Using(o) \cup {b} = T \cup {b}
  OBVIOUS
<1>4. Sum(T \cup {b}) = Sum(T) + Qty[b]
  BY <1>1, SumAdds
<1>5. Sum(T) <= Sum(U) /\ Sum(T) \in Nat /\ Sum(U) \in Nat
  BY <1>1, SumGrows, SumUnfolds
<1>6. Qty[b] \in Nat /\ Capacity[o] \in Nat
  BY BookingsAssumption
<1>7. Sum(Using(o) \cup {b}) = Sum(T) + Qty[b]
  BY <1>3, <1>4
<1> HIDE DEF T, U, o
<1>8. Sum(Using(o) \cup {b}) <= Capacity[o]
  BY <1>2, <1>5, <1>6, <1>7
<1> QED BY <1>8 DEF o

\* A handler that has passed the check claims its booking.
LEMMA ClaimPasses ==
  ASSUME TypeOK, TypeOK', SoloInv, ClaimInv, NEW w \in Workers,
         pc[w] \notin {"idle", "write"},
         NEW x \in SUBSET {tgt[w]}, HasRoom(tgt[w], x),
         Goto(w, "write", tgt[w], val[w]), UNCHANGED <<status, closed, overlap>>
  PROVE  ClaimInv'
<1> SUFFICES ASSUME NEW o \in Options, Capacity[o] # None
             PROVE  Sum(Claimed(o)') <= Capacity[o] + Slack'
  BY DEF ClaimInv
<1> DEFINE b == tgt[w]
           V == Writers(o)
           U == Using(o)
<1>0. b \in Bookings /\ tgt' = tgt /\ val' = val /\ Slack' = Slack
  BY DEF TypeOK, Goto, Slack
<1>1. \A v \in Workers : pc'[v] = IF v = w THEN "write" ELSE pc[v]
  BY DEF TypeOK, Goto
<1>2. Using(o)' = U
  BY DEF Using
<1>3. CASE OptionOf[b] # o
  <2>1. Writers(o)' = V
    BY <1>0, <1>1, <1>3 DEF Writers
  <2>2. Claimed(o)' = Claimed(o)
    BY <1>0, <1>2, <2>1 DEF Claimed
  <2> QED BY <1>0, <2>2 DEF ClaimInv
<1>4. CASE OptionOf[b] = o
  <2>1. Writers(o)' \subseteq V \cup {w} /\ w \notin V /\ V \in SUBSET Workers
    BY <1>0, <1>1 DEF Writers
  <2>2. Claimed(o)' \subseteq (U \cup {b}) \cup {tgt[v] : v \in V}
    BY <1>0, <1>2, <2>1 DEF Claimed
  <2> DEFINE All == (U \cup {b}) \cup {tgt[v] : v \in V}
  <2>3. \A v \in V : tgt[v] \in Bookings
    BY DEF Writers, TypeOK
  <2>4. U \cup {b} \in SUBSET Bookings /\ All \in SUBSET Bookings
    BY <1>0, <2>3 DEF Using
  <2>5. Sum(Claimed(o)') <= Sum(All)
    BY <2>2, <2>4, SumGrows
  <2>6. Sum(All) <= Sum(U \cup {b}) + Cardinality(V) * MaxQty
    BY <2>1, <2>3, <2>4, SumCovers
  <2>7. Sum(U \cup {b}) <= Capacity[o]
    BY <1>0, <1>4, RoomForOne
  <2>8. Cardinality(V) * MaxQty <= Slack /\ Cardinality(V) * MaxQty \in Nat
    <3>1. /\ Cardinality(V) \in Nat
          /\ Cardinality(Workers) \in Nat
          /\ Cardinality(V) <= Cardinality(Workers) - 1
      <4>1. IsFiniteSet(Workers \ {w}) /\ Cardinality(Workers \ {w}) = Cardinality(Workers) - 1
        BY BookingsAssumption, FS_RemoveElement
      <4>2. V \in SUBSET (Workers \ {w})
        BY <2>1
      <4>3. IsFiniteSet(V) /\ Cardinality(V) <= Cardinality(Workers \ {w})
        BY <4>1, <4>2, FS_Subset
      <4> HIDE DEF V
      <4> QED BY <4>1, <4>3, BookingsAssumption, FS_CardinalityType
    <3>2. ~overlap => V = {}
      BY DEF SoloInv, Writers
    <3>3. ~overlap => Cardinality(V) = 0
      BY <3>2, FS_EmptySet
    <3>4. \A k, n, m \in Nat : k <= n => k * m <= n * m /\ k * m \in Nat
      OBVIOUS
    <3> DEFINE n == Cardinality(Workers) - 1
    <3>5. n \in Nat
      BY <3>1
    <3> HIDE DEF V, n
    <3>6. Cardinality(V) * MaxQty <= n * MaxQty /\ Cardinality(V) * MaxQty \in Nat
      BY <3>1, <3>4, <3>5, MaxQtyIsMax DEF n
    <3>7. ~overlap => Cardinality(V) * MaxQty = 0
      BY <3>3, MaxQtyIsMax
    <3> QED BY <3>6, <3>7 DEF Slack, n
  <2>9. /\ Sum(Claimed(o)') \in Nat /\ Sum(All) \in Nat /\ Sum(U \cup {b}) \in Nat
        /\ Capacity[o] \in Nat /\ Slack \in Nat
    <3>1. Claimed(o)' \in SUBSET Bookings
      BY <2>2, <2>4
    <3> QED BY <2>4, <3>1, SumUnfolds, SlackIsNat, BookingsAssumption
  <2> HIDE DEF All, U, V, b
  <2> QED BY <1>0, <2>5, <2>6, <2>7, <2>8, <2>9
<1> QED BY <1>3, <1>4

LEMMA ClaimInit == Init => ClaimInv
<1> SUFFICES ASSUME Init, NEW o \in Options, Capacity[o] # None
             PROVE  Sum(Claimed(o)) <= Capacity[o] + Slack
  BY DEF ClaimInv
<1>1. Claimed(o) = {}
  BY DEF Init, Claimed, Using, Writers, ActiveBookingStatuses
<1>2. Sum({}) = 0
  BY SumUnfolds
<1>3. Slack \in Nat /\ Capacity[o] \in Nat
  BY InitTypeOK, SlackIsNat, BookingsAssumption
<1> QED BY <1>1, <1>2, <1>3

LEMMA ClaimStep == TypeOK /\ TypeOK' /\ SoloInv /\ ClaimInv /\ [Next]_vars => ClaimInv'
<1> SUFFICES ASSUME TypeOK, TypeOK', SoloInv, ClaimInv, [Next]_vars PROVE ClaimInv'
  OBVIOUS
<1>1. ASSUME NEW w \in Workers, UNCHANGED status, overlap => overlap',
             \A v \in Workers \ {w} : pc'[v] = pc[v] /\ tgt'[v] = tgt[v] /\ val'[v] = val[v],
             pc'[w] = "write" => val'[w] \notin ActiveBookingStatuses
      PROVE  ClaimInv'
  <2>1. ASSUME NEW o \in Options PROVE Claimed(o)' \subseteq Claimed(o)
    <3>1. Using(o)' = Using(o)
      BY <1>1 DEF Using
    <3>2. \A v \in Writers(o)' : v \in Writers(o) /\ tgt'[v] = tgt[v]
      BY <1>1 DEF Writers
    <3> QED BY <3>1, <3>2 DEF Claimed
  <2> QED BY <1>1, <2>1, ClaimsStay
<1>2. ASSUME NEW w \in Workers, NEW b \in Bookings, CreateBooking(w, b) PROVE ClaimInv'
  BY <1>1, <1>2 DEF CreateBooking, Request, Overlaps, Goto, TypeOK
<1>3. ASSUME NEW w \in Workers, NEW b \in Bookings, NEW s \in BookingStatus,
             UpdateBooking(w, b, s)
      PROVE  ClaimInv'
  BY <1>1, <1>3 DEF UpdateBooking, Request, Overlaps, Goto, TypeOK
<1>4. ASSUME NEW w \in Workers, Return(w), UNCHANGED <<status, closed, overlap>>
      PROVE  ClaimInv'
  BY <1>1, <1>4 DEF Return, Goto, TypeOK
<1>5. ASSUME NEW w \in Workers, CheckNew(w) PROVE ClaimInv'
  BY <1>4, <1>5, ClaimPasses DEF CheckNew
<1>6. ASSUME NEW w \in Workers, CheckUpdate(w) PROVE ClaimInv'
  BY <1>4, <1>6, ClaimPasses DEF CheckUpdate
<1>7. ASSUME NEW w \in Workers, Write(w) PROVE ClaimInv'
  <2>1. ASSUME NEW o \in Options PROVE Claimed(o)' \subseteq Claimed(o)
    <3>1. ASSUME NEW b \in Using(o)' PROVE b \in Claimed(o)
      <4>1. CASE b = tgt[w]
        <5>1. w \in Writers(o)
          BY <1>7, <3>1, <4>1 DEF Write, Using, Writers, TypeOK
        <5> QED BY <4>1, <5>1 DEF Claimed
      <4>2. CASE b # tgt[w]
        BY <1>7, <3>1, <4>2 DEF Write, Using, Claimed, TypeOK
      <4> QED BY <4>1, <4>2
    <3>2. \A v \in Writers(o)' : v \in Writers(o) /\ tgt'[v] = tgt[v]
      BY <1>7 DEF Write, Return, Goto, Writers, TypeOK
    <3> QED BY <3>1, <3>2 DEF Claimed
  <2> QED BY <1>7, <2>1, ClaimsStay DEF Write
<1>8. ASSUME NEW w \in Workers, Abort(w) PROVE ClaimInv'
  BY <1>4, <1>8 DEF Abort
<1>9. ASSUME UNCHANGED <<status, pc, tgt, val>>, overlap => overlap' PROVE ClaimInv'
  BY <1>9, ClaimsStay DEF Claimed, Using, Writers
<1>10. ASSUME NEW l \in Lots, CloseLot(l) PROVE ClaimInv'
  BY <1>9, <1>10 DEF CloseLot, Overlaps
<1>11. CASE UNCHANGED vars
  BY <1>9, <1>11 DEF vars
<1> QED BY <1>2, <1>3, <1>5, <1>6, <1>7, <1>8, <1>10, <1>11 DEF Next

\* What is booked is claimed.
LEMMA Overbooking ==
  ASSUME TypeOK, ClaimInv, NEW o \in Options
  PROVE  Overbooked(o) \in Nat /\ Overbooked(o) <= Slack
<1>1. CASE Capacity[o] = None
  BY <1>1, SlackIsNat DEF Overbooked
<1>2. CASE Capacity[o] # None
  <2>1. Using(o) \ {} = Using(o)
    OBVIOUS
  <2>2. BookedQuantity(o, {}) = Sum(Using(o))
    BY <2>1 DEF BookedQuantity, Sum
  <2>3. /\ Sum(Using(o)) <= Sum(Claimed(o))
        /\ Sum(Using(o)) \in Nat /\ Sum(Claimed(o)) \in Nat
    BY ClaimedAreBookings, SumGrows, SumUnfolds
  <2>4. Sum(Claimed(o)) <= Capacity[o] + Slack
    BY <1>2 DEF ClaimInv
  <2>5. Capacity[o] \in Nat /\ Slack \in Nat
    BY <1>2, SlackIsNat, BookingsAssumption
  <2> QED BY <2>2, <2>3, <2>4, <2>5 DEF Overbooked
<1> QED BY <1>1, <1>2

\* However requests overlap and fail, the rows keep their types and no option is
\* overbooked by more than the largest booking for each handler but one: what
\* passes the check fits beside what is booked, and only the handlers that have
\* passed it and not yet written are unaccounted for.
THEOREM BookingsStayConsistent == Spec => []BookingsConsistent
<1>1. TypeOK /\ ClaimInv => BookingsConsistent
  <2> SUFFICES ASSUME TypeOK, ClaimInv, NEW o \in Options
               PROVE  Overbooked(o) <= (Cardinality(Workers) - 1) * MaxQty
    BY DEF BookingsConsistent, OverbookingBounded
  <2>1. Overbooked(o) \in Nat /\ Overbooked(o) <= Slack
    BY Overbooking
  <2>2. Cardinality(Workers) \in Nat /\ Cardinality(Workers) # 0
    BY BookingsAssumption, FS_CardinalityType, FS_EmptySet
  <2>3. Cardinality(Workers) - 1 \in Nat
    BY <2>2
  <2>4. (Cardinality(Workers) - 1) * MaxQty \in Nat
    BY <2>3, MaxQtyIsMax
  <2>5. Slack <= (Cardinality(Workers) - 1) * MaxQty
    BY <2>4 DEF Slack
  <2>6. Slack \in Nat
    BY SlackIsNat
  <2> QED BY <2>1, <2>4, <2>5, <2>6
<1> QED BY <1>1, InitTypeOK, TypeStep, SoloInit, SoloStep, ClaimInit, ClaimStep, PTL DEF Spec

\* As long as no requests overlap, no option is overbooked: _assert_capacity looks
\* before every write that makes a booking active, also of a cancelled one.
THEOREM CapacityIsKept == Spec => []CapacityKept
<1>1. TypeOK /\ ClaimInv => CapacityKept
  <2> SUFFICES ASSUME TypeOK, ClaimInv, ~overlap, NEW o \in Options PROVE Overbooked(o) = 0
    BY DEF CapacityKept, CapacityEnforced, TypeOK
  <2> QED BY Overbooking DEF Slack
<1> QED BY <1>1, InitTypeOK, TypeStep, SoloInit, SoloStep, ClaimInit, ClaimStep, PTL DEF Spec

-----------------------------------------------------------------------------
(***************************************************************************)
(* What a handler was refused it cannot get around                         *)
(***************************************************************************)

\* Without overlap what a handler has found of its booking and its lot still holds
\* when it writes.
FoundInv ==
  ~overlap =>
    \A w \in Workers :
      /\ pc[w] = "create_sum" => status[tgt[w]] = "absent"
      /\ pc[w] # "idle" =>
           /\ status[tgt[w]] = "absent" => LotOf[tgt[w]] \notin closed
           /\ status[tgt[w]] = "completed" => val[w] = "completed"

LEMMA FoundInit == Init => FoundInv
BY DEF Init, FoundInv

LEMMA FoundStep == TypeOK /\ SoloInv /\ SoloInv' /\ FoundInv /\ [Next]_vars => FoundInv'
<1> SUFFICES ASSUME TypeOK, SoloInv, SoloInv', FoundInv, [Next]_vars, ~overlap' PROVE FoundInv'
  BY DEF FoundInv
<1>1. ASSUME NEW w \in Workers, NEW b \in Bookings, CreateBooking(w, b) PROVE FoundInv'
  <2>1. \A v \in Workers : v = w \/ pc'[v] = "idle"
    BY <1>1 DEF CreateBooking, Request, Overlaps, Goto, TypeOK
  <2>2. tgt'[w] = b
    BY <1>1 DEF CreateBooking, Goto, TypeOK
  <2> QED BY <1>1, <2>1, <2>2 DEF CreateBooking, FoundInv
<1>2. ASSUME NEW w \in Workers, NEW b \in Bookings, NEW s \in BookingStatus,
             UpdateBooking(w, b, s)
      PROVE  FoundInv'
  <2>1. \A v \in Workers : v = w \/ pc'[v] = "idle"
    BY <1>2 DEF UpdateBooking, Request, Overlaps, Goto, TypeOK
  <2>2. tgt'[w] = b /\ val'[w] = s /\ pc'[w] # "create_sum"
    BY <1>2 DEF UpdateBooking, Goto, TypeOK
  <2> QED BY <1>2, <2>1, <2>2 DEF UpdateBooking, FoundInv
<1>3. ASSUME NEW w \in Workers, pc[w] # "idle", UNCHANGED overlap,
             \A v \in Workers \ {w} : pc'[v] = pc[v],
             \/ pc'[w] = "idle"
             \/ pc'[w] = "write" /\ UNCHANGED <<status, closed, tgt, val>>
      PROVE  FoundInv'
  <2>1. \A v \in Workers : v = w \/ pc'[v] = "idle"
    BY <1>3 DEF SoloInv
  <2> QED BY <1>3, <2>1 DEF FoundInv
<1>4. ASSUME NEW w \in Workers, CheckNew(w) \/ CheckUpdate(w) \/ Write(w) \/ Abort(w)
      PROVE  FoundInv'
  <2>1. \A v \in Workers \ {w} : pc'[v] = pc[v]
    BY <1>4 DEF CheckNew, CheckUpdate, Write, Abort, Return, Goto, TypeOK
  <2>2. pc[w] # "idle" /\ UNCHANGED overlap
    BY <1>4 DEF CheckNew, CheckUpdate, Write, Abort
  <2>3. CASE Return(w)
    BY <1>3, <2>1, <2>2, <2>3 DEF Return, Goto, TypeOK
  <2>4. CASE Goto(w, "write", tgt[w], val[w]) /\ UNCHANGED <<status, closed>>
    BY <1>3, <2>1, <2>2, <2>4 DEF Goto, TypeOK
  <2> QED BY <1>4, <2>3, <2>4 DEF CheckNew, CheckUpdate, Write, Abort
<1>5. ASSUME NEW l \in Lots, CloseLot(l) PROVE FoundInv'
  BY <1>5 DEF CloseLot, Overlaps, FoundInv
<1>6. CASE UNCHANGED vars
  BY <1>6 DEF vars, FoundInv
<1> QED BY <1>1, <1>2, <1>4, <1>5, <1>6 DEF Next

\* Only Write changes the status of a booking.
LEMMA OnlyWriteWrites ==
  ASSUME TypeOK, [Next]_vars, status' # status
  PROVE  \E w \in Workers : Write(w)
BY DEF Next, vars, CreateBooking, UpdateBooking, CheckNew, CheckUpdate, Abort, CloseLot

\* As long as no requests overlap, a completed booking stays completed, and nothing
\* new is booked for a lot that is sold or withdrawn.
THEOREM RefusalsStand == Spec => RefusalsHold
<1> DEFINE Final == \A b \in Bookings :
             status[b] = "completed" /\ ~overlap' => status'[b] = "completed"
           OnOpenLot == \A b \in Bookings :
             status[b] = "absent" /\ status'[b] # "absent" /\ ~overlap' =>
               LotOf[b] \notin closed
<1>1. ASSUME TypeOK, FoundInv, NEW w \in Workers, Write(w) PROVE Final /\ OnOpenLot
  <2>1. /\ overlap' = overlap /\ pc[w] = "write" /\ tgt[w] \in Bookings
        /\ \A b \in Bookings : status'[b] = IF b = tgt[w] THEN val[w] ELSE status[b]
    BY <1>1 DEF Write, TypeOK
  <2> QED BY <1>1, <2>1 DEF FoundInv
<1>2. TypeOK /\ FoundInv /\ [Next]_vars => Final /\ OnOpenLot
  BY <1>1, OnlyWriteWrites
<1>3. TypeOK /\ FoundInv /\ [Next]_vars => [Final]_vars /\ [OnOpenLot]_vars
  BY <1>2
<1> HIDE DEF Final, OnOpenLot
<1>4. Spec => [][Final]_vars /\ [][OnOpenLot]_vars
  BY <1>3, InitTypeOK, TypeStep, SoloInit, SoloStep, FoundInit, FoundStep, PTL DEF Spec
<1> QED BY <1>4 DEF RefusalsHold, CompletedIsFinal, NewBookingOnOpenLot, Final, OnOpenLot
=============================================================================
