----------------------------- MODULE MandiProofs -----------------------------
(***************************************************************************)
(* What holds of forecasts and advice, and of what is told about prices by *)
(* SMS, for any prices, horizon, windows, markets, band, cap, lots and     *)
(* buyers.                                                                 *)
(*                                                                         *)
(* How old a row is does not depend on what it says, so the order of the   *)
(* rows and what the sweep does to them are proved of dated rows alone.    *)
(* What a row says rests on the models' arithmetic: a variance is not      *)
(* negative, a root is whole, a divisor is not zero.  The sums in it run   *)
(* over the positions of a sequence and are all unfolded at the same       *)
(* position; they are reasoned about by induction over sets: a set C       *)
(* contains every subset, since its complement would have a least element  *)
(* (WFMin).                                                                *)
(***************************************************************************)
EXTENDS Mandi, Replies, FiniteSetTheorems, SequenceTheorems, TLAPS

-----------------------------------------------------------------------------
(***************************************************************************)
(* Sums                                                                    *)
(***************************************************************************)
\* Induction over the subsets of a finite set: what holds of a set whenever it holds
\* of its proper subsets holds of all.
LEMMA SubsetInduction ==
  ASSUME NEW S, IsFiniteSet(S), NEW C,
         \A T \in SUBSET S : (\A U \in SUBSET T : U # T => U \in C) => T \in C
  PROVE  \A T \in SUBSET S : T \in C
<1> DEFINE Bad == (SUBSET S) \ C
<1> SUFFICES ASSUME Bad # {} PROVE FALSE
  OBVIOUS
<1>1. IsWellFoundedOn(StrictSubsetOrdering(S), SUBSET S)
  <2>1. FiniteSubsetsOf(S) = SUBSET S
    BY FS_FiniteSubsetsOfFinite
  <2>2. IsWellFoundedOn(StrictSubsetOrdering(S), FiniteSubsetsOf(S))
    BY FS_StrictSubsetOrderingWellFounded
  <2> QED BY <2>1, <2>2
<1>2. PICK T \in Bad : \A U \in Bad : <<U, T>> \notin StrictSubsetOrdering(S)
  <2>1. Bad \subseteq SUBSET S
    OBVIOUS
  <2> HIDE DEF Bad
  <2> QED BY <1>1, <2>1, WFMin
<1>3. \A U \in SUBSET T : U # T => U \in C
  BY <1>2 DEF StrictSubsetOrdering
<1> QED BY <1>2, <1>3

\* The same for numbers.
LEMMA StepInduction ==
  ASSUME NEW C, 0 \in C, \A n \in Nat : n \in C => n + 1 \in C
  PROVE  Nat \subseteq C
<1> DEFINE Bad == Nat \ C
<1> SUFFICES ASSUME Bad # {} PROVE FALSE
  OBVIOUS
<1>1. PICK n \in Bad : \A m \in Bad : <<m, n>> \notin OpToRel(<, Nat)
  <2>1. Bad \subseteq Nat
    OBVIOUS
  <2> QED BY <2>1, NatLessThanWellFounded, WFMin
<1>2. n \in Nat /\ n # 0
  OBVIOUS
<1>3. n - 1 \in Nat /\ n - 1 < n /\ (n - 1) + 1 = n
  BY <1>2
<1>4. <<n - 1, n>> \in OpToRel(<, Nat)
  BY <1>2, <1>3 DEF OpToRel
<1> QED BY <1>1, <1>2, <1>3, <1>4

\* The element of s that is added first.
OneOf(s) == CHOOSE x \in s : TRUE

LEMMA OneIsIn == ASSUME NEW S, S # {} PROVE OneOf(S) \in S
BY DEF OneOf

\* The sum of W over S.
SumOver(W, S) == SumFunctionOnSet(W, S)

\* f is the recursive function by which the sum over S is defined.
IsSum(f, W, S) ==
  f = [s \in SUBSET S |-> IF s = {} THEN 0 ELSE W[OneOf(s)] + f[s \ {OneOf(s)}]]

LEMMA SumDef == ASSUME NEW W, NEW S PROVE SumOver(W, S) = (CHOOSE f : IsSum(f, W, S))[S]
BY DEF SumOver, SumFunctionOnSet, FoldFunctionOnSet, MapThenFoldSet, IsSum, OneOf

\* A finite set, with an integer for each of its elements.
Numbers(W, S) == IsFiniteSet(S) /\ \A x \in S : W[x] \in Int

\* Such a function exists: it can be given for the subsets of each size in turn.
LEMMA SumExists ==
  ASSUME NEW W, NEW S, Numbers(W, S)
  PROVE  \E f : IsSum(f, W, S)
<1> DEFINE P == SUBSET S
           Step(f) == [s \in P |-> IF s = {} THEN 0 ELSE W[OneOf(s)] + f[s \ {OneOf(s)}]]
           UpTo(n, f) == \A s \in P : Cardinality(s) <= n => f[s] = Step(f)[s]
           C == {n \in Nat : \E f \in [P -> Int] : UpTo(n, f)}
<1>1. ASSUME NEW s \in P
      PROVE  /\ Cardinality(s) \in Nat
             /\ Cardinality(s) <= Cardinality(S)
             /\ Cardinality(s) = 0 => s = {}
             /\ s # {} => /\ s \ {OneOf(s)} \in P
                          /\ Cardinality(s \ {OneOf(s)}) = Cardinality(s) - 1
                          /\ W[OneOf(s)] \in Int
  <2>1. IsFiniteSet(s) /\ Cardinality(s) \in Nat
    BY FS_Subset, FS_CardinalityType DEF Numbers
  <2>2. s # {} => Cardinality(s \ {OneOf(s)}) = Cardinality(s) - 1
    BY <2>1, OneIsIn, FS_RemoveElement
  <2>3. Cardinality(s) <= Cardinality(S)
    BY FS_Subset DEF Numbers
  <2>4. s # {} => W[OneOf(s)] \in Int
    BY OneIsIn DEF Numbers
  <2> QED BY <2>1, <2>2, <2>3, <2>4, FS_EmptySet
<1>9. ASSUME NEW s \in P, Cardinality(s) <= 0 PROVE s = {}
  <2>1. Cardinality(s) \in Nat /\ (Cardinality(s) = 0 => s = {})
    BY <1>1
  <2>2. Cardinality(s) = 0
    BY <2>1, <1>9
  <2> QED BY <2>1, <2>2
<1>2. S \in P /\ Cardinality(S) \in Nat
  BY FS_CardinalityType DEF Numbers
<1>3. ASSUME NEW f PROVE Step(f) = f => IsSum(f, W, S)
  BY DEF IsSum
<1> HIDE DEF P
<1>4. 0 \in C
  <2> DEFINE z == [s \in P |-> 0]
  <2>1. ASSUME NEW s \in P, Cardinality(s) <= 0 PROVE z[s] = Step(z)[s]
    <3>1. s = {}
      BY <1>9, <2>1
    <3> QED BY <3>1
  <2>2. z \in [P -> Int]
    OBVIOUS
  <2> QED BY <2>1, <2>2
<1>5. ASSUME NEW n \in Nat, n \in C PROVE n + 1 \in C
  <2>1. PICK f \in [P -> Int] : UpTo(n, f)
    BY <1>5
  <2> DEFINE g == Step(f)
  <2>2. g \in [P -> Int]
    <3>1. ASSUME NEW s \in P, s # {} PROVE W[OneOf(s)] + f[s \ {OneOf(s)}] \in Int
      <4>1. W[OneOf(s)] \in Int /\ s \ {OneOf(s)} \in P
        BY <1>1, <3>1
      <4>2. f[s \ {OneOf(s)}] \in Int
        BY <4>1
      <4> QED BY <4>1, <4>2
    <3> QED BY <3>1
  <2>3. ASSUME NEW s \in P, Cardinality(s) <= n + 1 PROVE g[s] = Step(g)[s]
    <3>1. CASE s = {}
      BY <3>1
    <3>2. CASE s # {}
      <4>1. s \ {OneOf(s)} \in P /\ Cardinality(s \ {OneOf(s)}) <= n
        <5>1. /\ s \ {OneOf(s)} \in P /\ Cardinality(s) \in Nat
              /\ Cardinality(s \ {OneOf(s)}) = Cardinality(s) - 1
          BY <1>1, <3>2
        <5>2. Cardinality(s) - 1 <= n
          BY <2>3, <5>1
        <5> QED BY <5>1, <5>2
      <4>2. f[s \ {OneOf(s)}] = g[s \ {OneOf(s)}]
        BY <2>1, <4>1
      <4> QED BY <3>2, <4>2
    <3> QED BY <3>1, <3>2
  <2>4. UpTo(n + 1, g)
    BY <2>3
  <2> HIDE DEF g, UpTo
  <2> QED BY <2>2, <2>4
<1>6. Cardinality(S) \in C
  <2> HIDE DEF C
  <2>1. Nat \subseteq C
    BY <1>4, <1>5, StepInduction
  <2> QED BY <1>2, <2>1
<1>7. PICK f \in [P -> Int] : UpTo(Cardinality(S), f)
  BY <1>6
<1>8. f = Step(f)
  BY <1>1, <1>7
<1> QED BY <1>3, <1>8

\* There is only one, also where the sets differ.
LEMMA SumUnique ==
  ASSUME NEW W, NEW S, Numbers(W, S), NEW T \in SUBSET S,
         NEW f, IsSum(f, W, S), NEW g, IsSum(g, W, T)
  PROVE  f[T] = g[T] /\ f[T] \in Int
<1> DEFINE C == {U \in SUBSET T : f[U] = g[U] /\ f[U] \in Int}
<1>1. ASSUME NEW U \in SUBSET T, \A V \in SUBSET U : V # U => V \in C PROVE U \in C
  <2>1. CASE U = {}
    BY <2>1 DEF IsSum
  <2>2. CASE U # {}
    <3>1. U \ {OneOf(U)} \in C /\ W[OneOf(U)] \in Int
      BY <1>1, <2>2, OneIsIn DEF Numbers
    <3>2. /\ f[U] = W[OneOf(U)] + f[U \ {OneOf(U)}]
          /\ g[U] = W[OneOf(U)] + g[U \ {OneOf(U)}]
      BY <2>2 DEF IsSum
    <3> QED BY <3>1, <3>2
  <2> QED BY <2>1, <2>2
<1>2. \A U \in SUBSET T : U \in C
  <2> HIDE DEF C
  <2>1. IsFiniteSet(T)
    BY FS_Subset DEF Numbers
  <2> QED BY <1>1, <2>1, SubsetInduction
<1> QED BY <1>2

\* The sum of a set, from an element of it.
LEMMA SumUnfolds ==
  ASSUME NEW W, NEW S, Numbers(W, S)
  PROVE  /\ SumOver(W, S) \in Int
         /\ S = {} => SumOver(W, S) = 0
         /\ S # {} => SumOver(W, S) = W[OneOf(S)] + SumOver(W, S \ {OneOf(S)})
<1> DEFINE F(T) == CHOOSE f : IsSum(f, W, T)
<1>1. ASSUME NEW T \in SUBSET S PROVE IsSum(F(T), W, T)
  <2>1. Numbers(W, T)
    BY FS_Subset DEF Numbers
  <2> QED BY <2>1, SumExists
<1>2. ASSUME NEW T \in SUBSET S PROVE F(S)[T] = SumOver(W, T) /\ SumOver(W, T) \in Int
  <2> HIDE DEF F
  <2>1. IsSum(F(S), W, S) /\ IsSum(F(T), W, T)
    BY <1>1
  <2>2. F(S)[T] = F(T)[T] /\ F(S)[T] \in Int
    BY <2>1, SumUnique
  <2> QED BY <2>2, SumDef DEF F
<1>3. /\ S = {} => F(S)[S] = 0
      /\ S # {} => F(S)[S] = W[OneOf(S)] + F(S)[S \ {OneOf(S)}]
  <2>1. IsSum(F(S), W, S)
    BY <1>1
  <2> HIDE DEF F
  <2> QED BY <2>1 DEF IsSum
<1> HIDE DEF F
<1> QED BY <1>2, <1>3

\* A sum of sums, whatever the factors.
LEMMA SumIsLinear ==
  ASSUME NEW S, NEW f, NEW g, NEW h, NEW u, NEW v,
         NEW a \in Int, NEW b \in Int, NEW c \in Int, NEW d \in Int,
         Numbers(g, S), Numbers(h, S), Numbers(u, S), Numbers(v, S),
         \A i \in S : f[i] = a * g[i] + b * h[i] + c * u[i] + d * v[i]
  PROVE  SumOver(f, S) = a * SumOver(g, S) + b * SumOver(h, S)
                           + c * SumOver(u, S) + d * SumOver(v, S)
<1> DEFINE Right(T) == a * SumOver(g, T) + b * SumOver(h, T)
                         + c * SumOver(u, T) + d * SumOver(v, T)
           C == {T \in SUBSET S : SumOver(f, T) = Right(T)}
<1>1. Numbers(f, S)
  <2>1. ASSUME NEW i \in S PROVE f[i] \in Int
    <3>1. g[i] \in Int /\ h[i] \in Int /\ u[i] \in Int /\ v[i] \in Int
      BY DEF Numbers
    <3> QED BY <3>1
  <2> QED BY <2>1 DEF Numbers
<1>2. ASSUME NEW T \in SUBSET S
      PROVE  Numbers(f, T) /\ Numbers(g, T) /\ Numbers(h, T) /\ Numbers(u, T) /\ Numbers(v, T)
  BY <1>1, FS_Subset DEF Numbers
<1>3. ASSUME NEW T \in SUBSET S, \A U \in SUBSET T : U # T => U \in C PROVE T \in C
  <2>1. CASE T = {}
    <3>1. /\ SumOver(f, T) = 0 /\ SumOver(g, T) = 0 /\ SumOver(h, T) = 0
          /\ SumOver(u, T) = 0 /\ SumOver(v, T) = 0
      BY <1>2, <2>1, SumUnfolds
    <3> QED BY <3>1
  <2>2. CASE T # {}
    <3> DEFINE i == OneOf(T)
               U == T \ {i}
    <3>1. i \in T /\ U \in C /\ U \in SUBSET S
      BY <1>3, <2>2, OneIsIn
    <3> HIDE DEF i, C
    <3>2. SumOver(f, U) = Right(U)
      BY <3>1 DEF C
    <3>3. /\ SumOver(f, T) = f[i] + SumOver(f, U) /\ SumOver(g, T) = g[i] + SumOver(g, U)
          /\ SumOver(h, T) = h[i] + SumOver(h, U) /\ SumOver(u, T) = u[i] + SumOver(u, U)
          /\ SumOver(v, T) = v[i] + SumOver(v, U)
      BY <1>2, <2>2, SumUnfolds DEF i
    <3>4. f[i] = a * g[i] + b * h[i] + c * u[i] + d * v[i]
      BY <3>1
    <3>5. g[i] \in Int /\ h[i] \in Int /\ u[i] \in Int /\ v[i] \in Int
      BY <3>1 DEF Numbers
    <3>6. /\ SumOver(g, U) \in Int /\ SumOver(h, U) \in Int
          /\ SumOver(u, U) \in Int /\ SumOver(v, U) \in Int
      BY <3>1, <1>2, SumUnfolds
    <3> HIDE DEF U
    <3>7. SumOver(f, T) = Right(T)
      BY <3>2, <3>3, <3>4, <3>5, <3>6
    <3> QED BY <3>7 DEF C
  <2> QED BY <2>1, <2>2
<1>4. S \in C
  <2> HIDE DEF C
  <2>1. IsFiniteSet(S)
    BY DEF Numbers
  <2> QED BY <1>3, <2>1, SubsetInduction
<1> QED BY <1>4

LEMMA SumOfOnes ==
  ASSUME NEW S, IsFiniteSet(S), NEW f, \A i \in S : f[i] = 1
  PROVE  SumOver(f, S) = Cardinality(S)
<1> DEFINE C == {T \in SUBSET S : SumOver(f, T) = Cardinality(T)}
<1>1. ASSUME NEW T \in SUBSET S PROVE Numbers(f, T) /\ IsFiniteSet(T)
  BY FS_Subset DEF Numbers
<1>2. ASSUME NEW T \in SUBSET S, \A U \in SUBSET T : U # T => U \in C PROVE T \in C
  <2>1. CASE T = {}
    BY <1>1, <2>1, SumUnfolds, FS_EmptySet
  <2>2. CASE T # {}
    <3>1. OneOf(T) \in T /\ T \ {OneOf(T)} \in C
      BY <1>2, <2>2, OneIsIn
    <3>2. SumOver(f, T) = 1 + SumOver(f, T \ {OneOf(T)})
      BY <1>1, <2>2, <3>1, SumUnfolds
    <3>3. Cardinality(T \ {OneOf(T)}) = Cardinality(T) - 1 /\ Cardinality(T) \in Nat
      BY <1>1, <3>1, FS_RemoveElement, FS_CardinalityType
    <3> QED BY <3>1, <3>2, <3>3
  <2> QED BY <2>1, <2>2
<1>3. S \in C
  <2> HIDE DEF C
  <2> QED BY <1>2, SubsetInduction
<1> QED BY <1>3

LEMMA NoZeroFactor ==
  ASSUME NEW a \in Int, NEW b \in Int, a * b = 0 PROVE a = 0 \/ b = 0
<1>1. CASE a > 0 /\ b > 0
  BY <1>1
<1>2. CASE a > 0 /\ b < 0
  <2>1. a * (-b) > 0
    BY <1>2
  <2> QED BY <2>1
<1>3. CASE a < 0 /\ b > 0
  <2>1. (-a) * b > 0
    BY <1>3
  <2> QED BY <2>1
<1>4. CASE a < 0 /\ b < 0
  <2>1. (-a) * (-b) > 0
    BY <1>4
  <2> QED BY <2>1
<1> QED BY <1>1, <1>2, <1>3, <1>4

LEMMA SameProducts ==
  ASSUME NEW k \in Int, NEW a \in Int, NEW b \in Int, k # 0, k * a = k * b PROVE a = b
<1>1. k * (a - b) = 0 /\ a - b \in Int
  OBVIOUS
<1>2. a - b = 0
  BY <1>1, NoZeroFactor
<1> QED BY <1>2

\* How much one more number adds to k of them: their spread does not fall below zero.
LEMMA SpreadGrows ==
  ASSUME NEW k \in Nat, NEW sum \in Int, NEW squares \in Int, NEW x \in Int
  PROVE  k * ((k + 1) * (squares + x * x) - (sum + x) * (sum + x))
           = (k + 1) * (k * squares - sum * sum) + (sum - k * x) * (sum - k * x)
OBVIOUS

\* A variance is not negative, and zero only for numbers that are all equal.
LEMMA SpreadOver ==
  ASSUME NEW S, NEW f, Numbers(f, S), NEW sq, \A i \in S : sq[i] = f[i] * f[i]
  PROVE  LET spread == Cardinality(S) * SumOver(sq, S) - SumOver(f, S) * SumOver(f, S)
         IN spread \in Nat /\ (spread = 0 => \A i, j \in S : f[i] = f[j])
<1> DEFINE V(T) == Cardinality(T) * SumOver(sq, T) - SumOver(f, T) * SumOver(f, T)
           C == {T \in SUBSET S : /\ V(T) \in Nat
                                  /\ V(T) = 0 => \A i \in T :
                                       Cardinality(T) * f[i] = SumOver(f, T)}
<1>1. ASSUME NEW T \in SUBSET S
      PROVE  Numbers(f, T) /\ Numbers(sq, T) /\ IsFiniteSet(T) /\ Cardinality(T) \in Nat
  <2>1. IsFiniteSet(T) /\ Cardinality(T) \in Nat
    BY FS_Subset, FS_CardinalityType DEF Numbers
  <2>2. ASSUME NEW i \in T PROVE f[i] \in Int /\ sq[i] \in Int
    <3>1. f[i] \in Int
      BY DEF Numbers
    <3> QED BY <3>1
  <2> QED BY <2>1, <2>2 DEF Numbers
<1>2. ASSUME NEW T \in SUBSET S, \A U \in SUBSET T : U # T => U \in C PROVE T \in C
  <2>1. CASE T = {}
    <3>1. SumOver(f, T) = 0 /\ SumOver(sq, T) = 0 /\ Cardinality(T) = 0
      BY <1>1, <2>1, SumUnfolds, FS_EmptySet
    <3> QED BY <2>1, <3>1
  <2>2. CASE T # {}
    <3> DEFINE i == OneOf(T)
               U == T \ {i}
               k == Cardinality(U)
               x == f[i]
               A == SumOver(f, U)
               Q == SumOver(sq, U)
    <3>1. i \in T /\ U \in C /\ U \in SUBSET S
      BY <1>2, <2>2, OneIsIn
    <3>2. k \in Nat /\ x \in Int /\ A \in Int /\ Q \in Int
      BY <1>1, <3>1, SumUnfolds DEF Numbers
    <3>3. SumOver(f, T) = x + A /\ SumOver(sq, T) = sq[i] + Q
      BY <1>1, <2>2, SumUnfolds
    <3>4. Cardinality(T) = k + 1
      <4>1. k = Cardinality(T) - 1 /\ Cardinality(T) \in Nat
        BY <1>1, <3>1, FS_RemoveElement, FS_CardinalityType
      <4> QED BY <4>1
    <3>5. sq[i] = x * x
      BY <3>1
    <3>6. V(U) = k * Q - A * A /\ V(U) \in Nat
      BY <3>1
    <3>7. ASSUME V(U) = 0, NEW j \in U PROVE k * f[j] = A /\ f[j] \in Int
      <4>1. f[j] \in Int
        BY DEF Numbers
      <4> QED BY <3>1, <3>7, <4>1
    <3>0. \A j \in T : j = i \/ j \in U
      OBVIOUS
    <3>11. k = 0 => U = {}
      BY <1>1, <3>1, FS_EmptySet
    <3> HIDE DEF i, U, k, x, A, Q, V
    <3>8. V(T) = (k + 1) * (Q + x * x) - (A + x) * (A + x)
      <4>1. V(T) = (k + 1) * (x * x + Q) - (x + A) * (x + A)
        BY <3>3, <3>4, <3>5 DEF V
      <4> QED BY <4>1, <3>2
    <3>9. k * V(T) = (k + 1) * V(U) + (A - k * x) * (A - k * x)
      BY <3>2, <3>6, <3>8, SpreadGrows
    <3>10. V(T) \in Int
      BY <3>2, <3>8
    <3>12. CASE k = 0
      <4>1. A = 0 /\ Q = 0
        BY <3>11, <3>12, SumUnfolds, <1>1, <3>1 DEF A, Q
      <4>2. V(T) = 0
        BY <3>2, <3>8, <3>12, <4>1
      <4>3. \A j \in T : f[j] = x
        BY <3>0, <3>11, <3>12 DEF x
      <4>4. \A j \in T : Cardinality(T) * f[j] = SumOver(f, T)
        BY <3>2, <3>3, <3>4, <3>12, <4>1, <4>3
      <4> QED BY <4>2, <4>4
    <3>13. CASE k > 0
      <4> DEFINE y == A - k * x
      <4>1. y \in Int /\ y * y >= 0
        BY <3>2
      <4>2. (k + 1) * V(U) >= 0
        BY <3>2, <3>6
      <4>3. k * V(T) >= 0
        BY <3>9, <4>1, <4>2, <3>6, <3>2, <3>10
      <4>4. V(T) >= 0
        BY <4>3, <3>2, <3>10, <3>13
      <4>5. ASSUME V(T) = 0, NEW j \in T PROVE Cardinality(T) * f[j] = SumOver(f, T)
        <5>1. (k + 1) * V(U) + y * y = 0
          BY <3>9, <4>5, <3>2
        <5>2. (k + 1) * V(U) = 0 /\ y * y = 0
          BY <5>1, <4>1, <4>2, <3>2, <3>6
        <5>3. V(U) = 0 /\ y = 0
          <6>1. k + 1 \in Int /\ k + 1 # 0 /\ V(U) \in Int
            BY <3>2, <3>6
          <6> HIDE DEF y
          <6> QED BY <5>2, <6>1, <4>1, NoZeroFactor
        <5>4. A = k * x
          BY <5>3, <3>2
        <5>5. (k + 1) * x = x + A
          BY <5>4, <3>2
        <5>6. CASE j = i
          <6>1. f[j] = x
            BY <5>6 DEF x
          <6> QED BY <5>5, <6>1, <3>3, <3>4
        <5>7. CASE j \in U
          <6>1. k * f[j] = k * x /\ f[j] \in Int
            BY <3>7, <5>3, <5>4, <5>7
          <6>2. f[j] = x
            BY <6>1, <3>2, <3>13
          <6> QED BY <5>5, <6>2, <3>3, <3>4
        <5> QED BY <3>0, <5>6, <5>7
      <4> QED BY <3>10, <4>4, <4>5
    <3>14. k = 0 \/ k > 0
      BY <3>2
    <3> QED BY <3>12, <3>13, <3>14
  <2> QED BY <2>1, <2>2
<1>3. S \in C
  <2> HIDE DEF C
  <2>1. IsFiniteSet(S)
    BY DEF Numbers
  <2> QED BY <1>2, <2>1, SubsetInduction
<1>4. V(S) \in Nat /\ (V(S) = 0 => \A i \in S : Cardinality(S) * f[i] = SumOver(f, S))
  BY <1>3
<1>5. ASSUME V(S) = 0, NEW i \in S, NEW j \in S PROVE f[i] = f[j]
  <2>1. Cardinality(S) * f[i] = Cardinality(S) * f[j]
    BY <1>4, <1>5
  <2>2. f[i] \in Int /\ f[j] \in Int /\ Cardinality(S) \in Nat
    BY <1>1 DEF Numbers
  <2>3. Cardinality(S) # 0
    BY <1>1, <1>5, FS_EmptySet
  <2>4. Cardinality(S) \in Int
    BY <2>2
  <2> QED BY <2>1, <2>2, <2>3, <2>4, SameProducts
<1> QED BY <1>4, <1>5

-----------------------------------------------------------------------------
(***************************************************************************)
(* The models' arithmetic                                                  *)
(***************************************************************************)
LEMMA SumOfSequence ==
  ASSUME NEW s \in Seq(Int)
  PROVE  /\ DOMAIN s = 1 .. Len(s) /\ Len(s) \in Nat
         /\ Numbers(s, DOMAIN s) /\ Cardinality(DOMAIN s) = Len(s)
         /\ SumOf(s) \in Int
<1>1. Len(s) \in Nat /\ DOMAIN s = 1 .. Len(s) /\ \A i \in DOMAIN s : s[i] \in Int
  OBVIOUS
<1>2. IsFiniteSet(1 .. Len(s)) /\ Cardinality(1 .. Len(s)) = Len(s)
  <2>1. /\ IsFiniteSet(1 .. Len(s))
        /\ Cardinality(1 .. Len(s)) = IF 1 > Len(s) THEN 0 ELSE Len(s) - 1 + 1
    <3> QED BY <1>1, FS_Interval
  <2> QED BY <2>1, <1>1
<1>3. Numbers(s, DOMAIN s)
  BY <1>1, <1>2 DEF Numbers
<1>4. SumOf(s) \in Int
  BY <1>3, SumUnfolds DEF SumOf, SumFunction, SumOver
<1> QED BY <1>1, <1>2, <1>3, <1>4

LEMMA SumOfFunction == ASSUME NEW f PROVE SumOf(f) = SumOver(f, DOMAIN f)
BY DEF SumOf, SumFunction, SumOver

LEMMA SpreadIsNatural ==
  ASSUME NEW s \in Seq(Int)
  PROVE  /\ Spread(s) \in Nat
         /\ Spread(s) = 0 => \A i, j \in DOMAIN s : s[i] = s[j]
<1> DEFINE sq == [i \in DOMAIN s |-> s[i] * s[i]]
<1>1. SumOf(sq) = SumOver(sq, DOMAIN s) /\ SumOf(s) = SumOver(s, DOMAIN s)
  BY SumOfFunction
<1>2. \A i \in DOMAIN s : sq[i] = s[i] * s[i]
  OBVIOUS
<1>3. Spread(s) = Len(s) * SumOf(sq) - SumOf(s) * SumOf(s)
  BY DEF Spread
<1> HIDE DEF sq
<1>4. Cardinality(DOMAIN s) = Len(s) /\ Numbers(s, DOMAIN s)
  BY SumOfSequence
<1> QED BY <1>1, <1>2, <1>3, <1>4, SpreadOver

LEMMA WholeQuotient ==
  ASSUME NEW a \in Nat, NEW b \in Nat \ {0} PROVE a \div b \in Nat
OBVIOUS

\* There is a whole square root, cut to an integer.
LEMMA RootIsNatural == ASSUME NEW v \in Nat PROVE ISqrt(v) \in Nat
<1> DEFINE Root(n, r) == r * r <= n /\ n < (r + 1) * (r + 1)
           C == {n \in Nat : \E r \in 0 .. n : Root(n, r)}
<1>1. 0 \in C
  <2>1. 0 \in 0 .. 0 /\ Root(0, 0)
    OBVIOUS
  <2> QED BY <2>1
<1>2. ASSUME NEW n \in Nat, n \in C PROVE n + 1 \in C
  <2>1. PICK r \in 0 .. n : Root(n, r)
    BY <1>2
  <2>2. CASE n + 1 < (r + 1) * (r + 1)
    <3>1. r \in 0 .. n + 1 /\ Root(n + 1, r)
      BY <2>1, <2>2
    <3> QED BY <3>1
  <2>3. CASE ~(n + 1 < (r + 1) * (r + 1))
    <3>1. n + 1 = (r + 1) * (r + 1)
      BY <2>1, <2>3
    <3>2. r + 1 \in 0 .. n + 1
      BY <2>1
    <3>3. (r + 1) * (r + 1) < ((r + 1) + 1) * ((r + 1) + 1)
      BY <2>1
    <3>4. (r + 1) * (r + 1) <= n + 1 /\ n + 1 < ((r + 1) + 1) * ((r + 1) + 1)
      <4> DEFINE q == r + 1
      <4>1. q * q \in Int /\ n + 1 = q * q /\ q * q < (q + 1) * (q + 1)
        BY <2>1, <3>1, <3>3
      <4> HIDE DEF q
      <4>2. q * q <= n + 1 /\ n + 1 < (q + 1) * (q + 1)
        BY <4>1
      <4> QED BY <4>2 DEF q
    <3>5. Root(n + 1, r + 1)
      BY <3>4
    <3> HIDE DEF Root
    <3> QED BY <3>2, <3>5
  <2> QED BY <2>2, <2>3
<1>3. v \in C
  <2> HIDE DEF C
  <2> QED BY <1>1, <1>2, StepInduction
<1>4. ISqrt(v) \in 0 .. v
  BY <1>3 DEF ISqrt
<1> QED BY <1>4

LEMMA WholeCentre ==
  ASSUME NEW num \in Int, NEW den \in Nat \ {0} PROVE Nearest(num, den) \in Int
BY DEF Nearest

LEMMA MarginIsNatural ==
  ASSUME NEW s \in Seq(Int), Len(s) > 0, NEW den \in Nat \ {0}
  PROVE  Margin(s, den) \in Nat
<1> DEFINE n == Len(s) * den
<1>1. Len(s) \in Nat /\ Spread(s) \in Nat
  BY SpreadIsNatural
<1>2. n \in Nat /\ n > 0
  BY <1>1
<1> HIDE DEF n
<1>3. 625 * n * n \in Nat \ {0}
  <2>1. n * n \in Nat /\ n * n > 0
    BY <1>2
  <2> QED BY <2>1, <1>2
<1>4. 2401 * Spread(s) \in Nat
  BY <1>1
<1>5. (2401 * Spread(s)) \div (625 * n * n) \in Nat
  BY <1>3, <1>4, WholeQuotient
<1> QED BY <1>5, RootIsNatural DEF Margin, n

LEMMA LastOfIsSequence ==
  ASSUME NEW S, NEW s \in Seq(S), NEW k \in Nat \ {0}
  PROVE  LastOf(s, k) \in Seq(S) /\ (Len(s) > 0 => Len(LastOf(s, k)) > 0)
<1> DEFINE from == AtLeast(1, Len(s) - k + 1)
<1>1. from \in 1 .. Len(s) + 1 /\ Len(s) \in Nat /\ (Len(s) > 0 => from <= Len(s))
  BY DEF AtLeast
<1> HIDE DEF from
<1>2. SubSeq(s, from, Len(s)) \in Seq(S)
  BY <1>1
<1>3. Len(s) > 0 => Len(SubSeq(s, from, Len(s))) > 0
  BY <1>1
<1> QED BY <1>2, <1>3 DEF LastOf, from

LEMMA FitIsWhole ==
  ASSUME NEW s \in Seq(Int)
  PROVE  /\ Xs(s) \in Seq(Int) /\ Len(Xs(s)) = Len(s) /\ DOMAIN Xs(s) = DOMAIN s
         /\ SumOf(s) \in Int /\ SumOf(Xs(s)) \in Int /\ SlopeNum(s) \in Int
         /\ Denom(s) \in Nat /\ AtLeast(1, Denom(s)) \in Nat \ {0}
         /\ FitDen(s) \in Nat /\ (Len(s) > 0 => FitDen(s) > 0)
         /\ \A x \in Int : FitNum(s, x) \in Int
         /\ Residuals(s) \in Seq(Int) /\ Len(Residuals(s)) = Len(s)
<1> DEFINE xy == [i \in DOMAIN s |-> (i - 1) * s[i]]
<1>1. DOMAIN s = 1 .. Len(s) /\ Len(s) \in Nat /\ \A i \in DOMAIN s : s[i] \in Int /\ i \in Int
  OBVIOUS
<1>2. Xs(s) \in Seq(Int) /\ Len(Xs(s)) = Len(s) /\ DOMAIN Xs(s) = DOMAIN s
  <2>1. Xs(s) \in [1 .. Len(s) -> Int]
    BY <1>1 DEF Xs
  <2> QED BY <2>1, <1>1
<1>3. xy \in Seq(Int)
  <2>1. xy \in [1 .. Len(s) -> Int]
    BY <1>1
  <2> HIDE DEF xy
  <2> QED BY <2>1, <1>1
<1>4. SumOf(s) \in Int /\ SumOf(Xs(s)) \in Int /\ SumOf(xy) \in Int
  <2> HIDE DEF xy
  <2> QED BY <1>2, <1>3, SumOfSequence
<1>5. SlopeNum(s) \in Int
  <2>1. SlopeNum(s) = Len(s) * SumOf(xy) - SumOf(Xs(s)) * SumOf(s)
    BY DEF SlopeNum
  <2> HIDE DEF xy
  <2> QED BY <2>1, <1>1, <1>4
<1>6. Denom(s) \in Nat
  BY <1>2, SpreadIsNatural DEF Denom
<1>7. AtLeast(1, Denom(s)) \in Nat \ {0}
  BY <1>6 DEF AtLeast
<1>8. FitDen(s) \in Nat /\ (Len(s) > 0 => FitDen(s) > 0)
  BY <1>1, <1>7 DEF FitDen
<1>9. ASSUME NEW x \in Int PROVE FitNum(s, x) \in Int
  BY <1>1, <1>4, <1>5, <1>7 DEF FitNum
<1>10. Residuals(s) \in Seq(Int) /\ Len(Residuals(s)) = Len(s)
  <2>1. ASSUME NEW i \in DOMAIN s PROVE FitDen(s) * s[i] - FitNum(s, i - 1) \in Int
    <3>1. i - 1 \in Int /\ s[i] \in Int
      BY <1>1
    <3> QED BY <3>1, <1>8, <1>9
  <2>2. Residuals(s) \in [1 .. Len(s) -> Int]
    BY <2>1, <1>1 DEF Residuals
  <2> QED BY <2>2, <1>1
<1> QED BY <1>2, <1>4, <1>5, <1>6, <1>7, <1>8, <1>9, <1>10

\* Where there is no slope to fit, all days are one.
LEMMA OnePointHasNoSlope ==
  ASSUME NEW s \in Seq(Int), Denom(s) = 0
  PROVE  SlopeNum(s) = 0
<1> DEFINE D == DOMAIN s
           x == Xs(s)
           xy == [i \in D |-> (i - 1) * s[i]]
<1>1. D = 1 .. Len(s) /\ Len(s) \in Nat /\ Numbers(s, D)
  BY SumOfSequence
<1>2. \A i \in D : x[i] = i - 1 /\ i \in Int /\ s[i] \in Int
  BY <1>1 DEF Xs
<1>3. \A i, j \in D : x[i] = x[j]
  BY <1>1, FitIsWhole, SpreadIsNatural DEF Denom
<1>4. ASSUME NEW i \in D PROVE i = 1
  <2>1. 1 \in D
    BY <1>1
  <2>2. x[i] = x[1]
    BY <1>3, <2>1
  <2> QED BY <1>2, <2>1, <2>2
<1>5. ASSUME NEW i \in D
      PROVE  /\ x[i] = 0 * s[i] + 0 * s[i] + 0 * s[i] + 0 * s[i]
             /\ xy[i] = 0 * s[i] + 0 * s[i] + 0 * s[i] + 0 * s[i]
  <2>1. x[i] = 0 /\ s[i] \in Int /\ xy[i] = (i - 1) * s[i] /\ i = 1
    BY <1>2, <1>4
  <2> QED BY <2>1
<1>6. SumOver(s, D) \in Int
  BY <1>1, SumUnfolds
<1>7. SumOf(x) = SumOver(x, D) /\ SumOf(xy) = SumOver(xy, D)
  BY SumOfFunction, FitIsWhole
<1>8. SlopeNum(s) = Len(s) * SumOf(xy) - SumOf(x) * SumOf(s)
  BY DEF SlopeNum
<1>9. SumOf(s) \in Int
  BY SumOfSequence
<1> HIDE DEF D, x, xy
<1>10. /\ SumOver(x, D) = 0 * SumOver(s, D) + 0 * SumOver(s, D)
                            + 0 * SumOver(s, D) + 0 * SumOver(s, D)
       /\ SumOver(xy, D) = 0 * SumOver(s, D) + 0 * SumOver(s, D)
                            + 0 * SumOver(s, D) + 0 * SumOver(s, D)
  BY <1>1, <1>5, SumIsLinear
<1>11. SumOver(x, D) = 0 /\ SumOver(xy, D) = 0
  BY <1>6, <1>10
<1> QED BY <1>1, <1>7, <1>8, <1>9, <1>11

\* The sum of the residuals of a line a * y + b * x + c, and of them weighted by the day,
\* for the coefficients of the fit.
LEMMA ResidualsCancel ==
  ASSUME NEW n \in Int, NEW Y \in Int, NEW X \in Int, NEW XY \in Int, NEW XX \in Int,
         NEW m \in Int, NEW slope \in Int, slope = n * XY - X * Y,
         m = n * XX - X * X \/ slope = 0
  PROVE  /\ (n * m) * Y + (-(slope * n)) * X + (slope * X - Y * m) * n + 0 * n = 0
         /\ (n * m) * XY + (-(slope * n)) * XX + (slope * X - Y * m) * X = 0
<1>1. (n * m) * Y + (-(slope * n)) * X + (slope * X - Y * m) * n + 0 * n = 0
  OBVIOUS
<1>2. (n * m) * XY + (-(slope * n)) * XX + (slope * X - Y * m) * X
        = m * (n * XY - X * Y) - slope * (n * XX - X * X)
  OBVIOUS
<1>3. CASE m = n * XX - X * X
  BY <1>2, <1>3
<1>4. CASE slope = 0
  BY <1>2, <1>4
<1> QED BY <1>1, <1>3, <1>4

LEMMA ProductIsWhole == ASSUME NEW p \in Int, NEW q \in Int PROVE p * q \in Int
OBVIOUS

\* The line is the least-squares line of any days and any prices.
LEMMA FitLeavesNothing ==
  ASSUME NEW s \in Seq(Int)
  PROVE  LET r == Residuals(s)
         IN SumOf(r) = 0 /\ SumOf([i \in DOMAIN r |-> i * r[i]]) = 0
<1> DEFINE D == DOMAIN s
           n == Len(s)
           x == Xs(s)
           xy == [i \in D |-> (i - 1) * s[i]]
           xx == [i \in D |-> x[i] * x[i]]
           one == [i \in D |-> 1]
           r == Residuals(s)
           ir == [i \in DOMAIN r |-> i * r[i]]
           m == AtLeast(1, Denom(s))
           slope == SlopeNum(s)
           Y == SumOf(s)
           X == SumOf(x)
           a == n * m
           b == -(slope * n)
           c == slope * X - Y * m
<1>1. D = 1 .. n /\ n \in Nat /\ Numbers(s, D) /\ IsFiniteSet(D) /\ Cardinality(D) = n
  BY SumOfSequence DEF Numbers
<1>2. ASSUME NEW i \in D
      PROVE  /\ i \in Int /\ s[i] \in Int /\ x[i] = i - 1 /\ xy[i] = (i - 1) * s[i]
             /\ xx[i] = (i - 1) * (i - 1) /\ one[i] = 1
             /\ r[i] = FitDen(s) * s[i] - FitNum(s, i - 1)
  <2>1. i \in Int /\ s[i] \in Int
    BY <1>1
  <2>2. x[i] = i - 1
    BY DEF Xs
  <2>3. r[i] = FitDen(s) * s[i] - FitNum(s, i - 1)
    BY DEF Residuals
  <2> QED BY <2>1, <2>2, <2>3
<1>3. DOMAIN x = D /\ DOMAIN r = D /\ DOMAIN ir = D
  BY DEF Xs, Residuals
<1>4. m \in Int /\ slope \in Int /\ Y \in Int /\ X \in Int
  <2>1. m \in Nat
    BY FitIsWhole
  <2> QED BY <2>1, FitIsWhole
<1>5. /\ Y = SumOver(s, D) /\ X = SumOver(x, D) /\ SumOf(r) = SumOver(r, D)
      /\ SumOf(xy) = SumOver(xy, D) /\ SumOf(xx) = SumOver(xx, D) /\ SumOf(ir) = SumOver(ir, D)
  BY <1>3, SumOfFunction
<1>6. slope = n * SumOf(xy) - X * Y
  BY DEF SlopeNum
<1>7. Denom(s) = n * SumOf(xx) - X * X
  BY <1>3, FitIsWhole DEF Denom, Spread
<1>8. m = n * SumOf(xx) - X * X \/ slope = 0
  <2>1. CASE Denom(s) = 0
    BY <2>1, OnePointHasNoSlope
  <2>2. CASE Denom(s) # 0
    <3>1. Denom(s) \in Nat
      BY FitIsWhole
    <3>2. m = Denom(s)
      BY <3>1, <2>2 DEF AtLeast
    <3> QED BY <3>2, <1>7
  <2> QED BY <2>1, <2>2
<1>9. /\ FitDen(s) = n * m
      /\ \A z : FitNum(s, z) = Y * m + slope * (n * z - X)
  BY DEF FitDen, FitNum
<1>10. ASSUME NEW i \in D PROVE ir[i] = i * r[i]
  BY <1>3
<1> HIDE DEF D, n, x, xy, xx, one, r, ir, m, slope, Y, X
<1>11. a \in Int /\ b \in Int /\ c \in Int
  BY <1>1, <1>4
<1> HIDE DEF a, b, c
<1>12. ASSUME NEW i \in D
       PROVE  r[i] = a * s[i] + b * x[i] + c * one[i] + 0 * one[i]
  <2> DEFINE z == i - 1
  <2>1. r[i] = (n * m) * s[i] - (Y * m + slope * (n * z - X))
    BY <1>2, <1>9
  <2>2. z \in Int /\ s[i] \in Int /\ x[i] = z /\ one[i] = 1
    BY <1>2
  <2> HIDE DEF z
  <2>3. r[i] = (n * m) * s[i] + (-(slope * n)) * z + (slope * X - Y * m) * 1 + 0 * 1
    BY <2>1, <2>2, <1>1, <1>4
  <2> QED BY <2>2, <2>3 DEF a, b, c
<1>13. ASSUME NEW i \in D
       PROVE  ir[i] = a * xy[i] + b * xx[i] + c * x[i] + 1 * r[i]
  <2> DEFINE z == i - 1
  <2>1. ir[i] = i * r[i] /\ xy[i] = z * s[i] /\ xx[i] = z * z /\ x[i] = z /\ one[i] = 1
    BY <1>2, <1>10
  <2>2. r[i] = a * s[i] + b * z + c * 1 + 0 * 1
    BY <1>12, <2>1
  <2>8. i \in Int /\ s[i] \in Int
    BY <1>2
  <2>3. z \in Int /\ s[i] \in Int /\ i = z + 1 /\ a \in Int /\ b \in Int /\ c \in Int
    BY <2>8, <1>11
  <2> HIDE DEF z
  <2>4. r[i] = a * s[i] + b * z + c /\ r[i] \in Int
    BY <2>2, <2>3
  <2>5. i * r[i] = z * (a * s[i] + b * z + c) + r[i]
    BY <2>3, <2>4
  <2>6. z * (a * s[i] + b * z + c) = a * (z * s[i]) + b * (z * z) + c * z
    BY <2>3
  <2>7. ir[i] = a * xy[i] + b * xx[i] + c * x[i] + 1 * r[i]
    BY <2>1, <2>4, <2>5, <2>6
  <2> QED BY <2>7
<1>14. /\ Numbers(x, D) /\ Numbers(xy, D) /\ Numbers(xx, D) /\ Numbers(one, D)
       /\ Numbers(r, D)
  <2>1. ASSUME NEW i \in D
        PROVE  /\ x[i] \in Int /\ xy[i] \in Int /\ xx[i] \in Int /\ one[i] \in Int
               /\ r[i] \in Int
    <3>1. /\ i \in Int /\ s[i] \in Int /\ x[i] = i - 1 /\ xy[i] = (i - 1) * s[i]
          /\ xx[i] = (i - 1) * (i - 1) /\ one[i] = 1
      BY <1>2
    <3>2. x[i] \in Int /\ xy[i] \in Int /\ xx[i] \in Int /\ one[i] \in Int
      BY <3>1
    <3>3. r[i] = a * s[i] + b * x[i] + c * one[i] + 0 * one[i] /\ s[i] \in Int
      BY <1>12, <3>1
    <3>4. r[i] \in Int
      <4>1. s[i] \in Int /\ x[i] \in Int /\ one[i] \in Int /\ 0 \in Int
        BY <3>2, <3>3
      <4>2. a * s[i] \in Int /\ b * x[i] \in Int /\ c * one[i] \in Int /\ 0 * one[i] \in Int
        BY <1>11, <4>1, ProductIsWhole, Zenon
      <4> DEFINE p == a * s[i]
                 q == b * x[i]
                 o == c * one[i]
                 e == 0 * one[i]
      <4>3. p \in Int /\ q \in Int /\ o \in Int /\ e \in Int /\ r[i] = p + q + o + e
        BY <3>3, <4>2
      <4> HIDE DEF p, q, o, e
      <4> QED BY <4>3
    <3> QED BY <3>2, <3>4
  <2> QED BY <1>1, <2>1 DEF Numbers
<1>15. SumOver(one, D) = n
  BY <1>1, <1>2, SumOfOnes
<1>16. /\ SumOver(r, D) = a * Y + b * X + c * n + 0 * n
       /\ SumOver(ir, D) = a * SumOf(xy) + b * SumOf(xx) + c * X + 1 * SumOver(r, D)
  <2>1. SumOver(r, D) = a * SumOver(s, D) + b * SumOver(x, D)
                          + c * SumOver(one, D) + 0 * SumOver(one, D)
    BY <1>1, <1>11, <1>12, <1>14, SumIsLinear
  <2>2. SumOver(ir, D) = a * SumOver(xy, D) + b * SumOver(xx, D)
                           + c * SumOver(x, D) + 1 * SumOver(r, D)
    BY <1>1, <1>11, <1>13, <1>14, SumIsLinear
  <2> QED BY <2>1, <2>2, <1>5, <1>15
<1>17. SumOf(xy) \in Int /\ SumOf(xx) \in Int
  BY <1>5, <1>14, SumUnfolds
<1>18. /\ a * Y + b * X + c * n + 0 * n = 0
       /\ a * SumOf(xy) + b * SumOf(xx) + c * X = 0
  <2> DEFINE XY == SumOf(xy)
             XX == SumOf(xx)
  <2>1. n \in Int /\ XY \in Int /\ XX \in Int
    BY <1>1, <1>17
  <2>2. slope = n * XY - X * Y /\ (m = n * XX - X * X \/ slope = 0)
    BY <1>6, <1>8
  <2> HIDE DEF XY, XX
  <2>3. /\ (n * m) * Y + (-(slope * n)) * X + (slope * X - Y * m) * n + 0 * n = 0
        /\ (n * m) * XY + (-(slope * n)) * XX + (slope * X - Y * m) * X = 0
    BY <2>1, <2>2, <1>4, ResidualsCancel, SMTT(60)
  <2> QED BY <2>3 DEF a, b, c, XY, XX
<1>19. SumOver(r, D) = 0
  BY <1>16, <1>18
<1>20. SumOver(ir, D) = 0
  BY <1>16, <1>18, <1>19
<1> QED BY <1>5, <1>19, <1>20 DEF r, ir

-----------------------------------------------------------------------------
(***************************************************************************)
(* From prices to rows                                                     *)
(***************************************************************************)
\* What a row of public.prices may be.
PriceRows ==
  [market : Markets, source : Sources, general : BOOLEAN,
   price : Nat \ {0}, qty : Nat \cup {Unknown}, age : -MAX_AHEAD .. HISTORY_DAYS]

\* A market's series is a sequence of positive prices.
LEMMA SeriesArePrices ==
  ASSUME NEW rows \in SUBSET PriceRows, NEW s \in DailySeries(rows)
  PROVE  s \in Seq(Nat \ {0}) /\ s \in Seq(Int)
<1> DEFINE ages == AgesOf(rows)
           on == [a \in ages |-> DayPrices(OnDay(rows, a))]
           n == Cardinality(ages)
<1>1. n \in Nat
  <2>1. ages \subseteq -MAX_AHEAD .. HISTORY_DAYS
    BY DEF AgesOf, PriceRows
  <2>2. IsFiniteSet(-MAX_AHEAD .. HISTORY_DAYS)
    BY MandiAssumption, FS_Interval
  <2> QED BY <2>1, <2>2, FS_Subset, FS_CardinalityType
<1>2. UNION {on[a] : a \in ages} \subseteq Nat \ {0}
  <2> SUFFICES ASSUME NEW a \in ages, NEW p \in on[a] PROVE p \in Nat \ {0}
    OBVIOUS
  <2>1. PICK r \in rows : p = r.price
    BY DEF DayPrices, Chosen, Winning, OnDay
  <2> QED BY <2>1 DEF PriceRows
<1>3. s \in [1 .. n -> UNION {on[a] : a \in ages}]
  BY DEF DailySeries, SeriesOver
<1>4. s \in [1 .. n -> Nat \ {0}]
  <2> HIDE DEF n, on, ages
  <2> QED BY <1>2, <1>3
<1>5. s \in [1 .. n -> Int]
  <2> HIDE DEF n
  <2> QED BY <1>4
<1> HIDE DEF n
<1> QED BY <1>1, <1>4, <1>5

LEMMA PositiveProduct ==
  ASSUME NEW a \in Nat, NEW b \in Nat, a > 0, b > 0 PROVE a * b \in Nat \ {0}
OBVIOUS

LEMMA CentresAreWhole ==
  ASSUME NEW s \in Seq(Int), Len(s) > 0, NEW h \in 1 .. HORIZON_DAYS
  PROVE  /\ MovingAverage(s).centre[h] \in Int /\ MovingAverage(s).margin \in Nat
         /\ Blend(s).centre[h] \in Int /\ Blend(s).margin \in Nat
<1> DEFINE w == LastOf(s, MA_WINDOW)
           v == LastOf(s, OLS_FIT_WINDOW)
<1>1. w \in Seq(Int) /\ Len(w) > 0 /\ v \in Seq(Int) /\ Len(v) > 0
  BY ForecastAssumption, LastOfIsSequence
<1>2. h \in Nat
  BY ForecastAssumption
<1>3. /\ MovingAverage(s).centre[h] = Nearest(SumOf(w), Len(w))
      /\ MovingAverage(s).margin = Margin(w, 1)
      /\ Blend(s).centre[h] =
           Nearest(2 * SumOf(w) * FitDen(v) + 3 * FitNum(v, Len(v) + h - 1) * Len(w),
                   5 * Len(w) * FitDen(v))
      /\ Blend(s).margin = AtLeast(Margin(w, 1), Margin(Residuals(v), FitDen(v)))
  BY DEF MovingAverage, Blend
<1> HIDE DEF w, v
<1>4. Len(w) \in Nat \ {0} /\ Len(v) \in Nat \ {0} /\ SumOf(w) \in Int
  BY <1>1, SumOfSequence
<1>5. /\ FitDen(v) \in Nat \ {0} /\ FitNum(v, Len(v) + h - 1) \in Int
      /\ Residuals(v) \in Seq(Int) /\ Len(Residuals(v)) > 0
  <2>1. Len(v) + h - 1 \in Int
    BY <1>2, <1>4
  <2>2. FitDen(v) \in Nat /\ FitDen(v) > 0
    BY <1>1, FitIsWhole
  <2>3. \A x \in Int : FitNum(v, x) \in Int
    BY <1>1, FitIsWhole
  <2>4. FitNum(v, Len(v) + h - 1) \in Int
    BY <2>1, <2>3
  <2>5. Residuals(v) \in Seq(Int) /\ Len(Residuals(v)) = Len(v)
    BY <1>1, FitIsWhole
  <2>6. Len(Residuals(v)) > 0
    BY <1>1, <2>5
  <2> QED BY <2>2, <2>4, <2>5, <2>6
<1>6. Margin(w, 1) \in Nat /\ Margin(Residuals(v), FitDen(v)) \in Nat
  <2>1. Margin(w, 1) \in Nat
    <3>1. 1 \in Nat \ {0}
      OBVIOUS
    <3> QED BY <1>1, <3>1, MarginIsNatural
  <2> QED BY <1>5, <2>1, MarginIsNatural
<1>7. Nearest(SumOf(w), Len(w)) \in Int
  BY <1>4, WholeCentre
<1>8. Nearest(2 * SumOf(w) * FitDen(v) + 3 * FitNum(v, Len(v) + h - 1) * Len(w),
              5 * Len(w) * FitDen(v)) \in Int
  <2> DEFINE num == 2 * SumOf(w) * FitDen(v) + 3 * FitNum(v, Len(v) + h - 1) * Len(w)
             den == 5 * Len(w) * FitDen(v)
  <2>1. num \in Int
    <3> DEFINE S == SumOf(w)
               F == FitDen(v)
               N == FitNum(v, Len(v) + h - 1)
               L == Len(w)
    <3>1. S \in Int /\ F \in Int /\ N \in Int /\ L \in Int
      BY <1>4, <1>5
    <3> HIDE DEF S, F, N, L
    <3>2. 2 * S * F + 3 * N * L \in Int
      BY <3>1
    <3> QED BY <3>2 DEF S, F, N, L
  <2>2. den \in Nat \ {0}
    <3>1. 5 * Len(w) \in Nat /\ 5 * Len(w) > 0
      BY <1>4
    <3>2. FitDen(v) \in Nat /\ FitDen(v) > 0
      BY <1>5
    <3> QED BY <3>1, <3>2, PositiveProduct
  <2> HIDE DEF num, den
  <2>3. Nearest(num, den) \in Int
    BY <2>1, <2>2, WholeCentre
  <2> QED BY <2>3 DEF num, den
<1>9. AtLeast(Margin(w, 1), Margin(Residuals(v), FitDen(v))) \in Nat
  BY <1>6 DEF AtLeast
<1>10. MovingAverage(s).centre[h] \in Int /\ Blend(s).centre[h] \in Int
  BY <1>3, <1>7, <1>8
<1>11. MovingAverage(s).margin \in Nat /\ Blend(s).margin \in Nat
  BY <1>3, <1>6, <1>9
<1> QED BY <1>10, <1>11

\* Every prediction is a row around a whole number, of a whole width.
LEMMA PredictionsAreRows ==
  ASSUME NEW s \in Seq(Int), Tier(Len(s)) # "none", NEW h \in 1 .. HORIZON_DAYS
  PROVE  \E p \in Int, width \in Nat : Predictions(s, Band)[h] = Row(p, width, Band)
<1> DEFINE m == IF Tier(Len(s)) = "blend" THEN Blend(s) ELSE MovingAverage(s)
<1>1. Len(s) > 0
  <2>1. Len(s) \in Nat /\ MIN_OBSERVATIONS \in Nat \ {0}
    BY ForecastAssumption
  <2>2. CASE Len(s) < MIN_OBSERVATIONS
    <3>1. ~(Len(s) >= MIN_OBSERVATIONS /\ Len(s) < BLEND_THRESHOLD)
      BY <2>1, <2>2
    <3>2. Tier(Len(s)) = "none"
      BY <2>2, <3>1 DEF Tier
    <3> QED BY <3>2
  <2> QED BY <2>1, <2>2
<1>2. m.centre[h] \in Int /\ m.margin \in Nat
  BY <1>1, CentresAreWhole
<1>3. Predictions(s, Band)[h] = Row(m.centre[h], ISqrt(m.margin * m.margin * h), Band)
  BY DEF Predictions
<1> HIDE DEF m
<1>4. m.margin * m.margin * h \in Nat
  <2>1. h \in Nat
    BY ForecastAssumption
  <2>2. m.margin * m.margin \in Nat
    BY <1>2
  <2> QED BY <2>1, <2>2
<1>5. ISqrt(m.margin * m.margin * h) \in Nat
  BY <1>4, RootIsNatural
<1> QED BY <1>2, <1>3, <1>5

-----------------------------------------------------------------------------
(***************************************************************************)
(* How old the rows are                                                    *)
(***************************************************************************)
\* A row has an age; what else is in it does not matter here.
Dated(row) == row = None \/ ({"made", "status"} \subseteq DOMAIN row /\ row.made \in Nat)

\* A row that the sweep has looked at.
Swept(row, day_old) == IF Stale(row, day_old) THEN [row EXCEPT !.status = "stale"] ELSE row

LEMMA SweptKeepsAge ==
  ASSUME NEW row, Dated(row), NEW day_old \in BOOLEAN
  PROVE  /\ Dated(Swept(row, day_old)) /\ (row = None => Swept(row, day_old) = None)
         /\ row # None => Swept(row, day_old).made = row.made
         /\ Swept(row, day_old) # row => Stale(row, day_old) /\ ~IsOk(Swept(row, day_old))
<1>1. CASE ~Stale(row, day_old)
  BY <1>1 DEF Swept
<1>2. CASE Stale(row, day_old)
  <2>1. row # None /\ {"made", "status"} \subseteq DOMAIN row /\ row.made \in Nat
    BY <1>2 DEF Stale, IsOk, Dated
  <2>2. /\ Swept(row, day_old).made = row.made /\ Swept(row, day_old).status = "stale"
        /\ DOMAIN Swept(row, day_old) = DOMAIN row
    BY <1>2, <2>1 DEF Swept
  <2> QED
    BY <1>2, <2>1, <2>2 DEF Dated, IsOk
<1> QED
  BY <1>1, <1>2

LEMMA OlderIsDated ==
  ASSUME NEW row, Dated(row)
  PROVE  Dated(Older(row)) /\ (row = None => Older(row) = None)
         /\ (row # None => Older(row).made = row.made + 1)
<1>1. CASE row = None
  BY <1>1 DEF Older, Dated
<1>2. CASE row # None
  BY <1>2 DEF Older, Dated
<1> QED
  BY <1>1, <1>2

LEMMA NewRowsAreDated ==
  /\ \A r : Dated(Ok(r)) /\ Ok(r).made = 0 /\ Ok(r).status = "ok"
  /\ Dated(Insufficient) /\ Insufficient.made = 0 /\ Insufficient.status # "ok"
BY DEF Ok, Insufficient, Dated

\* A row that a run has just written.
JustMade(row) == row = Insufficient \/ \E r : row = Ok(r)

LEMMA JustMadeIsDated ==
  ASSUME NEW row, JustMade(row) PROVE Dated(row) /\ row.made = 0
BY NewRowsAreDated DEF JustMade

\* What a run leaves of a pair's rows: up to its anchor all, and after it nothing that
\* is nearer than what it writes.
LEMMA WrittenRows ==
  ASSUME NEW s, NEW anchor \in Nat, NEW old
  PROVE  LET new == WrittenFrom(anchor, s, old)
         IN /\ DOMAIN new = Offsets
            /\ \A o \in Offsets : o <= anchor => new[o] = old[o]
            /\ \A o \in Offsets : new[o] = old[o] \/ JustMade(new[o])
            /\ \A i, j \in Offsets : anchor < i /\ i < j =>
                 JustMade(new[i]) \/ (new[i] = old[i] /\ new[j] = old[j])
<1> DEFINE predicted == Predictions(s, Band)
           new == WrittenFrom(anchor, s, old)
<1>1. \A o \in Offsets : o \in Int
  BY DEF Offsets
<1>2. CASE Tier(Len(s)) = "none"
  <2>1. new = [o \in Offsets |-> IF o - anchor \notin 1 .. 1 THEN old[o] ELSE Insufficient]
    BY <1>2 DEF WrittenFrom
  <2> HIDE DEF new
  <2>2. \A o \in Offsets : new[o] = IF o - anchor = 1 THEN Insufficient ELSE old[o]
    BY <1>1, <2>1
  <2>3. DOMAIN new = Offsets
    BY <2>1
  <2>4. JustMade(Insufficient)
    BY DEF JustMade
  <2>5. \A i, j \in Offsets : anchor < i /\ i < j =>
          JustMade(new[i]) \/ (new[i] = old[i] /\ new[j] = old[j])
    BY <1>1, <2>2, <2>4
  <2>6. \A o \in Offsets : o <= anchor => new[o] = old[o]
    BY <1>1, <2>2
  <2> QED BY <2>2, <2>3, <2>4, <2>5, <2>6 DEF new
<1>3. CASE Tier(Len(s)) # "none"
  <2>1. new = [o \in Offsets |-> IF o - anchor \notin 1 .. HORIZON_DAYS THEN old[o]
                                 ELSE Ok(predicted[o - anchor])]
    BY <1>3 DEF WrittenFrom
  <2>2. \A r : JustMade(Ok(r))
    BY DEF JustMade
  <2> HIDE DEF new, predicted
  <2>3. \A o \in Offsets : /\ o - anchor \notin 1 .. HORIZON_DAYS => new[o] = old[o]
                           /\ o - anchor \in 1 .. HORIZON_DAYS => JustMade(new[o])
    BY <2>1, <2>2
  <2>4. DOMAIN new = Offsets
    BY <2>1
  <2>5. HORIZON_DAYS \in Nat
    BY ForecastAssumption
  <2>6. \A i, j \in Offsets : anchor < i /\ i < j =>
          JustMade(new[i]) \/ (new[i] = old[i] /\ new[j] = old[j])
    BY <1>1, <2>3, <2>5
  <2>7. \A o \in Offsets : o <= anchor => new[o] = old[o]
    BY <1>1, <2>3, <2>5
  <2> QED BY <2>3, <2>4, <2>6, <2>7 DEF new
<1> QED BY <1>2, <1>3

\* The same of one row.
LEMMA WrittenRow ==
  ASSUME NEW s, NEW anchor \in Nat, NEW old, NEW o \in Offsets
  PROVE  /\ o <= anchor => WrittenFrom(anchor, s, old)[o] = old[o]
         /\ \/ WrittenFrom(anchor, s, old)[o] = old[o]
            \/ JustMade(WrittenFrom(anchor, s, old)[o])
<1> DEFINE new == WrittenFrom(anchor, s, old)
<1>1. /\ \A i \in Offsets : i <= anchor => new[i] = old[i]
      /\ \A i \in Offsets : new[i] = old[i] \/ JustMade(new[i])
  BY WrittenRows
<1> HIDE DEF new
<1>2. (o <= anchor => new[o] = old[o]) /\ (new[o] = old[o] \/ JustMade(new[o]))
  BY <1>1
<1> QED
  BY <1>2 DEF new

\* The anchor is today, or as far ahead as the last observation.
LEMMA RewrittenFromAnchor ==
  ASSUME NEW s, NEW age \in Int, NEW old
  PROVE  \E anchor \in Nat : /\ Rewritten(s, age, old) = WrittenFrom(anchor, s, old)
                             /\ anchor # 0 => age = -anchor
<1>1. CASE age < 0
  <2>1. -age \in Nat /\ age = -(-age) /\ Rewritten(s, age, old) = WrittenFrom(-age, s, old)
    BY <1>1 DEF Rewritten
  <2> QED BY <2>1
<1>2. CASE ~(age < 0)
  <2>1. Rewritten(s, age, old) = WrittenFrom(0, s, old)
    BY <1>2 DEF Rewritten
  <2> QED BY <2>1
<1> QED BY <1>1, <1>2

-----------------------------------------------------------------------------
(***************************************************************************)
(* What a step may do to the rows                                          *)
(***************************************************************************)
\* Without days the series is empty.
LEMMA NoDaysNoSeries ==
  ASSUME NEW rows \in SUBSET PriceRows, NEW s \in DailySeries(rows), s # <<>>
  PROVE  AgesOf(rows) # {}
<1> SUFFICES ASSUME AgesOf(rows) = {} PROVE FALSE
  OBVIOUS
<1>1. Cardinality(AgesOf(rows)) = 0
  BY FS_EmptySet
<1>2. s \in Seq(Int)
  BY SeriesArePrices
<1>3. DOMAIN s = 1 .. 0
  BY <1>1 DEF DailySeries, SeriesOver
<1> QED BY <1>2, <1>3

\* The youngest of some days is one of them.
LEMMA YoungestIsThere ==
  ASSUME NEW ages \in SUBSET (-MAX_AHEAD .. HISTORY_DAYS), ages # {}
  PROVE  Min(ages) \in ages
<1> DEFINE T == {a + MAX_AHEAD : a \in ages}
<1>1. MAX_AHEAD \in Nat /\ \A a \in ages : a \in Int /\ a + MAX_AHEAD \in Nat
  BY MandiAssumption
<1>2. T \subseteq Nat /\ T # {}
  BY <1>1
<1>3. PICK n \in T : \A k \in T : <<k, n>> \notin OpToRel(<, Nat)
  <2> HIDE DEF T
  <2> QED BY <1>2, NatLessThanWellFounded, WFMin
<1>4. ASSUME NEW k \in T PROVE n <= k
  <2>1. n \in Nat /\ k \in Nat
    BY <1>2
  <2>2. k < n => <<k, n>> \in OpToRel(<, Nat)
    BY <2>1 DEF OpToRel
  <2>3. ~(k < n)
    BY <1>3, <1>4, <2>2
  <2> QED BY <2>1, <2>3
<1>5. PICK a \in ages : n = a + MAX_AHEAD
  OBVIOUS
<1>6. ASSUME NEW b \in ages PROVE a <= b
  <2>1. b + MAX_AHEAD \in T
    OBVIOUS
  <2>2. a + MAX_AHEAD <= b + MAX_AHEAD
    BY <1>4, <1>5, <2>1
  <2> QED BY <1>1, <2>2
<1> QED BY <1>6 DEF Min

DatedRows ==
  /\ prices \subseteq PriceRows
  /\ DOMAIN forecasts = Markets
  /\ \A m \in Markets : DOMAIN forecasts[m] = Offsets
  /\ \A m \in Markets, o \in Offsets : Dated(forecasts[m][o])

LEMMA PricesStayRows ==
  ASSUME prices \subseteq PriceRows, [Next]_vars
  PROVE  prices' \subseteq PriceRows
<1>1. ASSUME NEW q \in Quotes, Publish(q) PROVE prices' \subseteq PriceRows
  <2>1. q \in PriceRows
    BY MandiAssumption DEF PriceRows
  <2> QED BY <1>1, <2>1 DEF Publish
<1>2. ASSUME NextDay PROVE prices' \subseteq PriceRows
  <2>1. ASSUME NEW r \in prices, r.age < HISTORY_DAYS
        PROVE  [r EXCEPT !.age = @ + 1] \in PriceRows
    <3>1. r \in PriceRows /\ HISTORY_DAYS \in Nat /\ MAX_AHEAD \in Nat
      BY MandiAssumption
    <3>2. r.age + 1 \in -MAX_AHEAD .. HISTORY_DAYS
      BY <2>1, <3>1 DEF PriceRows
    <3> QED BY <3>1, <3>2 DEF PriceRows
  <2> QED BY <1>2, <2>1 DEF NextDay
<1> QED BY <1>1, <1>2 DEF Next, Forecast, MarkStale, vars

\* A market's rows after a run of its pair, of which a failed one leaves them; the anchor
\* is ahead only if a price is dated there.
RunOf(m) ==
  \/ forecasts'[m] = forecasts[m]
  \/ \E s : \E anchor \in Nat :
       /\ forecasts'[m] = WrittenFrom(anchor, s, forecasts[m])
       /\ anchor # 0 => \E r \in InMarket(prices, m) : r.age = -anchor

LEMMA RunsAreRewritten ==
  ASSUME prices \subseteq PriceRows, NEW failed, Forecast(failed)
  PROVE  DOMAIN forecasts' = Markets /\ \A m \in Markets : RunOf(m)
<1>1. PICK ss :
        /\ \A m \in Markets : ss[m] \in DailySeries(InMarket(prices, m))
        /\ forecasts' = [m \in Markets |->
             IF m \in failed \/ ss[m] = <<>> THEN forecasts[m]
             ELSE Rewritten(ss[m], Min(AgesOf(InMarket(prices, m))), forecasts[m])]
  BY DEF Forecast
<1>2. ASSUME NEW m \in Markets, m \notin failed, ss[m] # <<>> PROVE RunOf(m)
  <2> DEFINE rows == InMarket(prices, m)
             ages == AgesOf(rows)
  <2>1. rows \in SUBSET PriceRows
    BY DEF InMarket
  <2>2. ages \in SUBSET (-MAX_AHEAD .. HISTORY_DAYS)
    BY <2>1 DEF AgesOf, PriceRows
  <2>3. ages # {}
    BY <1>1, <1>2, <2>1, NoDaysNoSeries
  <2>4. Min(ages) \in ages /\ Min(ages) \in Int
    BY <2>2, <2>3, YoungestIsThere
  <2>5. PICK r \in rows : r.age = Min(ages)
    BY <2>4 DEF AgesOf
  <2>6. forecasts'[m] = Rewritten(ss[m], Min(ages), forecasts[m])
    BY <1>1, <1>2
  <2> HIDE DEF ages, rows
  <2>7. PICK anchor \in Nat :
          /\ Rewritten(ss[m], Min(ages), forecasts[m])
               = WrittenFrom(anchor, ss[m], forecasts[m])
          /\ anchor # 0 => Min(ages) = -anchor
    BY <2>4, RewrittenFromAnchor
  <2>8. anchor # 0 => \E x \in rows : x.age = -anchor
    BY <2>5, <2>7
  <2> QED BY <2>6, <2>7, <2>8 DEF RunOf, rows
<1>3. ASSUME NEW m \in Markets, m \in failed \/ ss[m] = <<>> PROVE RunOf(m)
  BY <1>1, <1>3 DEF RunOf
<1> QED
  BY <1>1, <1>2, <1>3

LEMMA SweepsAreSwept ==
  ASSUME MarkStale
  PROVE  \E day_old \in BOOLEAN :
           forecasts' = [m \in Markets |-> [o \in Offsets |-> Swept(forecasts[m][o], day_old)]]
BY DEF MarkStale, Swept

LEMMA RowsStayDated == ASSUME DatedRows, [Next]_vars PROVE DatedRows'
<1> DEFINE Rows == /\ DOMAIN forecasts' = Markets
                   /\ \A m \in Markets : DOMAIN forecasts'[m] = Offsets
                   /\ \A m \in Markets, o \in Offsets : Dated(forecasts'[m][o])
<1>1. ASSUME UNCHANGED forecasts PROVE Rows
  BY <1>1 DEF DatedRows
<1>2. ASSUME NextDay PROVE Rows
  <2>1. forecasts' = [m \in Markets |-> [o \in Offsets |->
           IF o + 1 \in Offsets THEN Older(forecasts[m][o + 1]) ELSE None]]
    BY <1>2 DEF NextDay
  <2>2. Dated(None)
    BY DEF Dated
  <2> QED
    BY <2>1, <2>2, OlderIsDated DEF DatedRows
<1>3. ASSUME NEW failed, Forecast(failed) PROVE Rows
  <2>1. ASSUME NEW m \in Markets
        PROVE  DOMAIN forecasts'[m] = Offsets /\ \A o \in Offsets : Dated(forecasts'[m][o])
    <3>1. CASE forecasts'[m] = forecasts[m]
      BY <3>1 DEF DatedRows
    <3>2. ASSUME NEW s, NEW anchor \in Nat,
                 forecasts'[m] = WrittenFrom(anchor, s, forecasts[m])
          PROVE  DOMAIN forecasts'[m] = Offsets /\ \A o \in Offsets : Dated(forecasts'[m][o])
      <4>1. DOMAIN forecasts'[m] = Offsets
        BY <3>2 DEF WrittenFrom
      <4>2. ASSUME NEW o \in Offsets PROVE Dated(forecasts'[m][o])
        <5>1. forecasts'[m][o] = forecasts[m][o] \/ JustMade(forecasts'[m][o])
          BY <3>2, WrittenRow
        <5>2. Dated(forecasts[m][o])
          BY DEF DatedRows
        <5> QED
          BY <5>1, <5>2, JustMadeIsDated
      <4> QED
        BY <4>1, <4>2
    <3> QED
      BY <1>3, <3>1, <3>2, RunsAreRewritten DEF RunOf, DatedRows
  <2> QED
    BY <1>3, <2>1, RunsAreRewritten DEF DatedRows
<1>4. ASSUME MarkStale PROVE Rows
  <2>1. PICK day_old \in BOOLEAN :
           forecasts' = [m \in Markets |-> [o \in Offsets |-> Swept(forecasts[m][o], day_old)]]
    BY <1>4, SweepsAreSwept
  <2> QED
    BY <2>1, SweptKeepsAge DEF DatedRows
<1>5. Rows
  BY <1>1, <1>2, <1>3, <1>4 DEF Next, Publish, vars
<1> QED
  BY <1>5, PricesStayRows DEF DatedRows

LEMMA NothingForecastYet == ASSUME Init PROVE DatedRows /\ NearerIsNewer
BY DEF Init, DatedRows, NearerIsNewer, Dated

\* A row, if there is one, is no older than that of a later day.
NoOlder(row, later) == row # None => row.made <= later.made

\* A price is dated that many days ahead, or more.
PriceAhead(i, m) == \E r \in InMarket(prices, m) : r.age <= -i

\* A price that is dated ahead stays, whatever is corrected.
LEMMA AheadStays ==
  ASSUME DatedRows, [Next]_vars, ~NextDay, NEW m \in Markets, NEW i \in Nat, PriceAhead(i, m)
  PROVE  PriceAhead(i, m)'
<1>1. PICK r \in prices : r.market = m /\ r.age <= -i
  BY DEF PriceAhead, InMarket
<1>2. CASE UNCHANGED prices
  BY <1>2 DEF PriceAhead, InMarket
<1>3. ASSUME NEW q \in Quotes, Publish(q) PROVE PriceAhead(i, m)'
  <2>1. \E x \in prices' : x.market = m /\ x.age <= -i
    BY <1>1, <1>3 DEF Publish, SameKey
  <2> QED BY <2>1 DEF PriceAhead, InMarket
<1> QED BY <1>2, <1>3 DEF Next, Forecast, MarkStale, vars

LEMMA NearerStaysNewer ==
  ASSUME DatedRows, NearerIsNewer, [Next]_vars
  PROVE  NearerIsNewer'
<1> SUFFICES ASSUME NEW m \in Markets, NEW i \in Offsets \ {0}, NEW j \in Offsets \ {0},
                    i < j, forecasts'[m][j] # None
             PROVE  NoOlder(forecasts'[m][i], forecasts'[m][j]) \/ PriceAhead(i, m)'
  BY DEF NearerIsNewer, NoOlder, PriceAhead
<1>9. forecasts'[m][j] # None
  OBVIOUS
<1>0. i \in Nat /\ j \in Nat /\ 0 < i /\ \A o \in Offsets : o \in Nat
  BY DEF Offsets
<1> DEFINE old == forecasts[m]
<1> DEFINE new == forecasts'[m]
<1> DEFINE Goal == NoOlder(new[i], new[j]) \/ PriceAhead(i, m)'
<1>5. /\ Dated(old[i]) /\ Dated(old[j])
      /\ old[j] # None => NoOlder(old[i], old[j]) \/ PriceAhead(i, m)
  BY DEF DatedRows, NearerIsNewer, NoOlder, PriceAhead
<1>1. ASSUME UNCHANGED forecasts, ~NextDay PROVE Goal
  BY <1>0, <1>1, <1>5, AheadStays
<1>2. ASSUME NextDay PROVE Goal
  <2>1. /\ \A o \in Offsets : new[o] = IF o + 1 \in Offsets THEN Older(old[o + 1]) ELSE None
        /\ prices' = {[r EXCEPT !.age = @ + 1] : r \in {q \in prices : q.age < HISTORY_DAYS}}
    BY <1>2 DEF NextDay
  <2>2. j + 1 \in Offsets /\ new[j] = Older(old[j + 1])
    BY <2>1
  <2>3. i + 1 \in Offsets
    BY <1>0, <2>2, ForecastAssumption, MandiAssumption DEF Offsets
  <2>4. new[i] = Older(old[i + 1]) /\ i + 1 # 0 /\ j + 1 # 0 /\ i + 1 < j + 1
    BY <1>0, <2>1, <2>3
  <2>5. Dated(old[i + 1]) /\ Dated(old[j + 1])
    BY <2>2, <2>3 DEF DatedRows
  <2>6. old[j + 1] # None
    BY <2>2, <2>5, OlderIsDated
  <2>7. CASE NoOlder(old[i + 1], old[j + 1])
    <3> SUFFICES ASSUME new[i] # None PROVE new[i].made <= new[j].made
      BY DEF NoOlder
    <3>1. old[i + 1] # None
      BY <2>4, <2>5, OlderIsDated
    <3>2. /\ old[i + 1].made <= old[j + 1].made
          /\ old[i + 1].made \in Nat /\ old[j + 1].made \in Nat
      BY <2>5, <2>6, <2>7, <3>1 DEF NoOlder, Dated
    <3>3. new[i].made = old[i + 1].made + 1 /\ new[j].made = old[j + 1].made + 1
      BY <2>2, <2>4, <2>5, <2>6, <3>1, OlderIsDated
    <3> QED BY <3>2, <3>3
  <2>8. CASE PriceAhead(i + 1, m)
    <3>1. PICK r \in prices : r.market = m /\ r.age <= -(i + 1)
      BY <2>8 DEF PriceAhead, InMarket
    <3> DEFINE x == [r EXCEPT !.age = @ + 1]
    <3>2. r \in PriceRows /\ r.age \in Int /\ HISTORY_DAYS \in Nat
      BY MandiAssumption DEF DatedRows, PriceRows
    <3>3. r.age < HISTORY_DAYS /\ r.age + 1 <= -i
      BY <1>0, <3>1, <3>2
    <3>4. x \in prices'
      BY <2>1, <3>3
    <3>5. x.market = m /\ x.age = r.age + 1
      BY <3>1, <3>2 DEF PriceRows
    <3> HIDE DEF x
    <3> QED BY <3>3, <3>4, <3>5 DEF PriceAhead, InMarket
  <2>9. NoOlder(old[i + 1], old[j + 1]) \/ PriceAhead(i + 1, m)
    BY <2>2, <2>3, <2>4, <2>6 DEF NearerIsNewer, NoOlder, PriceAhead
  <2> QED BY <2>7, <2>8, <2>9
<1>3. ASSUME NEW failed, Forecast(failed) PROVE Goal
  <2>0. prices' = prices /\ (PriceAhead(i, m) => PriceAhead(i, m)')
    BY <1>3 DEF Forecast, PriceAhead, InMarket
  <2>1. CASE new = old
    BY <2>0, <2>1, <1>5
  <2>2. ASSUME NEW s, NEW anchor \in Nat, new = WrittenFrom(anchor, s, old),
               anchor # 0 => \E r \in InMarket(prices, m) : r.age = -anchor
        PROVE  Goal
    <3>1. CASE i <= anchor
      <4>1. PICK r \in InMarket(prices, m) : r.age = -anchor
        BY <1>0, <2>2, <3>1
      <4>2. r.age <= -i
        BY <1>0, <3>1, <4>1
      <4> QED BY <2>0, <4>2 DEF PriceAhead
    <3>2. CASE anchor < i
      <4>1. JustMade(new[i]) \/ (new[i] = old[i] /\ new[j] = old[j])
        BY <2>2, <3>2, WrittenRows
      <4>2. new[j] = old[j] \/ JustMade(new[j])
        BY <2>2, WrittenRow
      <4>3. Dated(new[j])
        BY <1>5, <4>2, JustMadeIsDated
      <4>4. CASE JustMade(new[i])
        <5>1. new[i].made = 0 /\ (new[j] # None => new[j].made \in Nat)
          BY <4>3, <4>4, JustMadeIsDated DEF Dated
        <5> QED BY <1>9, <5>1 DEF NoOlder
      <4> QED BY <1>5, <2>0, <4>1, <4>4
    <3> QED BY <1>0, <3>1, <3>2
  <2> QED
    BY <1>3, <2>1, <2>2, RunsAreRewritten DEF RunOf, DatedRows
<1>4. ASSUME MarkStale PROVE Goal
  <2>1. PICK day_old \in BOOLEAN :
          new[i] = Swept(old[i], day_old) /\ new[j] = Swept(old[j], day_old)
    BY <1>4, SweepsAreSwept
  <2>2. old[j] # None /\ new[j].made = old[j].made
    BY <2>1, <1>5, SweptKeepsAge
  <2>3. prices' = prices /\ (PriceAhead(i, m) => PriceAhead(i, m)')
    BY <1>4 DEF MarkStale, PriceAhead, InMarket
  <2>4. CASE NoOlder(old[i], old[j])
    <3> SUFFICES ASSUME new[i] # None PROVE new[i].made <= new[j].made
      BY DEF NoOlder
    <3>1. old[i] # None /\ new[i].made = old[i].made
      BY <2>1, <1>5, SweptKeepsAge
    <3> QED BY <2>2, <2>4, <3>1 DEF NoOlder
  <2> QED
    BY <1>5, <2>2, <2>3, <2>4
<1> QED
  BY <1>1, <1>2, <1>3, <1>4 DEF Next, Publish, NextDay, vars

LEMMA RowsAreDated == Spec => []DatedRows
<1>1. Init => DatedRows
  BY NothingForecastYet
<1>2. DatedRows /\ [Next]_vars => DatedRows'
  BY RowsStayDated
<1> QED
  BY <1>1, <1>2, PTL DEF Spec

\* Whatever runs, failures, thin series, days without prices and sweeps alternate, for any
\* horizon and any markets: a nearer day's row comes from no older run, unless a price of the
\* market is dated on that day or later (the anchor in _make_forecast_rows).
THEOREM NearerDaysAreNewer == Spec => []NearerIsNewer
<1>1. Init => NearerIsNewer
  BY NothingForecastYet
<1>2. DatedRows /\ NearerIsNewer /\ [Next]_vars => NearerIsNewer'
  BY NearerStaysNewer
<1> QED
  BY <1>1, <1>2, RowsAreDated, PTL DEF Spec

-----------------------------------------------------------------------------
(***************************************************************************)
(* What becomes visible, and what is hidden                                *)
(***************************************************************************)
\* Whatever is new in sight was made now, for a day to come.
NewInSight ==
  \A m \in Markets, o \in Offsets :
    IsOk(forecasts'[m][o]) /\ forecasts'[m][o] # forecasts[m][o]
      => o > 0 /\ forecasts'[m][o].made = 0

\* A sweep hides all that is old and nothing that is new.
HidesTheOld ==
  \A m \in Markets, o \in Offsets : IsOk(forecasts[m][o]) =>
    /\ IsOk(forecasts'[m][o]) => forecasts[m][o].made <= 1
    /\ forecasts[m][o].made = 0 => IsOk(forecasts'[m][o])

LEMMA RunsBringTheNew == ASSUME DatedRows, NEW failed, Forecast(failed) PROVE NewInSight
<1> SUFFICES ASSUME NEW m \in Markets, NEW o \in Offsets,
                    IsOk(forecasts'[m][o]), forecasts'[m][o] # forecasts[m][o]
             PROVE  o > 0 /\ forecasts'[m][o].made = 0
  BY DEF NewInSight
<1>0. prices \subseteq PriceRows
  BY DEF DatedRows
<1>1. PICK s : \E anchor \in Nat : forecasts'[m] = WrittenFrom(anchor, s, forecasts[m])
  BY <1>0, RunsAreRewritten DEF RunOf
<1>2. PICK anchor \in Nat : forecasts'[m] = WrittenFrom(anchor, s, forecasts[m])
  BY <1>1
<1>3. ~IsOk(Insufficient)
  BY DEF IsOk, Insufficient
<1>4. o \in Int
  BY DEF Offsets
<1>5. /\ o <= anchor => forecasts'[m][o] = forecasts[m][o]
      /\ forecasts'[m][o] = forecasts[m][o] \/ JustMade(forecasts'[m][o])
  BY <1>2, WrittenRow
<1>6. o > 0 /\ JustMade(forecasts'[m][o])
  BY <1>4, <1>5
<1> QED
  BY <1>6, JustMadeIsDated

LEMMA SweepsOnlyHide == ASSUME DatedRows, MarkStale PROVE NewInSight /\ HidesTheOld
<1>1. PICK day_old \in BOOLEAN : \A m \in Markets, o \in Offsets :
         forecasts'[m][o] = Swept(forecasts[m][o], day_old)
  BY SweepsAreSwept
<1>2. NewInSight
  BY <1>1, SweptKeepsAge DEF DatedRows, NewInSight
<1>3. ASSUME NEW m \in Markets, NEW o \in Offsets, IsOk(forecasts[m][o])
      PROVE  /\ IsOk(forecasts'[m][o]) => forecasts[m][o].made <= 1
             /\ forecasts[m][o].made = 0 => IsOk(forecasts'[m][o])
  <2> DEFINE row == forecasts[m][o]
  <2>1. row.made \in Nat /\ Dated(row)
    BY <1>3 DEF DatedRows, Dated, IsOk
  <2>2. CASE Stale(row, day_old)
    <3>1. Swept(row, day_old) # row
      BY <2>1, <2>2 DEF Swept, Stale, IsOk, Dated
    <3>2. ~IsOk(forecasts'[m][o])
      BY <1>1, <2>1, <3>1, SweptKeepsAge
    <3> QED
      BY <2>1, <2>2, <3>2 DEF Stale
  <2>3. CASE ~Stale(row, day_old)
    <3>1. forecasts'[m][o] = row
      BY <1>1, <2>3 DEF Swept
    <3> QED
      BY <1>3, <2>1, <2>3, <3>1 DEF Stale
  <2> QED
    BY <2>2, <2>3
<1> QED
  BY <1>2, <1>3 DEF HidesTheOld

\* For any horizon and any markets, however runs and sweeps alternate: a forecast comes into
\* sight only by being made, and a sweep hides those of before yesterday and none of today's
\* (mark_stale_forecasts beside the upserts of ForecastEngine.run).
THEOREM ForecastsAreFreshOrHidden == Spec => FreshOrHidden
<1>1. ASSUME DatedRows, [Next]_vars
      PROVE  [(~NextDay => NewInSight) /\ (MarkStale => HidesTheOld)]_vars
  <2>1. ASSUME UNCHANGED forecasts PROVE NewInSight
    BY <2>1 DEF NewInSight
  <2>2. MarkStale => HidesTheOld
    BY <1>1, SweepsOnlyHide
  <2>3. ASSUME Next, ~NextDay PROVE NewInSight
    BY <1>1, <2>1, <2>3, RunsBringTheNew, SweepsOnlyHide DEF Next, Publish
  <2> QED
    BY <1>1, <2>2, <2>3
<1>2. [(~NextDay => NewInSight) /\ (MarkStale => HidesTheOld)]_vars
        => [/\ ~NextDay => \A m \in Markets, o \in Offsets :
                 IsOk(forecasts'[m][o]) /\ forecasts'[m][o] # forecasts[m][o]
                   => o > 0 /\ forecasts'[m][o].made = 0
            /\ MarkStale => \A m \in Markets, o \in Offsets : IsOk(forecasts[m][o]) =>
                 /\ IsOk(forecasts'[m][o]) => forecasts[m][o].made <= 1
                 /\ forecasts[m][o].made = 0 => IsOk(forecasts'[m][o])]_vars
  BY DEF NewInSight, HidesTheOld
<1> QED
  BY <1>1, <1>2, RowsAreDated, PTL DEF Spec, FreshOrHidden

-----------------------------------------------------------------------------
(***************************************************************************)
(* What a row and an advice say                                            *)
(***************************************************************************)
\* Whatever the models predict, however wide the margin and wherever the band lies, the
\* bounds of the row enclose its prediction and keep to the band (_make_forecast_rows).
THEOREM RowIsSound ==
  ASSUME NEW p \in Int, NEW width \in Nat
  PROVE  Encloses(Row(p, width, Band)) /\ InBand(Row(p, width, Band), Band)
<1> DEFINE low == Band.min
<1> DEFINE high == Band.max
<1> DEFINE predicted == Clamp(p, Band)
<1> DEFINE lower == AtLeast(predicted - width, 0)
<1> DEFINE row == Row(p, width, Band)
<1>1. low \in Int /\ high \in Int /\ Band # NoBand /\ 0 <= low /\ low <= high
  BY MandiAssumption DEF ProperBand
<1> HIDE DEF low, high
<1>2. ASSUME NEW x \in Int
      PROVE  /\ Clamp(x, Band) = AtLeast(AtMost(high, x), low)
             /\ Clamp(x, Band) \in Int /\ low <= Clamp(x, Band) /\ Clamp(x, Band) <= high
  <2>1. Clamp(x, Band) = AtLeast(AtMost(high, x), low)
    BY <1>1 DEF Clamp, low, high
  <2> QED
    BY <1>1, <2>1 DEF AtLeast, AtMost
<1>3. predicted \in Int /\ low <= predicted /\ predicted <= high
  BY <1>2
<1> HIDE DEF predicted
<1>4. lower \in Int
  BY <1>3 DEF AtLeast
<1> HIDE DEF lower
<1>5. /\ row.predicted = predicted
      /\ row.lower = AtLeast(AtMost(Clamp(lower, Band), predicted), 0)
      /\ row.upper = AtLeast(Clamp(predicted + width, Band), predicted)
  BY <1>1 DEF Row, predicted, lower
<1> HIDE DEF row
<1>6. low <= Clamp(lower, Band) /\ Clamp(lower, Band) \in Int
  BY <1>2, <1>4
<1>7. Clamp(predicted + width, Band) <= high /\ Clamp(predicted + width, Band) \in Int
  BY <1>2, <1>3
<1>8. 0 <= row.lower /\ row.lower <= predicted /\ low <= row.lower
  BY <1>1, <1>3, <1>5, <1>6 DEF AtLeast, AtMost
<1>9. predicted <= row.upper /\ row.upper <= high
  BY <1>1, <1>3, <1>5, <1>7 DEF AtLeast
<1> QED
  BY <1>5, <1>8, <1>9 DEF Encloses, InBand, row, low, high

\* No forecast counts as rising and as falling at once, whichever rows its two predictions
\* are from, as long as the latest price is positive (forecast_up, forecast_down).
THEOREM UpIsNotDown ==
  ASSUME NEW day1 \in Int \cup {Unknown}, NEW last \in Int \cup {Unknown},
         NEW latest \in Int, latest > 0
  PROVE  ~(ForecastUp(day1, last, latest) /\ ForecastDown(day1, last, latest))
BY SaleWindowAssumption DEF ForecastUp, ForecastDown

LEMMA Cascade ==
  ASSUME NEW glut, NEW storage, NEW up, NEW down
  PROVE  LET code == ReasonCode(glut, storage, up, down)
         IN /\ code = "hold" => storage /\ up
            /\ code = "sell_no_storage" => ~storage
            /\ glut => code \in {"sell_no_storage", "hold", "sell_arrivals"}
BY DEF ReasonCode

\* A glut is held only with storage and a recovery in sight, and never waited out.
THEOREM GlutIsNotWaitedOut == GlutHeldOnlyToRecover
<1> SUFFICES ASSUME NEW scope \in Scopes, NEW v \in ViewsOf(scope),
                    NEW gs \in SUBSET Godowns,
                    NEW storage \in StorageAnswers(gs), v.supply = "high"
             PROVE  LET action == Action(Code(v, storage))
                    IN action = "SELL_NOW" \/ (action = "HOLD" /\ v.up /\ storage)
  BY DEF GlutHeldOnlyToRecover, AnyAdvice
<1> QED
  BY Cascade DEF Code, Action

LEMMA SomeOfTheList ==
  ASSUME NEW gs, NEW storage \in StorageAnswers(gs), storage
  PROVE  \E g \in gs : Near(g)
<1>1. PICK read \in kSubset(Min({STORAGE_LIMIT, Cardinality(gs)}), gs) :
         storage = \E g \in read : Near(g)
  BY DEF StorageAnswers
<1> QED
  BY <1>1 DEF kSubset

\* A query whose limit is not reached returns the whole list.
LEMMA AllOfTheList ==
  ASSUME NEW gs \in SUBSET Godowns, Cardinality(gs) <= STORAGE_LIMIT,
         NEW storage \in StorageAnswers(gs)
  PROVE  storage <=> \E g \in gs : Near(g)
<1>1. IsFiniteSet(gs)
  BY MandiAssumption, FS_Subset
<1>2. Cardinality(gs) \in Nat /\ STORAGE_LIMIT \in Nat
  BY <1>1, FS_CardinalityType, SaleWindowAssumption
<1>3. Min({STORAGE_LIMIT, Cardinality(gs)}) = Cardinality(gs)
  BY <1>2 DEF Min
<1>4. kSubset(Cardinality(gs), gs) = {gs}
  <2>1. \A r \in SUBSET gs : Cardinality(r) = Cardinality(gs) => r = gs
    BY <1>1, FS_Subset
  <2> QED
    BY <2>1 DEF kSubset
<1>5. StorageAnswers(gs) = {\E g \in read : Near(g) : read \in {gs}}
  BY <1>3, <1>4 DEF StorageAnswers
<1> QED
  BY <1>5

\* For any list of godowns: who is told to book one has one in reach, and who is told that
\* there is none has none, unless the list is longer than the query's limit.
THEOREM StorageIsThere == StorageToldIsThere
<1> SUFFICES ASSUME NEW scope \in Scopes, NEW v \in ViewsOf(scope),
                    NEW gs \in SUBSET Godowns,
                    NEW storage \in StorageAnswers(gs)
             PROVE  /\ \A booked \in SUBSET {"storage", "transport"} :
                         NextStep(Action(Code(v, storage)), booked) = "book_storage"
                           => \E g \in gs : Near(g)
                    /\ Code(v, storage) = "sell_no_storage" /\ Cardinality(gs) <= STORAGE_LIMIT
                         => \A g \in gs : ~Near(g)
  BY DEF StorageToldIsThere, AnyAdvice
<1>1. /\ Code(v, storage) = "hold" => storage
      /\ Code(v, storage) = "sell_no_storage" => ~storage
  BY Cascade DEF Code
<1>2. ASSUME NEW booked, NextStep(Action(Code(v, storage)), booked) = "book_storage"
      PROVE  \E g \in gs : Near(g)
  <2>1. Action(Code(v, storage)) = "HOLD"
    BY <1>2 DEF NextStep, Action
  <2>2. Code(v, storage) = "hold"
    BY <2>1 DEF Action
  <2> QED
    BY <1>1, <2>2, SomeOfTheList
<1> QED
  BY <1>1, <1>2, AllOfTheList

\* One more godown on a list within the limit makes nobody sell who was told to hold or wait.
THEOREM ListingIsHarmless == ListingNeverForcesSale
<1> SUFFICES ASSUME NEW scope \in Scopes, NEW v \in ViewsOf(scope),
                    NEW gs \in SUBSET Godowns,
                    NEW storage \in StorageAnswers(gs), NEW g \in Godowns,
                    Action(Code(v, storage)) # "SELL_NOW",
                    Cardinality(gs \cup {g}) <= STORAGE_LIMIT,
                    NEW more \in StorageAnswers(gs \cup {g})
             PROVE  Action(Code(v, more)) # "SELL_NOW"
  BY DEF ListingNeverForcesSale, AnyAdvice
<1>1. more <=> \E k \in gs \cup {g} : Near(k)
  BY AllOfTheList
<1>2. storage => more
  BY <1>1, SomeOfTheList
<1>3. Code(v, storage) \in {"hold", "wait"}
  BY DEF Action
<1> QED
  BY <1>2, <1>3 DEF Code, ReasonCode, Action

-----------------------------------------------------------------------------
(***************************************************************************)
(* What stands in the tables                                               *)
(***************************************************************************)
LEMMA RowIsTyped ==
  ASSUME NEW p \in Int, NEW width \in Nat
  PROVE  Row(p, width, Band) \in [predicted : Int, lower : Int, upper : Int]
<1>1. Band.min \in Int /\ Band.max \in Int /\ Band # NoBand
  BY MandiAssumption
<1>2. ASSUME NEW x \in Int PROVE Clamp(x, Band) \in Int
  BY <1>1 DEF Clamp, AtLeast, AtMost
<1> DEFINE predicted == Clamp(p, Band)
           lower == AtLeast(predicted - width, 0)
<1>3. predicted \in Int
  BY <1>2
<1>4. lower \in Int /\ predicted + width \in Int
  BY <1>3 DEF AtLeast
<1>5. Clamp(lower, Band) \in Int /\ Clamp(predicted + width, Band) \in Int
  BY <1>2, <1>4
<1>6. Row(p, width, Band) = [predicted |-> predicted,
        lower |-> AtLeast(AtMost(Clamp(lower, Band), predicted), 0),
        upper |-> AtLeast(Clamp(predicted + width, Band), predicted)]
  BY <1>1 DEF Row
<1>7. /\ AtLeast(AtMost(Clamp(lower, Band), predicted), 0) \in Int
      /\ AtLeast(Clamp(predicted + width, Band), predicted) \in Int
  BY <1>3, <1>5 DEF AtLeast, AtMost
<1> QED BY <1>3, <1>6, <1>7

\* A row that a farmer may be shown, or one that says that the days are too few.
SoundRow(row) ==
  \/ row = None
  \/ row \in [status : {"insufficient_data"}, made : Nat]
  \/ /\ row \in [status : {"ok", "stale"}, made : Nat,
                 predicted : Int, lower : Int, upper : Int]
     /\ Encloses(row) /\ InBand(row, Band)

LEMMA NewRowsAreSound ==
  ASSUME NEW s \in Seq(Int)
  PROVE  /\ SoundRow(None) /\ SoundRow(Insufficient)
         /\ Tier(Len(s)) # "none" =>
              \A h \in 1 .. HORIZON_DAYS : SoundRow(Ok(Predictions(s, Band)[h]))
<1>1. SoundRow(None) /\ SoundRow(Insufficient)
  BY DEF SoundRow, Insufficient
<1>2. ASSUME Tier(Len(s)) # "none", NEW h \in 1 .. HORIZON_DAYS
      PROVE  SoundRow(Ok(Predictions(s, Band)[h]))
  <2>1. PICK p \in Int, width \in Nat : Predictions(s, Band)[h] = Row(p, width, Band)
    BY <1>2, PredictionsAreRows
  <2> DEFINE r == Row(p, width, Band)
  <2>2. r \in [predicted : Int, lower : Int, upper : Int]
    BY RowIsTyped
  <2>3. Encloses(r) /\ InBand(r, Band)
    BY RowIsSound
  <2> HIDE DEF r
  <2>4. Ok(r) = [status |-> "ok", made |-> 0,
                 predicted |-> r.predicted, lower |-> r.lower, upper |-> r.upper]
    BY DEF Ok
  <2>5. Ok(r) \in [status : {"ok", "stale"}, made : Nat,
                   predicted : Int, lower : Int, upper : Int]
    BY <2>2, <2>4
  <2>6. Encloses(Ok(r)) /\ InBand(Ok(r), Band)
    BY <2>3, <2>4 DEF Encloses, InBand
  <2> QED BY <2>1, <2>5, <2>6 DEF SoundRow, r
<1> QED BY <1>1, <1>2

LEMMA SoundRowsStaySound ==
  ASSUME NEW row, SoundRow(row), NEW day_old \in BOOLEAN
  PROVE  SoundRow(Older(row)) /\ SoundRow(Swept(row, day_old))
<1>1. CASE row = None
  BY <1>1 DEF SoundRow, Older, Swept, Stale, IsOk
<1>2. CASE row # None /\ row \in [status : {"insufficient_data"}, made : Nat]
  BY <1>2 DEF SoundRow, Older, Swept, Stale, IsOk
<1>3. CASE /\ row # None
           /\ row \in [status : {"ok", "stale"}, made : Nat,
                       predicted : Int, lower : Int, upper : Int]
           /\ Encloses(row) /\ InBand(row, Band)
  <2> DEFINE kind == [status : {"ok", "stale"}, made : Nat,
                      predicted : Int, lower : Int, upper : Int]
  <2>1. ASSUME NEW new \in kind, new.predicted = row.predicted,
               new.lower = row.lower, new.upper = row.upper
        PROVE  SoundRow(new)
    BY <1>3, <2>1 DEF SoundRow, Encloses, InBand
  <2>2. SoundRow(Older(row))
    <3>1. Older(row) = [row EXCEPT !.made = row.made + 1]
      BY <1>3 DEF Older
    <3>2. Older(row) \in kind /\ Older(row).predicted = row.predicted
          /\ Older(row).lower = row.lower /\ Older(row).upper = row.upper
      BY <1>3, <3>1
    <3> HIDE DEF kind
    <3> QED BY <2>1, <3>2
  <2>3. SoundRow(Swept(row, day_old))
    <3>1. CASE Stale(row, day_old)
      <4>1. Swept(row, day_old) = [row EXCEPT !.status = "stale"]
        BY <3>1 DEF Swept
      <4>2. Swept(row, day_old) \in kind /\ Swept(row, day_old).predicted = row.predicted
            /\ Swept(row, day_old).lower = row.lower /\ Swept(row, day_old).upper = row.upper
        BY <1>3, <4>1
      <4> HIDE DEF kind
      <4> QED BY <2>1, <4>2
    <3>2. CASE ~Stale(row, day_old)
      BY <3>2 DEF Swept
    <3> QED BY <3>1, <3>2
  <2> QED BY <2>2, <2>3
<1> QED BY <1>1, <1>2, <1>3 DEF SoundRow

-----------------------------------------------------------------------------
\* Proper prices, and for every market and offset a sound row or none.
TablesSound ==
  /\ prices \subseteq PriceRows
  /\ DOMAIN forecasts = Markets
  /\ \A m \in Markets : DOMAIN forecasts[m] = Offsets
  /\ \A m \in Markets, o \in Offsets : SoundRow(forecasts[m][o])

LEMMA TablesStartSound == ASSUME Init PROVE TablesSound
BY DEF Init, TablesSound, SoundRow

LEMMA RowsStaySound ==
  ASSUME TablesSound, [Next]_vars
  PROVE  /\ DOMAIN forecasts' = Markets
         /\ \A m \in Markets : DOMAIN forecasts'[m] = Offsets
         /\ \A m \in Markets, o \in Offsets : SoundRow(forecasts'[m][o])
<1> DEFINE Sound == /\ DOMAIN forecasts' = Markets
                    /\ \A m \in Markets : DOMAIN forecasts'[m] = Offsets
                    /\ \A m \in Markets, o \in Offsets : SoundRow(forecasts'[m][o])
<1>1. ASSUME UNCHANGED forecasts PROVE Sound
  BY <1>1 DEF TablesSound
<1>2. ASSUME NextDay PROVE Sound
  <2>1. forecasts' = [m \in Markets |-> [o \in Offsets |->
           IF o + 1 \in Offsets THEN Older(forecasts[m][o + 1]) ELSE None]]
    BY <1>2 DEF NextDay
  <2>2. SoundRow(None)
    BY DEF SoundRow
  <2> QED BY <2>1, <2>2, SoundRowsStaySound DEF TablesSound
<1>3. ASSUME NEW failed, Forecast(failed) PROVE Sound
  <2>1. PICK ss :
          /\ \A m \in Markets : ss[m] \in DailySeries(InMarket(prices, m))
          /\ forecasts' = [m \in Markets |->
               IF m \in failed \/ ss[m] = <<>> THEN forecasts[m]
               ELSE Rewritten(ss[m], Min(AgesOf(InMarket(prices, m))), forecasts[m])]
    BY <1>3 DEF Forecast
  <2>2. ASSUME NEW m \in Markets, NEW age
        PROVE  /\ DOMAIN Rewritten(ss[m], age, forecasts[m]) = Offsets
               /\ \A o \in Offsets : SoundRow(Rewritten(ss[m], age, forecasts[m])[o])
    <3> DEFINE s == ss[m]
               old == forecasts[m]
               ok == Predictions(s, Band)
               anchor == IF age < 0 THEN -age ELSE 0
               new == WrittenFrom(anchor, s, old)
    <3>1. s \in Seq(Int)
      <4>1. InMarket(prices, m) \in SUBSET PriceRows
        BY DEF InMarket, TablesSound
      <4> QED BY <2>1, <4>1, SeriesArePrices
    <3>2. \A o \in Offsets : SoundRow(old[o])
      BY DEF TablesSound
    <3>3. Rewritten(ss[m], age, forecasts[m]) = new
      BY DEF Rewritten
    <3> HIDE DEF s, old, anchor
    <3>4. SoundRow(Insufficient)
      BY <3>1, NewRowsAreSound
    <3>5. CASE Tier(Len(s)) = "none"
      <4>1. new = [o \in Offsets |-> IF o - anchor \notin 1 .. 1 THEN old[o] ELSE Insufficient]
        BY <3>5 DEF WrittenFrom
      <4> HIDE DEF new
      <4>2. DOMAIN new = Offsets /\ \A o \in Offsets : SoundRow(new[o])
        BY <3>2, <3>4, <4>1
      <4> QED BY <3>3, <4>2
    <3>6. CASE Tier(Len(s)) # "none"
      <4>1. new = [o \in Offsets |-> IF o - anchor \notin 1 .. HORIZON_DAYS THEN old[o]
                                     ELSE Ok(ok[o - anchor])]
        BY <3>6 DEF WrittenFrom
      <4>2. \A h \in 1 .. HORIZON_DAYS : SoundRow(Ok(ok[h]))
        BY <3>1, <3>6, NewRowsAreSound
      <4> HIDE DEF ok, new
      <4>3. DOMAIN new = Offsets /\ \A o \in Offsets : SoundRow(new[o])
        BY <3>2, <4>1, <4>2
      <4> QED BY <3>3, <4>3
    <3> QED BY <3>5, <3>6
  <2> QED BY <2>1, <2>2 DEF TablesSound
<1>4. ASSUME MarkStale PROVE Sound
  <2>1. PICK day_old \in BOOLEAN :
           forecasts' = [m \in Markets |-> [o \in Offsets |-> Swept(forecasts[m][o], day_old)]]
    BY <1>4, SweepsAreSwept
  <2> QED BY <2>1, SoundRowsStaySound DEF TablesSound
<1> QED BY <1>1, <1>2, <1>3, <1>4 DEF Next, Publish, vars

LEMMA TablesAreSound == Spec => []TablesSound
<1>1. Init => TablesSound
  BY TablesStartSound
<1>2. TablesSound /\ [Next]_vars => TablesSound'
  BY PricesStayRows, RowsStaySound DEF TablesSound
<1> QED BY <1>1, <1>2, PTL DEF Spec

\* Whatever the prices, windows, horizon, markets and band: what stands in public.forecasts
\* is of its type, and every prediction lies within its bounds and those within the band.
LEMMA SoundTablesHold == ASSUME TablesSound PROVE TypeOK /\ BoundsHold
<1>1. TypeOK
  <2>1. ASSUME NEW r \in prices
        PROVE  /\ r.market \in Markets /\ r.source \in Sources
               /\ r.age \in -MAX_AHEAD .. HISTORY_DAYS
    BY DEF TablesSound, PriceRows
  <2>2. ASSUME NEW m \in Markets, NEW o \in Offsets, forecasts[m][o] # None
        PROVE  /\ forecasts[m][o].status \in {"ok", "insufficient_data", "stale"}
               /\ forecasts[m][o].made \in Nat
    <3>1. SoundRow(forecasts[m][o])
      BY DEF TablesSound
    <3> QED BY <2>2, <3>1 DEF SoundRow
  <2> QED BY <2>1, <2>2 DEF TypeOK, TablesSound
<1>2. ASSUME NEW m \in Markets, NEW o \in Offsets, forecasts[m][o] # None,
             forecasts[m][o].status # "insufficient_data"
      PROVE  Encloses(forecasts[m][o]) /\ InBand(forecasts[m][o], Band)
  <2>1. SoundRow(forecasts[m][o])
    BY DEF TablesSound
  <2> QED BY <1>2, <2>1 DEF SoundRow
<1> QED BY <1>1, <1>2 DEF BoundsHold

-----------------------------------------------------------------------------
(***************************************************************************)
(* What the series and the fit make of the prices                          *)
(***************************************************************************)
LEMMA FitIsLeastSquaresOfAll == ASSUME TablesSound PROVE FitIsLeastSquares
<1> SUFFICES ASSUME NEW m \in Markets, NEW s \in DailySeries(InMarket(prices, m))
             PROVE  LET r == Residuals(LastOf(s, OLS_FIT_WINDOW))
                    IN SumOf(r) = 0 /\ SumOf([i \in DOMAIN r |-> i * r[i]]) = 0
  BY DEF FitIsLeastSquares
<1>1. s \in Seq(Int)
  <2>1. InMarket(prices, m) \in SUBSET PriceRows
    BY DEF InMarket, TablesSound
  <2> QED BY <2>1, SeriesArePrices
<1>2. LastOf(s, OLS_FIT_WINDOW) \in Seq(Int)
  BY <1>1, ForecastAssumption, LastOfIsSequence
<1> QED BY <1>2, FitLeavesNothing

\* A row of a source that another row outranks is not among those a day is made of.
LEMMA OutrankedIsNotChosen ==
  ASSUME NEW rows \in SUBSET PriceRows, NEW new, new.source \in Sources,
         NEW b \in rows, PrecedenceOf[b.source] < PrecedenceOf[new.source]
  PROVE  DayPrices(rows \cup {new}) = DayPrices(rows)
<1>1. \A r \in rows \cup {new} : r.source \in Sources /\ PrecedenceOf[r.source] \in Nat
  BY SeriesAssumption DEF PriceRows
<1>2. Winning(rows \cup {new}) = Winning(rows)
  <2>1. ASSUME NEW r \in Winning(rows \cup {new}) PROVE r \in Winning(rows)
    <3>1. r \in rows \cup {new} /\ PrecedenceOf[r.source] <= PrecedenceOf[b.source]
      BY DEF Winning
    <3>2. r # new
      BY <1>1, <3>1
    <3> QED BY <3>1, <3>2 DEF Winning
  <2>2. ASSUME NEW r \in Winning(rows) PROVE r \in Winning(rows \cup {new})
    <3>1. r \in rows /\ PrecedenceOf[r.source] <= PrecedenceOf[b.source]
      BY DEF Winning
    <3>2. PrecedenceOf[r.source] <= PrecedenceOf[new.source]
      BY <1>1, <3>1
    <3> QED BY <3>1, <3>2 DEF Winning
  <2> QED BY <2>1, <2>2
<1> QED BY <1>2 DEF DayPrices, Chosen

LEMMA LowerSourcesAreSilent == ASSUME TablesSound PROVE LowerSourceIsSilent
<1> SUFFICES ASSUME NEW r \in prices, NEW s \in Sources, NEW q \in Quotes,
                    NEW b \in OnDay(InMarket(prices, r.market), r.age),
                    PrecedenceOf[b.source] < PrecedenceOf[s]
             PROVE  DailySeries(InMarket(prices, r.market) \cup
                                {[r EXCEPT !.source = s, !.price = q.price,
                                           !.general = q.general]})
                      = DailySeries(InMarket(prices, r.market))
  BY DEF LowerSourceIsSilent
<1> DEFINE own == InMarket(prices, r.market)
           new == [r EXCEPT !.source = s, !.price = q.price, !.general = q.general]
           all == own \cup {new}
<1>1. r \in PriceRows /\ own \in SUBSET PriceRows /\ r \in own
  BY DEF TablesSound, InMarket
<1>2. new.age = r.age /\ new.source = s
  BY <1>1 DEF PriceRows
<1> HIDE DEF own, new
<1>3. AgesOf(all) = AgesOf(own)
  BY <1>1, <1>2 DEF AgesOf
<1>4. ASSUME NEW age \in AgesOf(own)
      PROVE  DayPrices(OnDay(all, age)) = DayPrices(OnDay(own, age))
  <2>1. CASE age = r.age
    <3>1. OnDay(all, age) = OnDay(own, age) \cup {new}
      BY <1>2, <2>1 DEF OnDay
    <3>2. OnDay(own, age) \in SUBSET PriceRows /\ b \in OnDay(own, age)
      BY <1>1, <2>1 DEF OnDay, own
    <3> QED BY <1>2, <3>1, <3>2, OutrankedIsNotChosen
  <2>2. CASE age # r.age
    <3>1. OnDay(all, age) = OnDay(own, age)
      BY <1>2, <2>2 DEF OnDay
    <3> QED BY <3>1
  <2> QED BY <2>1, <2>2
<1> HIDE DEF all
<1>5. DailySeries(all) = DailySeries(own)
  BY <1>3, <1>4 DEF DailySeries
<1> QED BY <1>5 DEF own, new, all

\* For any prices, windows, horizon, markets and band: a stored prediction lies within its
\* bounds and those within the band, the line behind it is the least-squares line, and no
\* lesser source changes a day (ForecastEngine.run, build_daily_series, the two models).
THEOREM StoredForecastsAreSound == Spec => []ForecastsAreSound
<1>1. TablesSound => ForecastsAreSound
  BY SoundTablesHold, FitIsLeastSquaresOfAll, LowerSourcesAreSilent
     DEF ForecastsAreSound
<1> QED BY <1>1, TablesAreSound, PTL

-----------------------------------------------------------------------------
\* The predictions that are read are whole numbers, or unknown.
LEMMA ReadPredictions ==
  ASSUME NEW fcs, \A r \in fcs : r.predicted \in Int, NEW fl \in FirstAndLast(fcs)
  PROVE  fl[1] \in Int \cup {Unknown} /\ fl[2] \in Int \cup {Unknown}
<1>1. CASE fcs = {}
  BY <1>1 DEF FirstAndLast
<1>2. CASE fcs # {}
  <2>1. PICK pq \in fcs \X fcs : fl = <<pq[1].predicted, pq[2].predicted>>
    BY <1>2 DEF FirstAndLast
  <2> QED BY <2>1
<1> QED BY <1>1, <1>2

LEMMA RisingIsNotFalling == ASSUME TablesSound PROVE RiseExcludesFall
<1> SUFFICES ASSUME NEW scope \in Scopes, NEW v \in ViewsOf(scope) PROVE ~(v.up /\ v.down)
  BY DEF RiseExcludesFall
<1> DEFINE rows == {r \in Recent : r.market \in InScope(scope)}
           fcs == OkRows(scope)
<1>1. PICK rd \in Readings(rows), fl \in FirstAndLast(fcs) :
         /\ v.up = ForecastUp(fl[1], fl[2], rd.latest.price)
         /\ v.down = ForecastDown(fl[1], fl[2], rd.latest.price)
  BY DEF ViewsOf, Views
<1>2. rd.latest.price \in Int /\ rd.latest.price > 0
  <2>1. PICK f \in FirstRows(rows) : \E m \in DOMAIN f : rd = [latest |-> f[m], first |-> f]
    BY DEF Readings
  <2>2. PICK m \in DOMAIN f : rd = [latest |-> f[m], first |-> f]
    BY <2>1
  <2>3. f[m] \in rows
    <3>1. f \in [{r.market : r \in rows} -> rows]
      BY DEF FirstRows
    <3> HIDE DEF rows
    <3> QED BY <3>1, <2>2
  <2>4. f[m] \in PriceRows
    BY <2>3 DEF Recent, TablesSound
  <2> QED BY <2>2, <2>4 DEF PriceRows
<1>3. \A r \in fcs : r.predicted \in Int
  <2> SUFFICES ASSUME NEW r \in fcs PROVE r.predicted \in Int
    OBVIOUS
  <2>1. PICK m \in InScope(scope), o \in Offsets :
           /\ IsOk(forecasts[m][o])
           /\ r = [market |-> m, offset |-> o, predicted |-> forecasts[m][o].predicted]
    BY DEF OkRows
  <2>2. m \in Markets
    BY DEF InScope
  <2>3. SoundRow(forecasts[m][o])
    BY <2>2 DEF TablesSound
  <2> QED BY <2>1, <2>3 DEF SoundRow, IsOk
<1>4. fl[1] \in Int \cup {Unknown} /\ fl[2] \in Int \cup {Unknown}
  <2> HIDE DEF fcs
  <2> QED BY <1>3, ReadPredictions
<1> QED BY <1>1, <1>2, <1>4, UpIsNotDown

\* Whatever rows of whichever runs, markets and days an advice rests on, and whatever godowns
\* are listed: it contradicts neither the tables nor the list nor itself (compute_sale_window
\* and the next step of lot_advice).
THEOREM EveryAdviceIsSound == Spec => []AdviceIsSound
<1>1. TablesSound => AdviceIsSound
  BY ListingIsHarmless, StorageIsThere, GlutIsNotWaitedOut, RisingIsNotFalling
     DEF AdviceIsSound
<1> QED BY <1>1, TablesAreSound, PTL

-----------------------------------------------------------------------------
(***************************************************************************)
(* Who suits whom                                                          *)
(***************************************************************************)
LEMMA PointsAreWhole ==
  ASSUME NEW n \in Int, NEW condition PROVE Points(condition, n) \in Int
BY DEF Points

\* Scores are whole numbers, and so is what breaks a tie.
LEMMA ScoresAreWhole ==
  ASSUME NEW l \in Lots, NEW b \in Buyers, NEW district
  PROVE  /\ PriceFit(b.max_price, l.asking_price) \in {0, 400, -300}
         /\ Closeness(b.distance) \in Int
         /\ Score(l, district, b) \in Int /\ TieKey(b.distance) \in Nat
<1>1. /\ b.distance \in Nat \cup {Unstated} /\ b.max_price \in Nat \cup {Unstated}
      /\ b.demand \in Nat \cup {Unstated} /\ l.asking_price \in Nat \cup {Unstated}
      /\ l.quantity \in Nat /\ FAR \in Nat
  BY RepliesAssumption, MatchingAssumption
<1>2. PriceFit(b.max_price, l.asking_price) \in {0, 400, -300}
  BY <1>1, MatchingAssumption DEF PriceFit
<1>3. Closeness(b.distance) \in Int
  BY <1>1 DEF Closeness
<1>4. TieKey(b.distance) \in Nat
  BY <1>1 DEF TieKey
<1>5. /\ Points(b.district = district, 25) \in Int /\ Points(TRUE, 15) \in Int
      /\ Points(VolumeFit(b, l), 15) \in Int /\ Points(l.grade \in b.grades, 10) \in Int
      /\ Points(b.reliability = "high", 10) \in Int /\ Points(b.reliability = "low", 15) \in Int
  BY DEF Points
<1>6. PriceFit(b.max_price, l.asking_price) \in Int
  BY <1>2
<1>7. Terms(b, l) \in Int /\ Reliability(b.reliability) \in Int
  BY <1>5, <1>6 DEF Terms, Reliability
<1>8. Score(l, district, b) \in Int
  <2> DEFINE D == Points(b.district = district, 25)
             P == Points(TRUE, 15)
  <2>1. Score(l, district, b) = D + Closeness(b.distance) + P + Terms(b, l)
                                  + Reliability(b.reliability)
    BY DEF Score
  <2>2. D \in Int /\ P \in Int
    BY <1>5
  <2> HIDE DEF D, P
  <2> QED BY <1>3, <1>7, <2>1, <2>2
<1> QED BY <1>2, <1>3, <1>4, <1>8

\* Buyers who differ in nothing but district, distance and bid have all other points alike.
LEMMA OtherPointsAlike ==
  ASSUME NEW l \in Lots, NEW a \in Buyers, NEW b \in Buyers, NEW district,
         Alike(a, b, {"district", "distance", "max_price"})
  PROVE  \E other \in Int : \A x \in {a, b} :
           Score(l, district, x) = Points(x.district = district, 25) + Closeness(x.distance)
                                     + PriceFit(x.max_price, l.asking_price) + other
<1>1. DOMAIN a = {"verified", "commodity", "district", "distance", "max_price", "demand",
                  "reliability", "grades"}
  BY RepliesAssumption
<1>2. a.demand = b.demand /\ a.reliability = b.reliability /\ a.grades = b.grades
  BY <1>1 DEF Alike
<1> DEFINE V == Points(VolumeFit(a, l), 15)
           G == Points(l.grade \in a.grades, 10)
           R == Reliability(a.reliability)
           other == 300 + V + G + R
<1>3. V \in Int /\ G \in Int /\ R \in Int
  BY PointsAreWhole DEF VolumeFit, Reliability
<1>4. ASSUME NEW x \in {a, b}
      PROVE  Score(l, district, x) = Points(x.district = district, 25) + Closeness(x.distance)
                                       + PriceFit(x.max_price, l.asking_price) + other
  <2>1. VolumeFit(x, l) = VolumeFit(a, l) /\ x.grades = a.grades
        /\ x.reliability = a.reliability
    BY <1>2 DEF VolumeFit
  <2>2. Score(l, district, x) = Points(x.district = district, 25) + Closeness(x.distance) + 300
          + (PriceFit(x.max_price, l.asking_price) + V + G) + R
    BY <2>1 DEF Score, Terms, Points
  <2>3. x \in Buyers
    OBVIOUS
  <2>4. /\ Points(x.district = district, 25) \in Int /\ Closeness(x.distance) \in Int
        /\ PriceFit(x.max_price, l.asking_price) \in Int
    BY <2>3, ScoresAreWhole, PointsAreWhole
  <2> HIDE DEF V, G, R
  <2> QED BY <1>3, <2>2, <2>4
<1>5. other \in Int
  <2> HIDE DEF V, G, R
  <2> QED BY <1>3
<1> HIDE DEF other
<1> QED BY <1>4, <1>5

LEMMA RankingKeepsOrder ==
  ASSUME NEW l \in Lots, NEW a \in Buyers, NEW b \in Buyers, NEW district
  PROVE  LocalityBeatsBid(l, district, a, b) /\ NearerComesFirst(l, district, a, b)
<1>1. /\ a.distance \in Nat \cup {Unstated} /\ b.distance \in Nat \cup {Unstated}
      /\ Unstated \notin Int
  BY RepliesAssumption, MatchingAssumption
<1>2. /\ PriceFit(a.max_price, l.asking_price) \in {0, 400, -300}
      /\ PriceFit(b.max_price, l.asking_price) \in {0, 400, -300}
      /\ Closeness(a.distance) \in Int /\ Closeness(b.distance) \in Int
      /\ Score(l, district, a) \in Int /\ Score(l, district, b) \in Int
  BY ScoresAreWhole
<1>3. LocalityBeatsBid(l, district, a, b)
  <2> SUFFICES ASSUME Alike(a, b, {"district", "distance", "max_price"}),
                      a.district = district, a.distance # Unstated, a.distance <= 25,
                      b.district # district, b.distance # Unstated, b.distance > 100
               PROVE  Before(l, district, a, b)
    BY DEF LocalityBeatsBid
  <2>1. PICK other \in Int : \A x \in {a, b} :
           Score(l, district, x) = Points(x.district = district, 25) + Closeness(x.distance)
                                     + PriceFit(x.max_price, l.asking_price) + other
    BY OtherPointsAlike
  <2>2. Points(a.district = district, 25) = 500 /\ Points(b.district = district, 25) = 0
    BY DEF Points
  <2>3. Closeness(a.distance) >= 525 /\ Closeness(b.distance) = -300
    BY <1>1 DEF Closeness
  <2>4. Score(l, district, a) > Score(l, district, b)
    <3> DEFINE A == PriceFit(a.max_price, l.asking_price)
               B == PriceFit(b.max_price, l.asking_price)
               C == Closeness(a.distance)
    <3>1. Score(l, district, a) = 500 + C + A + other
      BY <2>1, <2>2
    <3>2. Score(l, district, b) = 0 + (-300) + B + other
      BY <2>1, <2>2, <2>3
    <3>3. A \in {0, 400, -300} /\ B \in {0, 400, -300} /\ C \in Int /\ C >= 525
      BY <1>2, <2>3
    <3> HIDE DEF A, B, C
    <3> QED BY <3>1, <3>2, <3>3
  <2> QED BY <2>4 DEF Before
<1>4. NearerComesFirst(l, district, a, b)
  <2> SUFFICES ASSUME Alike(a, b, {"distance"}), a.distance # Unstated, b.distance # Unstated,
                      0 < a.distance, a.distance < b.distance
               PROVE  Before(l, district, a, b)
    BY DEF NearerComesFirst
  <2>1. DOMAIN a = {"verified", "commodity", "district", "distance", "max_price", "demand",
                    "reliability", "grades"}
    BY RepliesAssumption
  <2>2. Alike(a, b, {"district", "distance", "max_price"})
        /\ a.district = b.district /\ a.max_price = b.max_price
    BY <2>1 DEF Alike
  <2>3. PICK other \in Int : \A x \in {a, b} :
           Score(l, district, x) = Points(x.district = district, 25) + Closeness(x.distance)
                                     + PriceFit(x.max_price, l.asking_price) + other
    BY <2>2, OtherPointsAlike
  <2> DEFINE D == Points(a.district = district, 25)
             P == PriceFit(a.max_price, l.asking_price)
  <2>4. /\ Score(l, district, a) = D + Closeness(a.distance) + P + other
        /\ Score(l, district, b) = D + Closeness(b.distance) + P + other
        /\ D \in Int /\ P \in Int
    BY <1>2, <2>2, <2>3, PointsAreWhole
  <2>5. TieKey(a.distance) < TieKey(b.distance)
    BY <1>1 DEF TieKey
  <2>6. Closeness(a.distance) >= Closeness(b.distance)
    BY <1>1 DEF Closeness
  <2> HIDE DEF D, P
  <2>7. Score(l, district, a) >= Score(l, district, b)
    BY <1>2, <2>4, <2>6
  <2> QED BY <1>2, <2>5, <2>7 DEF Before
<1> QED BY <1>3, <1>4

\* Someone comes first: the order has no rounds, so a finite set has a least.
LEMMA SomeoneComesFirst ==
  ASSUME NEW l \in Lots, NEW district, NEW bs \in SUBSET Buyers
  PROVE  (BestBuyers(l, district, bs) = {}) <=> (\A b \in bs : ~Candidate(b, l))
<1> DEFINE cs == {b \in bs : Candidate(b, l)}
           First(T) == {b \in T : \A c \in T : ~Before(l, district, c, b)}
           C == {T \in SUBSET cs : T # {} => First(T) # {}}
<1>1. ASSUME NEW a \in Buyers, NEW b \in Buyers, NEW c \in Buyers,
             Before(l, district, a, b), Before(l, district, b, c)
      PROVE  Before(l, district, a, c)
  <2>1. /\ Score(l, district, a) \in Int /\ TieKey(a.distance) \in Nat
        /\ Score(l, district, b) \in Int /\ TieKey(b.distance) \in Nat
        /\ Score(l, district, c) \in Int /\ TieKey(c.distance) \in Nat
    BY ScoresAreWhole
  <2> QED BY <1>1, <2>1 DEF Before
<1>2. ASSUME NEW a \in Buyers PROVE ~Before(l, district, a, a)
  <2>1. Score(l, district, a) \in Int /\ TieKey(a.distance) \in Nat
    BY ScoresAreWhole
  <2> QED BY <2>1 DEF Before
<1>3. IsFiniteSet(cs) /\ cs \subseteq Buyers
  <2>1. cs \subseteq Buyers
    OBVIOUS
  <2> QED BY <2>1, RepliesAssumption, FS_Subset
<1> HIDE DEF cs
<1>4. ASSUME NEW T \in SUBSET cs, \A U \in SUBSET T : U # T => U \in C PROVE T \in C
  <2> SUFFICES ASSUME NEW x \in T PROVE First(T) # {}
    OBVIOUS
  <2>1. CASE T = {x}
    <3>1. x \in First(T)
      BY <1>2, <1>3, <2>1
    <3> QED BY <3>1
  <2>2. CASE T # {x}
    <3>1. T \ {x} \in C /\ T \ {x} # {}
      BY <1>4, <2>2
    <3>2. PICK b \in First(T \ {x}) : TRUE
      BY <3>1
    <3>3. CASE Before(l, district, x, b)
      <4>1. ASSUME NEW c \in T PROVE ~Before(l, district, c, x)
        BY <1>1, <1>2, <1>3, <3>2, <3>3
      <4>2. x \in First(T)
        BY <4>1
      <4> QED BY <4>2
    <3>4. CASE ~Before(l, district, x, b)
      <4>1. b \in First(T)
        BY <3>2, <3>4
      <4> QED BY <4>1
    <3> QED BY <3>3, <3>4
  <2> QED BY <2>1, <2>2
<1>5. cs \in C
  <2> HIDE DEF C
  <2> QED BY <1>3, <1>4, SubsetInduction
<1>6. BestBuyers(l, district, bs) = First(cs)
  BY DEF BestBuyers, cs
<1>7. (First(cs) = {}) <=> (cs = {})
  BY <1>5
<1> QED BY <1>6, <1>7 DEF cs

\* The smaller of two numbers.
LEMMA MinOfTwo ==
  ASSUME NEW a \in Nat, NEW b \in Nat
  PROVE  Min({a, b}) = IF a <= b THEN a ELSE b
<1> DEFINE m == IF a <= b THEN a ELSE b
<1>1. \A x \in {a, b} : (\A y \in {a, b} : x <= y) <=> x = m
  OBVIOUS
<1>2. m \in {a, b}
  OBVIOUS
<1> HIDE DEF m
<1>3. Min({a, b}) = m
  BY <1>1, <1>2 DEF Min
<1> QED BY <1>3 DEF m

\* When all lots are read, those shown suit the buyer, and the cut leaves out only lots
\* that score no better.
LEMMA TheSidesAgree ==
  ASSUME NEW ls \in SUBSET Lots PROVE TwoSidesAgree(Buyers, ls)
<1> SUFFICES ASSUME Cardinality(ls) <= LOTS_LIMIT, NEW b \in Buyers, b.verified,
                    NEW shown \in SupplyAnswers(b, ls),
                    NEW suited,
                    suited = {l \in ls : l.status \in {"open", "offered"} /\ Candidate(b, l)}
             PROVE  /\ shown \subseteq suited
                    /\ \A l \in suited \ shown :
                         /\ Cardinality(shown) = SHOWN
                         /\ \A k \in shown : LotScore(b, l) <= LotScore(b, k)
  BY DEF TwoSidesAgree
<1>1. /\ IsFiniteSet(ls) /\ Cardinality(ls) \in Nat /\ LOTS_LIMIT \in Nat /\ SHOWN \in Nat
  BY RepliesAssumption, MatchingAssumption, FS_Subset, FS_CardinalityType
<1>2. Min({LOTS_LIMIT, Cardinality(ls)}) = Cardinality(ls)
  <2>1. Min({LOTS_LIMIT, Cardinality(ls)})
          = IF LOTS_LIMIT <= Cardinality(ls) THEN LOTS_LIMIT ELSE Cardinality(ls)
    BY <1>1, MinOfTwo
  <2> QED BY <1>1, <2>1
<1>3. PICK read \in kSubset(Cardinality(ls), ls) :
        shown \in FirstShown(b, {l \in read : Fits(b, l)})
  BY <1>2 DEF SupplyAnswers
<1>4. read = ls
  BY <1>1, <1>3, FS_Subset DEF kSubset
<1>5. {l \in read : Fits(b, l)} = suited
  BY <1>4 DEF Fits, Candidate
<1>6. shown \in FirstShown(b, suited)
  BY <1>3, <1>5
<1>7. IsFiniteSet(suited) /\ Cardinality(suited) \in Nat
  <2>1. suited \subseteq ls
    OBVIOUS
  <2> QED BY <1>1, <2>1, FS_Subset, FS_CardinalityType
<1>8. /\ shown \subseteq suited /\ Cardinality(shown) = Min({SHOWN, Cardinality(suited)})
      /\ \A l \in suited \ shown, k \in shown : LotScore(b, l) <= LotScore(b, k)
  BY <1>6 DEF FirstShown, kSubset
<1>9. ASSUME NEW l \in suited \ shown PROVE Cardinality(shown) = SHOWN
  <2>1. shown # suited
    BY <1>9
  <2>2. Cardinality(shown) < Cardinality(suited)
    <3>1. Cardinality(shown) <= Cardinality(suited) /\ Cardinality(shown) \in Nat
          /\ (Cardinality(shown) = Cardinality(suited) => shown = suited)
      BY <1>7, <1>8, FS_Subset, FS_CardinalityType
    <3> QED BY <1>7, <2>1, <3>1
  <2>3. Min({SHOWN, Cardinality(suited)})
          = IF SHOWN <= Cardinality(suited) THEN SHOWN ELSE Cardinality(suited)
    BY <1>1, <1>7, MinOfTwo
  <2> QED BY <1>1, <1>7, <1>8, <2>2, <2>3
<1> QED BY <1>8, <1>9

LEMMA MatchingAlwaysHolds == MatchingHolds
<1>1. EveryRanking
  BY RankingKeepsOrder DEF EveryRanking
<1>2. EveryMatch
  BY TheSidesAgree DEF EveryMatch
<1>3. EveryBest
  <2>1. Largest \subseteq Lots
    BY DEF Largest, LotsAsked, OnOffer
  <2> QED BY <2>1, SomeoneComesFirst DEF EveryBest
<1> QED BY <1>1, <1>2, <1>3 DEF MatchingHolds, RankingHolds, MatchIsMutual, BestIsNamed

-----------------------------------------------------------------------------
(***************************************************************************)
(* The cap on replies                                                      *)
(***************************************************************************)
\* Ages of stamps, oldest first.
Stamps == Seq(0 .. OUTBOUND_WINDOW)
Falling(s) == \A i, j \in DOMAIN s : i <= j => s[i] >= s[j]

LEMMA StampsAreAges ==
  ASSUME NEW s \in Stamps
  PROVE  /\ Len(s) \in Nat /\ DOMAIN s = 1 .. Len(s) /\ OUTBOUND_WINDOW \in Nat
         /\ \A i \in 1 .. Len(s) : s[i] \in 0 .. OUTBOUND_WINDOW
<1>1. \A i \in 1 .. Len(s) : s[i] \in 0 .. OUTBOUND_WINDOW
  BY ElementOfSeq DEF Stamps
<1>2. Len(s) \in Nat /\ DOMAIN s = 1 .. Len(s)
  BY LenProperties DEF Stamps
<1> QED BY <1>1, <1>2, RepliesAssumption

\* Those out of the window are the first of the stamps, and are dropped.
LEMMA TheOldestLapse ==
  ASSUME NEW s \in Stamps, Falling(s)
  PROVE  \E k \in 0 .. Len(s) :
           /\ Lapsed(s) = 1 .. k
           /\ InWindow(s) \in Stamps /\ Len(InWindow(s)) = Len(s) - k
           /\ \A i \in 1 .. Len(s) - k : InWindow(s)[i] = s[k + i]
<1> DEFINE W == OUTBOUND_WINDOW
           n == Len(s)
           C == {m \in Nat : 1 .. m \subseteq Lapsed(s)}
<1>1. n \in Nat /\ DOMAIN s = 1 .. n /\ \A i \in 1 .. n : s[i] \in 0 .. W
  BY StampsAreAges
<1>2. PICK k \in C : k + 1 \notin C
  <2>1. 0 \in C
    OBVIOUS
  <2>2. n + 1 \notin C
    BY <1>1 DEF Lapsed
  <2>3. ~(Nat \subseteq C)
    BY <1>1, <2>2
  <2> HIDE DEF C
  <2> QED BY <2>1, <2>3, StepInduction DEF C
<1>3. k \in Nat /\ 1 .. k \subseteq Lapsed(s) /\ k + 1 \notin Lapsed(s)
  <2>1. \A i \in 1 .. k + 1 : i \in 1 .. k \/ i = k + 1
    BY <1>2
  <2> QED BY <1>2, <2>1
<1>4. Lapsed(s) = 1 .. k /\ k <= n
  <2>1. k <= n
    BY <1>1, <1>3 DEF Lapsed
  <2>2. ASSUME NEW i \in Lapsed(s), i > k PROVE FALSE
    <3>1. i \in 1 .. n /\ k + 1 \in 1 .. n /\ s[i] >= W /\ k + 1 <= i
      BY <1>1, <1>3, <2>2 DEF Lapsed
    <3>2. s[k + 1] >= s[i] /\ s[k + 1] \in 0 .. W /\ s[i] \in 0 .. W
      BY <1>1, <3>1 DEF Falling
    <3>3. s[k + 1] >= W
      BY <3>1, <3>2, RepliesAssumption
    <3> QED BY <1>1, <1>3, <3>1, <3>3 DEF Lapsed
  <2>3. Lapsed(s) \subseteq 1 .. n
    BY <1>1 DEF Lapsed
  <2>4. ASSUME NEW i \in Lapsed(s) PROVE i \in 1 .. k
    <3>1. i \in 1 .. n /\ ~(i > k)
      BY <2>2, <2>3
    <3> QED BY <1>1, <1>3, <3>1
  <2> QED BY <1>3, <2>1, <2>4
<1>5. Cardinality(Lapsed(s)) = k
  <2>1. Cardinality(1 .. k) = IF 1 > k THEN 0 ELSE k - 1 + 1
    BY <1>3, FS_Interval
  <2> QED BY <1>3, <1>4, <2>1
<1>6. InWindow(s) = SubSeq(s, k + 1, n)
  BY <1>5 DEF InWindow
<1> HIDE DEF n, C
<1>7. /\ SubSeq(s, k + 1, n) \in Stamps
      /\ Len(SubSeq(s, k + 1, n)) = IF k + 1 <= n THEN n - (k + 1) + 1 ELSE 0
      /\ \A i \in 1 .. n - (k + 1) + 1 : SubSeq(s, k + 1, n)[i] = s[(k + 1) + i - 1]
  <2>1. \A i \in k + 1 .. n : s[i] \in 0 .. W
    BY <1>1, <1>3
  <2>2. k + 1 \in Int /\ n \in Int
    BY <1>1, <1>3
  <2> HIDE DEF W
  <2> QED BY <2>1, <2>2, SubSeqProperties DEF Stamps, W
<1>8. Len(InWindow(s)) = n - k /\ \A i \in 1 .. n - k : InWindow(s)[i] = s[k + i]
  <2>1. n - (k + 1) + 1 = n - k
    BY <1>1, <1>3
  <2>2. \A i \in 1 .. n - k : (k + 1) + i - 1 = k + i
    BY <1>1, <1>3
  <2> QED BY <1>1, <1>3, <1>4, <1>6, <1>7, <2>1, <2>2
<1>9. k \in 0 .. n /\ InWindow(s) \in Stamps
  BY <1>1, <1>3, <1>4, <1>6, <1>7
<1> QED BY <1>4, <1>8, <1>9 DEF n

\* What is left is within the window, and nothing more is dropped from it.
LEMMA WhatIsLeft ==
  ASSUME NEW s \in Stamps, Falling(s)
  PROVE  /\ InWindow(s) \in Stamps /\ Falling(InWindow(s))
         /\ \A i \in DOMAIN InWindow(s) : InWindow(s)[i] < OUTBOUND_WINDOW
<1>1. PICK k \in 0 .. Len(s) :
           /\ Lapsed(s) = 1 .. k
           /\ InWindow(s) \in Stamps /\ Len(InWindow(s)) = Len(s) - k
           /\ \A i \in 1 .. Len(s) - k : InWindow(s)[i] = s[k + i]
  BY TheOldestLapse
<1> DEFINE t == InWindow(s)
           n == Len(s)
<1>2. n \in Nat /\ DOMAIN s = 1 .. n /\ \A i \in 1 .. n : s[i] \in 0 .. OUTBOUND_WINDOW
  BY StampsAreAges
<1>3. DOMAIN t = 1 .. n - k /\ \A i \in DOMAIN t : t[i] = s[k + i] /\ k + i \in DOMAIN s
  <2>1. DOMAIN t = 1 .. Len(t)
    BY <1>1, StampsAreAges
  <2> QED BY <1>1, <1>2, <2>1
<1> HIDE DEF t
<1>4. Falling(t)
  <2> SUFFICES ASSUME NEW i \in DOMAIN t, NEW j \in DOMAIN t, i <= j PROVE t[i] >= t[j]
    BY DEF Falling
  <2>1. k + i <= k + j
    BY <1>1, <1>2, <1>3
  <2> QED BY <1>3, <2>1 DEF Falling
<1>5. ASSUME NEW i \in DOMAIN t PROVE t[i] < OUTBOUND_WINDOW
  <2>1. k + i \in 1 .. n /\ k + i \notin 1 .. k
    BY <1>1, <1>2, <1>3
  <2>2. ~(s[k + i] >= OUTBOUND_WINDOW) /\ s[k + i] \in Int /\ OUTBOUND_WINDOW \in Int
    BY <1>1, <1>2, <2>1, RepliesAssumption DEF Lapsed
  <2> QED BY <1>3, <2>2
<1> QED BY <1>1, <1>4, <1>5 DEF t

LEMMA NothingToDrop ==
  ASSUME NEW s \in Stamps, \A i \in DOMAIN s : s[i] < OUTBOUND_WINDOW
  PROVE  InWindow(s) = s
<1>1. DOMAIN s = 1 .. Len(s) /\ \A i \in DOMAIN s : s[i] \in 0 .. OUTBOUND_WINDOW
  BY StampsAreAges
<1>2. Lapsed(s) = {}
  BY <1>1, RepliesAssumption DEF Lapsed
<1>3. InWindow(s) = SubSeq(s, 1, Len(s))
  <2>1. Cardinality(Lapsed(s)) + 1 = 1
    BY <1>2, FS_EmptySet
  <2> QED BY <2>1 DEF InWindow
<1> QED BY <1>3, SubSeqFull DEF Stamps

\* One more stamp, of now.
LEMMA OneMoreStamp ==
  ASSUME NEW s \in Stamps, Falling(s)
  PROVE  Append(s, 0) \in Stamps /\ Falling(Append(s, 0)) /\ Len(Append(s, 0)) = Len(s) + 1
<1> DEFINE t == Append(s, 0)
           n == Len(s)
<1>1. n \in Nat /\ DOMAIN s = 1 .. n /\ \A i \in 1 .. n : s[i] \in 0 .. OUTBOUND_WINDOW
  BY StampsAreAges
<1>2. /\ t \in Stamps /\ Len(t) = n + 1
      /\ \A i \in 1 .. n : t[i] = s[i]
      /\ t[n + 1] = 0
  <2>1. 0 \in 0 .. OUTBOUND_WINDOW
    BY RepliesAssumption
  <2> QED BY <2>1, AppendProperties DEF Stamps
<1>3. DOMAIN t = 1 .. n + 1
  BY <1>2, StampsAreAges
<1>0. \A i \in DOMAIN t : t[i] \in 0 .. OUTBOUND_WINDOW /\ OUTBOUND_WINDOW \in Nat
  BY <1>2, StampsAreAges
<1> HIDE DEF t, n
<1>4. Falling(t)
  <2> SUFFICES ASSUME NEW i \in DOMAIN t, NEW j \in DOMAIN t, i <= j PROVE t[i] >= t[j]
    BY DEF Falling
  <2>1. CASE j = n + 1
    <3>1. t[i] \in 0 .. OUTBOUND_WINDOW
      BY <1>0
    <3> QED BY <1>0, <1>2, <2>1, <3>1
  <2>2. CASE j # n + 1
    <3>1. i \in 1 .. n /\ j \in 1 .. n
      BY <1>1, <1>3, <2>2
    <3> QED BY <1>1, <1>2, <3>1 DEF Falling
  <2> QED BY <2>1, <2>2
<1> QED BY <1>2, <1>4 DEF t, n

\* What a tick makes of stamps.
LEMMA StampsAge ==
  ASSUME NEW s \in Stamps, Falling(s)
  PROVE  LET t == Aged(s, OUTBOUND_WINDOW)
         IN /\ t \in Stamps /\ Falling(t) /\ Len(t) = Len(s)
            /\ \A i \in DOMAIN s : /\ s[i] >= OUTBOUND_WINDOW => t[i] >= OUTBOUND_WINDOW
                                   /\ t[i] = IF s[i] < OUTBOUND_WINDOW THEN s[i] + 1
                                             ELSE OUTBOUND_WINDOW
<1> DEFINE t == Aged(s, OUTBOUND_WINDOW)
           n == Len(s)
<1>1. n \in Nat /\ DOMAIN s = 1 .. n /\ \A i \in 1 .. n : s[i] \in 0 .. OUTBOUND_WINDOW
  BY StampsAreAges
<1>2. OUTBOUND_WINDOW \in Nat
  BY RepliesAssumption
<1>3. t = [i \in 1 .. n |-> IF s[i] < OUTBOUND_WINDOW THEN s[i] + 1 ELSE OUTBOUND_WINDOW]
  BY <1>1 DEF Aged
<1> HIDE DEF t, n
<1>4. \A i \in 1 .. n : t[i] = IF s[i] < OUTBOUND_WINDOW THEN s[i] + 1 ELSE OUTBOUND_WINDOW
  BY <1>3
<1>5. \A i \in 1 .. n : t[i] \in 0 .. OUTBOUND_WINDOW
  BY <1>1, <1>2, <1>4
<1>6. t \in [1 .. n -> 0 .. OUTBOUND_WINDOW]
  BY <1>3, <1>5
<1>7. t \in Stamps /\ Len(t) = n
  <2>1. t \in Stamps
    <3>1. Seq(0 .. OUTBOUND_WINDOW) = UNION {[1 .. m -> 0 .. OUTBOUND_WINDOW] : m \in Nat}
      BY SeqDef
    <3> QED BY <1>1, <1>6, <3>1 DEF Stamps
  <2>2. DOMAIN t = 1 .. n /\ DOMAIN t = 1 .. Len(t) /\ Len(t) \in Nat
    BY <1>3, <2>1, StampsAreAges
  <2> QED BY <1>1, <2>1, <2>2
<1>8. Falling(t)
  <2> SUFFICES ASSUME NEW i \in 1 .. n, NEW j \in 1 .. n, i <= j PROVE t[i] >= t[j]
    BY <1>6 DEF Falling
  <2>1. s[i] >= s[j] /\ s[i] \in 0 .. OUTBOUND_WINDOW /\ s[j] \in 0 .. OUTBOUND_WINDOW
    BY <1>1 DEF Falling
  <2> QED BY <1>2, <1>4, <2>1
<1>9. \A i \in DOMAIN s : s[i] >= OUTBOUND_WINDOW => t[i] >= OUTBOUND_WINDOW
  BY <1>1, <1>2, <1>4
<1> QED BY <1>1, <1>4, <1>7, <1>8, <1>9 DEF t, n

\* Whether those out of the window are dropped before the tick makes no difference.
LEMMA DroppedBeforeOrAfter ==
  ASSUME NEW s \in Stamps, Falling(s)
  PROVE  InWindow(Aged(InWindow(s), OUTBOUND_WINDOW)) = InWindow(Aged(s, OUTBOUND_WINDOW))
<1> DEFINE W == OUTBOUND_WINDOW
           n == Len(s)
           r == InWindow(s)
           t == Aged(s, W)
           u == Aged(r, W)
<1>1. n \in Nat /\ DOMAIN s = 1 .. n /\ \A i \in 1 .. n : s[i] \in 0 .. W
  BY StampsAreAges
<1>2. PICK k \in 0 .. n :
           /\ Lapsed(s) = 1 .. k
           /\ r \in Stamps /\ Len(r) = n - k
           /\ \A i \in 1 .. n - k : r[i] = s[k + i]
  BY TheOldestLapse
<1>3. Falling(r)
  BY WhatIsLeft
<1>4. t \in Stamps /\ Falling(t) /\ Len(t) = n
      /\ \A i \in DOMAIN s : t[i] = IF s[i] < W THEN s[i] + 1 ELSE W
  BY StampsAge
<1> HIDE DEF r
<1>5. u \in Stamps /\ Falling(u) /\ Len(u) = n - k
      /\ \A i \in DOMAIN r : u[i] = IF r[i] < W THEN r[i] + 1 ELSE W
  BY <1>2, <1>3, StampsAge
<1> HIDE DEF t, u
<1>6. \A i \in 1 .. n - k : u[i] = t[k + i] /\ k + i \in 1 .. n
  <2> SUFFICES ASSUME NEW i \in 1 .. n - k PROVE u[i] = t[k + i] /\ k + i \in 1 .. n
    OBVIOUS
  <2>1. k + i \in 1 .. n
    BY <1>1, <1>2
  <2>2. i \in DOMAIN r /\ r[i] = s[k + i]
    BY <1>2, StampsAreAges
  <2> QED BY <1>1, <1>4, <1>5, <2>1, <2>2
<1>7. PICK kt \in 0 .. n :
           /\ Lapsed(t) = 1 .. kt
           /\ InWindow(t) \in Stamps /\ Len(InWindow(t)) = n - kt
           /\ \A i \in 1 .. n - kt : InWindow(t)[i] = t[kt + i]
  BY <1>4, TheOldestLapse
<1>8. PICK ku \in 0 .. n - k :
           /\ Lapsed(u) = 1 .. ku
           /\ InWindow(u) \in Stamps /\ Len(InWindow(u)) = (n - k) - ku
           /\ \A i \in 1 .. (n - k) - ku : InWindow(u)[i] = u[ku + i]
  BY <1>5, TheOldestLapse
<1>9. k <= kt
  <2>1. ASSUME NEW i \in 1 .. k PROVE i \in 1 .. kt
    <3>1. i \in DOMAIN s /\ s[i] >= W
      BY <1>1, <1>2 DEF Lapsed
    <3>0. DOMAIN t = 1 .. n
      BY <1>4, StampsAreAges
    <3>2. t[i] = W /\ DOMAIN t = 1 .. n
      BY <1>1, <1>4, <3>0, <3>1, RepliesAssumption
    <3>3. i \in Lapsed(t)
      BY <1>1, <3>1, <3>2, RepliesAssumption DEF Lapsed
    <3> QED BY <1>7, <3>3
  <2>2. CASE k = 0
    BY <1>7, <2>2
  <2>3. CASE k # 0
    <3>1. k \in 1 .. k
      BY <1>2, <2>3
    <3>2. k \in 1 .. kt
      BY <2>1, <3>1
    <3> QED BY <1>1, <1>7, <3>2
  <2> QED BY <2>2, <2>3
<1>10. kt = k + ku
  <2>1. \A i \in 1 .. n - k : i \in 1 .. ku <=> k + i \in 1 .. kt
    <3> SUFFICES ASSUME NEW i \in 1 .. n - k PROVE i \in 1 .. ku <=> k + i \in 1 .. kt
      OBVIOUS
    <3>1. DOMAIN u = 1 .. n - k /\ DOMAIN t = 1 .. n
      BY <1>4, <1>5, StampsAreAges
    <3>2. i \in Lapsed(u) <=> u[i] >= W
      BY <3>1 DEF Lapsed
    <3>3. k + i \in Lapsed(t) <=> t[k + i] >= W
      BY <1>6, <3>1 DEF Lapsed
    <3> QED BY <1>6, <1>7, <1>8, <3>2, <3>3
  <2>2. CASE k + ku < kt
    <3>1. ku + 1 \in 1 .. n - k /\ ku + 1 \notin 1 .. ku /\ k + (ku + 1) \in 1 .. kt
      BY <1>1, <1>2, <1>7, <1>8, <2>2
    <3> QED BY <2>1, <3>1
  <2>3. CASE k + ku > kt
    <3>1. ku \in 1 .. n - k /\ ku \in 1 .. ku /\ k + ku \notin 1 .. kt
      BY <1>1, <1>2, <1>7, <1>8, <1>9, <2>3
    <3> QED BY <2>1, <3>1
  <2> QED BY <1>1, <1>2, <1>7, <1>8, <2>2, <2>3
<1>11. Len(InWindow(u)) = Len(InWindow(t))
  BY <1>1, <1>2, <1>7, <1>8, <1>10
<1>12. ASSUME NEW i \in 1 .. Len(InWindow(u)) PROVE InWindow(u)[i] = InWindow(t)[i]
  <2>1. i \in 1 .. n - kt /\ ku + i \in 1 .. n - k /\ k + (ku + i) = kt + i
    BY <1>1, <1>2, <1>7, <1>8, <1>10, <1>12
  <2>2. InWindow(u)[i] = u[ku + i]
    BY <1>8, <1>12
  <2> QED BY <1>6, <1>7, <2>1, <2>2
<1> QED BY <1>7, <1>8, <1>11, <1>12, SeqEqual DEF Stamps, u, t, r

-----------------------------------------------------------------------------
(***************************************************************************)
(* The prices an alert and a reply are made from                           *)
(***************************************************************************)
QuotedRows ==
  [market : Markets, source : Sources, general : BOOLEAN, price : Nat, age : 0 .. REPLY_DAYS]

\* The place of each day among some, the oldest first.
Newer(T, a) == {b \in T : b > a}

LEMMA LeastNumber ==
  ASSUME NEW T \in SUBSET Nat, T # {} PROVE \E m \in T : \A b \in T : m <= b
<1>1. PICK m \in T : \A b \in T : <<b, m>> \notin OpToRel(<, Nat)
  BY NatLessThanWellFounded, WFMin
<1>2. ASSUME NEW b \in T, b < m PROVE FALSE
  <2>1. <<b, m>> \in OpToRel(<, Nat)
    BY <1>2 DEF OpToRel
  <2> QED BY <1>1, <2>1
<1>3. \A b \in T : b \in Nat /\ m \in Nat
  OBVIOUS
<1> QED BY <1>2, <1>3

LEMMA EveryPlaceIsTaken ==
  ASSUME NEW S \in SUBSET Nat, IsFiniteSet(S)
  PROVE  \A i \in 1 .. Cardinality(S) : \E a \in S : Cardinality(Newer(S, a)) = i - 1
<1> DEFINE Taken(T) ==
             \A i \in 1 .. Cardinality(T) : \E a \in T : Cardinality(Newer(T, a)) = i - 1
           C == {T \in SUBSET S : Taken(T)}
<1>1. ASSUME NEW T \in SUBSET S, \A U \in SUBSET T : U # T => U \in C PROVE T \in C
  <2>1. IsFiniteSet(T) /\ Cardinality(T) \in Nat
    BY FS_Subset, FS_CardinalityType
  <2>2. CASE T = {}
    BY <2>2, FS_EmptySet
  <2>3. CASE T # {}
    <3>0. T \in SUBSET Nat
      OBVIOUS
    <3>1. PICK m \in T : \A b \in T : m <= b
      BY <2>3, <3>0, LeastNumber
    <3>2. \A b \in T : b \in Nat /\ m \in Nat /\ m <= b
      BY <3>0, <3>1
    <3> DEFINE U == T \ {m}
    <3>3. U \in C /\ Cardinality(U) = Cardinality(T) - 1
      <4>1. U \in SUBSET T /\ U # T
        OBVIOUS
      <4>2. Cardinality(U) = Cardinality(T) - 1
        BY <2>1, FS_RemoveElement
      <4> HIDE DEF U, C
      <4> QED BY <1>1, <4>1, <4>2
    <3>4. Newer(T, m) = U
      <4>1. \A b \in T : b > m <=> b # m
        BY <3>2
      <4> QED BY <4>1 DEF Newer
    <3>5. \A a \in U : Newer(T, a) = Newer(U, a)
      BY <3>2 DEF Newer
    <3>6. Taken(U)
      BY <3>3
    <3> HIDE DEF U, C
    <3>7. ASSUME NEW i \in 1 .. Cardinality(T)
          PROVE  \E a \in T : Cardinality(Newer(T, a)) = i - 1
      <4>1. CASE i = Cardinality(T)
        BY <3>3, <3>4, <4>1
      <4>2. CASE i # Cardinality(T)
        <5>1. i \in 1 .. Cardinality(U)
          BY <2>1, <3>3, <4>2
        <5>2. PICK a \in U : Cardinality(Newer(U, a)) = i - 1
          BY <3>6, <5>1
        <5>3. a \in T /\ Cardinality(Newer(T, a)) = i - 1
          BY <3>5, <5>2 DEF U
        <5> QED BY <5>3
      <4> QED BY <4>1, <4>2
    <3> QED BY <3>7 DEF C
  <2> QED BY <2>2, <2>3
<1>2. S \in C
  <2> HIDE DEF C
  <2> QED BY <1>1, SubsetInduction
<1> QED BY <1>2

LEMMA PlacesAreDays ==
  ASSUME NEW S \in SUBSET Nat, IsFiniteSet(S), NEW i \in 1 .. Cardinality(S)
  PROVE  /\ DayAt(S, i) \in S /\ Cardinality(Newer(S, DayAt(S, i))) = i - 1
         /\ \A a \in S : Cardinality(Newer(S, a)) = i - 1 => a = DayAt(S, i)
<1>1. DayAt(S, i) \in S /\ Cardinality(Newer(S, DayAt(S, i))) = i - 1
  BY EveryPlaceIsTaken DEF DayAt, Newer
<1>2. ASSUME NEW a \in S, NEW b \in S, a < b,
             Cardinality(Newer(S, a)) = Cardinality(Newer(S, b))
      PROVE  FALSE
  <2>0. \A c \in S : c \in Nat /\ (c > b => c > a) /\ b > a /\ ~(b > b)
    <3>1. S \subseteq Nat
      OBVIOUS
    <3> QED BY <1>2, <3>1
  <2>1. Newer(S, b) \subseteq Newer(S, a) /\ b \in Newer(S, a) /\ b \notin Newer(S, b)
    BY <2>0 DEF Newer
  <2>2. IsFiniteSet(Newer(S, a)) /\ Newer(S, a) \subseteq S
    BY FS_Subset DEF Newer
  <2>3. Newer(S, b) = Newer(S, a)
    BY <1>2, <2>1, <2>2, FS_Subset
  <2> QED BY <2>1, <2>3
<1>3. ASSUME NEW a \in S, Cardinality(Newer(S, a)) = i - 1 PROVE a = DayAt(S, i)
  <2>1. a \in Nat /\ DayAt(S, i) \in Nat
    BY <1>1
  <2> QED BY <1>1, <1>2, <1>3, <2>1
<1> QED BY <1>1, <1>3

LEMMA DaysAreFew ==
  ASSUME NEW rows \in SUBSET QuotedRows
  PROVE  /\ AgesOf(rows) \in SUBSET Nat /\ IsFiniteSet(AgesOf(rows))
         /\ Cardinality(AgesOf(rows)) \in Nat
         /\ rows = {} <=> Cardinality(AgesOf(rows)) = 0
         /\ \A a \in AgesOf(rows) : OnDay(rows, a) # {} /\ OnDay(rows, a) \in SUBSET QuotedRows
<1>1. AgesOf(rows) \subseteq 0 .. REPLY_DAYS
  BY DEF AgesOf, QuotedRows
<1>2. IsFiniteSet(0 .. REPLY_DAYS) /\ REPLY_DAYS \in Nat
  BY RepliesAssumption, FS_Interval
<1>3. IsFiniteSet(AgesOf(rows)) /\ Cardinality(AgesOf(rows)) \in Nat
  BY <1>1, <1>2, FS_Subset, FS_CardinalityType
<1>4. rows = {} <=> AgesOf(rows) = {}
  BY DEF AgesOf
<1>5. AgesOf(rows) = {} <=> Cardinality(AgesOf(rows)) = 0
  BY <1>3, FS_EmptySet
<1>6. \A a \in AgesOf(rows) : OnDay(rows, a) # {} /\ OnDay(rows, a) \in SUBSET QuotedRows
  BY DEF AgesOf, OnDay
<1> QED BY <1>1, <1>2, <1>3, <1>4, <1>5, <1>6

\* The series of some days: one entry for each, and there is one if each has a price.
LEMMA SeriesOverDays ==
  ASSUME NEW S \in SUBSET Nat, IsFiniteSet(S), NEW P
  PROVE  /\ \A s : s \in SeriesOver(S, P) <=>
                /\ DOMAIN s = 1 .. Cardinality(S) /\ s = [i \in DOMAIN s |-> s[i]]
                /\ \A i \in 1 .. Cardinality(S) : s[i] \in P[DayAt(S, i)]
         /\ (\A a \in S : P[a] # {}) => SeriesOver(S, P) # {}
<1> DEFINE n == Cardinality(S)
           all == UNION {P[a] : a \in S}
<1>1. \A i \in 1 .. n : DayAt(S, i) \in S
  BY PlacesAreDays
<1>2. SeriesOver(S, P) = {s \in [1 .. n -> all] : \A i \in DOMAIN s : s[i] \in P[DayAt(S, i)]}
  BY DEF SeriesOver
<1>3. \A i \in 1 .. n : P[DayAt(S, i)] \subseteq all
  BY <1>1
<1> HIDE DEF n, all
<1>4. ASSUME NEW s
      PROVE  s \in SeriesOver(S, P) <=>
                /\ DOMAIN s = 1 .. n /\ s = [i \in DOMAIN s |-> s[i]]
                /\ \A i \in 1 .. n : s[i] \in P[DayAt(S, i)]
  <2>1. ASSUME s \in SeriesOver(S, P)
        PROVE  /\ DOMAIN s = 1 .. n /\ s = [i \in DOMAIN s |-> s[i]]
               /\ \A i \in 1 .. n : s[i] \in P[DayAt(S, i)]
    BY <1>2, <2>1
  <2>2. ASSUME DOMAIN s = 1 .. n, s = [i \in DOMAIN s |-> s[i]],
               \A i \in 1 .. n : s[i] \in P[DayAt(S, i)]
        PROVE  s \in SeriesOver(S, P)
    <3>1. \A i \in 1 .. n : s[i] \in all
      BY <1>3, <2>2
    <3>2. s \in [1 .. n -> all]
      BY <2>2, <3>1
    <3> QED BY <1>2, <2>2, <3>2
  <2> QED BY <2>1, <2>2
<1>5. ASSUME \A a \in S : P[a] # {} PROVE SeriesOver(S, P) # {}
  <2> DEFINE s == [i \in 1 .. n |-> CHOOSE p \in P[DayAt(S, i)] : TRUE]
  <2>1. DOMAIN s = 1 .. n /\ s = [i \in DOMAIN s |-> s[i]]
    OBVIOUS
  <2>2. \A i \in 1 .. n : s[i] \in P[DayAt(S, i)]
    BY <1>1, <1>5 DEF n
  <2> HIDE DEF s
  <2>3. s \in SeriesOver(S, P)
    BY <1>4, <2>1, <2>2
  <2> QED BY <2>3
<1> QED BY <1>4, <1>5 DEF n

\* Some source is ranked best, so that a day with rows has a price.
LEMMA DaysHavePrices ==
  ASSUME NEW rows \in SUBSET QuotedRows, rows # {}
  PROVE  DayPrices(rows) # {} /\ DayPrices(rows) \subseteq Nat
<1> DEFINE ranks == {PrecedenceOf[r.source] : r \in rows}
<1>1. ranks \subseteq Nat /\ ranks # {}
  BY SeriesAssumption DEF QuotedRows
<1>3. PICK k \in ranks : \A j \in ranks : k <= j
  <2> HIDE DEF ranks
  <2> QED BY <1>1, LeastNumber
<1>4. PICK r \in rows : k = PrecedenceOf[r.source]
  OBVIOUS
<1>5. r \in Winning(rows)
  BY <1>3, <1>4 DEF Winning
<1>6. Chosen(rows) # {} /\ Chosen(rows) \subseteq rows
  BY <1>5 DEF Chosen, Winning
<1> QED BY <1>6 DEF DayPrices, QuotedRows

LEMMA SeriesOfRows ==
  ASSUME NEW rows \in SUBSET QuotedRows, NEW P, \A a \in AgesOf(rows) : P[a] # {}
  PROVE  /\ SeriesOver(AgesOf(rows), P) # {}
         /\ \A s \in SeriesOver(AgesOf(rows), P) : s = <<>> <=> rows = {}
<1> DEFINE S == AgesOf(rows)
           n == Cardinality(S)
<1>1. S \in SUBSET Nat /\ IsFiniteSet(S) /\ n \in Nat /\ (rows = {} <=> n = 0)
  BY DaysAreFew
<1>2. SeriesOver(S, P) # {}
  <2> HIDE DEF S
  <2> QED BY <1>1, SeriesOverDays DEF S
<1>3. ASSUME NEW s \in SeriesOver(S, P) PROVE s = <<>> <=> rows = {}
  <2>1. DOMAIN s = 1 .. n /\ s = [i \in DOMAIN s |-> s[i]]
    <3> HIDE DEF S
    <3> QED BY <1>1, SeriesOverDays
  <2> HIDE DEF n
  <2>2. n = 0 => s = <<>>
    <3> SUFFICES ASSUME n = 0 PROVE s = <<>>
      OBVIOUS
    <3>1. DOMAIN s = {}
      BY <2>1
    <3> QED BY <2>1, <3>1
  <2>3. s = <<>> => n = 0
    <3> SUFFICES ASSUME s = <<>>, n # 0 PROVE FALSE
      OBVIOUS
    <3>1. 1 \in DOMAIN s
      BY <1>1, <2>1
    <3> QED BY <3>1
  <2> QED BY <1>1, <2>2, <2>3
<1> QED BY <1>2, <1>3

\* Every day has a mean, and it is the day's price if only one market has the day.
LEMMA DaysHaveMeans ==
  ASSUME NEW rows \in SUBSET QuotedRows, rows # {}
  PROVE  /\ DayMeans(rows) # {}
         /\ (\A r, q \in rows : r.market = q.market) =>
              DayMeans(rows) = {p * Scale : p \in DayPrices(rows)}
<1> DEFINE ms == {r.market : r \in rows}
           all == {r.price : r \in rows}
           picks == {f \in [ms -> all] : \A m \in ms : f[m] \in DayPrices(InMarket(rows, m))}
<1>1. DayMeans(rows) = {SumFunction(f) * (Scale \div Cardinality(ms)) : f \in picks}
  BY DEF DayMeans
<1>2. ASSUME NEW m \in ms
      PROVE  DayPrices(InMarket(rows, m)) # {} /\ DayPrices(InMarket(rows, m)) \subseteq all
  <2>1. InMarket(rows, m) # {} /\ InMarket(rows, m) \in SUBSET QuotedRows
    BY DEF InMarket
  <2>2. DayPrices(InMarket(rows, m)) # {}
    BY <2>1, DaysHavePrices
  <2>3. DayPrices(InMarket(rows, m)) \subseteq all
    BY DEF DayPrices, Chosen, Winning, InMarket
  <2> QED BY <2>2, <2>3
<1>3. picks # {}
  <2> DEFINE f == [m \in ms |-> CHOOSE p \in DayPrices(InMarket(rows, m)) : TRUE]
  <2>1. \A m \in ms : f[m] \in DayPrices(InMarket(rows, m)) /\ f[m] \in all
    <3> HIDE DEF ms, all
    <3> QED BY <1>2
  <2>2. f \in [ms -> all]
    <3> HIDE DEF ms, all
    <3> QED BY <1>2
  <2>3. f \in picks
    <3> HIDE DEF f
    <3> QED BY <2>1, <2>2
  <2> QED BY <2>3
<1>4. DayMeans(rows) # {}
  <2> HIDE DEF picks
  <2>1. PICK f \in picks : TRUE
    BY <1>3
  <2> QED BY <1>1, <2>1
<1>5. ASSUME \A r, q \in rows : r.market = q.market
      PROVE  DayMeans(rows) = {p * Scale : p \in DayPrices(rows)}
  <2>1. PICK r \in rows : TRUE
    OBVIOUS
  <2> DEFINE m == r.market
  <2>2. ms = {m} /\ InMarket(rows, m) = rows
    BY <1>5 DEF InMarket
  <2>3. Scale \div Cardinality(ms) = Scale
    <3>1. Cardinality(ms) = 1
      BY <2>2, FS_Singleton
    <3> QED BY <3>1, SeriesAssumption
  <2>4. all \subseteq Nat
    BY DEF QuotedRows
  <2> HIDE DEF m, ms, all
  <2>5. ASSUME NEW f \in picks PROVE SumFunction(f) = f[m] /\ f[m] \in DayPrices(rows)
    <3>1. DOMAIN f = {m} /\ f[m] \in all /\ f[m] \in DayPrices(rows)
      BY <2>2
    <3>2. Numbers(f, {m}) /\ OneOf({m}) = m
      <4>1. IsFiniteSet({m})
        BY FS_Singleton
      <4>2. OneOf({m}) \in {m}
        BY OneIsIn
      <4>3. f[m] \in Int
        <5>1. f[m] \in Nat
          BY <2>4, <3>1
        <5> QED BY <5>1
      <4> QED BY <4>1, <4>2, <4>3 DEF Numbers
    <3>3. Numbers(f, {}) /\ SumOver(f, {}) = 0
      BY FS_EmptySet, SumUnfolds DEF Numbers
    <3>4. SumOver(f, {m}) = f[m] + SumOver(f, {m} \ {m})
      BY <3>2, SumUnfolds
    <3>5. {m} \ {m} = {}
      OBVIOUS
    <3>6. SumFunction(f) = SumOver(f, {m})
      BY <3>1 DEF SumFunction, SumOver
    <3>7. SumFunction(f) = f[m] + 0
      BY <3>3, <3>4, <3>5, <3>6
    <3>8. f[m] \in Nat
      BY <2>4, <3>1
    <3>9. f[m] + 0 = f[m]
      BY <3>8
    <3> QED BY <3>1, <3>7, <3>9
  <2>6. ASSUME NEW p \in DayPrices(rows) PROVE \E f \in picks : f[m] = p
    <3> DEFINE f == [x \in ms |-> p]
    <3>1. p \in all
      BY <1>2, <2>2
    <3>2. f \in picks /\ f[m] = p
      BY <2>2, <3>1
    <3> QED BY <3>2
  <2> HIDE DEF picks
  <2> QED BY <1>1, <2>3, <2>5, <2>6
<1> QED BY <1>4, <1>5

\* Scaled entry by entry, or all at once.
LEMMA ScaledEntries ==
  ASSUME NEW S \in SUBSET Nat, IsFiniteSet(S), NEW P, NEW Q,
         \A a \in S : Q[a] = {p * Scale : p \in P[a]}
  PROVE  Scaled(SeriesOver(S, P)) = SeriesOver(S, Q)
<1> DEFINE n == Cardinality(S)
           IsOver(s, R) == /\ DOMAIN s = 1 .. n /\ s = [i \in DOMAIN s |-> s[i]]
                           /\ \A i \in 1 .. n : s[i] \in R[DayAt(S, i)]
<1>1. \A i \in 1 .. n : DayAt(S, i) \in S
  BY PlacesAreDays
<1>2. \A s : s \in SeriesOver(S, P) <=> IsOver(s, P)
  BY SeriesOverDays
<1>3. \A s : s \in SeriesOver(S, Q) <=> IsOver(s, Q)
  BY SeriesOverDays
<1> HIDE DEF n
<1>4. ASSUME NEW t \in Scaled(SeriesOver(S, P)) PROVE t \in SeriesOver(S, Q)
  <2>1. PICK s \in SeriesOver(S, P) : t = [i \in DOMAIN s |-> s[i] * Scale]
    BY DEF Scaled
  <2>2. IsOver(s, P)
    BY <1>2
  <2>3. DOMAIN t = 1 .. n /\ t = [i \in DOMAIN t |-> t[i]]
    BY <2>1, <2>2
  <2>4. ASSUME NEW i \in 1 .. n PROVE t[i] \in Q[DayAt(S, i)]
    <3>1. s[i] \in P[DayAt(S, i)] /\ t[i] = s[i] * Scale
      BY <2>1, <2>2
    <3> QED BY <1>1, <3>1
  <2> QED BY <1>3, <2>3, <2>4
<1>5. ASSUME NEW t \in SeriesOver(S, Q) PROVE t \in Scaled(SeriesOver(S, P))
  <2>1. IsOver(t, Q)
    BY <1>3
  <2> DEFINE s == [i \in 1 .. n |-> CHOOSE p \in P[DayAt(S, i)] : t[i] = p * Scale]
  <2>2. \A i \in 1 .. n : s[i] \in P[DayAt(S, i)] /\ t[i] = s[i] * Scale
    <3>1. \A i \in 1 .. n : \E p \in P[DayAt(S, i)] : t[i] = p * Scale
      BY <1>1, <2>1
    <3> QED BY <3>1
  <2>3. DOMAIN s = 1 .. n /\ s = [i \in DOMAIN s |-> s[i]]
    OBVIOUS
  <2> HIDE DEF s
  <2>4. s \in SeriesOver(S, P)
    BY <1>2, <2>2, <2>3
  <2>5. t = [i \in DOMAIN s |-> s[i] * Scale]
    BY <2>1, <2>2, <2>3
  <2> QED BY <2>4, <2>5 DEF Scaled
<1> QED BY <1>4, <1>5

LEMMA ToldIsSeen ==
  ASSUME quoted \in SUBSET QuotedRows, pinned \in AlertMarkets PROVE AlertSeesToldPrice
<1> DEFINE D == InDistrict(quoted)
           S == AgesOf(D)
           P == [a \in S |-> DayPrices(OnDay(D, a))]
           M == [a \in S |-> DayMeans(OnDay(D, a))]
           seen == {Last(s) : s \in SeriesOf(quoted, profile) \ {<<>>}}
           stated == LatestPrices(quoted, profile.near)
           lone == \A r, q \in quoted : r.age = q.age => r.market = q.market
<1>1. D \in SUBSET QuotedRows
  BY DEF InDistrict
<1>0. Unstated \notin Markets /\ (pinned # Unstated => pinned \in Markets)
  BY RepliesAssumption
<1>4. ASSUME pinned # Unstated PROVE seen = LatestPrices(quoted, pinned)
  BY <1>0, <1>4 DEF SeriesOf, AlertScope, AlertSeries, ScopeSeries, LatestPrices
<1>2. CASE pinned = Unstated /\ profile.near \in Markets
  <2>1. SeriesOf(quoted, profile) = ScopeSeries(quoted, profile.near)
    BY <1>2 DEF SeriesOf, AlertScope, AlertSeries, ScopeSeries
  <2>2. seen = stated
    BY <2>1 DEF LatestPrices
  <2> QED BY <1>2, <2>2 DEF AlertSeesToldPrice
<1>3. CASE pinned = Unstated /\ profile.near \notin Markets
  <2>1. /\ SeriesOf(quoted, profile) = Scaled(SeriesOver(S, P))
        /\ ScopeSeries(quoted, profile.near) = SeriesOver(S, M)
    BY <1>3 DEF SeriesOf, AlertScope, AlertSeries, ScopeSeries, DailySeries,
                DistrictSeries
  <2>2. /\ S \in SUBSET Nat /\ IsFiniteSet(S)
        /\ \A a \in S : OnDay(D, a) # {} /\ OnDay(D, a) \in SUBSET QuotedRows
    BY <1>1, DaysAreFew
  <2>3. /\ \A a \in S : P[a] # {} /\ M[a] # {}
        /\ lone => \A a \in S : M[a] = {p * Scale : p \in P[a]}
    <3>1. ASSUME NEW a \in S PROVE P[a] # {} /\ M[a] # {}
      <4>1. P[a] = DayPrices(OnDay(D, a)) /\ M[a] = DayMeans(OnDay(D, a))
        OBVIOUS
      <4> QED BY <2>2, <4>1, DaysHavePrices, DaysHaveMeans
    <3>2. ASSUME lone, NEW a \in S PROVE M[a] = {p * Scale : p \in P[a]}
      <4>1. \A r, q \in OnDay(D, a) : r.market = q.market
        BY <3>2 DEF OnDay, InDistrict
      <4>2. P[a] = DayPrices(OnDay(D, a)) /\ M[a] = DayMeans(OnDay(D, a))
        OBVIOUS
      <4> QED BY <2>2, <4>1, <4>2, DaysHaveMeans
    <3> HIDE DEF S, P, M, lone
    <3> QED BY <3>1, <3>2
  <2> HIDE DEF P, M
  <2>4. lone => seen = stated
    <3> SUFFICES ASSUME lone PROVE seen = stated
      OBVIOUS
    <3>1. Scaled(SeriesOver(S, P)) = SeriesOver(S, M)
      <4> HIDE DEF S
      <4> QED BY <2>2, <2>3, ScaledEntries
    <3> QED BY <2>1, <3>1 DEF LatestPrices
  <2>5. stated = {} <=> D = {}
    <3>1. SeriesOver(S, M) # {} /\ \A s \in SeriesOver(S, M) : s = <<>> <=> D = {}
      <4> HIDE DEF D
      <4> QED BY <1>1, <2>3, SeriesOfRows
    <3>2. stated = {Last(s) : s \in SeriesOver(S, M) \ {<<>>}}
      BY <2>1 DEF LatestPrices
    <3> HIDE DEF S, D, stated
    <3> QED BY <3>1, <3>2
  <2>6. seen = {} <=> D = {}
    <3>1. SeriesOver(S, P) # {} /\ \A s \in SeriesOver(S, P) : s = <<>> <=> D = {}
      <4> HIDE DEF D
      <4> QED BY <1>1, <2>3, SeriesOfRows
    <3>2. seen = {Last(s) : s \in Scaled(SeriesOver(S, P)) \ {<<>>}}
      BY <2>1
    <3> HIDE DEF S, D, seen
    <3>3. ASSUME NEW s PROVE [i \in DOMAIN s |-> s[i] * Scale] = <<>> <=> DOMAIN s = {}
      OBVIOUS
    <3>4. ASSUME NEW s \in SeriesOver(S, P) PROVE DOMAIN s = {} <=> s = <<>>
      <4>1. s = [i \in DOMAIN s |-> s[i]]
        BY <2>2, SeriesOverDays
      <4> QED BY <4>1
    <3>5. \A t \in Scaled(SeriesOver(S, P)) : t = <<>> <=> D = {}
      BY <3>1, <3>3, <3>4 DEF Scaled
    <3>6. Scaled(SeriesOver(S, P)) # {}
      BY <3>1 DEF Scaled
    <3> QED BY <3>2, <3>5, <3>6
  <2> HIDE DEF seen, stated, lone, D
  <2> QED BY <1>3, <2>4, <2>5, <2>6 DEF AlertSeesToldPrice, seen, stated, lone
<1>5. CASE pinned # Unstated
  BY <1>4, <1>5 DEF AlertSeesToldPrice
<1> QED BY <1>2, <1>3, <1>5

-----------------------------------------------------------------------------
(***************************************************************************)
(* When an alert fires again                                               *)
(***************************************************************************)
\* The rows an alert is decided on, and the end of a series.
AlertRows(rows, scope) ==
  IF scope \in Markets THEN InMarket(rows, scope) ELSE InDistrict(rows)
EndOf(s) == SubSeq(s, IF Len(s) < 2 THEN 1 ELSE Len(s) - 1, Len(s))

LEMMA LastTwoAreEnds ==
  ASSUME NEW rows, NEW p
  PROVE  LastTwo(rows, p)
           = {EndOf(s) : s \in Scaled(DailySeries(AlertRows(rows, AlertScope(p))))}
BY DEF LastTwo, SeriesOf, AlertSeries, AlertRows, EndOf

LEMMA EndsOfSeries ==
  ASSUME NEW s \in Seq(Nat)
  PROVE  /\ Len(EndOf(s)) = 2 => Len(s) >= 2
         /\ Len(s) >= 2 => /\ Len(EndOf(s)) = 2
                           /\ EndOf(s)[1] = s[Len(s) - 1] /\ EndOf(s)[2] = s[Len(s)]
<1> DEFINE n == Len(s)
<1>1. n \in Nat /\ \A i \in 1 .. n : s[i] \in Nat
  BY LenProperties, ElementOfSeq
<1> HIDE DEF n
<1>2. ASSUME n < 2 PROVE Len(EndOf(s)) # 2
  <2>1. EndOf(s) = SubSeq(s, 1, n)
    BY <1>2 DEF EndOf, n
  <2>2. EndOf(s) = s
    BY <2>1, SubSeqFull DEF n
  <2> QED BY <1>1, <1>2, <2>2 DEF n
<1>3. ASSUME n >= 2
      PROVE  Len(EndOf(s)) = 2 /\ EndOf(s)[1] = s[n - 1] /\ EndOf(s)[2] = s[n]
  <2>1. ~(n < 2) /\ n - 1 \in Int /\ n \in Int /\ n - 1 <= n /\ n - (n - 1) + 1 = 2
    BY <1>1, <1>3
  <2>2. EndOf(s) = SubSeq(s, n - 1, n)
    BY <2>1 DEF EndOf, n
  <2>3. \A i \in n - 1 .. n : s[i] \in Nat
    BY <1>1, <1>3
  <2>4. /\ Len(SubSeq(s, n - 1, n)) = IF n - 1 <= n THEN n - (n - 1) + 1 ELSE 0
        /\ \A i \in 1 .. n - (n - 1) + 1 : SubSeq(s, n - 1, n)[i] = s[(n - 1) + i - 1]
    BY <2>1, <2>3, SubSeqProperties
  <2>5. 1 \in 1 .. 2 /\ 2 \in 1 .. 2 /\ (n - 1) + 1 - 1 = n - 1 /\ (n - 1) + 2 - 1 = n
    BY <1>1
  <2> QED BY <2>1, <2>2, <2>4, <2>5
<1> QED BY <1>1, <1>2, <1>3 DEF n

LEMMA SeriesAreSequences ==
  ASSUME NEW rows \in SUBSET QuotedRows, NEW s \in Scaled(DailySeries(rows))
  PROVE  s \in Seq(Nat) /\ Len(s) = Cardinality(AgesOf(rows))
<1> DEFINE S == AgesOf(rows)
           n == Cardinality(S)
           P == [a \in S |-> DayPrices(OnDay(rows, a))]
<1>1. /\ S \in SUBSET Nat /\ IsFiniteSet(S) /\ n \in Nat
      /\ \A a \in S : OnDay(rows, a) # {} /\ OnDay(rows, a) \in SUBSET QuotedRows
  BY DaysAreFew
<1>2. \A a \in S : P[a] \subseteq Nat
  BY <1>1, DaysHavePrices
<1>3. PICK t \in SeriesOver(S, P) : s = [i \in DOMAIN t |-> t[i] * Scale]
  BY DEF Scaled, DailySeries
<1> HIDE DEF S, P
<1>4. DOMAIN t = 1 .. n /\ \A i \in 1 .. n : t[i] \in P[DayAt(S, i)]
  BY <1>1, SeriesOverDays
<1>5. \A i \in 1 .. n : DayAt(S, i) \in S
  BY <1>1, PlacesAreDays
<1> HIDE DEF n
<1>6. \A i \in 1 .. n : t[i] * Scale \in Nat
  <2>1. ASSUME NEW i \in 1 .. n PROVE t[i] * Scale \in Nat
    <3>1. t[i] \in Nat /\ Scale \in Nat
      BY <1>2, <1>4, <1>5, SeriesAssumption
    <3> QED BY <3>1
  <2> QED BY <2>1
<1>7. s \in [1 .. n -> Nat]
  BY <1>3, <1>4, <1>6
<1>8. s \in Seq(Nat)
  <2>1. Seq(Nat) = UNION {[1 .. m -> Nat] : m \in Nat}
    BY SeqDef
  <2> QED BY <1>1, <1>7, <2>1
<1>9. DOMAIN s = 1 .. Len(s) /\ Len(s) \in Nat /\ DOMAIN s = 1 .. n
  BY <1>7, <1>8, LenProperties
<1> QED BY <1>1, <1>8, <1>9 DEF n, S

\* The first row of today adds an observation to those there were.
LEMMA OneMoreDay ==
  ASSUME NEW D \in SUBSET QuotedRows, 0 \notin AgesOf(D), NEW r \in QuotedRows, r.age = 0,
         NEW t \in Scaled(DailySeries(D \cup {r}))
  PROVE  LET n == Cardinality(AgesOf(D))
         IN /\ Len(t) = n + 1 /\ t[n + 1] = r.price * Scale
            /\ \E s \in Scaled(DailySeries(D)) : \A i \in 1 .. n : s[i] = t[i]
<1> DEFINE S == AgesOf(D)
           n == Cardinality(S)
           E == D \cup {r}
           P == [a \in S |-> DayPrices(OnDay(D, a))]
           Q == [a \in AgesOf(E) |-> DayPrices(OnDay(E, a))]
<1>1. /\ S \in SUBSET Nat /\ IsFiniteSet(S) /\ n \in Nat /\ E \in SUBSET QuotedRows
  BY DaysAreFew
<1>2. AgesOf(E) = S \cup {0}
  BY DEF AgesOf
<1>3. \A a \in S : P[a] = Q[a]
  <2>1. ASSUME NEW a \in S PROVE OnDay(E, a) = OnDay(D, a)
    <3>1. a # r.age
      OBVIOUS
    <3> QED BY <3>1 DEF OnDay
  <2> QED BY <1>2, <2>1
<1>4. Q[0] = {r.price}
  <2>1. OnDay(E, 0) = {r}
    BY DEF OnDay, AgesOf
  <2>2. DayPrices({r}) # {} /\ DayPrices({r}) \subseteq {r.price}
    <3>1. DayPrices({r}) # {}
      BY DaysHavePrices
    <3> QED BY <3>1 DEF DayPrices, Chosen, Winning
  <2>3. Q[0] = DayPrices(OnDay(E, 0))
    BY <1>2
  <2> HIDE DEF Q, E
  <2> QED BY <2>1, <2>2, <2>3
<1>5. S \cup {0} \in SUBSET Nat /\ IsFiniteSet(S \cup {0}) /\ Cardinality(S \cup {0}) = n + 1
  <2> HIDE DEF S
  <2> QED BY <1>1, FS_AddElement DEF S
<1>6. ASSUME NEW i \in 1 .. n
      PROVE  DayAt(S \cup {0}, i) = DayAt(S, i) /\ DayAt(S, i) \in S
  <2> DEFINE a == DayAt(S, i)
  <2>1. a \in S /\ Cardinality(Newer(S, a)) = i - 1
    <3> HIDE DEF S
    <3> QED BY <1>1, PlacesAreDays
  <2>2. a \in Nat
    BY <1>1, <2>1
  <2> HIDE DEF a
  <2>3. Newer(S \cup {0}, a) = Newer(S, a)
    BY <2>2 DEF Newer
  <2>4. i \in 1 .. Cardinality(S \cup {0})
    BY <1>1, <1>5
  <2>5. a = DayAt(S \cup {0}, i)
    <3> HIDE DEF S
    <3> QED BY <1>5, <2>1, <2>3, <2>4, PlacesAreDays
  <2> QED BY <2>1, <2>5 DEF a
<1>7. DayAt(S \cup {0}, n + 1) = 0
  <2>1. \A b \in S : b \in Nat /\ b # 0
    BY <1>1
  <2>2. Newer(S \cup {0}, 0) = S
    BY <2>1 DEF Newer
  <2>3. n + 1 \in 1 .. Cardinality(S \cup {0}) /\ (n + 1) - 1 = n
    BY <1>1, <1>5
  <2>4. Cardinality(Newer(S \cup {0}, 0)) = (n + 1) - 1
    BY <2>2, <2>3
  <2> HIDE DEF S, n
  <2> QED BY <1>5, <2>3, <2>4, PlacesAreDays
<1>8. PICK u \in SeriesOver(S \cup {0}, Q) : t = [i \in DOMAIN u |-> u[i] * Scale]
  BY <1>2 DEF Scaled, DailySeries
<1>9. DailySeries(D) = SeriesOver(S, P)
  BY DEF DailySeries
<1> HIDE DEF S, P, Q, E
<1>10. DOMAIN u = 1 .. n + 1 /\ \A i \in 1 .. n + 1 : u[i] \in Q[DayAt(S \cup {0}, i)]
  BY <1>5, <1>8, SeriesOverDays
<1> DEFINE v == [i \in 1 .. n |-> u[i]]
<1>11. v \in SeriesOver(S, P)
  <2>1. DOMAIN v = 1 .. n /\ v = [i \in DOMAIN v |-> v[i]]
    OBVIOUS
  <2>2. \A i \in 1 .. n : v[i] \in P[DayAt(S, i)]
    <3>1. ASSUME NEW i \in 1 .. n PROVE v[i] \in P[DayAt(S, i)]
      <4>1. i \in 1 .. n + 1
        BY <1>1
      <4> QED BY <1>3, <1>6, <1>10, <4>1
    <3> QED BY <3>1
  <2> HIDE DEF v, n
  <2> QED BY <1>1, <2>1, <2>2, SeriesOverDays DEF n
<1>12. \E s \in Scaled(DailySeries(D)) : \A i \in 1 .. n : s[i] = t[i]
  <2> DEFINE s == [i \in DOMAIN v |-> v[i] * Scale]
  <2>1. s \in Scaled(DailySeries(D))
    <3> HIDE DEF v
    <3> QED BY <1>9, <1>11 DEF Scaled
  <2>2. \A i \in 1 .. n : s[i] = t[i]
    <3>1. \A i \in 1 .. n : i \in 1 .. n + 1
      BY <1>1
    <3> QED BY <1>8, <1>10, <3>1
  <2> HIDE DEF s
  <2> QED BY <2>1, <2>2
<1>13. t[n + 1] = r.price * Scale
  <2>1. n + 1 \in 1 .. n + 1
    BY <1>1
  <2>2. u[n + 1] = r.price
    BY <1>4, <1>7, <1>10, <2>1
  <2> QED BY <1>8, <1>10, <2>1, <2>2
<1>14. Len(t) = n + 1
  BY <1>1, <1>2, <1>5, SeriesAreSequences DEF E
<1> QED BY <1>12, <1>13, <1>14 DEF n, S

\* If it changes nothing, the latest two observations were alike.
LEMMA NoNews ==
  ASSUME NEW D \in SUBSET QuotedRows, 0 \notin AgesOf(D), NEW r \in QuotedRows, r.age = 0,
         {EndOf(s) : s \in Scaled(DailySeries(D \cup {r}))}
           = {EndOf(s) : s \in Scaled(DailySeries(D))},
         NEW pair \in {EndOf(s) : s \in Scaled(DailySeries(D))}, Len(pair) = 2
  PROVE  pair[1] = pair[2]
<1> DEFINE n == Cardinality(AgesOf(D))
           Old == Scaled(DailySeries(D))
           New == Scaled(DailySeries(D \cup {r}))
<1>1. n \in Nat
  BY DaysAreFew
<1>2. \A s \in Old : s \in Seq(Nat) /\ Len(s) = n
  BY SeriesAreSequences
<1>3. \A t \in New : /\ t \in Seq(Nat) /\ Len(t) = n + 1 /\ t[n + 1] = r.price * Scale
                     /\ \E s \in Old : \A i \in 1 .. n : s[i] = t[i]
  <2>1. D \cup {r} \in SUBSET QuotedRows
    OBVIOUS
  <2> QED BY <2>1, OneMoreDay, SeriesAreSequences
<1> HIDE DEF n, Old, New
<1>4. PICK t \in New : pair = EndOf(t)
  BY DEF New
<1>5. n + 1 >= 2 /\ pair[1] = t[n] /\ pair[2] = t[n + 1]
  <2>1. t \in Seq(Nat) /\ Len(t) = n + 1
    BY <1>3
  <2>2. (n + 1) - 1 = n
    BY <1>1
  <2> QED BY <1>4, <2>1, <2>2, EndsOfSeries
<1>6. PICK s \in Old : \A i \in 1 .. n : s[i] = t[i]
  BY <1>3
<1>7. PICK t2 \in New : EndOf(s) = EndOf(t2)
  BY DEF New, Old
<1>8. Len(EndOf(s)) = 2 /\ EndOf(s)[2] = r.price * Scale
  <2>1. t2 \in Seq(Nat) /\ Len(t2) = n + 1 /\ t2[n + 1] = r.price * Scale
    BY <1>3
  <2> QED BY <1>5, <1>7, <2>1, EndsOfSeries
<1>9. EndOf(s)[2] = s[n] /\ n >= 2
  <2>1. s \in Seq(Nat) /\ Len(s) = n
    BY <1>2
  <2> QED BY <1>8, <2>1, EndsOfSeries
<1>10. s[n] = t[n]
  BY <1>1, <1>6, <1>9
<1>11. t[n + 1] = r.price * Scale
  BY <1>3
<1> QED BY <1>5, <1>8, <1>9, <1>10, <1>11

\* What an SMS tells of was a crossing, and is no older than this day's first price.
AboutCrossing ==
  \E pair \in LastTwo(quoted, profile) :
    Len(pair) = 2 /\ Crosses(Condition, Threshold * Scale, pair[1], pair[2])
HasToday == 0 \in AgesOf(AlertRows(quoted, AlertScope(profile)))

RowsAndClock ==
  /\ quoted \in SUBSET QuotedRows
  /\ hour \in 0 .. DAY - 1
  /\ profile \in Profiles /\ pinned \in AlertMarkets
  /\ since \in 0 .. DAY + 1 /\ told \in BOOLEAN
StampsAndTexts ==
  /\ outbound \in Stamps /\ Falling(outbound)
  /\ texts = InWindow(outbound) /\ Len(texts) <= OUTBOUND_MAX
ToldOfCrossing == told => AboutCrossing
ToldToday == told /\ HasToday => since <= hour
RepliesInv == RowsAndClock /\ StampsAndTexts /\ ToldOfCrossing /\ ToldToday

LEMMA NoStamps == <<>> \in Stamps /\ Falling(<<>>) /\ InWindow(<<>>) = <<>> /\ Len(<<>>) = 0
<1>1. <<>> \in Stamps /\ Len(<<>>) = 0 /\ DOMAIN <<>> = {}
  BY EmptySeq DEF Stamps
<1>2. InWindow(<<>>) = <<>>
  BY <1>1, NothingToDrop
<1> QED BY <1>1, <1>2 DEF Falling

LEMMA RepliesInit == ReplyInit => RepliesInv
<1> SUFFICES ASSUME ReplyInit PROVE RepliesInv
  OBVIOUS
<1>1. RowsAndClock
  <2>1. 0 \in 0 .. DAY - 1 /\ DAY + 1 \in 0 .. DAY + 1
    BY RepliesAssumption
  <2>2. quoted \in SUBSET QuotedRows /\ told \in BOOLEAN
    BY DEF ReplyInit
  <2> QED BY <2>1, <2>2 DEF ReplyInit, RowsAndClock
<1>2. StampsAndTexts
  BY RepliesAssumption, NoStamps DEF ReplyInit, StampsAndTexts
<1> QED BY <1>1, <1>2 DEF ReplyInit, RepliesInv, ToldOfCrossing, ToldToday

LEMMA RowsAndClockStep == RowsAndClock /\ ReplyNext => RowsAndClock'
<1> SUFFICES ASSUME RowsAndClock, ReplyNext PROVE RowsAndClock'
  OBVIOUS
<1>0. DAY \in Nat /\ DAY >= 2 /\ REPLY_DAYS \in Nat
  BY RepliesAssumption
<1>1. ASSUME NEW q \in Reports, Report(q) PROVE RowsAndClock'
  <2>1. q.market \in Markets /\ q.source \in Sources /\ q.general \in BOOLEAN /\ q.price \in Nat
    BY RepliesAssumption
  <2>2. [market |-> q.market, source |-> q.source, general |-> q.general,
         price |-> q.price, age |-> 0] \in QuotedRows
    BY <1>0, <2>1 DEF QuotedRows
  <2>3. quoted' \in SUBSET QuotedRows
    BY <1>1, <2>2 DEF Report, RowsAndClock
  <2>4. told' \in BOOLEAN
    BY <1>1 DEF Report
  <2> QED BY <1>1, <2>3, <2>4 DEF Report, RowsAndClock
<1>2. ASSUME NEW p \in Profiles, SetProfile(p) PROVE RowsAndClock'
  BY <1>2 DEF SetProfile, RowsAndClock
<1>3. ASSUME NEW text \in {"crop", "other"}, Inbound(text) PROVE RowsAndClock'
  BY <1>3 DEF Inbound, RowsAndClock
<1>4. CASE Tick
  <2>1. hour' \in 0 .. DAY - 1
    BY <1>0, <1>4 DEF Tick, RowsAndClock
  <2>2. ASSUME NEW r \in QuotedRows, r.age < REPLY_DAYS
        PROVE  [r EXCEPT !.age = @ + 1] \in QuotedRows
    <3>1. r.age + 1 \in 0 .. REPLY_DAYS
      BY <1>0, <2>2 DEF QuotedRows
    <3> QED BY <3>1 DEF QuotedRows
  <2>3. quoted' \in SUBSET QuotedRows
    <3>1. CASE hour' > 0
      BY <1>4, <3>1 DEF Tick, RowsAndClock
    <3>2. CASE ~(hour' > 0)
      <4>1. quoted' = {[r EXCEPT !.age = @ + 1] : r \in {q \in quoted : q.age < REPLY_DAYS}}
        BY <1>4, <3>2 DEF Tick
      <4> QED BY <2>2, <4>1 DEF RowsAndClock
    <3> QED BY <3>1, <3>2
  <2>4. since' \in 0 .. DAY + 1
    BY <1>0, <1>4 DEF Tick, RowsAndClock
  <2>5. told' \in BOOLEAN
    BY <1>4 DEF Tick
  <2> QED BY <1>4, <2>1, <2>3, <2>4, <2>5 DEF Tick, RowsAndClock
<1>5. CASE Restart
  BY <1>5 DEF Restart, RowsAndClock
<1>6. CASE CheckAlert
  BY <1>0, <1>6 DEF CheckAlert, RowsAndClock
<1> QED BY <1>1, <1>2, <1>3, <1>4, <1>5, <1>6 DEF ReplyNext

LEMMA StampsAndTextsStep == StampsAndTexts /\ ReplyNext => StampsAndTexts'
<1> SUFFICES ASSUME StampsAndTexts, ReplyNext PROVE StampsAndTexts'
  OBVIOUS
<1>0. /\ outbound \in Stamps /\ Falling(outbound) /\ texts = InWindow(outbound)
      /\ Len(texts) <= OUTBOUND_MAX /\ OUTBOUND_MAX \in Nat
      /\ texts \in Stamps /\ Falling(texts)
      /\ \A i \in DOMAIN texts : texts[i] < OUTBOUND_WINDOW
  BY RepliesAssumption, WhatIsLeft DEF StampsAndTexts
<1>1. ASSUME NEW q \in Reports, Report(q) PROVE StampsAndTexts'
  BY <1>1 DEF Report, StampsAndTexts
<1>2. ASSUME NEW p \in Profiles, SetProfile(p) PROVE StampsAndTexts'
  BY <1>2 DEF SetProfile, StampsAndTexts
<1>3. ASSUME NEW text \in {"crop", "other"}, Inbound(text) PROVE StampsAndTexts'
  <2>1. CASE Allowed
    <3>1. outbound' = Append(texts, 0) /\ texts' = Append(texts, 0)
      BY <1>0, <1>3, <2>1 DEF Inbound, Trimmed
    <3>2. /\ Append(texts, 0) \in Stamps /\ Falling(Append(texts, 0))
          /\ Len(Append(texts, 0)) = Len(texts) + 1
      BY <1>0, OneMoreStamp
    <3>3. \A i \in DOMAIN Append(texts, 0) : Append(texts, 0)[i] < OUTBOUND_WINDOW
      <4>1. DOMAIN Append(texts, 0) = 1 .. Len(texts) + 1 /\ DOMAIN texts = 1 .. Len(texts)
            /\ Len(texts) \in Nat
        BY <1>0, <3>2, StampsAreAges
      <4>2. Append(texts, 0)[Len(texts) + 1] = 0
            /\ \A i \in 1 .. Len(texts) : Append(texts, 0)[i] = texts[i]
        BY <1>0, RepliesAssumption, AppendProperties DEF Stamps
      <4>3. \A i \in 1 .. Len(texts) + 1 : i = Len(texts) + 1 \/ i \in 1 .. Len(texts)
        BY <4>1
      <4>4. 0 < OUTBOUND_WINDOW
        BY RepliesAssumption
      <4> QED BY <1>0, <4>1, <4>2, <4>3, <4>4
    <3>4. InWindow(Append(texts, 0)) = Append(texts, 0)
      BY <3>2, <3>3, NothingToDrop
    <3>5. Len(texts) < OUTBOUND_MAX /\ Len(texts) \in Nat
      BY <1>0, <2>1, StampsAreAges DEF Allowed, Trimmed
    <3>6. Len(Append(texts, 0)) <= OUTBOUND_MAX
      BY <1>0, <3>2, <3>5
    <3> QED BY <3>1, <3>2, <3>4, <3>6 DEF StampsAndTexts
  <2>2. CASE ~Allowed
    <3>1. outbound' = texts /\ texts' = texts
      BY <1>0, <1>3, <2>2 DEF Inbound, Trimmed
    <3>2. InWindow(texts) = texts
      BY <1>0, NothingToDrop
    <3> QED BY <1>0, <3>1, <3>2 DEF StampsAndTexts
  <2> QED BY <2>1, <2>2
<1>4. CASE Tick
  <2> DEFINE u == Aged(outbound, OUTBOUND_WINDOW)
             v == Aged(texts, OUTBOUND_WINDOW)
  <2>1. outbound' = u /\ texts' = InWindow(v)
    BY <1>4 DEF Tick
  <2>2. InWindow(v) = InWindow(u)
    BY <1>0, DroppedBeforeOrAfter
  <2>3. u \in Stamps /\ Falling(u)
    BY <1>0, StampsAge
  <2>4. v \in Stamps /\ Falling(v) /\ Len(v) = Len(texts)
    BY <1>0, StampsAge
  <2> HIDE DEF u, v
  <2>5. Len(InWindow(v)) <= OUTBOUND_MAX
    <3>1. PICK k \in 0 .. Len(v) : Len(InWindow(v)) = Len(v) - k
      BY <2>4, TheOldestLapse
    <3>2. Len(texts) \in Nat
      BY <1>0, StampsAreAges
    <3> QED BY <1>0, <2>4, <3>1, <3>2
  <2> QED BY <2>1, <2>2, <2>3, <2>5 DEF StampsAndTexts
<1>5. CASE Restart
  BY <1>0, <1>5, NoStamps DEF Restart, StampsAndTexts
<1>6. CASE CheckAlert
  BY <1>6 DEF CheckAlert, StampsAndTexts
<1> QED BY <1>1, <1>2, <1>3, <1>4, <1>5, <1>6 DEF ReplyNext

\* A crossing found is the end of a series.
LEMMA CrossedIsTold ==
  ASSUME quoted \in SUBSET QuotedRows, Crossed PROVE AboutCrossing
<1>1. PICK s \in SeriesOf(quoted, profile) : IsCrossing(Condition, Threshold, s)
  BY DEF Crossed
<1>2. /\ SeriesOf(quoted, profile) = Scaled(DailySeries(AlertRows(quoted, AlertScope(profile))))
      /\ AlertRows(quoted, AlertScope(profile)) \in SUBSET QuotedRows
  BY DEF SeriesOf, AlertSeries, AlertRows, InMarket, InDistrict
<1>3. s \in Seq(Nat)
  BY <1>1, <1>2, SeriesAreSequences
<1>4. Len(s) >= 2 /\ Crosses(Condition, Threshold * Scale, s[Len(s) - 1], s[Len(s)])
  BY <1>1 DEF IsCrossing
<1>5. /\ Len(EndOf(s)) = 2
      /\ EndOf(s)[1] = s[Len(s) - 1] /\ EndOf(s)[2] = s[Len(s)]
  BY <1>3, <1>4, EndsOfSeries
<1>6. EndOf(s) \in LastTwo(quoted, profile)
  BY <1>1, <1>2, LastTwoAreEnds
<1> QED BY <1>4, <1>5, <1>6 DEF AboutCrossing

\* A report leaves the scope as it was, or adds the first row of today to it, or there
\* was one already.
LEMMA ReportToRows ==
  ASSUME quoted \in SUBSET QuotedRows, NEW q \in Reports, Report(q), ~HasToday,
         profile \in Profiles
  PROVE  \/ AlertRows(quoted', AlertScope(profile)) = AlertRows(quoted, AlertScope(profile))
         \/ \E r \in QuotedRows :
              r.age = 0
                /\ AlertRows(quoted', AlertScope(profile))
                     = AlertRows(quoted, AlertScope(profile)) \cup {r}
<1> DEFINE r == [market |-> q.market, source |-> q.source, general |-> q.general,
                 price |-> q.price, age |-> 0]
           D == AlertRows(quoted, AlertScope(profile))
           Kept == {x \in quoted : x.age > 0 \/ x.market # q.market \/ x.source # q.source}
<1>1. r \in QuotedRows /\ r.age = 0 /\ r.market = q.market
  BY RepliesAssumption DEF QuotedRows
<1>2. quoted' = Kept \cup {r}
  BY DEF Report
<1>3. \A x \in D : x \in Kept
  <2>1. ASSUME NEW x \in D PROVE x \in quoted /\ x.age > 0
    <3>1. x \in quoted /\ x.age # 0
      BY DEF HasToday, AgesOf, AlertRows, InMarket, InDistrict
    <3>2. x.age \in Nat
      BY <3>1 DEF QuotedRows
    <3> QED BY <3>1, <3>2
  <2> QED BY <2>1
<1>4. Kept \subseteq quoted
  OBVIOUS
<1> HIDE DEF r, Kept, D
<1>5. AlertRows(Kept, AlertScope(profile)) = D
  BY <1>3, <1>4 DEF D, AlertRows, InMarket, InDistrict
<1>6. AlertRows({r}, AlertScope(profile)) \in {{}, {r}}
  BY DEF AlertRows, InMarket, InDistrict
<1>7. AlertRows(Kept \cup {r}, AlertScope(profile))
        = AlertRows(Kept, AlertScope(profile)) \cup AlertRows({r}, AlertScope(profile))
  BY DEF AlertRows, InMarket, InDistrict
<1> QED BY <1>1, <1>2, <1>5, <1>6, <1>7 DEF D

\* Nothing crosses from a price to the same price.
LEMMA NoCrossingInPlace ==
  ASSUME NEW c, NEW t \in Int, NEW x \in Int PROVE ~Crosses(c, t, x, x)
BY DEF Crosses

\* The scope of the alert moves only with the farmer.
LEMMA ScopeStays ==
  ASSUME pinned' = pinned, profile' = profile
  PROVE  /\ AlertScope(profile)' = AlertScope(profile)
         /\ LastTwo(quoted, profile)' = LastTwo(quoted', profile)
<1>1. AlertScope(profile)' = AlertScope(profile)
  BY DEF AlertScope
<1>2. LastTwo(quoted, profile)' = LastTwo(quoted', profile)
  BY DEF LastTwo, SeriesOf, AlertScope
<1> QED BY <1>1, <1>2

LEMMA ToldStep ==
  RowsAndClock /\ ToldOfCrossing /\ ToldToday /\ ReplyNext => ToldOfCrossing' /\ ToldToday'
<1> SUFFICES ASSUME RowsAndClock, ToldOfCrossing, ToldToday, ReplyNext
             PROVE  ToldOfCrossing' /\ ToldToday'
  OBVIOUS
<1>0. /\ quoted \in SUBSET QuotedRows /\ hour \in 0 .. DAY - 1 /\ profile \in Profiles
      /\ since \in 0 .. DAY + 1 /\ DAY \in Nat /\ DAY >= 2
  BY RepliesAssumption DEF RowsAndClock
<1>1. ASSUME NEW q \in Reports, Report(q) PROVE ToldOfCrossing' /\ ToldToday'
  <2> SUFFICES ASSUME told' PROVE AboutCrossing' /\ (HasToday' => since' <= hour')
    BY DEF ToldOfCrossing, ToldToday
  <2>1. /\ told /\ LastTwo(quoted', profile) = LastTwo(quoted, profile)
        /\ profile' = profile /\ pinned' = pinned /\ since' = since /\ hour' = hour
    BY <1>1 DEF Report
  <2>0. /\ AlertScope(profile)' = AlertScope(profile)
        /\ LastTwo(quoted, profile)' = LastTwo(quoted, profile)
    BY <2>1, ScopeStays
  <2>2. AboutCrossing /\ AboutCrossing'
    BY <2>0, <2>1 DEF ToldOfCrossing, AboutCrossing
  <2>3. ASSUME HasToday', ~HasToday PROVE FALSE
    <3> DEFINE D == AlertRows(quoted, AlertScope(profile))
    <3>1. AlertRows(quoted', AlertScope(profile)) # D
      BY <2>0, <2>3 DEF HasToday
    <3>2. PICK r \in QuotedRows :
            r.age = 0 /\ AlertRows(quoted', AlertScope(profile)) = D \cup {r}
      BY <1>0, <1>1, <2>3, <3>1, ReportToRows
    <3>3. PICK pair \in LastTwo(quoted, profile) :
             Len(pair) = 2 /\ Crosses(Condition, Threshold * Scale, pair[1], pair[2])
      BY <2>2 DEF AboutCrossing
    <3>4. D \in SUBSET QuotedRows /\ 0 \notin AgesOf(D)
      BY <1>0, <2>3 DEF AlertRows, InMarket, InDistrict, HasToday
    <3>5. /\ LastTwo(quoted, profile) = {EndOf(s) : s \in Scaled(DailySeries(D))}
          /\ LastTwo(quoted', profile) = {EndOf(s) : s \in Scaled(DailySeries(D \cup {r}))}
      BY <3>2, LastTwoAreEnds
    <3> HIDE DEF D
    <3>6. pair[1] = pair[2]
      BY <2>1, <3>2, <3>3, <3>4, <3>5, NoNews
    <3>7. pair[1] \in Int
      <4>1. PICK s \in Scaled(DailySeries(D)) : pair = EndOf(s)
        BY <3>3, <3>5
      <4>2. s \in Seq(Nat)
        BY <3>4, <4>1, SeriesAreSequences
      <4>3. Len(s) >= 2 /\ pair[1] = s[Len(s) - 1]
        BY <3>3, <4>1, <4>2, EndsOfSeries
      <4>4. Len(s) \in Nat
        BY <4>2, LenProperties
      <4>5. Len(s) - 1 \in 1 .. Len(s)
        BY <4>3, <4>4
      <4>6. s[Len(s) - 1] \in Nat
        BY <4>2, <4>5, ElementOfSeq
      <4> QED BY <4>3, <4>6
    <3>8. Threshold * Scale \in Int
      <4>1. Threshold \in Nat /\ Scale \in Nat
        BY RepliesAssumption, SeriesAssumption
      <4> QED BY <4>1
    <3> QED BY <3>3, <3>6, <3>7, <3>8, NoCrossingInPlace
  <2>4. HasToday' => since' <= hour'
    BY <2>1, <2>3 DEF ToldToday
  <2> QED BY <2>2, <2>4
<1>2. ASSUME NEW p \in Profiles, SetProfile(p) PROVE ToldOfCrossing' /\ ToldToday'
  <2> SUFFICES ASSUME told' PROVE AboutCrossing' /\ (HasToday' => since' <= hour')
    BY DEF ToldOfCrossing, ToldToday
  <2>1. /\ told /\ AlertScope(profile)' = AlertScope(profile)
        /\ quoted' = quoted /\ since' = since /\ hour' = hour
    BY <1>2 DEF SetProfile, AlertScope
  <2>2. LastTwo(quoted, profile)' = LastTwo(quoted, profile)
    BY <1>2, <2>1 DEF LastTwo, SeriesOf
  <2>3. AboutCrossing' /\ (HasToday' <=> HasToday)
    BY <2>1, <2>2 DEF ToldOfCrossing, AboutCrossing, HasToday
  <2> QED BY <2>1, <2>3 DEF ToldToday
<1>3. ASSUME NEW text \in {"crop", "other"}, Inbound(text) PROVE ToldOfCrossing' /\ ToldToday'
  <2>1. /\ quoted' = quoted /\ hour' = hour /\ profile' = profile /\ pinned' = pinned
        /\ since' = since /\ (told' <=> told)
    BY <1>3 DEF Inbound
  <2>2. (AboutCrossing' <=> AboutCrossing) /\ (HasToday' <=> HasToday)
    <3>1. /\ AlertScope(profile)' = AlertScope(profile)
          /\ LastTwo(quoted, profile)' = LastTwo(quoted, profile)
      BY <2>1, ScopeStays
    <3> QED BY <2>1, <3>1 DEF AboutCrossing, HasToday
  <2> QED BY <2>1, <2>2 DEF ToldOfCrossing, ToldToday
<1>4. CASE Tick
  <2> SUFFICES ASSUME told' PROVE AboutCrossing' /\ (HasToday' => since' <= hour')
    BY DEF ToldOfCrossing, ToldToday
  <2>1. /\ told /\ LastTwo(quoted', profile) = LastTwo(quoted, profile)
        /\ profile' = profile /\ pinned' = pinned
    BY <1>4 DEF Tick
  <2>2. AboutCrossing'
    <3>1. LastTwo(quoted, profile)' = LastTwo(quoted, profile)
      BY <2>1, ScopeStays
    <3> QED BY <2>1, <3>1 DEF ToldOfCrossing, AboutCrossing
  <2>3. hour' = (hour + 1) % DAY
    BY <1>4 DEF Tick
  <2>4. CASE hour' > 0
    <3>1. hour' = hour + 1
      BY <1>0, <2>3, <2>4
    <3>5. quoted' = quoted
      BY <1>4, <2>4 DEF Tick
    <3>2. HasToday' <=> HasToday
      <4>1. AlertScope(profile)' = AlertScope(profile)
        BY <2>1, ScopeStays
      <4> QED BY <3>5, <4>1 DEF HasToday
    <3>3. since <= hour => since' = since + 1
      BY <1>0, <1>4 DEF Tick
    <3>4. HasToday' => since' <= hour'
      BY <1>0, <2>1, <3>1, <3>2, <3>3 DEF ToldToday
    <3> QED BY <2>2, <3>4
  <2>5. CASE ~(hour' > 0)
    <3>1. quoted' = {[r EXCEPT !.age = @ + 1] : r \in {q \in quoted : q.age < REPLY_DAYS}}
      BY <1>4, <2>5 DEF Tick
    <3>2. ASSUME NEW x \in quoted' PROVE x.age # 0
      <4>1. PICK r \in quoted : x = [r EXCEPT !.age = @ + 1]
        BY <3>1
      <4>2. r \in QuotedRows
        BY <1>0
      <4>3. x.age = r.age + 1 /\ r.age \in Nat
        BY <4>1, <4>2 DEF QuotedRows
      <4> QED BY <4>3
    <3>3. ~HasToday'
      BY <3>2 DEF HasToday, AgesOf, AlertRows, InMarket, InDistrict
    <3> QED BY <2>2, <3>3
  <2> QED BY <2>4, <2>5
<1>5. CASE Restart
  <2>1. /\ quoted' = quoted /\ hour' = hour /\ profile' = profile /\ pinned' = pinned
        /\ since' = since /\ (told' <=> told)
    BY <1>5 DEF Restart
  <2>2. (AboutCrossing' <=> AboutCrossing) /\ (HasToday' <=> HasToday)
    <3>1. /\ AlertScope(profile)' = AlertScope(profile)
          /\ LastTwo(quoted, profile)' = LastTwo(quoted, profile)
      BY <2>1, ScopeStays
    <3> QED BY <2>1, <3>1 DEF AboutCrossing, HasToday
  <2> QED BY <2>1, <2>2 DEF ToldOfCrossing, ToldToday
<1>6. CASE CheckAlert
  <2>1. AboutCrossing
    BY <1>0, <1>6, CrossedIsTold DEF CheckAlert
  <2>2. AboutCrossing'
    <3>1. quoted' = quoted /\ profile' = profile /\ pinned' = pinned
      BY <1>6 DEF CheckAlert
    <3>2. LastTwo(quoted, profile)' = LastTwo(quoted, profile)
      BY <3>1, ScopeStays
    <3> QED BY <2>1, <3>1, <3>2 DEF AboutCrossing
  <2>3. since' <= hour'
    BY <1>0, <1>6 DEF CheckAlert
  <2> QED BY <2>2, <2>3 DEF ToldOfCrossing, ToldToday
<1> QED BY <1>1, <1>2, <1>3, <1>4, <1>5, <1>6 DEF ReplyNext

LEMMA RepliesAlways == ReplySpec => []RepliesInv
<1>1. RepliesInv /\ UNCHANGED replyVars => RepliesInv'
  <2> SUFFICES ASSUME RepliesInv, UNCHANGED replyVars PROVE RepliesInv'
    OBVIOUS
  <2>1. /\ quoted' = quoted /\ hour' = hour /\ profile' = profile /\ pinned' = pinned
        /\ since' = since /\ told' = told /\ outbound' = outbound /\ texts' = texts
    BY DEF replyVars
  <2>2. (AboutCrossing' <=> AboutCrossing) /\ (HasToday' <=> HasToday)
    <3>1. /\ AlertScope(profile)' = AlertScope(profile)
          /\ LastTwo(quoted, profile)' = LastTwo(quoted, profile)
      BY <2>1, ScopeStays
    <3> QED BY <2>1, <3>1 DEF AboutCrossing, HasToday
  <2>3. ToldOfCrossing' /\ ToldToday'
    BY <2>1, <2>2 DEF RepliesInv, ToldOfCrossing, ToldToday
  <2>4. RowsAndClock' /\ StampsAndTexts'
    BY <2>1 DEF RepliesInv, RowsAndClock, StampsAndTexts
  <2> QED BY <2>3, <2>4 DEF RepliesInv
<1>2. RepliesInv /\ [ReplyNext]_replyVars => RepliesInv'
  BY <1>1, RowsAndClockStep, StampsAndTextsStep, ToldStep DEF RepliesInv
<1> QED BY <1>2, RepliesInit, PTL DEF ReplySpec

\* No process sends a number more replies within the window than the cap, and refuses one
\* only if it has sent that many (CapKept; _allow_outbound): the stamps within the window
\* are those of the messages sent in it, whenever the others are dropped.
THEOREM CapIsKept == ReplySpec => []CapKept
<1>1. RepliesInv => CapKept
  <2> SUFFICES ASSUME RepliesInv PROVE CapKept
    OBVIOUS
  <2>1. /\ outbound \in Stamps /\ Falling(outbound) /\ texts = InWindow(outbound)
        /\ Len(texts) <= OUTBOUND_MAX /\ OUTBOUND_MAX \in Nat /\ Len(texts) \in Nat
    BY RepliesAssumption, WhatIsLeft, StampsAreAges DEF RepliesInv, StampsAndTexts
  <2>2. ReplyTypeOK
    <3>1. \A r \in quoted : r.market \in Markets /\ r.age \in 0 .. REPLY_DAYS
      BY DEF RepliesInv, RowsAndClock, QuotedRows
    <3>2. \A i \in DOMAIN outbound : outbound[i] \in 0 .. OUTBOUND_WINDOW
      BY <2>1, StampsAreAges
    <3> QED BY <3>1, <3>2 DEF ReplyTypeOK, RepliesInv, RowsAndClock
  <2>3. Allowed <=> Len(texts) # OUTBOUND_MAX
    BY <2>1 DEF Allowed, Trimmed
  <2>4. ASSUME NEW text \in {"crop", "other"}
        PROVE  Answer(text) = "rate_limited" <=> (Deserves(text) /\ Len(texts) = OUTBOUND_MAX)
    BY <2>3 DEF Answer
  <2> QED BY <2>1, <2>2, <2>4 DEF CapKept, CapExact
<1> QED BY <1>1, RepliesAlways, PTL

\* Whatever buyers there are, and among as many lots as one answer reads, what matching
\* tells a farmer keeps its promises: nearness and district come before the bid; a buyer's
\* supply shows only lots that rank him, and leaves one out only for others that score no
\* less; some buyer is named if there is a candidate (MatchingHolds; matching_engine.py).
THEOREM MatchingIsSound == ReplySpec => []MatchingHolds
BY MatchingAlwaysHolds, PTL

\* An alert without a market of its own is decided on the price that a reply would state,
\* whenever one market is near or only one reports each day; one with a market of its own
\* on what a farmer near that market would be told, wherever he is (AlertSeesToldPrice;
\* notifications/prices.py).
THEOREM AlertsSeeToldPrices == ReplySpec => []AlertSeesToldPrice
<1>1. RepliesInv => AlertSeesToldPrice
  BY ToldIsSeen DEF RepliesInv, RowsAndClock
<1> QED BY <1>1, RepliesAlways, PTL

\* A second SMS for the same two observations is sent only about prices that are no longer
\* today's (RefiresOnlyOnOldNews; _check_crossing): what an SMS told of was a crossing, so
\* that the first price of a day is news, and since then it is less than a day.
THEOREM NoRefireToday == ReplySpec => RefiresOnlyOnOldNews
<1> DEFINE Fresh == [CheckAlert /\ told => \A r \in quoted : r.age = 0 =>
                       AlertScope(profile) \in Markets /\ r.market # AlertScope(profile)]_replyVars
<1>1. RepliesInv /\ [ReplyNext]_replyVars => Fresh
  <2> SUFFICES ASSUME RepliesInv, CheckAlert, told, NEW r \in quoted, r.age = 0,
                      ~(AlertScope(profile) \in Markets /\ r.market # AlertScope(profile))
               PROVE  FALSE
    OBVIOUS
  <2>1. r.market \in Markets
    BY DEF RepliesInv, RowsAndClock, QuotedRows
  <2>2. HasToday
    BY <2>1 DEF HasToday, AgesOf, AlertRows, InMarket, InDistrict
  <2>3. since <= hour
    BY <2>2 DEF RepliesInv, ToldToday
  <2>4. since > DAY /\ DAY \in Nat /\ hour \in 0 .. DAY - 1 /\ since \in 0 .. DAY + 1
    BY RepliesAssumption DEF CheckAlert, RepliesInv, RowsAndClock
  <2> QED BY <2>3, <2>4
<1> QED BY <1>1, RepliesAlways, PTL DEF ReplySpec, RefiresOnlyOnOldNews
=============================================================================
