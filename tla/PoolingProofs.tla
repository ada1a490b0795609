---------------------------- MODULE PoolingProofs ----------------------------
(***************************************************************************)
(* What aggregate_lots keeps, for any lots, pools, weights and handlers.   *)
(*                                                                         *)
(* The weight of a pool is a sum over a list of members and over the       *)
(* harvests in it.  That the two agree is proved by induction over the     *)
(* members, and the sums by induction over sets: what is proved is that a  *)
(* set C contains every subset, since its complement would have a least    *)
(* element (WFMin).                                                        *)
(***************************************************************************)
EXTENDS Pooling, FiniteSetTheorems, TLAPS

-----------------------------------------------------------------------------
(***************************************************************************)
(* Sums                                                                    *)
(***************************************************************************)
\* Induction over the subsets of a finite set: what holds of a set whenever it holds
\* of its proper subsets holds of all.
LEMMA SubsetInduction ==
  ASSUME NEW S, IsFiniteSet(S), NEW C,
         \A T \in SUBSET S : (\A U \in SUBSET T : U # T => U \in C) => T \in C
  PROVE  \A T \in SUBSET S : T \in C
<1> DEFINE Bad == (SUBSET S) \ C
<1> SUFFICES ASSUME Bad # {} PROVE FALSE
  OBVIOUS
<1>1. IsWellFoundedOn(StrictSubsetOrdering(S), SUBSET S)
  <2>1. FiniteSubsetsOf(S) = SUBSET S
    BY FS_FiniteSubsetsOfFinite
  <2>2. IsWellFoundedOn(StrictSubsetOrdering(S), FiniteSubsetsOf(S))
    BY FS_StrictSubsetOrderingWellFounded
  <2> QED BY <2>1, <2>2
<1>2. PICK T \in Bad : \A U \in Bad : <<U, T>> \notin StrictSubsetOrdering(S)
  <2>1. Bad \subseteq SUBSET S
    OBVIOUS
  <2> HIDE DEF Bad
  <2> QED BY <1>1, <2>1, WFMin
<1>3. \A U \in SUBSET T : U # T => U \in C
  BY <1>2 DEF StrictSubsetOrdering
<1> QED BY <1>2, <1>3

\* The same for numbers.
LEMMA StepInduction ==
  ASSUME NEW C, 0 \in C, \A n \in Nat : n \in C => n + 1 \in C
  PROVE  Nat \subseteq C
<1> DEFINE Bad == Nat \ C
<1> SUFFICES ASSUME Bad # {} PROVE FALSE
  OBVIOUS
<1>1. PICK n \in Bad : \A m \in Bad : <<m, n>> \notin OpToRel(<, Nat)
  <2>1. Bad \subseteq Nat
    OBVIOUS
  <2> QED BY <2>1, NatLessThanWellFounded, WFMin
<1>2. n \in Nat /\ n # 0
  OBVIOUS
<1>3. n - 1 \in Nat /\ n - 1 < n /\ (n - 1) + 1 = n
  BY <1>2
<1>4. <<n - 1, n>> \in OpToRel(<, Nat)
  BY <1>2, <1>3 DEF OpToRel
<1> QED BY <1>1, <1>2, <1>3, <1>4

\* The element of s that is added first.
OneOf(s) == CHOOSE x \in s : TRUE

LEMMA OneIsIn == ASSUME NEW S, S # {} PROVE OneOf(S) \in S
BY DEF OneOf

\* The sum of W over S.
SumOf(W, S) == SumFunctionOnSet(W, S)

\* f is the recursive function by which the sum over S is defined.
IsSum(f, W, S) ==
  f = [s \in SUBSET S |-> IF s = {} THEN 0 ELSE W[OneOf(s)] + f[s \ {OneOf(s)}]]

LEMMA SumDef == ASSUME NEW W, NEW S PROVE SumOf(W, S) = (CHOOSE f : IsSum(f, W, S))[S]
BY DEF SumOf, SumFunctionOnSet, FoldFunctionOnSet, MapThenFoldSet, IsSum, OneOf

\* A finite set, with a weight for each of its elements.
Weights(W, S) == IsFiniteSet(S) /\ \A x \in S : W[x] \in Nat

\* Such a function exists: it can be given for the subsets of each size in turn.
LEMMA SumExists ==
  ASSUME NEW W, NEW S, Weights(W, S)
  PROVE  \E f : IsSum(f, W, S)
<1> DEFINE P == SUBSET S
           Step(f) == [s \in P |-> IF s = {} THEN 0 ELSE W[OneOf(s)] + f[s \ {OneOf(s)}]]
           UpTo(n, f) == \A s \in P : Cardinality(s) <= n => f[s] = Step(f)[s]
           C == {n \in Nat : \E f \in [P -> Nat] : UpTo(n, f)}
<1>1. ASSUME NEW s \in P
      PROVE  /\ Cardinality(s) \in Nat
             /\ Cardinality(s) <= Cardinality(S)
             /\ Cardinality(s) = 0 => s = {}
             /\ s # {} => /\ s \ {OneOf(s)} \in P
                          /\ Cardinality(s \ {OneOf(s)}) = Cardinality(s) - 1
                          /\ W[OneOf(s)] \in Nat
  <2>1. IsFiniteSet(s) /\ Cardinality(s) \in Nat
    BY FS_Subset, FS_CardinalityType DEF Weights
  <2>2. s # {} => Cardinality(s \ {OneOf(s)}) = Cardinality(s) - 1
    BY <2>1, OneIsIn, FS_RemoveElement
  <2>3. Cardinality(s) <= Cardinality(S)
    BY FS_Subset DEF Weights
  <2>4. s # {} => W[OneOf(s)] \in Nat
    BY OneIsIn DEF Weights
  <2> QED BY <2>1, <2>2, <2>3, <2>4, FS_EmptySet
<1>9. ASSUME NEW s \in P, Cardinality(s) <= 0 PROVE s = {}
  <2>1. Cardinality(s) \in Nat /\ (Cardinality(s) = 0 => s = {})
    BY <1>1
  <2>2. Cardinality(s) = 0
    BY <2>1, <1>9
  <2> QED BY <2>1, <2>2
<1>2. S \in P /\ Cardinality(S) \in Nat
  BY FS_CardinalityType DEF Weights
<1>3. ASSUME NEW f PROVE Step(f) = f => IsSum(f, W, S)
  BY DEF IsSum
<1> HIDE DEF P
<1>4. 0 \in C
  <2> DEFINE z == [s \in P |-> 0]
  <2>1. ASSUME NEW s \in P, Cardinality(s) <= 0 PROVE z[s] = Step(z)[s]
    <3>1. s = {}
      BY <1>9, <2>1
    <3> QED BY <3>1
  <2>2. z \in [P -> Nat]
    OBVIOUS
  <2> QED BY <2>1, <2>2
<1>5. ASSUME NEW n \in Nat, n \in C PROVE n + 1 \in C
  <2>1. PICK f \in [P -> Nat] : UpTo(n, f)
    BY <1>5
  <2> DEFINE g == Step(f)
  <2>2. g \in [P -> Nat]
    <3>1. ASSUME NEW s \in P, s # {} PROVE W[OneOf(s)] + f[s \ {OneOf(s)}] \in Nat
      <4>1. W[OneOf(s)] \in Nat /\ s \ {OneOf(s)} \in P
        BY <1>1, <3>1
      <4>2. f[s \ {OneOf(s)}] \in Nat
        BY <4>1
      <4> QED BY <4>1, <4>2
    <3> QED BY <3>1
  <2>3. ASSUME NEW s \in P, Cardinality(s) <= n + 1 PROVE g[s] = Step(g)[s]
    <3>1. CASE s = {}
      BY <3>1
    <3>2. CASE s # {}
      <4>1. s \ {OneOf(s)} \in P /\ Cardinality(s \ {OneOf(s)}) <= n
        <5>1. /\ s \ {OneOf(s)} \in P /\ Cardinality(s) \in Nat
              /\ Cardinality(s \ {OneOf(s)}) = Cardinality(s) - 1
          BY <1>1, <3>2
        <5>2. Cardinality(s) - 1 <= n
          BY <2>3, <5>1
        <5> QED BY <5>1, <5>2
      <4>2. f[s \ {OneOf(s)}] = g[s \ {OneOf(s)}]
        BY <2>1, <4>1
      <4> QED BY <3>2, <4>2
    <3> QED BY <3>1, <3>2
  <2>4. UpTo(n + 1, g)
    BY <2>3
  <2> HIDE DEF g, UpTo
  <2> QED BY <2>2, <2>4
<1>6. Cardinality(S) \in C
  <2> HIDE DEF C
  <2>1. Nat \subseteq C
    BY <1>4, <1>5, StepInduction
  <2> QED BY <1>2, <2>1
<1>7. PICK f \in [P -> Nat] : UpTo(Cardinality(S), f)
  BY <1>6
<1>8. f = Step(f)
  BY <1>1, <1>7
<1> QED BY <1>3, <1>8

\* There is only one, also where the sets differ.
LEMMA SumUnique ==
  ASSUME NEW W, NEW S, Weights(W, S), NEW T \in SUBSET S,
         NEW f, IsSum(f, W, S), NEW g, IsSum(g, W, T)
  PROVE  f[T] = g[T] /\ f[T] \in Nat
<1> DEFINE C == {U \in SUBSET T : f[U] = g[U] /\ f[U] \in Nat}
<1>1. ASSUME NEW U \in SUBSET T, \A V \in SUBSET U : V # U => V \in C PROVE U \in C
  <2>1. CASE U = {}
    BY <2>1 DEF IsSum
  <2>2. CASE U # {}
    <3>1. U \ {OneOf(U)} \in C /\ W[OneOf(U)] \in Nat
      BY <1>1, <2>2, OneIsIn DEF Weights
    <3>2. /\ f[U] = W[OneOf(U)] + f[U \ {OneOf(U)}]
          /\ g[U] = W[OneOf(U)] + g[U \ {OneOf(U)}]
      BY <2>2 DEF IsSum
    <3> QED BY <3>1, <3>2
  <2> QED BY <2>1, <2>2
<1>2. \A U \in SUBSET T : U \in C
  <2> HIDE DEF C
  <2>1. IsFiniteSet(T)
    BY FS_Subset DEF Weights
  <2> QED BY <1>1, <2>1, SubsetInduction
<1> QED BY <1>2

\* The sum of a set, from an element of it.
LEMMA SumUnfolds ==
  ASSUME NEW W, NEW S, Weights(W, S)
  PROVE  /\ SumOf(W, S) \in Nat
         /\ S = {} => SumOf(W, S) = 0
         /\ S # {} => SumOf(W, S) = W[OneOf(S)] + SumOf(W, S \ {OneOf(S)})
<1> DEFINE F(T) == CHOOSE f : IsSum(f, W, T)
<1>1. ASSUME NEW T \in SUBSET S PROVE IsSum(F(T), W, T)
  <2>1. Weights(W, T)
    BY FS_Subset DEF Weights
  <2> QED BY <2>1, SumExists
<1>2. ASSUME NEW T \in SUBSET S PROVE F(S)[T] = SumOf(W, T) /\ SumOf(W, T) \in Nat
  <2> HIDE DEF F
  <2>1. IsSum(F(S), W, S) /\ IsSum(F(T), W, T)
    BY <1>1
  <2>2. F(S)[T] = F(T)[T] /\ F(S)[T] \in Nat
    BY <2>1, SumUnique
  <2> QED BY <2>2, SumDef DEF F
<1>3. /\ S = {} => F(S)[S] = 0
      /\ S # {} => F(S)[S] = W[OneOf(S)] + F(S)[S \ {OneOf(S)}]
  <2>1. IsSum(F(S), W, S)
    BY <1>1
  <2> HIDE DEF F
  <2> QED BY <2>1 DEF IsSum
<1> HIDE DEF F
<1> QED BY <1>2, <1>3

\* The elements may be taken in any order.
LEMMA SumAdds ==
  ASSUME NEW W, NEW All, Weights(W, All), NEW S \in SUBSET All, NEW b \in All,
         b \notin S
  PROVE  SumOf(W, S \cup {b}) = SumOf(W, S) + W[b]
<1> DEFINE C == {T \in SUBSET All :
                   \A c \in All \ T : SumOf(W, T \cup {c}) = SumOf(W, T) + W[c]}
<1>3. \A T \in SUBSET All : Weights(W, T)
  BY FS_Subset DEF Weights
<1>1. ASSUME NEW T \in SUBSET All, \A U \in SUBSET T : U # T => U \in C
      PROVE  T \in C
  <2> SUFFICES ASSUME NEW c \in All \ T
               PROVE  SumOf(W, T \cup {c}) = SumOf(W, T) + W[c]
    OBVIOUS
  <2> DEFINE x == OneOf(T \cup {c})
             U == T \ {x}
  <2>1. x \in T \cup {c}
    BY OneIsIn
  <2>2. SumOf(W, T \cup {c}) = W[x] + SumOf(W, (T \cup {c}) \ {x})
    <3>1. Weights(W, T \cup {c}) /\ T \cup {c} # {}
      BY <1>3
    <3> QED BY <3>1, SumUnfolds
  <2>3. SumOf(W, T) \in Nat /\ SumOf(W, U) \in Nat /\ W[x] \in Nat /\ W[c] \in Nat
    BY <1>3, SumUnfolds, <2>1 DEF Weights
  <2> HIDE DEF x
  <2>4. CASE x = c
    <3>1. (T \cup {c}) \ {x} = T
      BY <2>4
    <3>2. SumOf(W, T \cup {c}) = W[x] + SumOf(W, T)
      BY <2>2, <3>1
    <3> QED BY <2>3, <2>4, <3>2
  <2>5. CASE x # c
    <3>1. x \in T /\ x \in All \ U /\ c \in All \ U
      BY <2>1, <2>5
    <3>2. (T \cup {c}) \ {x} = U \cup {c} /\ U \cup {x} = T
      BY <2>5, <3>1
    <3>3. U \in C
      BY <1>1, <3>1
    <3>4. /\ SumOf(W, U \cup {c}) = SumOf(W, U) + W[c]
          /\ SumOf(W, U \cup {x}) = SumOf(W, U) + W[x]
      BY <3>1, <3>3
    <3>5. /\ SumOf(W, T \cup {c}) = W[x] + SumOf(W, U \cup {c})
          /\ SumOf(W, T) = SumOf(W, U \cup {x})
      BY <2>2, <3>2
    <3> HIDE DEF U
    <3> QED BY <2>3, <3>4, <3>5
  <2> QED BY <2>4, <2>5
<1>2. \A T \in SUBSET All : T \in C
  <2> HIDE DEF C
  <2> QED BY <1>1, SubsetInduction DEF Weights
<1> QED BY <1>2

LEMMA SumEmpty == ASSUME NEW W PROVE SumOf(W, {}) = 0
<1>1. Weights(W, {})
  BY FS_EmptySet DEF Weights
<1> QED BY <1>1, SumUnfolds

\* Sets that share nothing add up.
LEMMA SumUnion ==
  ASSUME NEW W, NEW All, Weights(W, All), NEW S \in SUBSET All, NEW T \in SUBSET All,
         S \cap T = {}
  PROVE  SumOf(W, S \cup T) = SumOf(W, S) + SumOf(W, T)
<1> DEFINE C == {U \in SUBSET T : SumOf(W, S \cup U) = SumOf(W, S) + SumOf(W, U)}
<1>1. ASSUME NEW U \in SUBSET All PROVE SumOf(W, U) \in Nat
  <2>1. Weights(W, U)
    BY FS_Subset DEF Weights
  <2> QED BY <2>1, SumUnfolds
<1>2. ASSUME NEW U \in SUBSET T, \A V \in SUBSET U : V # U => V \in C PROVE U \in C
  <2>1. CASE U = {}
    <3>1. S \cup U = S /\ SumOf(W, U) = 0
      BY <2>1, SumEmpty
    <3>2. SumOf(W, S \cup U) = SumOf(W, S) /\ SumOf(W, S) \in Nat
      BY <1>1, <3>1
    <3>3. SumOf(W, S \cup U) = SumOf(W, S) + SumOf(W, U)
      BY <3>1, <3>2
    <3> QED BY <3>3
  <2>2. CASE U # {}
    <3> DEFINE x == OneOf(U)
               V == U \ {x}
    <3>1. x \in U /\ x \in All /\ x \notin V /\ V \in C /\ U = V \cup {x}
      BY <1>2, <2>2, OneIsIn
    <3> HIDE DEF x
    <3>2. S \cup V \in SUBSET All /\ V \in SUBSET All /\ x \notin S \cup V
      BY <3>1
    <3>3. S \cup U = (S \cup V) \cup {x}
      BY <3>1
    <3>4. SumOf(W, S \cup U) = SumOf(W, S \cup V) + W[x]
      BY <3>1, <3>2, <3>3, SumAdds, SMTT(30)
    <3>5. SumOf(W, U) = SumOf(W, V) + W[x]
      BY <3>1, <3>2, SumAdds
    <3>6. SumOf(W, S \cup V) = SumOf(W, S) + SumOf(W, V)
      BY <3>1
    <3>7. SumOf(W, S) \in Nat /\ SumOf(W, V) \in Nat /\ W[x] \in Nat
      BY <1>1, <3>1, <3>2 DEF Weights
    <3> HIDE DEF V
    <3>8. SumOf(W, S \cup U) = SumOf(W, S) + SumOf(W, U)
      BY <3>4, <3>5, <3>6, <3>7
    <3> QED BY <3>8
  <2> QED BY <2>1, <2>2
<1>3. \A U \in SUBSET T : U \in C
  <2> HIDE DEF C
  <2>1. IsFiniteSet(T)
    BY FS_Subset DEF Weights
  <2> QED BY <1>2, <2>1, SubsetInduction
<1> QED BY <1>3

\* Two sets of harvests together weigh at most as much as each on its own: less if
\* they share some, the same if they do not.
TwoWeigh(A, B) ==
  /\ SumOf(Weight, A) \in Nat /\ SumOf(Weight, B) \in Nat
  /\ SumOf(Weight, A \cup B) \in Nat
  /\ SumOf(Weight, A \cup B) <= SumOf(Weight, A) + SumOf(Weight, B)
  /\ A \cap B = {} => SumOf(Weight, A \cup B) = SumOf(Weight, A) + SumOf(Weight, B)
  /\ A \cap B # {} => SumOf(Weight, A \cup B) < SumOf(Weight, A) + SumOf(Weight, B)

LEMMA TwoTogether ==
  ASSUME NEW A \in SUBSET Harvests, NEW B \in SUBSET Harvests
  PROVE  TwoWeigh(A, B)
<1> DEFINE new == B \ A
           both == B \cap A
<1>0. Weights(Weight, Harvests) /\ \A h \in Harvests : Weight[h] # 0
  BY PoolingAssumption DEF Weights
<1>1. ASSUME NEW U \in SUBSET Harvests
      PROVE  SumOf(Weight, U) \in Nat /\ (U # {} => SumOf(Weight, U) # 0)
  <2>1. Weights(Weight, U)
    BY <1>0, FS_Subset DEF Weights
  <2>2. ASSUME U # {} PROVE SumOf(Weight, U) # 0
    <3>1. OneOf(U) \in U /\ Weight[OneOf(U)] \in Nat /\ Weight[OneOf(U)] # 0
      BY <1>0, <2>2, OneIsIn DEF Weights
    <3>2. Weights(Weight, U \ {OneOf(U)})
      BY <2>1, FS_Subset DEF Weights
    <3>3. SumOf(Weight, U) = Weight[OneOf(U)] + SumOf(Weight, U \ {OneOf(U)})
      BY <2>1, <2>2, SumUnfolds
    <3>4. SumOf(Weight, U \ {OneOf(U)}) \in Nat
      BY <3>2, SumUnfolds
    <3> QED BY <3>1, <3>3, <3>4
  <2>3. SumOf(Weight, U) \in Nat
    BY <2>1, SumUnfolds
  <2> QED BY <2>2, <2>3
<1>2. SumOf(Weight, A \cup new) = SumOf(Weight, A) + SumOf(Weight, new)
  BY <1>0, SumUnion
<1>3. SumOf(Weight, new \cup both) = SumOf(Weight, new) + SumOf(Weight, both)
  BY <1>0, SumUnion
<1>4. A \cup new = A \cup B /\ new \cup both = B /\ A \cap B = both
  OBVIOUS
<1>5. SumOf(Weight, new) \in Nat /\ SumOf(Weight, both) \in Nat /\ SumOf(Weight, A) \in Nat
  BY <1>1
<1>6. both = {} => SumOf(Weight, both) = 0
  BY SumEmpty
<1>7. both # {} => SumOf(Weight, both) # 0
  BY <1>1
<1>8. /\ SumOf(Weight, A \cup B) = SumOf(Weight, A) + SumOf(Weight, new)
      /\ SumOf(Weight, B) = SumOf(Weight, new) + SumOf(Weight, both)
  BY <1>2, <1>3, <1>4
<1> HIDE DEF new, both
<1> QED BY <1>4, <1>5, <1>6, <1>7, <1>8 DEF TwoWeigh

\* A list of lots is never lighter than what is in them together.  It is heavier if one of
\* the lots is, or two of them share a harvest; otherwise it weighs the same.
LEMMA TotalWeighs ==
  ASSUME NEW s \in Seq(Lots),
         qty \in [Lots -> Nat], parts \in [Lots -> SUBSET Harvests],
         \A l \in Lots : qty[l] >= SumOf(Weight, parts[l])
  PROVE  LET all == UNION {parts[s[i]] : i \in DOMAIN s}
         IN /\ Total(s) \in Nat /\ SumOf(Weight, all) \in Nat
            /\ Total(s) >= SumOf(Weight, all)
            /\ (\E i \in DOMAIN s : qty[s[i]] > SumOf(Weight, parts[s[i]]))
                 => Total(s) > SumOf(Weight, all)
            /\ (\E i, j \in DOMAIN s : i # j /\ parts[s[i]] \cap parts[s[j]] # {})
                 => Total(s) > SumOf(Weight, all)
            /\ /\ \A i \in DOMAIN s : qty[s[i]] = SumOf(Weight, parts[s[i]])
               /\ \A i, j \in DOMAIN s : i # j => parts[s[i]] \cap parts[s[j]] = {}
               => Total(s) = SumOf(Weight, all)
<1> DEFINE D == DOMAIN s
           Q == [i \in D |-> qty[s[i]]]
           In(E) == UNION {parts[s[i]] : i \in E}
           Disjoint == \A i, j \in D : i # j => parts[s[i]] \cap parts[s[j]] = {}
           Exact == \A i \in D : Q[i] = SumOf(Weight, parts[s[i]])
<1>1. \A i \in D : s[i] \in Lots /\ parts[s[i]] \in SUBSET Harvests
  OBVIOUS
<1>2. IsFiniteSet(D) /\ Weights(Q, D)
  <2>1. D = 1..Len(s) /\ Len(s) \in Nat
    OBVIOUS
  <2>2. IsFiniteSet(D)
    BY <2>1, FS_Interval
  <2>3. \A i \in D : Q[i] \in Nat
    BY <1>1
  <2> QED BY <2>2, <2>3 DEF Weights
<1>3. Total(s) = SumOf(Q, D)
  BY DEF Total, SumOf
<1>4. Weights(Weight, Harvests) /\ \A h \in Harvests : Weight[h] # 0
  BY PoolingAssumption DEF Weights
<1>5. \A i \in D : /\ Q[i] \in Nat /\ Q[i] = qty[s[i]]
                   /\ Q[i] >= SumOf(Weight, parts[s[i]])
                   /\ SumOf(Weight, parts[s[i]]) \in Nat
  <2> SUFFICES ASSUME NEW i \in D
               PROVE  /\ Q[i] \in Nat /\ Q[i] = qty[s[i]]
                      /\ Q[i] >= SumOf(Weight, parts[s[i]])
                      /\ SumOf(Weight, parts[s[i]]) \in Nat
    OBVIOUS
  <2>1. Weights(Weight, parts[s[i]])
    BY <1>1, <1>4, FS_Subset DEF Weights
  <2>2. SumOf(Weight, parts[s[i]]) \in Nat
    BY <2>1, SumUnfolds
  <2> QED BY <1>1, <2>2
\* One more member of the list.
<1>6. ASSUME NEW E \in SUBSET D, NEW i \in D, i \notin E
      PROVE  /\ SumOf(Q, E) \in Nat /\ SumOf(Weight, In(E)) \in Nat
             /\ SumOf(Q, E \cup {i}) = SumOf(Q, E) + Q[i]
             /\ SumOf(Weight, In(E \cup {i})) \in Nat
             /\ SumOf(Weight, In(E \cup {i}))
                  <= SumOf(Weight, In(E)) + SumOf(Weight, parts[s[i]])
             /\ In(E) \cap parts[s[i]] = {} =>
                  SumOf(Weight, In(E \cup {i}))
                    = SumOf(Weight, In(E)) + SumOf(Weight, parts[s[i]])
             /\ In(E) \cap parts[s[i]] # {} =>
                  SumOf(Weight, In(E \cup {i}))
                    < SumOf(Weight, In(E)) + SumOf(Weight, parts[s[i]])
  <2>1. Weights(Q, E)
    BY <1>2, FS_Subset DEF Weights
  <2>2. SumOf(Q, E) \in Nat /\ SumOf(Q, E \cup {i}) = SumOf(Q, E) + Q[i]
    <3>1. E \in SUBSET D /\ i \in D /\ i \notin E
      BY <1>6
    <3> HIDE DEF Q, D
    <3>2. SumOf(Q, E) \in Nat
      BY <2>1, SumUnfolds
    <3>3. SumOf(Q, E \cup {i}) = SumOf(Q, E) + Q[i]
      BY <1>2, <3>1, SumAdds
    <3> QED BY <3>2, <3>3
  <2>3. /\ In(E \cup {i}) = In(E) \cup parts[s[i]]
        /\ In(E) \in SUBSET Harvests /\ parts[s[i]] \in SUBSET Harvests
    BY <1>1
  <2> HIDE DEF In, Q, D
  <2>4. \A A, B \in SUBSET Harvests : TwoWeigh(A, B)
    BY TwoTogether
  <2>5. TwoWeigh(In(E), parts[s[i]])
    BY <2>3, <2>4
  <2>6. SumOf(Weight, In(E \cup {i})) = SumOf(Weight, In(E) \cup parts[s[i]])
    BY <2>3
  <2> QED BY <2>2, <2>5, <2>6 DEF TwoWeigh
<1>7. SumOf(Q, {}) = 0 /\ In({}) = {} /\ SumOf(Weight, In({})) = 0
  BY SumEmpty
<1> DEFINE Right(E) == /\ SumOf(Q, E) \in Nat /\ SumOf(Weight, In(E)) \in Nat
                       /\ SumOf(Q, E) >= SumOf(Weight, In(E))
                       /\ Disjoint /\ Exact => SumOf(Q, E) = SumOf(Weight, In(E))
           C == {E \in SUBSET D : Right(E)}
<1>8. ASSUME NEW E \in SUBSET D, \A F \in SUBSET E : F # E => F \in C PROVE E \in C
  <2>1. CASE E = {}
    <3>1. SumOf(Q, E) = 0 /\ SumOf(Weight, In(E)) = 0
      BY <1>7, <2>1
    <3> HIDE DEF In, Q, Disjoint, Exact
    <3> QED BY <3>1
  <2>2. CASE E # {}
    <3> DEFINE x == OneOf(E)
               F == E \ {x}
    <3>1. x \in E /\ x \in D /\ x \notin F /\ F \in C /\ F \in SUBSET D /\ E = F \cup {x}
      BY <1>8, <2>2, OneIsIn
    <3> HIDE DEF x
    <3>2. Disjoint => In(F) \cap parts[s[x]] = {}
      BY <3>1
    <3>3. Exact => Q[x] = SumOf(Weight, parts[s[x]])
      BY <3>1
    <3>4. Right(F)
      BY <3>1
    <3> HIDE DEF Disjoint, Exact, In, Q, F
    <3>5. /\ SumOf(Q, E) = SumOf(Q, F) + Q[x] /\ SumOf(Weight, In(E)) \in Nat
          /\ SumOf(Weight, In(E)) <= SumOf(Weight, In(F)) + SumOf(Weight, parts[s[x]])
          /\ In(F) \cap parts[s[x]] = {} =>
               SumOf(Weight, In(E)) = SumOf(Weight, In(F)) + SumOf(Weight, parts[s[x]])
      BY <1>6, <3>1
    <3>6. /\ Q[x] \in Nat /\ SumOf(Weight, parts[s[x]]) \in Nat
          /\ Q[x] >= SumOf(Weight, parts[s[x]])
      BY <1>5, <3>1
    <3>7. Right(E)
      BY <3>2, <3>3, <3>4, <3>5, <3>6
    <3> QED BY <3>7
  <2> QED BY <2>1, <2>2
<1>9. \A E \in SUBSET D : Right(E)
  <2>1. \A E \in SUBSET D : E \in C
    <3> HIDE DEF C, D
    <3> QED BY <1>2, <1>8, SubsetInduction
  <2> QED BY <2>1
\* The whole list, from the rest of it and one member that weighs too much or shares.
<1>10. ASSUME NEW i \in D,
              \/ Q[i] > SumOf(Weight, parts[s[i]])
              \/ In(D \ {i}) \cap parts[s[i]] # {}
       PROVE  SumOf(Q, D) > SumOf(Weight, In(D))
  <2> DEFINE E == D \ {i}
  <2>1. E \in SUBSET D /\ i \notin E /\ E \cup {i} = D
    OBVIOUS
  <2>2. SumOf(Q, E) \in Nat /\ SumOf(Weight, In(E)) \in Nat /\ SumOf(Q, E) >= SumOf(Weight, In(E))
    BY <1>9, <2>1
  <2>3. /\ Q[i] \in Nat /\ SumOf(Weight, parts[s[i]]) \in Nat
        /\ Q[i] >= SumOf(Weight, parts[s[i]])
    BY <1>5
  <2> HIDE DEF In, Q
  <2>4. /\ SumOf(Q, D) = SumOf(Q, E) + Q[i] /\ SumOf(Weight, In(D)) \in Nat
        /\ SumOf(Weight, In(D)) <= SumOf(Weight, In(E)) + SumOf(Weight, parts[s[i]])
        /\ In(E) \cap parts[s[i]] # {} =>
             SumOf(Weight, In(D)) < SumOf(Weight, In(E)) + SumOf(Weight, parts[s[i]])
    <3> HIDE DEF E, D
    <3> QED BY <1>6, <2>1
  <2>5. Q[i] > SumOf(Weight, parts[s[i]]) \/ In(E) \cap parts[s[i]] # {}
    BY <1>10
  <2> HIDE DEF E
  <2> QED BY <2>2, <2>3, <2>4, <2>5
<1>11. ASSUME NEW i \in D, NEW j \in D, i # j, parts[s[i]] \cap parts[s[j]] # {}
       PROVE  In(D \ {i}) \cap parts[s[i]] # {}
  BY <1>11
<1>12. Right(D)
  BY <1>9
<1>13. (\E i \in D : qty[s[i]] > SumOf(Weight, parts[s[i]])) => SumOf(Q, D) > SumOf(Weight, In(D))
  BY <1>5, <1>10
<1>14. (\E i, j \in D : i # j /\ parts[s[i]] \cap parts[s[j]] # {})
         => SumOf(Q, D) > SumOf(Weight, In(D))
  BY <1>10, <1>11
<1>15. (\A i \in D : qty[s[i]] = SumOf(Weight, parts[s[i]])) => Exact
  BY <1>5
<1>16. UNION {parts[s[i]] : i \in DOMAIN s} = In(D)
  OBVIOUS
<1> HIDE DEF In, Q, Exact
<1> QED BY <1>3, <1>12, <1>13, <1>14, <1>15, <1>16

-----------------------------------------------------------------------------
(***************************************************************************)
(* Types                                                                   *)
(***************************************************************************)

\* Taking the head off a list.
LEMMA HeadAndTail ==
  ASSUME NEW s \in Seq(Lots), s # <<>>
  PROVE  /\ 1 \in DOMAIN s /\ Head(s) = s[1] /\ Head(s) \in Lots
         /\ Tail(s) \in Seq(Lots)
         /\ Len(s) # 1 => Tail(s) # <<>>
         /\ \A i \in DOMAIN Tail(s) : i + 1 \in DOMAIN s /\ i + 1 # 1 /\ Tail(s)[i] = s[i + 1]
         /\ \A i \in DOMAIN s : i = 1 \/ (i - 1 \in DOMAIN Tail(s) /\ Tail(s)[i - 1] = s[i])
         /\ Len(s) = 1 => \A i \in DOMAIN s : i = 1
<1>1. DOMAIN s = 1..Len(s) /\ Len(s) \in Nat /\ Len(s) # 0
  OBVIOUS
<1>2. Tail(s) \in Seq(Lots) /\ Len(Tail(s)) = Len(s) - 1
  BY <1>1
<1>3. DOMAIN Tail(s) = 1..(Len(s) - 1)
  BY <1>2
<1>4. \A i \in 1..(Len(s) - 1) : Tail(s)[i] = s[i + 1]
  BY <1>1
<1>5. Head(s) = s[1] /\ s[1] \in Lots
  BY <1>1
<1>6. \A i \in DOMAIN Tail(s) : i + 1 \in DOMAIN s /\ i + 1 # 1 /\ Tail(s)[i] = s[i + 1]
  BY <1>1, <1>3, <1>4
<1>7. \A i \in DOMAIN s : i = 1 \/ (i - 1 \in DOMAIN Tail(s) /\ Tail(s)[i - 1] = s[i])
  BY <1>1, <1>3, <1>4
<1>8. Len(s) # 1 => Tail(s) # <<>>
  BY <1>1, <1>2
<1> QED BY <1>1, <1>2, <1>5, <1>6, <1>7, <1>8

LEMMA ListsAreSeqs ==
  ASSUME NEW n \in 2..MaxIds, NEW s \in [1..n -> Lots]
  PROVE  s \in Seq(Lots) /\ s # <<>>
<1>1. n \in Nat /\ n # 0
  BY PoolingAssumption
<1>2. s \in Seq(Lots)
  BY <1>1
<1>3. 1 \in DOMAIN s
  BY <1>1
<1> QED BY <1>2, <1>3

LEMMA TotalIsNat ==
  ASSUME NEW s \in Seq(Lots), qty \in [Lots -> Nat]
  PROVE  Total(s) \in Nat
<1> DEFINE Q == [i \in DOMAIN s |-> qty[s[i]]]
<1>1. DOMAIN s = 1..Len(s) /\ Len(s) \in Nat
  OBVIOUS
<1>2. IsFiniteSet(DOMAIN s)
  BY <1>1, FS_Interval
<1>3. \A i \in DOMAIN s : Q[i] \in Nat
  OBVIOUS
<1>4. Weights(Q, DOMAIN s)
  BY <1>2, <1>3 DEF Weights
<1>5. SumOf(Q, DOMAIN s) \in Nat
  BY <1>4, SumUnfolds
<1> QED BY <1>5 DEF Total, SumOf

LEMMA InitTypeOK == Init => TypeOK
<1> SUFFICES ASSUME Init PROVE TypeOK
  OBVIOUS
<1>1. <<>> \in Seq(Lots)
  OBVIOUS
<1>2. \A w \in Workers : ids[w] = <<>> /\ todo[w] = <<>> /\ pool[w] = None
  BY DEF Init
<1>3. ids \in [Workers -> Seq(Lots)] /\ todo \in [Workers -> Seq(Lots)]
  BY <1>1 DEF Init
<1> QED BY <1>2, <1>3 DEF Init, TypeOK

\* What a trade may do to a lot and to the offers on it.
TradeOf(l) ==
  /\ trouble' \in BOOLEAN /\ (trouble' \/ (Quiet /\ ~trouble))
  /\ UNCHANGED <<qty, ids, pool, todo, parts, repeated>>
  /\ status' \in [Lots -> LotStatus \cup {"absent"}]
  /\ offers' \in [Lots -> SUBSET OfferStatus]
  /\ dealt \subseteq dealt' /\ dealt' \subseteq dealt \cup {l}
  /\ revived \subseteq revived' /\ revived' \subseteq revived \cup {l}
  /\ \A k \in Lots : k # l => status'[k] = status[k] /\ offers'[k] = offers[k]
  /\ status[l] # "absent" \/ offers[l] # {} \/ l \in dealt
  /\ status[l] # "absent" => status'[l] # "absent"
  /\ status'[l] = "matched" => status[l] = "matched" \/ l \in dealt'
  /\ status'[l] \in {"open", "offered"} =>
       /\ status[l] \in {"open", "offered"}
       /\ "accepted" \in offers'[l] => "accepted" \in offers[l]
  /\ status'[l] = "open" /\ "pending" \in offers'[l] =>
       l \in revived' \/ (status[l] = "open" /\ "pending" \in offers[l])
  /\ offers'[l] \cap {"pending", "accepted"} # {} /\ l \notin revived' =>
       \/ status[l] \in {"open", "offered"}
       \/ offers[l] \cap {"pending", "accepted"} # {}

LEMMA TradeIs == ASSUME TypeOK, NEW l \in Lots, Trade(l) PROVE TradeOf(l)
<1> USE DEF TypeOK, handlers, LotStatus, OfferStatus
<1>0. ASSUME Overlaps PROVE trouble' \in BOOLEAN /\ (trouble' \/ (Quiet /\ ~trouble))
  BY <1>0 DEF Overlaps, Quiet, Idle
<1>1. CASE CreateOffer(l)
  BY <1>0, <1>1 DEF CreateOffer, TradeOf
<1>2. CASE Sell(l)
  BY <1>0, <1>2 DEF Sell, deals, TradeOf
<1>3. CASE Withdraw(l)
  BY <1>0, <1>3 DEF Withdraw, Exists, deals, TradeOf
<1>4. ASSUME NEW from \in OfferStatus, NEW to \in OfferStatus, UpdateOffer(l, from, to)
      PROVE  TradeOf(l)
  <2>1. PICK rest \in {offers[l], offers[l] \ {from}} :
          LET idle == to = "closed" /\ status[l] = "offered" /\ "pending" \notin rest
          IN /\ offers' = [offers EXCEPT ![l] = rest \cup {to}]
             /\ \/ to = "accepted" /\ status' = [status EXCEPT ![l] = "matched"]
                \/ idle /\ status' = [status EXCEPT ![l] = "open"]
                \/ to # "accepted" /\ ~idle /\ UNCHANGED status
    BY <1>4 DEF UpdateOffer
  <2>2. /\ from \in offers[l] /\ (to = "accepted" => from = "pending")
        /\ dealt' = IF to = "accepted" THEN dealt \cup {l} ELSE dealt
        /\ revived' = IF to = "pending" /\ from # "pending" THEN revived \cup {l} ELSE revived
        /\ UNCHANGED <<qty, ids, pool, todo, parts, repeated>>
        /\ trouble' \in BOOLEAN /\ (trouble' \/ (Quiet /\ ~trouble))
    BY <1>0, <1>4 DEF UpdateOffer
  <2>6. /\ offers' \in [Lots -> SUBSET OfferStatus]
        /\ \A k \in Lots : k # l => offers'[k] = offers[k]
        /\ offers'[l] = rest \cup {to} /\ rest \subseteq offers[l]
    BY <2>1
  <2>7. /\ status' \in [Lots -> LotStatus \cup {"absent"}]
        /\ \A k \in Lots : k # l => status'[k] = status[k]
        /\ to = "accepted" => status'[l] = "matched"
        /\ to = "pending" => status'[l] = status[l]
        /\ to = "closed" => \/ status'[l] = status[l]
                            \/ /\ status[l] = "offered" /\ status'[l] = "open"
                               /\ "pending" \notin rest
        /\ to = "closed" /\ status[l] = "offered" /\ "pending" \notin rest
             => status'[l] = "open"
    BY <2>1
  <2>3. CASE to = "accepted"
    BY <2>2, <2>3, <2>6, <2>7 DEF TradeOf
  <2>4. CASE to = "pending"
    BY <2>2, <2>4, <2>6, <2>7 DEF TradeOf
  <2>5. CASE to = "closed"
    BY <2>2, <2>5, <2>6, <2>7 DEF TradeOf
  <2> QED BY <2>3, <2>4, <2>5
<1> QED BY <1>1, <1>2, <1>3, <1>4 DEF Trade

LEMMA TypeStep == TypeOK /\ [Next]_vars => TypeOK'
<1> SUFFICES ASSUME TypeOK, [Next]_vars PROVE TypeOK'
  OBVIOUS
<1> USE DEF TypeOK
<1>1. ASSUME NEW l \in Harvests, ListLot(l) PROVE TypeOK'
  <2>1. l \in Lots /\ Weight[l] \in Nat
    BY PoolingAssumption DEF Lots
  <2> QED BY <1>1, <2>1 DEF ListLot, Overlaps, Quiet, Idle, handlers, deals, LotStatus
<1>2. ASSUME NEW l \in Lots, Trade(l) PROVE TypeOK'
  <2>1. TradeOf(l)
    BY <1>2, TradeIs
  <2>2. /\ UNCHANGED <<qty, ids, pool, todo, parts, repeated>>
        /\ trouble' \in BOOLEAN
        /\ status' \in [Lots -> LotStatus \cup {"absent"}]
        /\ offers' \in [Lots -> SUBSET OfferStatus]
        /\ dealt' \subseteq Lots /\ revived' \subseteq Lots
    BY <2>1 DEF TradeOf, LotStatus
  <2> QED BY <2>2
<1>3. ASSUME NEW w \in Workers, NEW n \in 2..MaxIds, NEW s \in [1..n -> Lots],
             Aggregate(w, s)
      PROVE  TypeOK'
  <2>1. s \in Seq(Lots)
    BY ListsAreSeqs
  <2>2. trouble' \in BOOLEAN
    BY <1>3 DEF Aggregate, Overlaps, Quiet, Idle
  <2> QED BY <1>3, <2>1, <2>2 DEF Aggregate, deals
<1>4. ASSUME NEW w \in Workers, NEW l \in Pools, InsertPool(w, l) PROVE TypeOK'
  <2>1. l \in Lots /\ l # None
    BY PoolingAssumption DEF Lots
  <2>2. Total(ids[w]) \in Nat
    BY TotalIsNat
  <2>3. ids[w] # <<>> /\ ids[w] \in Seq(Lots)
    BY <1>4 DEF InsertPool, Idle
  <2>4. UNION {parts[ids[w][i]] : i \in DOMAIN ids[w]} \in SUBSET Harvests
    BY <2>3
  <2>5. status' \in [Lots -> LotStatus \cup {"absent"}]
    BY <1>4 DEF InsertPool, LotStatus
  <2>6. qty' \in [Lots -> Nat] /\ parts' \in [Lots -> SUBSET Harvests]
    BY <1>4, <2>2, <2>4 DEF InsertPool
  <2>7. /\ pool' \in [Workers -> Pools \cup {None}] /\ todo' \in [Workers -> Seq(Lots)]
        /\ \A v \in Workers : pool'[v] # None <=> todo'[v] # <<>>
    BY <1>4, <2>1, <2>3 DEF InsertPool
  <2>8. repeated' \subseteq Pools
    BY <1>4 DEF InsertPool
  <2> QED BY <1>4, <2>5, <2>6, <2>7, <2>8 DEF InsertPool, deals
<1>5. ASSUME NEW w \in Workers, Return(w)
      PROVE  /\ ids' \in [Workers -> Seq(Lots)]
             /\ pool' \in [Workers -> Pools \cup {None}]
             /\ todo' \in [Workers -> Seq(Lots)]
             /\ \A v \in Workers : pool'[v] # None <=> todo'[v] # <<>>
  BY <1>5 DEF Return
<1>6. ASSUME NEW w \in Workers, MarkMember(w) PROVE TypeOK'
  <2>1. todo[w] \in Seq(Lots) /\ todo[w] # <<>>
    BY <1>6 DEF MarkMember
  <2>2. /\ Head(todo[w]) \in Lots /\ Tail(todo[w]) \in Seq(Lots)
        /\ Len(todo[w]) # 1 => Tail(todo[w]) # <<>>
    BY <2>1, HeadAndTail
  <2>3. status' \in [Lots -> LotStatus \cup {"absent"}]
    BY <1>6, <2>2 DEF MarkMember, LotStatus
  <2>4. CASE Len(todo[w]) = 1
    BY <1>5, <1>6, <2>3, <2>4 DEF MarkMember, deals
  <2>5. CASE Len(todo[w]) # 1
    BY <1>6, <2>2, <2>3, <2>5 DEF MarkMember, deals
  <2> QED BY <2>4, <2>5
<1>7. ASSUME NEW w \in Workers, Abort(w) PROVE TypeOK'
  BY <1>5, <1>7 DEF Abort, deals
<1>8. CASE UNCHANGED vars
  BY <1>8 DEF vars
<1> QED BY <1>1, <1>2, <1>3, <1>4, <1>6, <1>7, <1>8 DEF Next

-----------------------------------------------------------------------------
(***************************************************************************)
(* Nobody's lot is off sale with nothing to show for it                    *)
(***************************************************************************)

\* Lots are listed or pooled before anything is done with them, they stay, and a
\* pool that is there contains the members to be marked.
Harvested ==
  /\ \A l \in Lots : Exists(l) <=> parts[l] # {}
  /\ \A h \in Harvests, l \in Lots : h \in parts[l] => Exists(h)
  /\ \A l \in Lots : offers[l] # {} \/ l \in dealt \/ l \in repeated => Exists(l)

Handling(w) ==
  /\ \A i \in DOMAIN ids[w] : Exists(ids[w][i])
  /\ ids[w] = <<>> => pool[w] = None
  /\ pool[w] # None =>
       /\ Exists(pool[w])
       /\ \A i \in DOMAIN todo[w] :
            /\ Exists(todo[w][i]) /\ todo[w][i] # pool[w]
            /\ parts[todo[w][i]] \subseteq parts[pool[w]]

Existing == Harvested /\ \A w \in Workers : Handling(w)

\* Some pool has the harvests of l.
Pooled(l) == \E k \in Pools : k # l /\ parts[l] \subseteq parts[k] /\ parts[k] # {}

PooledInv ==
  /\ Existing
  /\ \A l \in Lots : status[l] = "matched" /\ l \notin dealt => Pooled(l)

LEMMA PooledInit == TypeOK /\ Init => PooledInv
BY DEF Init, PooledInv, Existing, Harvested, Handling, Exists, Lots

\* Lots that are there stay and keep their harvests.
Lasting == \A k \in Lots : Exists(k) => Exists(k)' /\ parts'[k] = parts[k]

LEMMA PooledLasts ==
  ASSUME TypeOK, Existing, Lasting, NEW l \in Lots, Exists(l), Pooled(l)
  PROVE  Pooled(l)'
<1>1. PICK k \in Pools : k # l /\ parts[l] \subseteq parts[k] /\ parts[k] # {}
  BY DEF Pooled
<1>2. k \in Lots /\ Exists(k)
  BY <1>1 DEF Lots, Existing, Harvested
<1> QED BY <1>1, <1>2 DEF Pooled, Lasting

\* A handler that does nothing does not mind what lasts.
LEMMA HandlingLasts ==
  ASSUME TypeOK, Lasting, NEW w \in Workers, Handling(w),
         ids'[w] = ids[w], pool'[w] = pool[w], todo'[w] = todo[w]
  PROVE  Handling(w)'
<1>1. /\ \A i \in DOMAIN ids[w] : ids[w][i] \in Lots
      /\ \A i \in DOMAIN todo[w] : todo[w][i] \in Lots
      /\ pool[w] # None => pool[w] \in Lots
  BY DEF TypeOK, Lots
<1> QED BY <1>1 DEF Handling, Lasting

\* Neither does one that starts or ends.
LEMMA HandlingAnew ==
  ASSUME NEW w, pool'[w] = None, \A i \in DOMAIN ids'[w] : Exists(ids[w][i])'
  PROVE  Handling(w)'
BY DEF Handling

LEMMA PooledStep == TypeOK /\ TypeOK' /\ PooledInv /\ [Next]_vars => PooledInv'
<1> SUFFICES ASSUME TypeOK, TypeOK', PooledInv, [Next]_vars PROVE PooledInv'
  OBVIOUS
<1> USE DEF Exists
<1>0. None \notin Pools /\ Pools \subseteq Lots /\ Harvests \subseteq Lots
  BY PoolingAssumption DEF Lots
<1>10. TypeOK /\ Existing /\ Harvested
  BY DEF PooledInv, Existing
<1>1. ASSUME NEW l \in Harvests, ListLot(l) PROVE PooledInv'
  <2>1. /\ status[l] = "absent" /\ UNCHANGED <<offers, dealt, repeated, ids, pool, todo>>
        /\ \A k \in Lots : status'[k] = IF k = l THEN "open" ELSE status[k]
        /\ \A k \in Lots : parts'[k] = IF k = l THEN {l} ELSE parts[k]
    BY <1>0, <1>1 DEF ListLot, handlers, deals, TypeOK
  <2>2. Lasting
    BY <2>1 DEF Lasting
  <2>3. Harvested'
    <3>1. (\A k \in Lots : Exists(k) <=> parts[k] # {})'
      BY <1>10, <2>1 DEF Harvested
    <3>2. (\A h \in Harvests, k \in Lots : h \in parts[k] => Exists(h))'
      BY <1>0, <1>10, <2>1 DEF Harvested
    <3>3. (\A k \in Lots : offers[k] # {} \/ k \in dealt \/ k \in repeated => Exists(k))'
      BY <1>10, <2>1 DEF Harvested
    <3> QED BY <3>1, <3>2, <3>3 DEF Harvested
  <2>4. \A v \in Workers : Handling(v)'
    BY <2>1, <2>2, HandlingLasts DEF PooledInv, Existing
  <2>5. ASSUME NEW k \in Lots, status'[k] = "matched", k \notin dealt'
        PROVE  Pooled(k)'
    BY <2>1, <2>2, <2>5, PooledLasts DEF PooledInv
  <2> QED BY <2>3, <2>4, <2>5 DEF PooledInv, Existing
<1>2. ASSUME NEW l \in Lots, Trade(l) PROVE PooledInv'
  <2>1. /\ UNCHANGED <<ids, pool, todo, parts, repeated>>
        /\ status[l] # "absent" /\ status'[l] # "absent"
        /\ \A k \in Lots : k # l => status'[k] = status[k] /\ offers'[k] = offers[k]
        /\ \A k \in Lots : k # l => (k \in dealt' <=> k \in dealt)
        /\ dealt \subseteq dealt'
        /\ status'[l] = "matched" => status[l] = "matched" \/ l \in dealt'
    <3>1. TradeOf(l)
      BY <1>2, TradeIs
    <3> QED BY <1>10, <3>1 DEF TradeOf, Harvested
  <2>2. Lasting
    BY <2>1 DEF Lasting
  <2>3. Harvested'
    BY <1>0, <1>10, <2>1 DEF Harvested, TypeOK
  <2>4. \A v \in Workers : Handling(v)'
    BY <2>1, <2>2, HandlingLasts DEF PooledInv, Existing
  <2>5. ASSUME NEW k \in Lots, status'[k] = "matched", k \notin dealt'
        PROVE  Pooled(k)'
    <3>1. status[k] = "matched" /\ k \notin dealt
      BY <2>1, <2>5
    <3> QED BY <2>1, <3>1 DEF PooledInv, Pooled
  <2> QED BY <2>3, <2>4, <2>5 DEF PooledInv, Existing
<1>3. ASSUME NEW w \in Workers, NEW n \in 2..MaxIds, NEW s \in [1..n -> Lots],
             Aggregate(w, s)
      PROVE  PooledInv'
  <2>1. /\ UNCHANGED <<status, offers, dealt, repeated, pool, todo, parts>>
        /\ \A v \in Workers : ids'[v] = IF v = w THEN s ELSE ids[v]
        /\ \A i \in DOMAIN s : status[s[i]] = "open"
    BY <1>3 DEF Aggregate, deals, TypeOK
  <2>2. pool'[w] = None
    BY <1>3 DEF Aggregate, Idle, PooledInv, Existing, Handling
  <2>3. Lasting
    BY <2>1 DEF Lasting
  <2>4. Handling(w)'
    BY <2>1, <2>2, HandlingAnew
  <2>5. \A v \in Workers \ {w} : Handling(v)'
    BY <2>1, <2>3, HandlingLasts DEF PooledInv, Existing
  <2>6. Harvested'
    BY <1>10, <2>1 DEF Harvested
  <2> QED BY <2>1, <2>4, <2>5, <2>6 DEF PooledInv, Existing, Pooled
<1>4. ASSUME NEW w \in Workers, NEW l \in Pools, InsertPool(w, l) PROVE PooledInv'
  <2> DEFINE all == UNION {parts[ids[w][i]] : i \in DOMAIN ids[w]}
  <2>1. /\ status[l] = "absent" /\ l \in Lots /\ UNCHANGED <<offers, dealt, ids>>
        /\ repeated' \subseteq repeated \cup {l}
        /\ \A k \in Lots : status'[k] = IF k = l THEN "open" ELSE status[k]
        /\ \A k \in Lots : parts'[k] = IF k = l THEN all ELSE parts[k]
        /\ \A v \in Workers : pool'[v] = IF v = w THEN l ELSE pool[v]
        /\ \A v \in Workers : todo'[v] = IF v = w THEN ids[w] ELSE todo[v]
        /\ ids[w] # <<>>
    BY <1>0, <1>4 DEF InsertPool, deals, TypeOK, Idle
  <2>2. \A i \in DOMAIN ids[w] : /\ ids[w][i] \in Lots /\ status[ids[w][i]] # "absent"
                                 /\ parts[ids[w][i]] # {} /\ parts[ids[w][i]] \subseteq all
    BY <1>10 DEF Existing, Handling, Harvested, TypeOK
  <2>3. all # {}
    <3>1. 1 \in DOMAIN ids[w]
      BY <2>1, HeadAndTail DEF TypeOK
    <3> QED BY <2>2, <3>1
  <2>4. \A h \in all : \E i \in DOMAIN ids[w] : h \in parts[ids[w][i]]
    OBVIOUS
  <2> HIDE DEF all
  <2>5. Lasting
    BY <2>1 DEF Lasting
  <2>6. Harvested'
    <3>1. (\A k \in Lots : Exists(k) <=> parts[k] # {})'
      BY <1>10, <2>1, <2>3 DEF Harvested
    <3>2. (\A h \in Harvests, k \in Lots : h \in parts[k] => Exists(h))'
      BY <1>0, <1>10, <2>1, <2>2, <2>4 DEF Harvested
    <3> QED BY <1>10, <2>1, <3>1, <3>2 DEF Harvested, TypeOK
  <2>7. Handling(w)'
    BY <2>1, <2>2 DEF Handling
  <2>8. \A v \in Workers \ {w} : Handling(v)'
    BY <2>1, <2>5, HandlingLasts DEF PooledInv, Existing
  <2>9. ASSUME NEW k \in Lots, status'[k] = "matched", k \notin dealt'
        PROVE  Pooled(k)'
    BY <2>1, <2>5, <2>9, PooledLasts DEF PooledInv
  <2> QED BY <2>6, <2>7, <2>8, <2>9 DEF PooledInv, Existing
<1>5. ASSUME NEW w \in Workers, Handling(w)', UNCHANGED <<offers, dealt, repeated, parts>>,
             \A v \in Workers \ {w} :
               ids'[v] = ids[v] /\ pool'[v] = pool[v] /\ todo'[v] = todo[v],
             \A k \in Lots : status'[k] = "absent" <=> status[k] = "absent",
             \A k \in Lots : status'[k] = "matched" /\ status[k] # "matched" => Pooled(k)
      PROVE  PooledInv'
  <2>1. Lasting
    BY <1>5 DEF Lasting
  <2>2. \A v \in Workers : Handling(v)'
    BY <1>5, <2>1, HandlingLasts DEF PooledInv, Existing
  <2>3. Harvested'
    BY <1>0, <1>5, <1>10 DEF Harvested, TypeOK
  <2> QED BY <1>5, <2>2, <2>3 DEF PooledInv, Existing, Pooled
<1>6. ASSUME NEW w \in Workers, Return(w)
      PROVE  /\ Handling(w)'
             /\ \A v \in Workers \ {w} :
                  ids'[v] = ids[v] /\ pool'[v] = pool[v] /\ todo'[v] = todo[v]
  <2>1. ids'[w] = <<>> /\ pool'[w] = None
    BY <1>6 DEF Return, TypeOK
  <2> QED BY <1>6, <2>1, HandlingAnew DEF Return, TypeOK
<1>7. ASSUME NEW w \in Workers, MarkMember(w) PROVE PooledInv'
  <2> DEFINE m == Head(todo[w])
  <2>1. /\ todo[w] \in Seq(Lots) /\ todo[w] # <<>> /\ pool[w] # None /\ pool[w] \in Pools
        /\ 1 \in DOMAIN todo[w] /\ m = todo[w][1] /\ m \in Lots
        /\ \A i \in DOMAIN Tail(todo[w]) :
             i + 1 \in DOMAIN todo[w] /\ Tail(todo[w])[i] = todo[w][i + 1]
    BY <1>7, HeadAndTail DEF MarkMember, TypeOK
  <2>2. status[m] # "absent" /\ Pooled(m)
    <3>1. /\ status[m] # "absent" /\ m # pool[w] /\ parts[m] \subseteq parts[pool[w]]
          /\ status[pool[w]] # "absent"
      BY <2>1, <1>10 DEF Existing, Handling
    <3>2. parts[pool[w]] # {}
      BY <1>0, <1>10, <2>1, <3>1 DEF Harvested
    <3> QED BY <2>1, <3>1, <3>2 DEF Pooled
  <2> HIDE DEF m
  <2>3. /\ UNCHANGED <<offers, dealt, repeated, parts>>
        /\ \A k \in Lots : status'[k] = IF k = m THEN "matched" ELSE status[k]
    BY <1>7 DEF MarkMember, deals, TypeOK, m
  <2>4. \A k \in Lots : status'[k] = "absent" <=> status[k] = "absent"
    BY <1>10, <2>2, <2>3 DEF Harvested, TypeOK
  <2>5. CASE Len(todo[w]) = 1
    <3>1. Return(w)
      BY <1>7, <2>5 DEF MarkMember
    <3> QED BY <1>5, <1>6, <2>2, <2>3, <2>4, <3>1
  <2>6. CASE Len(todo[w]) # 1
    <3>1. /\ UNCHANGED <<ids, pool>>
          /\ \A v \in Workers : todo'[v] = IF v = w THEN Tail(todo[w]) ELSE todo[v]
      BY <1>7, <2>6 DEF MarkMember, TypeOK
    <3>2. /\ \A i \in DOMAIN ids[w] : ids[w][i] \in Lots
          /\ \A i \in DOMAIN todo[w] : todo[w][i] \in Lots
          /\ pool[w] \in Lots
      BY <1>0, <2>1 DEF TypeOK
    <3>3. Handling(w)
      BY <1>10 DEF Existing
    <3>4. Handling(w)'
      <4>1. \A i \in DOMAIN ids'[w] : Exists(ids[w][i])'
        BY <2>4, <3>1, <3>2, <3>3 DEF Handling
      <4>2. Exists(pool[w])'
        BY <2>1, <2>4, <3>1, <3>2, <3>3 DEF Handling
      <4>3. ASSUME NEW i \in DOMAIN todo'[w]
            PROVE  /\ Exists(todo[w][i])' /\ todo'[w][i] # pool'[w]
                   /\ parts'[todo'[w][i]] \subseteq parts'[pool'[w]]
        <5>1. i + 1 \in DOMAIN todo[w] /\ todo'[w][i] = todo[w][i + 1]
          BY <2>1, <3>1, <4>3
        <5> QED BY <2>1, <2>3, <2>4, <3>1, <3>2, <3>3, <5>1 DEF Handling
      <4> QED BY <3>1, <3>3, <4>1, <4>2, <4>3 DEF Handling
    <3> QED BY <1>5, <2>2, <2>3, <2>4, <3>1, <3>4
  <2> QED BY <2>5, <2>6
<1>8. ASSUME NEW w \in Workers, Abort(w) PROVE PooledInv'
  BY <1>5, <1>6, <1>8 DEF Abort, deals
<1>9. CASE UNCHANGED vars
  BY <1>9 DEF vars, PooledInv, Existing, Harvested, Handling, Pooled
<1> QED BY <1>1, <1>2, <1>3, <1>4, <1>7, <1>8, <1>9 DEF Next

\* However requests overlap and wherever they fail, a lot that is matched, and on
\* which no offer was ever accepted, is in some pool: the insert comes before the updates
\* of the members (aggregate_lots).
THEOREM MatchedLotsArePooled == Spec => []MatchedIsPooled
<1>1. PooledInv => MatchedIsPooled
  BY DEF PooledInv, MatchedIsPooled, Pooled
<1> QED BY <1>1, InitTypeOK, TypeStep, PooledInit, PooledStep, PTL DEF Spec


-----------------------------------------------------------------------------
(***************************************************************************)
(* Offers, and the weight of pools, however requests overlap               *)
(***************************************************************************)

\* A lot on sale has no accepted offer, and an open one no pending offer either, unless
\* one was made pending again.
OffersFit ==
  \A l \in Lots :
    /\ OnSale(l) => "accepted" \notin offers[l]
    /\ status[l] = "open" /\ l \notin revived => "pending" \notin offers[l]

LEMMA OffersInit == TypeOK /\ Init => OffersFit
BY DEF Init, OffersFit

LEMMA OffersStep == TypeOK /\ TypeOK' /\ PooledInv /\ OffersFit /\ [Next]_vars => OffersFit'
<1> SUFFICES ASSUME TypeOK, TypeOK', PooledInv, OffersFit, [Next]_vars PROVE OffersFit'
  OBVIOUS
<1> USE DEF OnSale
<1>0. Pools \subseteq Lots /\ Harvests \subseteq Lots
  BY DEF Lots
<1>10. \A l \in Lots : status[l] = "absent" => offers[l] = {}
  BY DEF PooledInv, Existing, Harvested, Exists
<1>1. ASSUME NEW l \in Harvests, ListLot(l) PROVE OffersFit'
  BY <1>0, <1>1, <1>10 DEF ListLot, deals, Exists, TypeOK, OffersFit
<1>2. ASSUME NEW l \in Lots, Trade(l) PROVE OffersFit'
  <2>1. TradeOf(l)
    BY <1>2, TradeIs
  <2> QED BY <2>1 DEF TradeOf, TypeOK, OffersFit
<1>3. ASSUME NEW w \in Workers, NEW l \in Pools, InsertPool(w, l) PROVE OffersFit'
  BY <1>0, <1>3, <1>10 DEF InsertPool, deals, Exists, TypeOK, OffersFit
<1>4. ASSUME NEW w \in Workers, MarkMember(w) PROVE OffersFit'
  BY <1>4 DEF MarkMember, deals, TypeOK, OffersFit
<1>5. ASSUME UNCHANGED <<status, deals>> PROVE OffersFit'
  BY <1>5 DEF deals, OffersFit
<1> QED BY <1>1, <1>2, <1>3, <1>4, <1>5 DEF Next, Aggregate, Abort, vars, deals

\* No pool is lighter than the harvests in it, and one that has a lot twice is heavier.
Heavy ==
  \A l \in Lots :
    /\ qty[l] >= SumOf(Weight, parts[l])
    /\ l \in repeated => qty[l] > SumOf(Weight, parts[l])

LEMMA HeavyInit == Init => Heavy
<1>1. ASSUME Init, NEW l \in Lots
      PROVE  qty[l] = 0 /\ SumOf(Weight, parts[l]) = 0 /\ l \notin repeated
  BY <1>1, SumEmpty DEF Init
<1> QED BY <1>1 DEF Heavy

LEMMA SingleWeight == ASSUME NEW l \in Harvests PROVE Weight[l] = SumOf(Weight, {l})
<1>1. Weights(Weight, Harvests) /\ Weight[l] \in Nat
  BY PoolingAssumption DEF Weights
<1>2. SumOf(Weight, {} \cup {l}) = SumOf(Weight, {}) + Weight[l]
  BY <1>1, SumAdds
<1>3. {} \cup {l} = {l} /\ SumOf(Weight, {}) = 0
  BY SumEmpty
<1> QED BY <1>1, <1>2, <1>3

\* The total of the members read, against the harvests in them: more if a lot is named
\* twice, or one of the members weighs too much.
MembersWeigh(w) ==
  LET weight == SumOf(Weight, UNION {parts[ids[w][i]] : i \in DOMAIN ids[w]})
  IN /\ Total(ids[w]) \in Nat /\ weight \in Nat
     /\ Total(ids[w]) >= weight
     /\ ~IsInjective(ids[w]) => Total(ids[w]) > weight
     /\ (\E i \in DOMAIN ids[w] : ids[w][i] \in repeated) => Total(ids[w]) > weight

LEMMA MembersTotal ==
  ASSUME TypeOK, PooledInv, Heavy, NEW w \in Workers
  PROVE  MembersWeigh(w)
<1> DEFINE s == ids[w]
           all == UNION {parts[s[i]] : i \in DOMAIN s}
<1>1. /\ s \in Seq(Lots)
      /\ qty \in [Lots -> Nat] /\ parts \in [Lots -> SUBSET Harvests]
  BY DEF TypeOK
<1>2. \A l \in Lots : qty[l] >= SumOf(Weight, parts[l])
  BY DEF Heavy
<1>3. \A i \in DOMAIN s : s[i] \in Lots /\ parts[s[i]] # {}
  BY <1>1 DEF PooledInv, Existing, Harvested, Handling
<1> HIDE DEF s
<1>4. /\ Total(s) \in Nat /\ SumOf(Weight, all) \in Nat
      /\ Total(s) >= SumOf(Weight, all)
      /\ (\E i \in DOMAIN s : qty[s[i]] > SumOf(Weight, parts[s[i]]))
           => Total(s) > SumOf(Weight, all)
      /\ (\E i, j \in DOMAIN s : i # j /\ parts[s[i]] \cap parts[s[j]] # {})
           => Total(s) > SumOf(Weight, all)
  BY <1>1, <1>2, TotalWeighs
<1>5. ~IsInjective(s) => \E i, j \in DOMAIN s : i # j /\ parts[s[i]] \cap parts[s[j]] # {}
  BY <1>3 DEF IsInjective
<1>6. ASSUME NEW i \in DOMAIN s, s[i] \in repeated
      PROVE  qty[s[i]] > SumOf(Weight, parts[s[i]])
  BY <1>3, <1>6 DEF Heavy
<1> HIDE DEF all
<1>7. /\ Total(s) \in Nat /\ SumOf(Weight, all) \in Nat
      /\ Total(s) >= SumOf(Weight, all)
      /\ ~IsInjective(s) => Total(s) > SumOf(Weight, all)
      /\ (\E i \in DOMAIN s : s[i] \in repeated) => Total(s) > SumOf(Weight, all)
  BY <1>4, <1>5, <1>6
<1> QED BY <1>7 DEF MembersWeigh, s, all

LEMMA HeavyStep == TypeOK /\ TypeOK' /\ PooledInv /\ Heavy /\ [Next]_vars => Heavy'
<1> SUFFICES ASSUME TypeOK, TypeOK', PooledInv, Heavy, [Next]_vars PROVE Heavy'
  OBVIOUS
<1>0. Pools \subseteq Lots /\ Harvests \subseteq Lots
  BY DEF Lots
<1>10. \A l \in Lots : status[l] = "absent" => l \notin repeated
  BY DEF PooledInv, Existing, Harvested, Exists
<1>1. ASSUME NEW l \in Harvests, ListLot(l) PROVE Heavy'
  <2>1. /\ UNCHANGED repeated /\ l \in Lots /\ l \notin repeated
        /\ \A k \in Lots : parts'[k] = IF k = l THEN {l} ELSE parts[k]
        /\ \A k \in Lots : qty'[k] = IF k = l THEN Weight[l] ELSE qty[k]
    BY <1>0, <1>1, <1>10 DEF ListLot, Exists, TypeOK
  <2>2. qty'[l] = SumOf(Weight, parts'[l]) /\ qty'[l] \in Nat
    BY <2>1, SingleWeight DEF TypeOK
  <2>3. ASSUME NEW k \in Lots
        PROVE  /\ qty'[k] >= SumOf(Weight, parts'[k])
               /\ k \in repeated' => qty'[k] > SumOf(Weight, parts'[k])
    <3>1. CASE k = l
      BY <2>1, <2>2, <3>1
    <3>2. CASE k # l
      BY <2>1, <3>2 DEF Heavy
    <3> QED BY <3>1, <3>2
  <2> QED BY <2>3 DEF Heavy
<1>2. ASSUME UNCHANGED <<qty, parts, repeated>> PROVE Heavy'
  BY <1>2 DEF Heavy
<1>3. ASSUME NEW l \in Lots, Trade(l) PROVE Heavy'
  BY <1>2, <1>3, TradeIs DEF TradeOf
<1>4. ASSUME NEW w \in Workers, NEW l \in Pools, InsertPool(w, l) PROVE Heavy'
  <2> DEFINE all == UNION {parts[ids[w][i]] : i \in DOMAIN ids[w]}
  <2>1. /\ l \in Lots /\ l \notin repeated
        /\ \A k \in Lots : parts'[k] = IF k = l THEN all ELSE parts[k]
        /\ \A k \in Lots : qty'[k] = IF k = l THEN Total(ids[w]) ELSE qty[k]
        /\ \A k \in Lots : k # l => (k \in repeated' <=> k \in repeated)
        /\ l \in repeated' =>
             ~IsInjective(ids[w]) \/ \E i \in DOMAIN ids[w] : ids[w][i] \in repeated
    BY <1>0, <1>4, <1>10 DEF InsertPool, Exists, TypeOK
  <2>2. /\ Total(ids[w]) >= SumOf(Weight, all)
        /\ l \in repeated' => Total(ids[w]) > SumOf(Weight, all)
    BY <2>1, MembersTotal DEF MembersWeigh
  <2> HIDE DEF all
  <2>3. ASSUME NEW k \in Lots
        PROVE  /\ qty'[k] >= SumOf(Weight, parts'[k])
               /\ k \in repeated' => qty'[k] > SumOf(Weight, parts'[k])
    <3>1. CASE k = l
      BY <2>1, <2>2, <3>1
    <3>2. CASE k # l
      BY <2>1, <3>2 DEF Heavy
    <3> QED BY <3>1, <3>2
  <2> QED BY <2>3 DEF Heavy
<1> QED BY <1>1, <1>2, <1>3, <1>4 DEF Next, Aggregate, MarkMember, Abort, vars
-----------------------------------------------------------------------------
(***************************************************************************)
(* One lot per harvest, and its weight                                     *)
(***************************************************************************)

\* No offer on l is accepted or pending, unless one was made pending again.
Unpromised(l) == l \notin revived => offers[l] \cap {"pending", "accepted"} = {}

\* One request is under way at most; its members are open until the pool is there, and
\* those to be marked are not promised to anybody.
Unmarked(w) ==
  /\ pool[w] = None => \A i \in DOMAIN ids[w] : status[ids[w][i]] = "open"
  /\ \A i \in DOMAIN todo[w] : Unpromised(todo[w][i])

Solo ==
  /\ \A v, w \in Workers : ~Idle(v) /\ ~Idle(w) => v = w
  /\ \A w \in Workers : Unmarked(w)

\* k is a pool just inserted, and l a member still to be marked.
Halfway(k, l) ==
  \E w \in Workers :
    pool[w] # None /\ k = pool[w] /\ \E i \in DOMAIN todo[w] : l = todo[w][i]

\* Only those two may promise the same harvest.
Apart ==
  \A k, l \in Lots :
    Promising(k) /\ Promising(l) /\ parts[k] \cap parts[l] # {} =>
      k = l \/ Halfway(k, l) \/ Halfway(l, k)

Weighed == \A l \in Lots : l \notin repeated => qty[l] = SumOf(Weight, parts[l])

SoldInv == ~trouble => Solo /\ Apart /\ Weighed

LEMMA SoldInit == Init => SoldInv
<1> SUFFICES ASSUME Init PROVE SoldInv
  OBVIOUS
<1>1. \A w \in Workers : ids[w] = <<>> /\ todo[w] = <<>>
  BY DEF Init
<1>2. Solo
  BY <1>1 DEF Solo, Unmarked, Idle
<1>3. Apart
  BY DEF Init, Apart
<1>4. Weighed
  BY SumEmpty DEF Init, Weighed
<1> QED BY <1>2, <1>3, <1>4 DEF SoldInv

\* An idle handler has inserted nothing and has nothing to mark.
LEMMA IdleHasNothing ==
  ASSUME TypeOK, PooledInv, NEW w \in Workers, Idle(w)
  PROVE  pool[w] = None /\ ids[w] = <<>> /\ todo[w] = <<>>
BY DEF TypeOK, PooledInv, Existing, Handling, Idle

\* When nobody is under way, nothing is halfway.
LEMMA QuietApart ==
  ASSUME TypeOK, PooledInv, Quiet, Apart, NEW k \in Lots, NEW l \in Lots,
         Promising(k), Promising(l), parts[k] \cap parts[l] # {}
  PROVE  k = l
BY IdleHasNothing DEF Quiet, Apart, Halfway

\* Lots are listed and traded between requests.
LEMMA QuietSolo ==
  ASSUME TypeOK, PooledInv, Quiet, UNCHANGED handlers
  PROVE  Solo'
<1>1. \A w \in Workers : ids'[w] = <<>> /\ todo'[w] = <<>>
  BY IdleHasNothing DEF Quiet, handlers
<1> QED BY <1>1 DEF Solo, Unmarked, Idle

LEMMA SoldStep ==
  TypeOK /\ TypeOK' /\ PooledInv /\ OffersFit /\ Heavy /\ SoldInv /\ [Next]_vars => SoldInv'
<1> SUFFICES ASSUME TypeOK, TypeOK', PooledInv, OffersFit, Heavy, SoldInv, [Next]_vars,
                    ~trouble'
             PROVE  Solo' /\ Apart' /\ Weighed'
  BY DEF SoldInv
<1>0. None \notin Pools /\ Pools \subseteq Lots /\ Harvests \subseteq Lots
  BY PoolingAssumption DEF Lots
<1>1. ASSUME NEW l \in Harvests, ListLot(l) PROVE Solo' /\ Apart' /\ Weighed'
  <2>1. Quiet /\ ~trouble /\ UNCHANGED handlers
    BY <1>1 DEF ListLot, Overlaps
  <2>2. /\ status[l] = "absent" /\ UNCHANGED <<offers, revived, repeated>>
        /\ \A k \in Lots : status'[k] = IF k = l THEN "open" ELSE status[k]
        /\ \A k \in Lots : parts'[k] = IF k = l THEN {l} ELSE parts[k]
        /\ \A k \in Lots : qty'[k] = IF k = l THEN Weight[l] ELSE qty[k]
    BY <1>0, <1>1 DEF ListLot, deals, TypeOK, Exists
  <2>3. \A k \in Lots : l \notin parts[k]
    BY <2>2 DEF PooledInv, Existing, Harvested, Exists
  <2>4. Apart'
    BY <2>1, <2>2, <2>3, QuietApart DEF SoldInv, Apart, Promising, OnSale
  <2>5. Weighed'
    BY <2>1, <2>2, SingleWeight DEF SoldInv, Weighed
  <2> QED BY <2>1, <2>4, <2>5, QuietSolo
<1>2. ASSUME NEW l \in Lots, Trade(l) PROVE Solo' /\ Apart' /\ Weighed'
  <2>0. TradeOf(l)
    BY <1>2, TradeIs
  <2>1. Quiet /\ ~trouble /\ UNCHANGED <<handlers, qty, parts, repeated>>
    BY <2>0 DEF TradeOf, handlers
  <2>2. \A k \in Lots : Promising(k)' => Promising(k)
    BY <2>0 DEF TradeOf, Promising, OnSale, TypeOK
  <2>3. Apart'
    BY <2>1, <2>2, QuietApart DEF SoldInv, Apart
  <2> QED BY <2>1, <2>3, QuietSolo DEF SoldInv, Weighed
<1>3. ASSUME NEW w \in Workers, NEW n \in 2..MaxIds, NEW s \in [1..n -> Lots],
             Aggregate(w, s)
      PROVE  Solo' /\ Apart' /\ Weighed'
  <2>1. Quiet /\ ~trouble
    BY <1>3 DEF Aggregate, Overlaps
  <2>2. /\ UNCHANGED <<status, qty, offers, revived, repeated, pool, todo, parts>>
        /\ \A v \in Workers : ids'[v] = IF v = w THEN s ELSE <<>>
        /\ \A i \in DOMAIN s : status[s[i]] = "open"
    BY <1>3, <2>1 DEF Aggregate, deals, TypeOK, Quiet, Idle
  <2>3. \A v \in Workers : todo[v] = <<>>
    BY <2>1, IdleHasNothing DEF Quiet
  <2>4. Solo'
    BY <2>1, <2>2, <2>3 DEF Solo, Unmarked, Idle
  <2> QED BY <2>1, <2>2, <2>4 DEF SoldInv, Apart, Weighed, Promising, OnSale, Halfway
<1>4. ASSUME NEW w \in Workers, NEW l \in Pools, InsertPool(w, l)
      PROVE  Solo' /\ Apart' /\ Weighed'
  <2> DEFINE all == UNION {parts[ids[w][i]] : i \in DOMAIN ids[w]}
  <2>1. /\ ~trouble /\ ~Idle(w) /\ pool[w] = None
        /\ status[l] = "absent" /\ l \in Lots /\ UNCHANGED <<offers, revived, ids>>
        /\ \A k \in Lots : status'[k] = IF k = l THEN "open" ELSE status[k]
        /\ \A k \in Lots : qty'[k] = IF k = l THEN Total(ids[w]) ELSE qty[k]
        /\ \A k \in Lots : parts'[k] = IF k = l THEN all ELSE parts[k]
        /\ \A v \in Workers : pool'[v] = IF v = w THEN l ELSE pool[v]
        /\ \A v \in Workers : todo'[v] = IF v = w THEN ids[w] ELSE todo[v]
        /\ \A k \in Lots : k # l => (k \in repeated' <=> k \in repeated)
        /\ l \notin repeated' =>
             IsInjective(ids[w]) /\ \A i \in DOMAIN ids[w] : ids[w][i] \notin repeated
    BY <1>0, <1>4 DEF InsertPool, deals, TypeOK, Exists
  <2>2. \A v \in Workers \ {w} : ids[v] = <<>> /\ todo[v] = <<>> /\ pool[v] = None
    BY <2>1, IdleHasNothing DEF SoldInv, Solo
  <2>3. \A i \in DOMAIN ids[w] : ids[w][i] \in Lots /\ status[ids[w][i]] = "open"
    BY <2>1 DEF SoldInv, Solo, Unmarked, TypeOK
  <2>4. \A h \in all : \E i \in DOMAIN ids[w] : h \in parts[ids[w][i]]
    OBVIOUS
  <2> HIDE DEF all
  <2>5. ASSUME NEW k \in Lots, NEW m \in Lots, Promising(k), Promising(m),
               parts[k] \cap parts[m] # {}
        PROVE  k = m
    <3>1. \A v \in Workers : pool[v] = None
      BY <2>1, <2>2
    <3> QED BY <2>1, <2>5, <3>1 DEF SoldInv, Apart, Halfway
  <2>6. Solo'
    <3>1. \A u, v \in Workers : ~Idle(u)' /\ ~Idle(v)' => u = v
      BY <2>1 DEF SoldInv, Solo, Idle
    <3>2. ASSUME NEW v \in Workers PROVE Unmarked(v)'
      <4>1. CASE v = w
        <5>1. \A i \in DOMAIN ids[w] : Unpromised(ids[w][i])'
          BY <2>1, <2>3 DEF OffersFit, OnSale, Unpromised
        <5> QED BY <1>0, <2>1, <4>1, <5>1 DEF Unmarked
      <4>2. CASE v # w
        BY <2>1, <2>2, <4>2 DEF Unmarked
      <4> QED BY <4>1, <4>2
    <3> QED BY <3>1, <3>2 DEF Solo
  <2>7. ASSUME NEW k \in Lots, k # l, Promising(k)', parts'[k] \cap all # {}
        PROVE  Halfway(l, k)'
    <3>1. PICK h \in all : h \in parts[k]
      BY <2>1, <2>7
    <3>2. PICK i \in DOMAIN ids[w] : h \in parts[ids[w][i]]
      BY <2>4, <3>1
    <3>3. Promising(k) /\ Promising(ids[w][i])
      BY <2>1, <2>3, <2>7 DEF Promising, OnSale
    <3>4. k = ids[w][i]
      BY <2>3, <2>5, <3>1, <3>2, <3>3
    <3>5. pool'[w] = l /\ l # None /\ i \in DOMAIN todo'[w] /\ k = todo'[w][i]
      BY <1>0, <2>1, <3>4
    <3> QED BY <3>5 DEF Halfway
  <2>8. Apart'
    <3> SUFFICES ASSUME NEW k \in Lots, NEW m \in Lots, Promising(k)', Promising(m)',
                        parts'[k] \cap parts'[m] # {}, k # m
                 PROVE  Halfway(k, m)' \/ Halfway(m, k)'
      BY DEF Apart
    <3>1. CASE k = l
      BY <2>1, <2>7, <3>1
    <3>2. CASE m = l
      BY <2>1, <2>7, <3>2
    <3>3. CASE k # l /\ m # l
      <4>1. Promising(k) /\ Promising(m) /\ parts[k] \cap parts[m] # {}
        BY <2>1, <3>3 DEF Promising, OnSale
      <4> QED BY <2>5, <4>1
    <3> QED BY <3>1, <3>2, <3>3
  <2>9. Weighed'
    <3>1. \A k \in Lots : k \notin repeated => qty[k] = SumOf(Weight, parts[k])
      BY <2>1 DEF SoldInv, Weighed
    <3>2. ASSUME l \notin repeated' PROVE Total(ids[w]) = SumOf(Weight, all)
      <4>1. \A i, j \in DOMAIN ids[w] : i # j => parts[ids[w][i]] \cap parts[ids[w][j]] = {}
        BY <2>1, <2>3, <2>5, <3>2 DEF IsInjective, Promising, OnSale
      <4>2. \A i \in DOMAIN ids[w] : qty[ids[w][i]] = SumOf(Weight, parts[ids[w][i]])
        BY <2>1, <2>3, <3>1, <3>2
      <4>3. /\ ids[w] \in Seq(Lots)
            /\ qty \in [Lots -> Nat] /\ parts \in [Lots -> SUBSET Harvests]
            /\ \A k \in Lots : qty[k] >= SumOf(Weight, parts[k])
        BY DEF TypeOK, Heavy
      <4> QED BY <4>1, <4>2, <4>3, TotalWeighs DEF all
    <3> QED BY <2>1, <3>1, <3>2 DEF Weighed
  <2> QED BY <2>6, <2>8, <2>9
<1>5. ASSUME NEW w \in Workers, MarkMember(w) PROVE Solo' /\ Apart' /\ Weighed'
  <2> DEFINE m == Head(todo[w])
  <2>1. /\ todo[w] \in Seq(Lots) /\ todo[w] # <<>> /\ pool[w] # None /\ pool[w] \in Pools
        /\ 1 \in DOMAIN todo[w] /\ m = todo[w][1] /\ m \in Lots
        /\ \A i \in DOMAIN Tail(todo[w]) :
             i + 1 \in DOMAIN todo[w] /\ i + 1 # 1 /\ Tail(todo[w])[i] = todo[w][i + 1]
        /\ \A i \in DOMAIN todo[w] :
             i = 1 \/ (i - 1 \in DOMAIN Tail(todo[w]) /\ Tail(todo[w])[i - 1] = todo[w][i])
        /\ Len(todo[w]) = 1 => \A i \in DOMAIN todo[w] : i = 1
    BY <1>5, HeadAndTail DEF MarkMember, TypeOK
  <2>2. /\ ~trouble /\ ~Idle(w) /\ Unpromised(m)
        /\ UNCHANGED <<qty, offers, revived, repeated, parts>>
        /\ \A k \in Lots : status'[k] = IF k = m THEN "matched" ELSE status[k]
    BY <1>5, <2>1, IdleHasNothing DEF MarkMember, deals, SoldInv, Solo, Unmarked, TypeOK
  <2>3. \A v \in Workers \ {w} : ids[v] = <<>> /\ todo[v] = <<>> /\ pool[v] = None
    BY <2>2, IdleHasNothing DEF SoldInv, Solo
  <2> HIDE DEF m
  <2>4. Weighed'
    BY <2>2 DEF SoldInv, Weighed
  <2>5. \A k \in Lots : Promising(k)' => Promising(k) /\ k # m
    BY <2>2 DEF Promising, OnSale, Unpromised
  <2>6. ASSUME NEW k \in Lots, NEW l \in Lots, Promising(k)', Promising(l)',
               parts'[k] \cap parts'[l] # {}, k # l
        PROVE  \E i \in DOMAIN todo[w] :
                 i # 1 /\ \/ k = pool[w] /\ l = todo[w][i]
                          \/ l = pool[w] /\ k = todo[w][i]
    <3>1. Halfway(k, l) \/ Halfway(l, k)
      BY <2>2, <2>5, <2>6 DEF SoldInv, Apart
    <3>2. \E i \in DOMAIN todo[w] : \/ k = pool[w] /\ l = todo[w][i]
                                    \/ l = pool[w] /\ k = todo[w][i]
      BY <2>3, <3>1 DEF Halfway
    <3> QED BY <2>1, <2>5, <2>6, <3>2
  <2>7. CASE Len(todo[w]) = 1
    <3>1. \A v \in Workers : ids'[v] = <<>> /\ todo'[v] = <<>>
      <4>1. Return(w)
        BY <1>5, <2>7 DEF MarkMember
      <4> QED BY <2>3, <4>1 DEF Return, TypeOK
    <3>2. Solo'
      BY <3>1 DEF Solo, Unmarked, Idle
    <3>3. Apart'
      BY <2>1, <2>6, <2>7 DEF Apart
    <3> QED BY <2>4, <3>2, <3>3
  <2>8. CASE Len(todo[w]) # 1
    <3>1. /\ UNCHANGED <<ids, pool>>
          /\ \A v \in Workers : todo'[v] = IF v = w THEN Tail(todo[w]) ELSE todo[v]
      BY <1>5, <2>8 DEF MarkMember, TypeOK
    <3>2. Apart'
      <4> SUFFICES ASSUME NEW k \in Lots, NEW l \in Lots, Promising(k)', Promising(l)',
                          parts'[k] \cap parts'[l] # {}, k # l
                   PROVE  Halfway(k, l)' \/ Halfway(l, k)'
        BY DEF Apart
      <4>1. PICK i \in DOMAIN todo[w] : i # 1 /\ \/ k = pool[w] /\ l = todo[w][i]
                                                 \/ l = pool[w] /\ k = todo[w][i]
        BY <2>6
      <4>2. i - 1 \in DOMAIN todo'[w] /\ todo'[w][i - 1] = todo[w][i]
        BY <2>1, <3>1, <4>1
      <4> QED BY <2>1, <3>1, <4>1, <4>2 DEF Halfway
    <3>3. \A u, v \in Workers : ~Idle(u)' /\ ~Idle(v)' => u = v
      BY <2>2, <3>1 DEF SoldInv, Solo, Idle
    <3>4. Unmarked(w)'
      <4>1. \A i \in DOMAIN todo'[w] :
              i + 1 \in DOMAIN todo[w] /\ todo'[w][i] = todo[w][i + 1]
        BY <2>1, <3>1
      <4>2. \A i \in DOMAIN todo[w] : Unpromised(todo[w][i])
        BY <2>2 DEF SoldInv, Solo, Unmarked
      <4>3. (\A i \in DOMAIN todo[w] : Unpromised(todo[w][i]))'
        BY <2>2, <4>1, <4>2 DEF Unpromised
      <4> QED BY <2>1, <3>1, <4>3 DEF Unmarked
    <3>5. \A v \in Workers \ {w} : Unmarked(v)'
      BY <2>3, <3>1 DEF Unmarked
    <3> QED BY <2>4, <3>2, <3>3, <3>4, <3>5 DEF Solo
  <2> QED BY <2>7, <2>8
<1>6. ASSUME NEW w \in Workers, Abort(w) PROVE Solo' /\ Apart' /\ Weighed'
  BY <1>6 DEF Abort
<1>7. CASE UNCHANGED vars
  <2>1. Solo'
    BY <1>7 DEF vars, deals, handlers, SoldInv, Solo, Unmarked, Unpromised, Idle
  <2>2. Apart'
    BY <1>7 DEF vars, deals, handlers, SoldInv, Apart, Halfway, Promising, OnSale
  <2>3. Weighed'
    BY <1>7 DEF vars, handlers, SoldInv, Weighed
  <2> QED BY <2>1, <2>2, <2>3
<1> QED BY <1>1, <1>2, <1>3, <1>4, <1>5, <1>6, <1>7 DEF Next

\* The invariants together.
Always == TypeOK /\ PooledInv /\ OffersFit /\ Heavy /\ SoldInv

LEMMA AllAlong == Spec => []Always
<1>1. Init => Always
  BY InitTypeOK, PooledInit, OffersInit, HeavyInit, SoldInit DEF Always
<1>2. Always /\ [Next]_vars => Always'
  BY TypeStep, PooledStep, OffersStep, HeavyStep, SoldStep DEF Always
<1> QED BY <1>1, <1>2, PTL DEF Spec

\* Without overlaps and failures a harvest is on sale, promised or open to an acceptance
\* through one lot only, lots on which a decided offer was made pending again left out
\* (the open check and the marking of members in aggregate_lots, what update_offer checks).
THEOREM HarvestsAreSoldOnce == Spec => []SoldOnce
<1>1. Always => SoldOnce
  BY QuietApart DEF Always, SoldOnce, SoldInv
<1> QED BY <1>1, AllAlong, PTL

\* The columns keep their types.  A pool is never lighter than the harvests in it, and
\* heavier when a lot was named twice; without overlaps and failures only then, also when
\* other pools did name one twice (qty in aggregate_lots).
THEOREM PoolsStayConsistent == Spec => []PoolsConsistent
<1>1. Always => PoolsConsistent
  BY DEF Always, PoolsConsistent, PoolWeighsItsParts, Heavy, SoldInv, Weighed, SumOf
<1> QED BY <1>1, AllAlong, PTL
=============================================================================
