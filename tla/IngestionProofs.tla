--------------------------- MODULE IngestionProofs ---------------------------
(***************************************************************************)
(* What holds of the ingestion for any adapters, aliases, answers, retries *)
(* and chunk size.                                                         *)
(*                                                                         *)
(* The log is true because the books of the adapter under way are: what    *)
(* was seen is rejected or in the batch, and a chunk that was counted is   *)
(* in the table, each of its rows as it came or as a later one of the      *)
(* batch replaced it.  A logged row stays true while later adapters write, *)
(* for they write under their own source.                                  *)
(***************************************************************************)
EXTENDS Ingestion, FiniteSetTheorems, SequenceTheorems, TLAPS

-----------------------------------------------------------------------------
(***************************************************************************)
(* Sequences                                                               *)
(***************************************************************************)
\* Induction over the natural numbers, by sets.
LEMMA StepInduction ==
  ASSUME NEW C, 0 \in C, \A n \in Nat : n \in C => n + 1 \in C
  PROVE  Nat \subseteq C
<1> DEFINE Bad == Nat \ C
<1> SUFFICES ASSUME Bad # {} PROVE FALSE
  OBVIOUS
<1>1. PICK n \in Bad : \A m \in Bad : <<m, n>> \notin OpToRel(<, Nat)
  <2>1. Bad \subseteq Nat
    OBVIOUS
  <2> QED BY <2>1, NatLessThanWellFounded, WFMin
<1>2. n \in Nat /\ n # 0
  OBVIOUS
<1>3. n - 1 \in Nat /\ n - 1 < n /\ (n - 1) + 1 = n
  BY <1>2
<1>4. <<n - 1, n>> \in OpToRel(<, Nat)
  BY <1>2, <1>3 DEF OpToRel
<1> QED BY <1>1, <1>2, <1>3, <1>4

\* A finite set of positions has a k-th member, as long as k does not exceed its size.
LEMMA KthIsThere ==
  ASSUME NEW n \in Nat, NEW I \in SUBSET (1 .. n), NEW k \in 1 .. Cardinality(I)
  PROVE  /\ Cardinality(I) \in 0 .. n
         /\ \E i \in I : Cardinality({j \in I : j < i}) = k - 1
<1> DEFINE Below(m) == {j \in I : j < m}
           C == {m \in Nat : Cardinality(Below(m + 1)) < k}
<1>1. IsFiniteSet(1 .. n) /\ Cardinality(1 .. n) = n
  BY FS_Interval
<1>2. IsFiniteSet(I) /\ Cardinality(I) \in Nat /\ Cardinality(I) <= n
  BY <1>1, FS_Subset, FS_CardinalityType
<1>3. ASSUME NEW m \in Nat
      PROVE  /\ IsFiniteSet(Below(m)) /\ Cardinality(Below(m)) \in Nat
             /\ m \notin I => Below(m + 1) = Below(m)
             /\ m \in I => Cardinality(Below(m + 1)) = Cardinality(Below(m)) + 1
  <2>1. Below(m) \in SUBSET I
    OBVIOUS
  <2>2. IsFiniteSet(Below(m)) /\ Cardinality(Below(m)) \in Nat
    BY <1>2, <2>1, FS_Subset, FS_CardinalityType
  <2>3. ASSUME m \notin I PROVE Below(m + 1) = Below(m)
    <3>1. \A j \in I : j < m + 1 <=> j < m
      BY <2>3
    <3> QED BY <3>1
  <2>4. ASSUME m \in I PROVE Cardinality(Below(m + 1)) = Cardinality(Below(m)) + 1
    <3>1. \A j \in I : j < m + 1 <=> j < m \/ j = m
      BY <2>4
    <3>2. Below(m + 1) = Below(m) \cup {m}
      BY <2>4, <3>1, Zenon
    <3>3. m \notin Below(m)
      OBVIOUS
    <3> HIDE DEF Below
    <3> QED BY <2>2, <3>2, <3>3, FS_AddElement
  <2> QED BY <2>2, <2>3, <2>4
<1>4. Below(1) = {} /\ Below(n + 1) = I
  <2>1. \A j \in I : ~(j < 1) /\ j < n + 1
    OBVIOUS
  <2> QED BY <2>1
<1>5. 0 \in C /\ n \notin C
  BY <1>2, <1>4, FS_EmptySet
<1>6. PICK m \in Nat : m \in C /\ m + 1 \notin C
  <2> HIDE DEF C
  <2> QED BY <1>5, StepInduction
<1> HIDE DEF Below
<1>7. Cardinality(Below(m + 1)) < k /\ ~(Cardinality(Below((m + 1) + 1)) < k)
  BY <1>6
<1>8. m + 1 \in Nat
  OBVIOUS
<1>9. m + 1 \in I /\ Cardinality(Below(m + 1)) = k - 1
  BY <1>2, <1>3, <1>7, <1>8
<1>10. Cardinality({j \in I : j < m + 1}) = k - 1
  BY <1>9 DEF Below
<1>11. \E i \in I : Cardinality({j \in I : j < i}) = k - 1
  BY <1>9, <1>10, Zenon
<1>12. Cardinality(I) \in 0 .. n
  BY <1>2
<1> QED BY <1>11, <1>12, Zenon

\* What is picked of a sequence are members of it at the positions that were asked for.
LEMMA PickedAreMembers ==
  ASSUME NEW S, NEW s \in Seq(S), NEW I \in SUBSET (DOMAIN s)
  PROVE  /\ Cardinality(I) \in 0 .. Len(s)
         /\ Picked(s, I) \in Seq(S) /\ Len(Picked(s, I)) = Cardinality(I)
         /\ \A k \in 1 .. Cardinality(I) : \E i \in I : Picked(s, I)[k] = s[i]
<1> DEFINE n == Len(s)
           Pos(k) == CHOOSE i \in I : Cardinality({j \in I : j < i}) = k - 1
<1>1. n \in Nat /\ DOMAIN s = 1 .. n
  OBVIOUS
<1>2. Cardinality(I) \in 0 .. n
  <2> HIDE DEF n
  <2>1. IsFiniteSet(1 .. n) /\ Cardinality(1 .. n) = n
    BY <1>1, FS_Interval
  <2> QED BY <1>1, <2>1, FS_Subset, FS_CardinalityType
<1>3. ASSUME NEW k \in 1 .. Cardinality(I)
      PROVE  Pos(k) \in I /\ Picked(s, I)[k] = s[Pos(k)]
  <2>1. \E i \in I : Cardinality({j \in I : j < i}) = k - 1
    BY <1>1, KthIsThere
  <2> QED BY <2>1 DEF Picked
<1>4. Picked(s, I) = [k \in 1 .. Cardinality(I) |-> s[Pos(k)]]
  BY DEF Picked
<1> HIDE DEF Pos
<1>5. ASSUME NEW k \in 1 .. Cardinality(I) PROVE s[Pos(k)] \in S
  BY <1>1, <1>3
<1>6. Picked(s, I) \in Seq(S) /\ Len(Picked(s, I)) = Cardinality(I)
  <2>1. [k \in 1 .. Cardinality(I) |-> s[Pos(k)]] \in Seq(S)
    BY <1>2, <1>5
  <2> QED BY <1>2, <1>4, <2>1
<1> QED BY <1>2, <1>3, <1>6

\* What is left of a tail of the runner's list when its first adapter is done.
LEMMA TurnPasses ==
  ASSUME NEW n \in 0 .. Len(Adapters), NEW t,
         t = SubSeq(Adapters, n + 1, Len(Adapters)), t # <<>>
  PROVE  /\ n + 1 \in 0 .. Len(Adapters)
         /\ Tail(t) = SubSeq(Adapters, (n + 1) + 1, Len(Adapters))
         /\ Head(t) \in Sources /\ Range(t) \subseteq Sources
         /\ Range(t) = {Head(t)} \cup Range(Tail(t)) /\ Head(t) \notin Range(Tail(t))
<1> DEFINE N == Len(Adapters)
           V == {"data_gov_in", "agmarknet"}
<1>1. Adapters \in Seq(V) /\ N \in Nat /\ DOMAIN Adapters = 1 .. N
  BY IngestionAssumption
<1> HIDE DEF N, V
<1>2. n < N
  <2>1. SubSeq(Adapters, N + 1, N) = <<>>
    BY <1>1
  <2> QED BY <1>1, <2>1 DEF N
<1>3. /\ Len(t) = N - n /\ DOMAIN t = 1 .. N - n /\ t \in Seq(V)
      /\ \A i \in 1 .. N - n : t[i] = Adapters[n + i]
  <2>1. \A i \in n + 1 .. N : Adapters[i] \in V
    BY <1>1, <1>2
  <2>2. t = SubSeq(Adapters, n + 1, N) /\ n + 1 \in Int /\ N \in Int
    BY <1>1 DEF N
  <2>3. /\ t \in Seq(V) /\ Len(t) = IF n + 1 <= N THEN N - (n + 1) + 1 ELSE 0
        /\ \A i \in 1 .. N - (n + 1) + 1 : t[i] = Adapters[(n + 1) + i - 1]
    BY <2>1, <2>2, SubSeqProperties
  <2> QED BY <1>1, <1>2, <2>3
<1>4. Head(t) = Adapters[n + 1]
  BY <1>1, <1>2, <1>3
<1>5. /\ DOMAIN Tail(t) = 1 .. N - n - 1
      /\ \A i \in 1 .. N - n - 1 : Tail(t)[i] = Adapters[(n + 1) + i]
  <2>1. /\ Tail(t) \in Seq(V) /\ Len(Tail(t)) = N - n - 1
        /\ \A i \in 1 .. N - n - 1 : Tail(t)[i] = t[i + 1]
    BY <1>1, <1>2, <1>3, HeadTailProperties
  <2> QED BY <1>1, <1>2, <1>3, <2>1
<1>6. Tail(t) = SubSeq(Adapters, (n + 1) + 1, N)
  <2>1. n + 1 \in 1 .. Len(Adapters) /\ N \in n + 1 .. Len(Adapters)
    BY <1>1, <1>2 DEF N
  <2>2. t = SubSeq(Adapters, n + 1, N)
    BY DEF N
  <2> QED BY <1>1, <2>1, <2>2, HeadTailOfSubSeq
<1>7. Range(t) = {Adapters[i] : i \in n + 1 .. N}
  <2>1. ASSUME NEW i \in n + 1 .. N PROVE i - n \in DOMAIN t /\ t[i - n] = Adapters[i]
    <3>1. i - n \in 1 .. N - n /\ n + (i - n) = i
      BY <1>1, <1>2
    <3> QED BY <1>3, <3>1
  <2>2. ASSUME NEW i \in DOMAIN t PROVE n + i \in n + 1 .. N /\ t[i] = Adapters[n + i]
    <3>1. i \in 1 .. N - n
      BY <1>3
    <3>2. n + i \in n + 1 .. N
      BY <1>1, <1>2, <3>1
    <3> QED BY <1>3, <3>1, <3>2
  <2>3. Range(t) \subseteq {Adapters[i] : i \in n + 1 .. N}
    BY <2>2 DEF Range
  <2>4. {Adapters[i] : i \in n + 1 .. N} \subseteq Range(t)
    BY <2>1 DEF Range
  <2> QED BY <2>3, <2>4
<1>8. Range(Tail(t)) = {Adapters[i] : i \in n + 2 .. N}
  <2>1. ASSUME NEW i \in n + 2 .. N
        PROVE  i - n - 1 \in DOMAIN Tail(t) /\ Tail(t)[i - n - 1] = Adapters[i]
    <3>1. i - n - 1 \in 1 .. N - n - 1 /\ (n + 1) + (i - n - 1) = i
      BY <1>1, <1>2
    <3> QED BY <1>5, <3>1
  <2>2. ASSUME NEW i \in DOMAIN Tail(t)
        PROVE  (n + 1) + i \in n + 2 .. N /\ Tail(t)[i] = Adapters[(n + 1) + i]
    <3>1. i \in 1 .. N - n - 1
      BY <1>5
    <3>2. (n + 1) + i \in n + 2 .. N
      BY <1>1, <1>2, <3>1
    <3> QED BY <1>5, <3>1, <3>2
  <2>3. Range(Tail(t)) \subseteq {Adapters[i] : i \in n + 2 .. N}
    BY <2>2 DEF Range
  <2>4. {Adapters[i] : i \in n + 2 .. N} \subseteq Range(Tail(t))
    BY <2>1 DEF Range
  <2> QED BY <2>3, <2>4
<1>9. n + 1 .. N = {n + 1} \cup (n + 2 .. N) /\ n + 1 .. N \subseteq 1 .. N
  BY <1>1, <1>2
<1>10. Range(t) \subseteq Sources /\ Head(t) \in Sources
  BY <1>1, <1>4, <1>7, <1>9 DEF Sources, Range
<1>11. Range(t) = {Head(t)} \cup Range(Tail(t))
  BY <1>4, <1>7, <1>8, <1>9
<1>12. Head(t) \notin Range(Tail(t))
  <2>1. \A i \in n + 2 .. N : Adapters[i] # Adapters[n + 1]
    <3> TAKE i \in n + 2 .. N
    <3>1. i \in DOMAIN Adapters /\ n + 1 \in DOMAIN Adapters /\ i # n + 1
      BY <1>1, <1>2
    <3>2. \A a, b \in DOMAIN Adapters : Adapters[a] = Adapters[b] => a = b
      BY IngestionAssumption DEF IsInjective
    <3> QED BY <3>1, <3>2
  <2> QED BY <1>4, <1>8, <2>1
<1>13. n + 1 \in 0 .. N
  BY <1>1, <1>2
<1> QED BY <1>6, <1>10, <1>11, <1>12, <1>13 DEF N

-----------------------------------------------------------------------------
(***************************************************************************)
(* Validation                                                              *)
(***************************************************************************)
\* The rows that the validation makes of what the sources may send.
GoodRows(source) == {Normalized(raw, source) : raw \in {r \in RawRecord : Accepted(r)}}

\* They are proper, and of the source.
LEMMA GoodRowIsProper ==
  ASSUME NEW source, NEW r \in GoodRows(source)
  PROVE  Proper(r) /\ r.source = source
<1>1. PICK raw \in RawRecord : Accepted(raw) /\ r = Normalized(raw, source)
  BY DEF GoodRows
<1> DEFINE t == Tenths[raw.unit]
<1>2. t \in {1, 10, 1000}
  BY <1>1 DEF Accepted, Tenths
<1>3. /\ raw.min \in RawPrice /\ raw.modal \in RawPrice /\ raw.max \in RawPrice
      /\ IsPrice(raw.modal) /\ Ordered(raw) /\ InSanityBand(raw)
  BY <1>1 DEF Accepted, RawRecord
<1>4. raw.modal \in Int /\ raw.modal > 0 /\ InQuintals(raw.modal, raw.unit) = raw.modal * t
  BY <1>3 DEF IsPrice, RawPrice, InQuintals
<1>5. r.source = source /\ r.modal = raw.modal * t
      /\ r.min = InQuintals(raw.min, raw.unit) /\ r.max = InQuintals(raw.max, raw.unit)
  BY <1>1, <1>4 DEF Normalized
<1>6. ASSUME r.min # Missing PROVE 0 < r.min /\ r.min <= r.modal
  <2>1. raw.min # Missing /\ r.min = raw.min * t
    BY <1>5, <1>6 DEF InQuintals
  <2>2. raw.min \in Int /\ raw.min > 0 /\ raw.min <= raw.modal
    BY <1>3, <2>1 DEF Ordered, IsPrice, RawPrice
  <2> HIDE DEF t
  <2> QED BY <1>2, <1>4, <1>5, <2>1, <2>2
<1>7. ASSUME r.max # Missing PROVE r.modal <= r.max
  <2>1. raw.max # Missing /\ r.max = raw.max * t
    BY <1>5, <1>7 DEF InQuintals
  <2>2. raw.max \in Int /\ raw.modal <= raw.max
    BY <1>3, <2>1 DEF Ordered, IsPrice, RawPrice
  <2> HIDE DEF t
  <2> QED BY <1>2, <1>4, <1>5, <2>1, <2>2
<1>8. Band # Missing => Band.min <= r.modal /\ r.modal <= Band.max
  BY <1>3, <1>4, <1>5 DEF InSanityBand
<1>9. r.modal > 0
  <2> HIDE DEF t
  <2> QED BY <1>2, <1>4, <1>5
<1> QED BY <1>5, <1>6, <1>7, <1>8, <1>9 DEF Proper

\* The adapter's reading of an answer is again a list of records.
LEMMA RecordsAreRecords ==
  ASSUME NEW items \in Seq(RawRecord)
  PROVE  Records(items) \in Seq(RawRecord)
<1> DEFINE R == RawRecord
           I == {i \in DOMAIN items : Readable(items[i])}
           readable == Picked(items, I)
<1>1. ASSUME NEW item \in R PROVE Parsed(item) \in R
  <2>1. SafePrice(item.min) \in RawPrice /\ SafePrice(item.max) \in RawPrice
    BY DEF SafePrice, RawPrice, RawRecord
  <2> QED BY <2>1 DEF Parsed, RawRecord
<1>2. readable \in Seq(R)
  <2>1. items \in Seq(R) /\ I \in SUBSET (DOMAIN items)
    OBVIOUS
  <2> HIDE DEF R, I
  <2> QED BY <2>1, PickedAreMembers
<1>3. Records(items) = [i \in DOMAIN readable |-> Parsed(readable[i])]
  BY DEF Records
<1> HIDE DEF R, I, readable
<1>4. [i \in DOMAIN readable |-> Parsed(readable[i])] \in Seq(R)
  <2>1. \A i \in DOMAIN readable : Parsed(readable[i]) \in R
    BY <1>1, <1>2
  <2> QED BY <1>2, <2>1
<1> QED BY <1>3, <1>4 DEF R

\* What is taken into the batch is proper, and the rest of the answer is rejected.
LEMMA TakeKeepsBooks ==
  ASSUME NEW items \in Seq(RawRecord), Take(items),
         tally \in [seen : Nat, rejected : Nat, written : Nat, errors : BOOLEAN],
         batch \in Seq(GoodRows(Adapter)), tally.seen = tally.rejected + Len(batch)
  PROVE  /\ tally' \in [seen : Nat, rejected : Nat, written : Nat, errors : BOOLEAN]
         /\ batch' \in Seq(GoodRows(Adapter))
         /\ tally'.seen = tally'.rejected + Len(batch')
         /\ tally'.written = tally.written /\ tally'.errors = tally.errors
         /\ Records(items) # <<>> => tally'.seen > 0
<1> DEFINE G == GoodRows(Adapter)
           R == RawRecord
           records == Records(items)
           I == {i \in DOMAIN records : Accepted(records[i])}
           good == Picked(records, I)
           rows == [i \in DOMAIN good |-> Normalized(good[i], Adapter)]
<1>1. records \in Seq(R)
  BY RecordsAreRecords
<1>2. /\ tally' = [tally EXCEPT !.seen = @ + Len(records),
                                !.rejected = @ + (Len(records) - Len(good))]
      /\ batch' = batch \o rows
  BY DEF Take
<1>3. /\ Cardinality(I) \in 0 .. Len(records)
      /\ good \in Seq(R) /\ Len(good) = Cardinality(I)
      /\ \A k \in 1 .. Cardinality(I) : \E i \in I : good[k] = records[i]
  <2>1. I \in SUBSET (DOMAIN records)
    OBVIOUS
  <2> HIDE DEF R, I, records
  <2> QED BY <1>1, <2>1, PickedAreMembers
<1>4. DOMAIN good = 1 .. Len(good) /\ Len(good) \in Nat
  <2> HIDE DEF R, good
  <2> QED BY <1>3
<1>5. \A k \in DOMAIN good : Normalized(good[k], Adapter) \in G
  <2> TAKE k \in DOMAIN good
  <2>1. PICK i \in I : good[k] = records[i]
    <3> HIDE DEF I, good, records
    <3> QED BY <1>3, <1>4
  <2>2. i \in DOMAIN records /\ Accepted(records[i])
    OBVIOUS
  <2> HIDE DEF good, records
  <2>3. good[k] \in R /\ Accepted(good[k])
    BY <1>1, <2>1, <2>2
  <2> QED BY <2>3 DEF GoodRows
<1> HIDE DEF I, good, records
<1>6. rows \in Seq(G) /\ Len(rows) = Len(good)
  <2>1. DOMAIN rows = 1 .. Len(good) /\ \A k \in 1 .. Len(good) : rows[k] \in G
    BY <1>4, <1>5
  <2>2. rows = [k \in 1 .. Len(good) |-> rows[k]]
    BY <2>1
  <2> HIDE DEF rows, G
  <2> QED BY <1>4, <2>1, <2>2
<1> HIDE DEF rows, G
<1>7. batch' \in Seq(G) /\ Len(batch') = Len(batch) + Len(good) /\ Len(batch) \in Nat
  <2>1. batch \in Seq(G)
    BY DEF G
  <2> QED BY <1>2, <1>6, <2>1, ConcatProperties
<1>8. Len(records) \in Nat /\ Len(good) \in 0 .. Len(records)
  BY <1>1, <1>3
<1>9. /\ tally'.seen = tally.seen + Len(records)
      /\ tally'.rejected = tally.rejected + (Len(records) - Len(good))
      /\ tally'.written = tally.written /\ tally'.errors = tally.errors
      /\ tally' \in [seen : Nat, rejected : Nat, written : Nat, errors : BOOLEAN]
  <2> DEFINE a == Len(records)
             b == Len(records) - Len(good)
  <2>1. a \in Nat /\ b \in Nat
    BY <1>8
  <2>2. tally' = [tally EXCEPT !.seen = @ + a, !.rejected = @ + b]
    BY <1>2
  <2> HIDE DEF a, b
  <2>3. tally' = [seen |-> tally.seen + a, rejected |-> tally.rejected + b,
                  written |-> tally.written, errors |-> tally.errors]
    BY <2>2
  <2> QED BY <2>1, <2>3 DEF a, b
<1>10. records # <<>> => Len(records) > 0
  BY <1>1
<1>11. tally'.seen = tally'.rejected + Len(batch')
  <2>1. tally.seen \in Nat /\ tally.rejected \in Nat
    OBVIOUS
  <2> QED BY <1>7, <1>8, <1>9, <2>1
<1>12. records # <<>> => tally'.seen > 0
  <2>1. tally.seen \in Nat
    OBVIOUS
  <2> QED BY <1>8, <1>9, <1>10, <2>1
<1> QED BY <1>7, <1>9, <1>11, <1>12 DEF G, records

\* Such a tail is a suffix.
LEMMA TailIsSuffix ==
  ASSUME NEW n \in 0 .. Len(Adapters), NEW t, t = SubSeq(Adapters, n + 1, Len(Adapters))
  PROVE  IsSuffix(t, Adapters)
<1> DEFINE N == Len(Adapters)
           V == {"data_gov_in", "agmarknet"}
           rt == Reverse(t)
           ra == Reverse(Adapters)
<1>1. Adapters \in Seq(V) /\ N \in Nat /\ \A i \in 1 .. N : Adapters[i] \in V
  BY IngestionAssumption
<1>2. /\ t \in Seq(V) /\ Len(t) = N - n
      /\ \A i \in 1 .. N - n : t[i] = Adapters[n + i]
  <2>1. \A i \in n + 1 .. N : Adapters[i] \in V
    BY <1>1
  <2>2. t = SubSeq(Adapters, n + 1, N) /\ n + 1 \in Int /\ N \in Int
    BY <1>1 DEF N
  <2> HIDE DEF N, V
  <2>3. /\ t \in Seq(V) /\ Len(t) = IF n + 1 <= N THEN N - (n + 1) + 1 ELSE 0
        /\ \A i \in 1 .. N - (n + 1) + 1 : t[i] = Adapters[(n + 1) + i - 1]
    BY <2>1, <2>2, SubSeqProperties
  <2> QED BY <1>1, <2>3 DEF N
<1> HIDE DEF V
<1>3. /\ rt \in Seq(V) /\ Len(rt) = N - n
      /\ \A i \in 1 .. N - n : rt[i] = Adapters[N - i + 1]
  <2>1. rt = [i \in 1 .. N - n |-> t[(N - n - i) + 1]]
    BY <1>2 DEF Reverse
  <2>2. ASSUME NEW i \in 1 .. N - n
        PROVE  t[(N - n - i) + 1] = Adapters[N - i + 1] /\ t[(N - n - i) + 1] \in V
    <3>1. /\ (N - n - i) + 1 \in 1 .. N - n
          /\ n + ((N - n - i) + 1) = N - i + 1 /\ N - i + 1 \in 1 .. N
      BY <1>1
    <3> QED BY <1>1, <1>2, <3>1
  <2>3. N - n \in Nat
    BY <1>1
  <2> HIDE DEF rt, N
  <2>4. rt \in [1 .. N - n -> V]
    BY <2>1, <2>2
  <2>5. rt \in Seq(V) /\ Len(rt) = N - n
    <3> DEFINE k == N - n
    <3>1. k \in Nat /\ rt \in [1 .. k -> V]
      BY <2>3, <2>4
    <3> HIDE DEF k
    <3>2. rt \in Seq(V)
      BY <3>1, SeqDef
    <3>3. Len(rt) = k
      BY <3>1, <3>2, LenProperties
    <3> QED BY <3>2, <3>3 DEF k
  <2>6. \A i \in 1 .. N - n : rt[i] = Adapters[N - i + 1]
    BY <2>1, <2>2
  <2> QED BY <2>5, <2>6
<1>4. /\ ra \in Seq(V) /\ Len(ra) = N
      /\ \A i \in 1 .. N : ra[i] = Adapters[N - i + 1]
  BY <1>1 DEF Reverse
<1> HIDE DEF rt, ra, N
<1>5. n \in 0 .. N
  BY DEF N
<1>6. \A i \in 1 .. N - n : rt[i] = ra[i]
  <2> TAKE i \in 1 .. N - n
  <2>1. i \in 1 .. N
    BY <1>1, <1>5
  <2>2. ra[i] = Adapters[N - i + 1]
    BY <1>4, <2>1
  <2>3. rt[i] = Adapters[N - i + 1]
    BY <1>3
  <2> QED BY <2>2, <2>3
<1> DEFINE p == SubSeq(rt, 1, Len(rt))
           q == SubSeq(ra, 1, Len(rt))
<1>7. /\ p \in Seq(V) /\ Len(p) = N - n /\ \A i \in 1 .. N - n : p[i] = rt[i]
  BY <1>1, <1>3, <1>5
<1>8. /\ q \in Seq(V) /\ Len(q) = N - n /\ \A i \in 1 .. N - n : q[i] = ra[i]
  BY <1>1, <1>3, <1>4, <1>5
<1> HIDE DEF p, q
<1>9. p = q
  BY <1>6, <1>7, <1>8, SeqEqual
<1> QED BY <1>3, <1>4, <1>5, <1>9 DEF IsSuffix, IsPrefix, rt, ra, p, q

-----------------------------------------------------------------------------
(***************************************************************************)
(* The inductive invariant                                                 *)
(***************************************************************************)
\* The adapters to come are a tail of the runner's list; at a call there is one, and a
\* key of its own; between two adapters nothing is left over.
Turn ==
  /\ at \in {"idle", "metadata", "next", "fetch", "page", "store"}
  /\ \E n \in 0 .. Len(Adapters) : todo = SubSeq(Adapters, n + 1, Len(Adapters))
  /\ at = "metadata" => todo = Adapters
  /\ at \in {"fetch", "page", "store"} => todo # <<>>
  /\ at \in {"fetch", "page"} => keys \in Seq(Range(KeysOf[Adapter])) /\ keys # <<>>
  /\ at \in {"idle", "metadata", "next", "store"} => keys = <<>>
  /\ at = "page" => Adapter = "data_gov_in"

FetchIsTyped ==
  fetch \in [spelling : 1 .. Spellings, tries : 0 .. TRIES - 1, got : Seq(RawRecord),
             total : Nat]

AccountIsTyped ==
  /\ tally \in [seen : Nat, rejected : Nat, written : Nat, errors : BOOLEAN]
  /\ facts \in [down : BOOLEAN, wrote : BOOLEAN]
  /\ offset \in Nat
  /\ at \in {"fetch", "page", "store"} => batch \in Seq(GoodRows(Adapter))

Fresh ==
  at \in {"idle", "metadata", "next"} =>
    tally = NoTally /\ batch = <<>> /\ offset = 0 /\ facts = NoFacts

Done == IF offset < Len(batch) THEN offset ELSE Len(batch)

\* The books of the adapter under way: what was seen is rejected or in the batch, and
\* what has come of the chunks so far is in the table.
Books ==
  /\ tally.seen = tally.rejected + Len(batch)
  /\ at # "store" => offset = 0 /\ tally.written = 0 /\ ~facts.wrote
  /\ facts.down => tally.errors
  /\ at = "store" /\ Adapter = "agmarknet" => tally.errors \/ tally.seen > 0
  /\ facts.wrote => Len(batch) > 0

There(rows, stored, n) == {i \in 1 .. n : \E r \in stored : SameKey(r, rows[i])}
Latest(rows, stored, n) ==
  \A i \in 1 .. n : rows[i] \in stored \/ \E j \in i + 1 .. n : SameKey(rows[j], rows[i])

Chunks ==
  /\ tally.written <= Cardinality(There(batch, prices, Done))
  /\ ~tally.errors => tally.written = Done /\ Latest(batch, prices, Done)

\* The row that was logged for s is true of the table as it is.
RowIsTrue(s, row, stored) ==
  /\ row.batch \in Seq(GoodRows(s))
  /\ row.seen \in Nat /\ row.rejected \in Nat /\ row.written \in Nat
  /\ row.written + row.rejected <= row.seen
  /\ row.written <= Cardinality(There(row.batch, stored, Len(row.batch)))
  /\ row.status = "failed" => row.written = 0 /\ ~row.facts.wrote
  /\ row.status = "success" =>
       row.seen = row.written /\ Latest(row.batch, stored, Len(row.batch)) /\ ~row.facts.down
  /\ row.status = "success" /\ s = "agmarknet" => row.seen > 0
  /\ row.status = "partial" => row.seen > 0

LogKept ==
  /\ DOMAIN log \subseteq Sources \cup {"system"}
  /\ \A s \in DOMAIN log : log[s].status \in {"success", "partial", "failed"}
  /\ \A s \in Sources \cap DOMAIN log : RowIsTrue(s, log[s], prices) /\ s \notin Range(todo)

\* Whoever had his turn has a row.
Heard ==
  at \notin {"idle", "metadata"} => Sources \subseteq DOMAIN log \cup Range(todo)

IInv ==
  /\ Turn /\ FetchIsTyped /\ AccountIsTyped /\ Fresh /\ Books /\ Chunks
  /\ LogKept /\ Heard /\ OnlyProperRows
\* Where the rows stand does not matter to finiteness.
LEMMA ThereIsFinite ==
  ASSUME NEW rows, NEW stored, NEW n \in Nat
  PROVE  /\ IsFiniteSet(There(rows, stored, n))
         /\ Cardinality(There(rows, stored, n)) \in Nat
<1>1. IsFiniteSet(1 .. n)
  BY FS_Interval
<1>2. There(rows, stored, n) \in SUBSET (1 .. n)
  BY DEF There
<1> HIDE DEF There
<1> QED BY <1>1, <1>2, FS_Subset, FS_CardinalityType

\* More rows in the table, or more of the batch looked at, and no fewer are there.
LEMMA ThereGrows ==
  ASSUME NEW rows, NEW old, NEW new, NEW m \in Nat, NEW n \in Nat, m <= n,
         \A r \in old : \E q \in new : SameKey(q, r)
  PROVE  /\ There(rows, old, m) \subseteq There(rows, new, n)
         /\ Cardinality(There(rows, old, m)) <= Cardinality(There(rows, new, n))
<1>1. There(rows, old, m) \subseteq There(rows, new, n)
  <2> SUFFICES ASSUME NEW i \in There(rows, old, m) PROVE i \in There(rows, new, n)
    OBVIOUS
  <2>1. i \in 1 .. m /\ i \in 1 .. n
    BY DEF There
  <2>2. PICK r \in old : SameKey(r, rows[i])
    BY DEF There
  <2>3. PICK q \in new : SameKey(q, r)
    OBVIOUS
  <2>4. SameKey(q, rows[i])
    BY <2>2, <2>3 DEF SameKey
  <2> QED BY <2>1, <2>4 DEF There
<1>2. IsFiniteSet(There(rows, new, n))
  BY ThereIsFinite
<1> HIDE DEF There
<1> QED BY <1>1, <1>2, FS_Subset

\* A log row keeps true when the table keeps the rows of its source, and their keys.
LEMMA RowStaysTrue ==
  ASSUME NEW s, NEW row, NEW old, NEW new, RowIsTrue(s, row, old),
         \A r \in old : \E q \in new : SameKey(q, r),
         \A r \in old : r.source = s => r \in new
  PROVE  RowIsTrue(s, row, new)
<1> DEFINE n == Len(row.batch)
<1>1. row.batch \in Seq(GoodRows(s)) /\ n \in Nat /\ DOMAIN row.batch = 1 .. n
  BY DEF RowIsTrue
<1>2. Cardinality(There(row.batch, old, n)) <= Cardinality(There(row.batch, new, n))
  <2> HIDE DEF n
  <2>1. n <= n
    BY <1>1
  <2>2. \A r \in old : \E q \in new : SameKey(q, r)
    OBVIOUS
  <2> QED BY <1>1, <2>1, <2>2, ThereGrows
<1>3. Cardinality(There(row.batch, old, n)) \in Nat
      /\ Cardinality(There(row.batch, new, n)) \in Nat
  <2> HIDE DEF n
  <2> QED BY <1>1, ThereIsFinite
<1>4. row.written \in Nat /\ row.written <= Cardinality(There(row.batch, new, n))
  BY <1>2, <1>3 DEF RowIsTrue
<1>5. ASSUME Latest(row.batch, old, n) PROVE Latest(row.batch, new, n)
  <2> SUFFICES ASSUME NEW i \in 1 .. n
               PROVE  row.batch[i] \in new
                      \/ \E j \in i + 1 .. n : SameKey(row.batch[j], row.batch[i])
    BY DEF Latest
  <2>1. row.batch[i].source = s
    <3>1. row.batch[i] \in GoodRows(s)
      BY <1>1
    <3> QED BY <3>1, GoodRowIsProper
  <2> QED BY <1>5, <2>1 DEF Latest
<1>6. /\ row.batch \in Seq(GoodRows(s))
      /\ row.seen \in Nat /\ row.rejected \in Nat /\ row.written \in Nat
      /\ row.written + row.rejected <= row.seen
      /\ row.status = "failed" => row.written = 0 /\ ~row.facts.wrote
      /\ row.status = "success" =>
           row.seen = row.written /\ Latest(row.batch, old, n) /\ ~row.facts.down
      /\ row.status = "success" /\ s = "agmarknet" => row.seen > 0
      /\ row.status = "partial" => row.seen > 0
  BY DEF RowIsTrue
<1> QED BY <1>4, <1>5, <1>6 DEF RowIsTrue

-----------------------------------------------------------------------------
(***************************************************************************)
(* Steps                                                                   *)
(***************************************************************************)
\* Between two adapters, and before and after the run, the books are empty.
LEMMA BlankIsFresh ==
  ASSUME Blank, at' \in {"idle", "metadata", "next"}, NEW n \in 0 .. Len(Adapters),
         todo' = SubSeq(Adapters, n + 1, Len(Adapters)),
         at' = "metadata" => todo' = Adapters
  PROVE  Turn' /\ FetchIsTyped' /\ AccountIsTyped' /\ Fresh' /\ Books' /\ Chunks'
<1>1. /\ keys' = <<>> /\ fetch' = NoFetch
      /\ tally' = NoTally /\ batch' = <<>> /\ offset' = 0 /\ facts' = NoFacts
      /\ at' \notin {"fetch", "page", "store"}
  BY DEF Blank
<1>2. Turn'
  BY <1>1 DEF Turn
<1>3. FetchIsTyped'
  <2>1. 1 \in 1 .. Spellings /\ 0 \in 0 .. TRIES - 1 /\ <<>> \in Seq(RawRecord)
    BY IngestionAssumption
  <2> QED BY <1>1, <2>1 DEF FetchIsTyped, NoFetch
<1>4. AccountIsTyped'
  BY <1>1 DEF AccountIsTyped, NoTally, NoFacts
<1>5. Fresh' /\ Books'
  BY <1>1 DEF Fresh, Books, NoTally, NoFacts
<1>6. Chunks'
  <2>1. Len(batch') = 0 /\ Done' = 0
    BY <1>1 DEF Done
  <2>2. Cardinality(There(batch', prices', 0)) \in Nat
    BY ThereIsFinite
  <2>3. Latest(batch', prices', 0)
    BY DEF Latest
  <2> QED BY <1>1, <2>1, <2>2, <2>3 DEF Chunks, NoTally
<1> QED BY <1>2, <1>3, <1>4, <1>5, <1>6

\* A row that is logged leaves the others as they are.
LEMMA LogGrows ==
  ASSUME NEW source, NEW row, NEW S, LogRun(source, row), DOMAIN log \subseteq S, source \in S
  PROVE  /\ DOMAIN log' = DOMAIN log \cup {source}
         /\ DOMAIN log' \subseteq S
         /\ \A s \in DOMAIN log : s # source => log'[s] = log[s]
         /\ \E kept : log'[source] = [row EXCEPT !.kept = kept]
<1>1. PICK kept :
        log' = [s \in DOMAIN log \cup {source} |->
                  IF s = source THEN [row EXCEPT !.kept = kept] ELSE log[s]]
  BY DEF LogRun
<1> QED BY <1>1

\* An adapter's turn ends with a row that is true: the log keeps true, and whoever had
\* his turn is still heard.
LEMMA TurnIsLogged ==
  ASSUME Turn, LogKept, Heard, at \notin {"idle", "metadata"}, todo # <<>>,
         NEW row, LogRun(Adapter, row), prices' = prices, todo' = Tail(todo),
         \A kept : /\ [row EXCEPT !.kept = kept].status \in {"success", "partial", "failed"}
                   /\ RowIsTrue(Adapter, [row EXCEPT !.kept = kept], prices)
  PROVE  /\ LogKept' /\ Heard'
         /\ \E n \in 0 .. Len(Adapters) : todo' = SubSeq(Adapters, n + 1, Len(Adapters))
<1> DEFINE a == Adapter
           S == Sources \cup {"system"}
<1>1. PICK n \in 0 .. Len(Adapters) : todo = SubSeq(Adapters, n + 1, Len(Adapters))
  BY DEF Turn
<1>2. /\ n + 1 \in 0 .. Len(Adapters)
      /\ Tail(todo) = SubSeq(Adapters, (n + 1) + 1, Len(Adapters))
      /\ a \in Sources /\ Range(todo) \subseteq Sources
      /\ Range(todo) = {a} \cup Range(Tail(todo)) /\ a \notin Range(Tail(todo))
  BY <1>1, TurnPasses DEF Adapter
<1>3. LogRun(a, row) /\ DOMAIN log \subseteq S /\ a \in S
  BY <1>2 DEF LogKept
<1> HIDE DEF a, S
<1>4. /\ DOMAIN log' = DOMAIN log \cup {a}
      /\ DOMAIN log' \subseteq S
      /\ \A s \in DOMAIN log : s # a => log'[s] = log[s]
      /\ \E kept : log'[a] = [row EXCEPT !.kept = kept]
  BY <1>3, LogGrows
<1>5. log'[a].status \in {"success", "partial", "failed"} /\ RowIsTrue(a, log'[a], prices)
  BY <1>4 DEF a
<1>6. \A s \in DOMAIN log' : log'[s].status \in {"success", "partial", "failed"}
  BY <1>4, <1>5 DEF LogKept
<1>7. ASSUME NEW s \in Sources \cap DOMAIN log'
      PROVE  RowIsTrue(s, log'[s], prices) /\ s \notin Range(Tail(todo))
  <2>1. CASE s = a
    BY <1>2, <1>5, <2>1
  <2>2. CASE s # a
    BY <1>2, <1>4, <2>2 DEF LogKept
  <2> QED BY <2>1, <2>2
<1>8. ASSUME NEW s \in Sources \cap DOMAIN log'
      PROVE  RowIsTrue(s, log[s], prices)' /\ s \notin Range(todo')
  BY <1>7 DEF RowIsTrue, There, Latest
<1>9. LogKept'
  BY <1>4, <1>6, <1>8 DEF LogKept, S
<1>10. Heard'
  BY <1>2, <1>4 DEF Heard
<1>11. \E m \in 0 .. Len(Adapters) : todo' = SubSeq(Adapters, m + 1, Len(Adapters))
  BY <1>2
<1> QED BY <1>9, <1>10, <1>11

\* The failure of an adapter that has stored nothing.
LEMMA FailureIsTrue ==
  ASSUME AccountIsTyped, Fresh, Books, at \in {"next", "fetch", "page"}, NEW row,
         row.status = "failed", row.batch = batch, row.facts.wrote = facts.wrote,
         row.seen = tally.seen, row.rejected = tally.rejected, row.written = tally.written
  PROVE  RowIsTrue(Adapter, row, prices)
<1>1. row.written = 0 /\ ~row.facts.wrote
  BY DEF Books
<1>2. batch \in Seq(GoodRows(Adapter))
  <2>1. CASE at = "next"
    BY <2>1, EmptySeq DEF Fresh
  <2>2. CASE at # "next"
    BY <2>2 DEF AccountIsTyped
  <2> QED BY <2>1, <2>2
<1>3. /\ row.seen \in Nat /\ row.rejected \in Nat /\ row.written \in Nat
      /\ row.written + row.rejected <= row.seen
  <2>1. tally.seen \in Nat /\ tally.rejected \in Nat /\ Len(batch) \in Nat
    BY <1>2 DEF AccountIsTyped
  <2>2. tally.seen = tally.rejected + Len(batch)
    BY DEF Books
  <2> QED BY <1>1, <2>1, <2>2
<1>4. row.written <= Cardinality(There(row.batch, prices, Len(row.batch)))
  <2>1. Len(row.batch) \in Nat
    BY <1>2
  <2> QED BY <1>1, <2>1, ThereIsFinite
<1> QED BY <1>1, <1>2, <1>3, <1>4 DEF RowIsTrue

\* The report of an adapter that is through with its chunks.
LEMMA ReportIsTrue ==
  ASSUME AccountIsTyped, Books, Chunks, at = "store", offset >= Len(batch), NEW row,
         row.status = Status, row.batch = batch, row.facts = facts,
         row.seen = tally.seen, row.rejected = tally.rejected, row.written = tally.written
  PROVE  RowIsTrue(Adapter, row, prices)
<1> DEFINE n == Len(batch)
<1>1. batch \in Seq(GoodRows(Adapter)) /\ n \in Nat
  BY DEF AccountIsTyped
<1>2. Done = n
  BY <1>1 DEF Done, AccountIsTyped
<1>3. /\ tally.written <= Cardinality(There(batch, prices, n))
      /\ ~tally.errors => tally.written = n /\ Latest(batch, prices, n)
  BY <1>2 DEF Chunks
<1>4. Cardinality(There(batch, prices, n)) \in 0 .. n
  <2>1. IsFiniteSet(1 .. n) /\ Cardinality(1 .. n) = n
    <3> HIDE DEF n
    <3> QED BY <1>1, FS_Interval
  <2>2. There(batch, prices, n) \in SUBSET (1 .. n)
    BY DEF There
  <2>3. Cardinality(There(batch, prices, n)) \in Nat
    BY <1>1, ThereIsFinite
  <2> HIDE DEF n
  <2> QED BY <1>1, <2>1, <2>2, <2>3, FS_Subset
<1>5. /\ tally.seen \in Nat /\ tally.rejected \in Nat /\ tally.written \in Nat
      /\ tally.errors \in BOOLEAN /\ facts.down \in BOOLEAN /\ facts.wrote \in BOOLEAN
  BY DEF AccountIsTyped
<1>6. /\ tally.seen = tally.rejected + n
      /\ facts.down => tally.errors
      /\ Adapter = "agmarknet" => tally.errors \/ tally.seen > 0
      /\ facts.wrote => n > 0
  BY DEF Books
<1> HIDE DEF n
<1>7. tally.written + tally.rejected <= tally.seen
  BY <1>1, <1>3, <1>4, <1>5, <1>6
<1>8. Status = "failed" => tally.errors /\ tally.seen = 0
  BY DEF Status
<1>9. Status = "success" => ~tally.errors /\ tally.rejected = 0
  BY DEF Status
<1>10. Status = "partial" => tally.seen > 0
  BY <1>5, <1>6, <1>1 DEF Status
<1>11. Status = "failed" => tally.written = 0 /\ ~facts.wrote
  BY <1>1, <1>3, <1>4, <1>5, <1>6, <1>8
<1>12. Status = "success" => tally.seen = tally.written /\ ~facts.down
  BY <1>1, <1>3, <1>5, <1>6, <1>9
<1>13. Status = "success" /\ Adapter = "agmarknet" => tally.seen > 0
  BY <1>6, <1>9
<1>14. Status = "success" => Latest(batch, prices, n)
  BY <1>3, <1>9
<1> QED BY <1>1, <1>3, <1>5, <1>7, <1>10, <1>11, <1>12, <1>13, <1>14 DEF RowIsTrue, n

\* A run that begins.
LEMMA StartKeeps == ASSUME IInv, Start PROVE IInv'
<1>1. /\ at' = "metadata" /\ Blank /\ prices' = prices /\ log' = <<>> /\ todo' = Adapters
  BY DEF Start, NoLog
<1>2. 0 \in 0 .. Len(Adapters) /\ Adapters = SubSeq(Adapters, 0 + 1, Len(Adapters))
  BY IngestionAssumption, SubSeqFull
<1>3. Turn' /\ FetchIsTyped' /\ AccountIsTyped' /\ Fresh' /\ Books' /\ Chunks'
  BY <1>1, <1>2, BlankIsFresh
<1>4. LogKept' /\ Heard'
  BY <1>1 DEF LogKept, Heard
<1>5. OnlyProperRows'
  BY <1>1 DEF IInv, OnlyProperRows
<1> QED BY <1>3, <1>4, <1>5 DEF IInv

\* The process goes down.
LEMMA DieKeeps == ASSUME IInv, Die PROVE IInv'
<1>1. at' = "idle" /\ todo' = <<>> /\ Blank /\ prices' = prices /\ log' = log
  BY DEF Die, data
<1>2. /\ Len(Adapters) \in 0 .. Len(Adapters)
      /\ todo' = SubSeq(Adapters, Len(Adapters) + 1, Len(Adapters))
  <2>1. Len(Adapters) \in Nat
    BY IngestionAssumption
  <2> QED BY <1>1, <2>1, SubSeqEmpty
<1>3. Turn' /\ FetchIsTyped' /\ AccountIsTyped' /\ Fresh' /\ Books' /\ Chunks'
  BY <1>1, <1>2, BlankIsFresh
<1>4. LogKept'
  <2>1. Range(todo') = {}
    BY <1>1 DEF Range
  <2>2. LogKept
    BY DEF IInv
  <2>3. \A s \in Sources \cap DOMAIN log : RowIsTrue(s, log[s], prices)'
    BY <1>1, <2>2 DEF LogKept, RowIsTrue, There, Latest
  <2> QED BY <1>1, <2>1, <2>2, <2>3 DEF LogKept
<1>5. Heard' /\ OnlyProperRows'
  BY <1>1 DEF IInv, Heard, OnlyProperRows
<1> QED BY <1>3, <1>4, <1>5 DEF IInv

\* The log and the table stand, and so does whose turn it is.
LEMMA NothingIsLogged ==
  ASSUME LogKept, Heard, OnlyProperRows, at \notin {"idle", "metadata"},
         log' = log, prices' = prices, todo' = todo
  PROVE  LogKept' /\ Heard' /\ OnlyProperRows'
<1>1. LogKept'
  BY DEF LogKept, RowIsTrue, There, Latest
<1>2. Heard'
  BY DEF Heard
<1>3. OnlyProperRows'
  BY DEF OnlyProperRows
<1> QED BY <1>1, <1>2, <1>3

\* The metadata, answered or not.
LEMMA MetadataKeeps == ASSUME IInv, Metadata PROVE IInv'
<1>1. /\ at = "metadata" /\ prices' = prices /\ todo' = todo
      /\ at' \in {"next", "idle"} /\ keys' = keys /\ fetch' = fetch
      /\ tally' = tally /\ batch' = batch /\ offset' = offset /\ facts' = facts
  BY DEF Metadata, adapterVars
<1>2. Turn' /\ FetchIsTyped' /\ AccountIsTyped' /\ Fresh' /\ Books'
  BY <1>1 DEF IInv, Turn, FetchIsTyped, AccountIsTyped, Fresh, Books
<1>3. Chunks' /\ OnlyProperRows'
  BY <1>1 DEF IInv, Chunks, Done, There, Latest, OnlyProperRows
<1>4. todo = Adapters /\ "system" \notin Sources
  <2>1. DOMAIN Adapters = 1 .. Len(Adapters)
        /\ \A i \in DOMAIN Adapters : Adapters[i] \in {"data_gov_in", "agmarknet"}
    BY IngestionAssumption
  <2> QED BY <1>1, <2>1 DEF IInv, Turn, Sources, Range
<1>5. Heard'
  BY <1>1, <1>4 DEF Heard, Sources
<1>6. LogKept'
  <2>1. CASE log' = log
    BY <1>1, <2>1 DEF IInv, LogKept, RowIsTrue, There, Latest
  <2>2. CASE LogRun("system", LogRow("failed"))
    <3> DEFINE S == Sources \cup {"system"}
    <3>1. /\ DOMAIN log' \subseteq S
          /\ DOMAIN log' = DOMAIN log \cup {"system"}
          /\ \A s \in DOMAIN log : s # "system" => log'[s] = log[s]
          /\ \E kept : log'["system"] = [LogRow("failed") EXCEPT !.kept = kept]
      <4>1. DOMAIN log \subseteq S /\ "system" \in S
        BY DEF IInv, LogKept
      <4> HIDE DEF S
      <4> QED BY <2>2, <4>1, LogGrows
    <3>2. log'["system"].status = "failed"
      <4>1. PICK kept : log'["system"] = [LogRow("failed") EXCEPT !.kept = kept]
        BY <3>1
      <4> QED BY <4>1 DEF LogRow
    <3>3. \A s \in DOMAIN log' : log'[s].status \in {"success", "partial", "failed"}
      BY <3>1, <3>2 DEF IInv, LogKept
    <3>4. \A s \in Sources \cap DOMAIN log' :
            RowIsTrue(s, log[s], prices)' /\ s \notin Range(todo')
      <4> TAKE s \in Sources \cap DOMAIN log'
      <4>1. s \in Sources \cap DOMAIN log /\ log'[s] = log[s]
        BY <1>4, <3>1
      <4>2. RowIsTrue(s, log[s], prices) /\ s \notin Range(todo)
        BY <4>1 DEF IInv, LogKept
      <4> QED BY <1>1, <4>1, <4>2 DEF RowIsTrue, There, Latest
    <3> QED BY <3>1, <3>3, <3>4 DEF LogKept
  <2> QED BY <2>1, <2>2 DEF Metadata
<1> QED BY <1>2, <1>3, <1>5, <1>6 DEF IInv

\* No chunk has been written.
LEMMA NoChunkYet ==
  ASSUME NEW S, batch' \in Seq(S), offset' = 0, tally'.written = 0 PROVE Chunks'
<1>1. Done' = 0
  BY DEF Done
<1>2. Cardinality(There(batch', prices', 0)) \in Nat
  BY ThereIsFinite
<1> QED BY <1>1, <1>2 DEF Chunks, Latest

\* The next adapter, its aliases, or the end of the run.
LEMMA NextAdapterKeeps == ASSUME IInv, NextAdapter PROVE IInv'
<1>1. /\ at = "next" /\ prices' = prices
      /\ tally = NoTally /\ batch = <<>> /\ offset = 0 /\ facts = NoFacts
  BY DEF NextAdapter, IInv, Fresh
<1>2. PICK n \in 0 .. Len(Adapters) : todo = SubSeq(Adapters, n + 1, Len(Adapters))
  BY DEF IInv, Turn
<1>3. CASE todo = <<>>
  <2>1. at' = "idle" /\ log' = log /\ todo' = todo /\ Blank
    BY <1>3 DEF NextAdapter
  <2>2. Turn' /\ FetchIsTyped' /\ AccountIsTyped' /\ Fresh' /\ Books' /\ Chunks'
    BY <1>2, <2>1, BlankIsFresh
  <2>3. LogKept' /\ Heard' /\ OnlyProperRows'
    BY <1>1, <2>1, NothingIsLogged DEF IInv
  <2> QED BY <2>2, <2>3 DEF IInv
<1>4. CASE /\ todo # <<>> /\ at' = "fetch" /\ UNCHANGED <<log, todo>>
           /\ keys' = KeysOf[Adapter]
           /\ UNCHANGED <<fetch, tally, batch, offset, facts>>
  <2>1. Adapter' = Adapter /\ Adapter \in Sources
    BY <1>2, <1>4, TurnPasses DEF Adapter
  <2>2. keys' \in Seq(Range(KeysOf[Adapter])) /\ keys' # <<>>
    BY <1>4, <2>1, IngestionAssumption DEF Sources
  <2>3. Turn'
    BY <1>2, <1>4, <2>1, <2>2 DEF Turn
  <2>4. FetchIsTyped'
    BY <1>4 DEF IInv, FetchIsTyped
  <2>5. AccountIsTyped' /\ Fresh' /\ Books'
    BY <1>1, <1>4 DEF AccountIsTyped, Fresh, Books, NoTally, NoFacts
  <2>6. Chunks'
    <3>1. batch' \in Seq({}) /\ offset' = 0 /\ tally'.written = 0
      BY <1>1, <1>4 DEF NoTally
    <3> QED BY <3>1, NoChunkYet
  <2>7. LogKept' /\ Heard' /\ OnlyProperRows'
    BY <1>1, <1>4, NothingIsLogged DEF IInv
  <2> QED BY <2>3, <2>4, <2>5, <2>6, <2>7 DEF IInv
<1>5. CASE /\ todo # <<>> /\ LogRun(Adapter, LogRow("failed"))
           /\ todo' = Tail(todo) /\ at' = at /\ Blank
  <2>1. \A kept :
          /\ [LogRow("failed") EXCEPT !.kept = kept].status \in {"success", "partial", "failed"}
          /\ RowIsTrue(Adapter, [LogRow("failed") EXCEPT !.kept = kept], prices)
    <3> TAKE kept
    <3> DEFINE row == [LogRow("failed") EXCEPT !.kept = kept]
    <3>1. /\ row.status = "failed" /\ row.batch = batch /\ row.facts = facts
          /\ row.seen = tally.seen /\ row.rejected = tally.rejected
          /\ row.written = tally.written
      BY DEF LogRow
    <3> HIDE DEF row
    <3>2. row.facts.wrote = facts.wrote
      BY <3>1
    <3>3. RowIsTrue(Adapter, row, prices)
      BY <1>1, <3>1, <3>2, FailureIsTrue DEF IInv
    <3> QED BY <3>1, <3>3 DEF row
  <2>2. /\ LogKept' /\ Heard'
        /\ \E m \in 0 .. Len(Adapters) : todo' = SubSeq(Adapters, m + 1, Len(Adapters))
    BY <1>1, <1>5, <2>1, TurnIsLogged DEF IInv
  <2>3. Turn' /\ FetchIsTyped' /\ AccountIsTyped' /\ Fresh' /\ Books' /\ Chunks'
    BY <1>1, <1>5, <2>2, BlankIsFresh
  <2>4. OnlyProperRows'
    BY <1>1 DEF IInv, OnlyProperRows
  <2> QED BY <2>2, <2>3, <2>4 DEF IInv
<1> QED BY <1>3, <1>4, <1>5 DEF NextAdapter

\* The current adapter's turn, as the other steps of it need it.
LEMMA TurnIsHis ==
  ASSUME Turn, at \in {"fetch", "page", "store"}
  PROVE  Adapter \in Sources /\ Adapter \in {"data_gov_in", "agmarknet"}
<1>1. PICK n \in 0 .. Len(Adapters) : todo = SubSeq(Adapters, n + 1, Len(Adapters))
  BY DEF Turn
<1>2. Adapter \in Sources
  BY <1>1, TurnPasses DEF Turn, Adapter
<1>3. Sources \subseteq {"data_gov_in", "agmarknet"}
  BY IngestionAssumption DEF Sources, Range
<1> QED BY <1>2, <1>3

\* The key is done with: the next one, or the chunks.
LEMMA KeyPasses ==
  ASSUME Turn, ToNextKey, at \in {"fetch", "page"}, todo' = todo
  PROVE  Turn' /\ FetchIsTyped' /\ at' \in {"fetch", "store"}
<1>1. Adapter' = Adapter
  BY DEF Adapter
<1>2. keys' \in Seq(Range(KeysOf[Adapter]))
  BY HeadTailProperties DEF Turn, ToNextKey
<1>3. at' \in {"fetch", "store"} /\ (at' = "fetch" => keys' # <<>>)
      /\ (at' = "store" => keys' = <<>>)
  BY DEF ToNextKey
<1>4. Turn'
  BY <1>1, <1>2, <1>3 DEF Turn
<1>5. FetchIsTyped'
  <2>1. 1 \in 1 .. Spellings /\ 0 \in 0 .. TRIES - 1 /\ <<>> \in Seq(RawRecord)
    BY IngestionAssumption
  <2> QED BY <2>1 DEF FetchIsTyped, NoFetch, ToNextKey
<1> QED BY <1>3, <1>4, <1>5

\* What a fetch does before it is through with the key touches nothing else.
LEMMA FetchGoesOn ==
  ASSUME IInv, at \in {"fetch", "page"}, at' \in {"fetch", "page"},
         Adapter = "data_gov_in", FetchIsTyped', prices' = prices,
         log' = log, keys' = keys, UNCHANGED adapterVars
  PROVE  IInv'
<1>1. /\ todo' = todo /\ tally' = tally /\ batch' = batch /\ offset' = offset
      /\ facts' = facts /\ Adapter' = Adapter
  BY DEF adapterVars, Adapter
<1>2. Turn'
  BY <1>1 DEF IInv, Turn
<1>3. AccountIsTyped' /\ Fresh' /\ Books'
  BY <1>1 DEF IInv, AccountIsTyped, Fresh, Books
<1>4. Chunks'
  <2>1. batch' \in Seq(GoodRows(Adapter)) /\ offset' = 0 /\ tally'.written = 0
    BY <1>1 DEF IInv, AccountIsTyped, Books
  <2> QED BY <2>1, NoChunkYet
<1>5. LogKept' /\ Heard' /\ OnlyProperRows'
  BY <1>1, NothingIsLogged DEF IInv
<1> QED BY <1>2, <1>3, <1>4, <1>5 DEF IInv

\* A key fails: the runner notes it.
LEMMA KeyFailsKeeps ==
  ASSUME IInv, at \in {"fetch", "page"}, NEW down \in BOOLEAN, KeyFails(down),
         prices' = prices, log' = log, todo' = todo, offset' = offset
  PROVE  IInv'
<1>1. Turn' /\ FetchIsTyped' /\ at' \in {"fetch", "store"}
  BY KeyPasses DEF IInv, KeyFails
<1>2. /\ tally' = [tally EXCEPT !.errors = TRUE] /\ batch' = batch
      /\ facts' = [facts EXCEPT !.down = @ \/ down] /\ Adapter' = Adapter
  BY DEF KeyFails, Adapter
<1>3. /\ tally \in [seen : Nat, rejected : Nat, written : Nat, errors : BOOLEAN]
      /\ facts \in [down : BOOLEAN, wrote : BOOLEAN]
      /\ batch \in Seq(GoodRows(Adapter)) /\ offset = 0 /\ tally.written = 0 /\ ~facts.wrote
      /\ tally.seen = tally.rejected + Len(batch)
  BY DEF IInv, AccountIsTyped, Books
<1>4. /\ tally' \in [seen : Nat, rejected : Nat, written : Nat, errors : BOOLEAN]
      /\ tally'.seen = tally.seen /\ tally'.rejected = tally.rejected
      /\ tally'.written = 0 /\ tally'.errors = TRUE
      /\ facts' \in [down : BOOLEAN, wrote : BOOLEAN] /\ facts'.wrote = FALSE
  BY <1>2, <1>3
<1>5. AccountIsTyped' /\ Fresh'
  BY <1>1, <1>2, <1>3, <1>4 DEF AccountIsTyped, Fresh, GoodRows
<1>6. Books'
  BY <1>2, <1>3, <1>4 DEF Books
<1>7. Chunks'
  BY <1>2, <1>3, <1>4, NoChunkYet
<1>8. LogKept' /\ Heard' /\ OnlyProperRows'
  BY NothingIsLogged DEF IInv
<1> QED BY <1>1, <1>5, <1>6, <1>7, <1>8 DEF IInv

\* The records of a key go into the batch; the scraper has at least one.
LEMMA TakeKeeps ==
  ASSUME IInv, at \in {"fetch", "page"}, NEW items \in Seq(RawRecord), Take(items),
         Adapter = "agmarknet" => Records(items) # <<>>,
         prices' = prices, log' = log, todo' = todo, offset' = offset, facts' = facts
  PROVE  IInv'
<1>1. Turn' /\ FetchIsTyped' /\ at' \in {"fetch", "store"}
  BY KeyPasses DEF IInv, Take
<1>2. Adapter' = Adapter
  BY DEF Adapter
<1>3. /\ tally \in [seen : Nat, rejected : Nat, written : Nat, errors : BOOLEAN]
      /\ facts \in [down : BOOLEAN, wrote : BOOLEAN]
      /\ batch \in Seq(GoodRows(Adapter)) /\ offset = 0 /\ tally.written = 0 /\ ~facts.wrote
      /\ tally.seen = tally.rejected + Len(batch)
      /\ facts.down => tally.errors
  BY DEF IInv, AccountIsTyped, Books
<1>4. /\ tally' \in [seen : Nat, rejected : Nat, written : Nat, errors : BOOLEAN]
      /\ batch' \in Seq(GoodRows(Adapter))
      /\ tally'.seen = tally'.rejected + Len(batch')
      /\ tally'.written = tally.written /\ tally'.errors = tally.errors
      /\ Records(items) # <<>> => tally'.seen > 0
  BY <1>3, TakeKeepsBooks
<1>5. AccountIsTyped' /\ Fresh'
  BY <1>1, <1>2, <1>3, <1>4 DEF AccountIsTyped, Fresh, GoodRows
<1>6. Books'
  <2>1. at' = "store" /\ Adapter' = "agmarknet" => tally'.seen > 0
    BY <1>2, <1>4
  <2>2. /\ tally'.seen = tally'.rejected + Len(batch')
        /\ offset' = 0 /\ tally'.written = 0 /\ ~facts'.wrote
        /\ facts'.down => tally'.errors
    BY <1>3, <1>4
  <2> QED BY <2>1, <2>2 DEF Books
<1>7. Chunks'
  BY <1>3, <1>4, NoChunkYet
<1>8. LogKept' /\ Heard' /\ OnlyProperRows'
  BY NothingIsLogged DEF IInv
<1> QED BY <1>1, <1>5, <1>6, <1>7, <1>8 DEF IInv

\* An exception that the runner does not know ends the adapter.
LEMMA AdapterFailsKeeps ==
  ASSUME IInv, at \in {"fetch", "page"}, AdapterFails, prices' = prices
  PROVE  IInv'
<1> DEFINE failed == [LogRow("failed") EXCEPT !.facts.down = TRUE]
<1>1. LogRun(Adapter, failed) /\ at' = "next" /\ todo' = Tail(todo) /\ Blank
  BY DEF AdapterFails
<1>2. facts \in [down : BOOLEAN, wrote : BOOLEAN]
  BY DEF IInv, AccountIsTyped
<1>3. ASSUME NEW kept
      PROVE  LET row == [failed EXCEPT !.kept = kept]
             IN /\ row.status \in {"success", "partial", "failed"}
                /\ RowIsTrue(Adapter, row, prices)
  <2> DEFINE row == [failed EXCEPT !.kept = kept]
  <2>1. /\ row.status = "failed" /\ row.batch = batch
        /\ row.facts.wrote = facts.wrote
        /\ row.seen = tally.seen /\ row.rejected = tally.rejected
        /\ row.written = tally.written
    BY <1>2 DEF LogRow
  <2> HIDE DEF row
  <2>2. RowIsTrue(Adapter, row, prices)
    BY <2>1, FailureIsTrue DEF IInv
  <2> QED BY <2>1, <2>2 DEF row
<1> HIDE DEF failed
<1>4. /\ LogKept' /\ Heard'
      /\ \E m \in 0 .. Len(Adapters) : todo' = SubSeq(Adapters, m + 1, Len(Adapters))
  <2>1. todo # <<>>
    BY DEF IInv, Turn
  <2> QED BY <1>1, <1>3, <2>1, TurnIsLogged DEF IInv
<1>5. Turn' /\ FetchIsTyped' /\ AccountIsTyped' /\ Fresh' /\ Books' /\ Chunks'
  BY <1>1, <1>4, BlankIsFresh
<1>6. OnlyProperRows'
  BY DEF IInv, OnlyProperRows
<1> QED BY <1>4, <1>5, <1>6 DEF IInv

\* data.gov.in answers with records.
LEMMA PagesAreRecords ==
  ASSUME Turn, at \in {"fetch", "page"}, Adapter = "data_gov_in",
         NEW page \in Pages(Head(keys))
  PROVE  page \in Seq(RawRecord)
<1>1. Head(keys) \in Range(KeysOf[Adapter])
  BY HeadTailProperties DEF Turn
<1>2. Adapter \in {"data_gov_in"} \cap Range(Adapters)
  BY TurnIsHis DEF Sources
<1>3. Items[Head(keys)] \subseteq RawRecord
  BY <1>1, <1>2, IngestionAssumption
<1>4. PICK n \in 0 .. PAGE_SIZE : page \in [1 .. n -> Items[Head(keys)]]
  BY DEF Pages
<1>5. n \in Nat
  BY IngestionAssumption
<1>6. page \in [1 .. n -> RawRecord]
  BY <1>3, <1>4
<1> QED BY <1>5, <1>6, SeqDef

LEMMA FirstPageKeeps == ASSUME IInv, FirstPage PROVE IInv'
<1>1. /\ at = "fetch" /\ Adapter = "data_gov_in" /\ prices' = prices
      /\ fetch \in [spelling : 1 .. Spellings, tries : 0 .. TRIES - 1,
                    got : Seq(RawRecord), total : Nat]
  BY DEF FirstPage, IInv, FetchIsTyped
<1>2. ASSUME Retry PROVE IInv'
  <2>1. fetch.tries + 1 \in 0 .. TRIES - 1
    BY <1>1, <1>2, IngestionAssumption DEF Retry
  <2>2. FetchIsTyped'
    BY <1>1, <1>2, <2>1 DEF Retry, FetchIsTyped
  <2> QED BY <1>1, <1>2, <2>2, FetchGoesOn DEF Retry
<1>3. ASSUME KeyFails(TRUE), UNCHANGED <<log, todo, offset>> PROVE IInv'
  BY <1>1, <1>3, KeyFailsKeeps
<1>4. CASE AdapterFails
  BY <1>1, <1>4, AdapterFailsKeeps
<1>5. ASSUME fetch.spelling < Spellings, OtherSpelling PROVE IInv'
  <2>1. fetch.spelling + 1 \in 1 .. Spellings /\ 0 \in 0 .. TRIES - 1
    BY <1>1, <1>5, IngestionAssumption
  <2>2. FetchIsTyped'
    BY <1>1, <1>5, <2>1 DEF OtherSpelling, FetchIsTyped
  <2>3. at' = at
    BY <1>5 DEF OtherSpelling
  <2> QED BY <1>1, <1>5, <2>2, <2>3, FetchGoesOn DEF OtherSpelling
<1>6. ASSUME NEW page \in Pages(Head(keys)), NEW total \in 0 .. MAX_TOTAL,
             fetch' = [fetch EXCEPT !.got = page, !.total = total, !.tries = 0],
             at' = "page", UNCHANGED <<log, keys, adapterVars>>
      PROVE  IInv'
  <2>1. page \in Seq(RawRecord)
    BY <1>1, PagesAreRecords DEF IInv
  <2>2. total \in Nat /\ 0 \in 0 .. TRIES - 1
    BY IngestionAssumption
  <2>3. FetchIsTyped'
    BY <1>1, <1>6, <2>1, <2>2 DEF FetchIsTyped
  <2> QED BY <1>1, <1>6, <2>3, FetchGoesOn
<1> QED BY <1>2, <1>3, <1>4, <1>5, <1>6 DEF FirstPage

LEMMA NextPageKeeps == ASSUME IInv, NextPage PROVE IInv'
<1>1. /\ at = "page" /\ Adapter = "data_gov_in" /\ prices' = prices
      /\ fetch \in [spelling : 1 .. Spellings, tries : 0 .. TRIES - 1,
                    got : Seq(RawRecord), total : Nat]
  BY DEF NextPage, IInv, FetchIsTyped, Turn
<1>2. ASSUME Retry PROVE IInv'
  <2>1. fetch.tries + 1 \in 0 .. TRIES - 1
    BY <1>1, <1>2, IngestionAssumption DEF Retry
  <2>2. FetchIsTyped'
    BY <1>1, <1>2, <2>1 DEF Retry, FetchIsTyped
  <2> QED BY <1>1, <1>2, <2>2, FetchGoesOn DEF Retry
<1>3. ASSUME Take(fetch.got), UNCHANGED <<log, todo, offset, facts>> PROVE IInv'
  <2>1. fetch.got \in Seq(RawRecord)
    BY <1>1
  <2> QED BY <1>1, <1>3, <2>1, TakeKeeps
<1>4. ASSUME NEW page \in Pages(Head(keys)),
             fetch' = [fetch EXCEPT !.got = @ \o page, !.tries = 0],
             UNCHANGED <<log, at, keys, adapterVars>>
      PROVE  IInv'
  <2>1. page \in Seq(RawRecord) /\ fetch.got \in Seq(RawRecord)
    BY <1>1, PagesAreRecords DEF IInv
  <2>2. fetch.got \o page \in Seq(RawRecord)
    BY <2>1, ConcatProperties
  <2>3. 0 \in 0 .. TRIES - 1
    BY IngestionAssumption
  <2>4. FetchIsTyped'
    BY <1>1, <1>4, <2>2, <2>3 DEF FetchIsTyped
  <2> QED BY <1>1, <1>4, <2>4, FetchGoesOn
<1> QED BY <1>2, <1>3, <1>4 DEF NextPage

LEMMA ScrapeKeeps == ASSUME IInv, Scrape PROVE IInv'
<1>1. /\ at = "fetch" /\ UNCHANGED <<prices, log, todo, offset>>
  BY DEF Scrape
<1>2. PICK items \in Scrapes, down \in BOOLEAN :
        IF Records(items) = <<>> THEN KeyFails(down) ELSE Take(items) /\ UNCHANGED facts
  BY DEF Scrape
<1>3. items \in Seq(RawRecord)
  BY IngestionAssumption
<1>4. CASE Records(items) = <<>>
  BY <1>1, <1>2, <1>4, KeyFailsKeeps
<1>5. CASE Records(items) # <<>>
  BY <1>1, <1>2, <1>3, <1>5, TakeKeeps
<1> QED BY <1>4, <1>5

\* The rows of a chunk are those of the batch from the offset on, to the new Done.
LEMMA ChunkIsNext ==
  ASSUME NEW S, batch \in Seq(S), offset \in Nat, offset < Len(batch),
         offset' = offset + UPSERT_CHUNK, batch' = batch
  PROVE  /\ Done = offset /\ Done' \in Nat /\ Done < Done' /\ Done' <= Len(batch)
         /\ Len(Chunk) \in Nat /\ Len(Chunk) = Done' - Done
         /\ Range(Chunk) = {batch[i] : i \in Done + 1 .. Done'}
         /\ Range(Chunk) \subseteq S
<1> DEFINE n == Len(batch)
           m == Min({offset + UPSERT_CHUNK, n})
<1>1. n \in Nat /\ UPSERT_CHUNK \in Nat /\ UPSERT_CHUNK > 0 /\ DOMAIN batch = 1 .. n
  BY IngestionAssumption
<1>2. m = IF offset + UPSERT_CHUNK < n THEN offset + UPSERT_CHUNK ELSE n
  <2> HIDE DEF n
  <2> QED BY <1>1 DEF Min
<1>3. Done = offset /\ Done' = m
  BY <1>2 DEF Done
<1>4. m \in Nat /\ offset < m /\ m <= n
  BY <1>1, <1>2
<1>5. Chunk = SubSeq(batch, offset + 1, m)
  BY DEF Chunk
<1> HIDE DEF m, n
<1>6. /\ Len(Chunk) = m - offset /\ Chunk \in Seq(S)
      /\ \A i \in 1 .. m - offset : Chunk[i] = batch[offset + i]
  <2>1. \A i \in offset + 1 .. m : batch[i] \in S
    BY <1>1, <1>4
  <2>2. /\ Chunk \in Seq(S) /\ Len(Chunk) = IF offset + 1 <= m THEN m - (offset + 1) + 1 ELSE 0
        /\ \A i \in 1 .. m - (offset + 1) + 1 : Chunk[i] = batch[(offset + 1) + i - 1]
    BY <1>4, <1>5, <2>1, SubSeqProperties
  <2> QED BY <1>4, <2>2
<1>7. Range(Chunk) = {batch[i] : i \in offset + 1 .. m}
  <2>1. DOMAIN Chunk = 1 .. m - offset
    BY <1>4, <1>6
  <2>2. \A i \in offset + 1 .. m : i - offset \in DOMAIN Chunk /\ Chunk[i - offset] = batch[i]
    BY <1>4, <1>6, <2>1
  <2>3. \A i \in DOMAIN Chunk : offset + i \in offset + 1 .. m /\ Chunk[i] = batch[offset + i]
    BY <1>4, <1>6, <2>1
  <2>4. Range(Chunk) \subseteq {batch[i] : i \in offset + 1 .. m}
    BY <2>3 DEF Range
  <2>5. {batch[i] : i \in offset + 1 .. m} \subseteq Range(Chunk)
    BY <2>2 DEF Range
  <2> QED BY <2>4, <2>5
<1>8. Range(Chunk) \subseteq S
  BY <1>6 DEF Range
<1> QED BY <1>3, <1>4, <1>6, <1>7, <1>8 DEF n

\* An upsert loses no key, and touches no row of another source.
LEMMA UpsertKeepsKeys ==
  ASSUME NEW source, \A r \in Range(Chunk) : r.source = source
  PROVE  /\ \A r \in prices : \E q \in Upserted : SameKey(q, r)
         /\ \A r \in prices : r.source # source => r \in Upserted
<1>1. ASSUME NEW r \in prices PROVE \E q \in Upserted : SameKey(q, r)
  <2>1. CASE \A q \in Range(Chunk) : ~SameKey(r, q)
    <3>1. r \in Upserted /\ SameKey(r, r)
      BY <2>1 DEF Upserted, SameKey
    <3> QED BY <3>1
  <2>2. CASE \E q \in Range(Chunk) : SameKey(r, q)
    <3>1. PICK q \in Range(Chunk) : SameKey(r, q)
      BY <2>2
    <3>2. q \in Upserted /\ SameKey(q, r)
      BY <3>1 DEF Upserted, SameKey
    <3> QED BY <3>2
  <2> QED BY <2>1, <2>2
<1>2. ASSUME NEW r \in prices, r.source # source PROVE r \in Upserted
  BY <1>2 DEF Upserted, SameKey
<1> QED BY <1>1, <1>2

\* A chunk that is applied is in the table, and what it replaced is in it, too.
LEMMA ChunkIsStored ==
  ASSUME NEW m \in Nat, NEW n \in Nat, m < n, Range(Chunk) = {batch[i] : i \in m + 1 .. n},
         NEW source, \A r \in Range(Chunk) : r.source = source
  PROVE  /\ Cardinality(There(batch, prices, m)) + (n - m)
              <= Cardinality(There(batch, Upserted, n))
         /\ Latest(batch, prices, m) => Latest(batch, Upserted, n)
<1> DEFINE old == There(batch, prices, m)
           new == There(batch, Upserted, n)
           next == m + 1 .. n
<1>1. old \subseteq new
  <2>1. \A r \in prices : \E q \in Upserted : SameKey(q, r)
    BY UpsertKeepsKeys
  <2>2. m <= n
    OBVIOUS
  <2> QED BY <2>1, <2>2, ThereGrows
<1>2. next \subseteq new
  <2> SUFFICES ASSUME NEW i \in next PROVE i \in new
    OBVIOUS
  <2>1. batch[i] \in Upserted /\ SameKey(batch[i], batch[i])
    BY DEF Upserted, SameKey
  <2>2. i \in 1 .. n
    OBVIOUS
  <2> QED BY <2>1, <2>2 DEF There
<1>3. old \cap next = {}
  BY DEF There
<1>4. /\ IsFiniteSet(old) /\ Cardinality(old) \in Nat
      /\ IsFiniteSet(new) /\ Cardinality(new) \in Nat
  BY ThereIsFinite
<1>5. IsFiniteSet(next) /\ Cardinality(next) = n - m
  <2>1. m + 1 \in Int /\ n \in Int /\ ~(m + 1 > n)
    OBVIOUS
  <2>2. /\ IsFiniteSet(m + 1 .. n)
        /\ Cardinality(m + 1 .. n) = IF m + 1 > n THEN 0 ELSE n - (m + 1) + 1
    BY <2>1, FS_Interval
  <2> QED BY <2>1, <2>2
<1>6. Cardinality(old) + (n - m) <= Cardinality(new)
  <2> HIDE DEF old, new, next
  <2>1. Cardinality(old \cup next) = Cardinality(old) + (n - m)
    <3>1. Cardinality(old \cup next)
            = Cardinality(old) + Cardinality(next) - Cardinality(old \cap next)
      BY <1>4, <1>5, FS_Union
    <3>2. Cardinality(old \cap next) = 0
      BY <1>3, FS_EmptySet
    <3> QED BY <1>4, <1>5, <3>1, <3>2
  <2>2. Cardinality(old \cup next) <= Cardinality(new)
    BY <1>1, <1>2, <1>4, FS_Subset
  <2> QED BY <1>4, <2>1, <2>2
<1>7. ASSUME Latest(batch, prices, m) PROVE Latest(batch, Upserted, n)
  <2> SUFFICES ASSUME NEW i \in 1 .. n
               PROVE  batch[i] \in Upserted
                      \/ \E j \in i + 1 .. n : SameKey(batch[j], batch[i])
    BY DEF Latest
  <2>1. CASE i \in next
    BY <2>1 DEF Upserted
  <2>2. CASE i \notin next
    <3>1. i \in 1 .. m
      BY <2>2
    <3>2. CASE \E j \in i + 1 .. m : SameKey(batch[j], batch[i])
      BY <3>2
    <3>3. CASE batch[i] \in prices /\ \A q \in Range(Chunk) : ~SameKey(batch[i], q)
      BY <3>3 DEF Upserted
    <3>4. CASE \E q \in Range(Chunk) : SameKey(batch[i], q)
      <4>1. PICK j \in next : SameKey(batch[i], batch[j])
        BY <3>4
      <4>2. j \in i + 1 .. n /\ SameKey(batch[j], batch[i])
        BY <3>1, <4>1 DEF SameKey
      <4> QED BY <4>2
    <3> QED BY <1>7, <3>1, <3>2, <3>3, <3>4 DEF Latest
  <2> QED BY <2>1, <2>2
<1> QED BY <1>6, <1>7

\* A chunk, applied, refused or applied without an answer.
LEMMA StoreKeeps == ASSUME IInv, Store PROVE IInv'
<1>1. /\ at = "store" /\ offset < Len(batch) /\ offset' = offset + UPSERT_CHUNK
      /\ log' = log /\ at' = at /\ todo' = todo /\ keys' = keys /\ fetch' = fetch
      /\ batch' = batch
  BY DEF Store
<1> DEFINE a == Adapter
<1>2. Adapter' = a
  BY <1>1 DEF Adapter
<1>3. /\ tally \in [seen : Nat, rejected : Nat, written : Nat, errors : BOOLEAN]
      /\ facts \in [down : BOOLEAN, wrote : BOOLEAN]
      /\ batch \in Seq(GoodRows(a)) /\ offset \in Nat
  BY <1>1 DEF IInv, AccountIsTyped
<1>4. /\ Done = offset /\ Done' \in Nat /\ Done < Done' /\ Done' <= Len(batch)
      /\ Len(Chunk) \in Nat /\ Len(Chunk) = Done' - Done
      /\ Range(Chunk) = {batch[i] : i \in Done + 1 .. Done'}
      /\ Range(Chunk) \subseteq GoodRows(a)
  BY <1>1, <1>3, ChunkIsNext
<1>5. \A r \in Range(Chunk) : r.source = a /\ Proper(r)
  BY <1>4, GoodRowIsProper
<1>6. /\ \A r \in prices : \E q \in Upserted : SameKey(q, r)
      /\ \A r \in prices : r.source # a => r \in Upserted
  BY <1>5, UpsertKeepsKeys
<1>7. /\ Cardinality(There(batch, prices, Done)) + (Done' - Done)
           <= Cardinality(There(batch, Upserted, Done'))
      /\ Latest(batch, prices, Done) => Latest(batch, Upserted, Done')
  BY <1>3, <1>4, <1>5, ChunkIsStored
<1>8. /\ Cardinality(There(batch, prices, Done)) \in Nat
      /\ Cardinality(There(batch, prices, Done')) \in Nat
      /\ Cardinality(There(batch, Upserted, Done')) \in Nat
      /\ Cardinality(There(batch, prices, Done)) <= Cardinality(There(batch, prices, Done'))
  <2>1. \A r \in prices : \E q \in prices : SameKey(q, r)
    BY DEF SameKey
  <2>2. Done \in Nat /\ Done' \in Nat /\ Done <= Done'
    BY <1>3, <1>4
  <2> QED BY <2>1, <2>2, ThereGrows, ThereIsFinite
<1>9. prices' \in {prices, Upserted} /\ (prices' = Upserted \/ ~Stored)
  BY DEF Store, Stored, StoreFailed
<1>10. Turn' /\ FetchIsTyped'
  BY <1>1, <1>2 DEF IInv, Turn, FetchIsTyped
<1>11. /\ tally' \in [seen : Nat, rejected : Nat, written : Nat, errors : BOOLEAN]
       /\ facts' \in [down : BOOLEAN, wrote : BOOLEAN]
       /\ tally'.seen = tally.seen /\ tally'.rejected = tally.rejected
       /\ tally.errors => tally'.errors
       /\ facts'.down = facts.down
  <2>1. CASE Stored
    <3> DEFINE k == Len(Chunk)
    <3>1. k \in Nat
      BY <1>4
    <3>2. /\ tally' = [tally EXCEPT !.written = @ + k]
          /\ facts' = [facts EXCEPT !.wrote = TRUE]
      BY <2>1 DEF Stored
    <3> HIDE DEF k
    <3>3. tally' = [seen |-> tally.seen, rejected |-> tally.rejected,
                    written |-> tally.written + k, errors |-> tally.errors]
      BY <1>3, <3>2
    <3>4. facts' = [down |-> facts.down, wrote |-> TRUE]
      BY <1>3, <3>2
    <3> QED BY <1>3, <3>1, <3>3, <3>4
  <2>2. CASE StoreFailed
    <3>1. /\ tally' = [tally EXCEPT !.errors = TRUE]
          /\ facts' = facts \/ facts' = [facts EXCEPT !.wrote = TRUE]
      BY <2>2 DEF StoreFailed, ChunkFails
    <3> QED BY <1>3, <3>1
  <2> QED BY <2>1, <2>2 DEF Store
<1>12. AccountIsTyped' /\ Fresh'
  <2>1. offset' \in Nat
    BY <1>1, <1>3, IngestionAssumption
  <2> QED BY <1>1, <1>2, <1>3, <1>11, <2>1 DEF AccountIsTyped, Fresh, GoodRows
<1>13. Books'
  <2>1. Len(batch) > 0
    BY <1>1, <1>3
  <2> QED BY <1>1, <1>2, <1>3, <1>11, <2>1 DEF IInv, Books
<1>14. Chunks'
  <2>1. /\ tally.written \in Nat
        /\ tally.written <= Cardinality(There(batch, prices, Done))
        /\ ~tally.errors => tally.written = Done /\ Latest(batch, prices, Done)
    BY <1>3 DEF IInv, Chunks
  <2>2. CASE Stored
    <3>1. prices' = Upserted /\ tally'.written = tally.written + (Done' - Done)
          /\ tally'.errors = tally.errors
      BY <1>3, <1>4, <2>2 DEF Stored
    <3>2. tally'.written <= Cardinality(There(batch, Upserted, Done'))
      BY <1>3, <1>4, <1>7, <1>8, <2>1, <3>1
    <3>3. ~tally'.errors => tally'.written = Done' /\ Latest(batch, Upserted, Done')
      BY <1>3, <1>4, <1>7, <2>1, <3>1
    <3> QED BY <1>1, <3>1, <3>2, <3>3 DEF Chunks, There, Latest
  <2>3. CASE StoreFailed
    <3>1. tally'.errors = TRUE /\ tally'.written = tally.written
      BY <1>3, <2>3 DEF StoreFailed, ChunkFails
    <3>2. tally.written <= Cardinality(There(batch, prices', Done'))
      <4>1. CASE prices' = prices
        BY <1>8, <2>1, <4>1
      <4>2. CASE prices' = Upserted
        BY <1>3, <1>4, <1>7, <1>8, <2>1, <4>2
      <4> QED BY <1>9, <4>1, <4>2
    <3> QED BY <1>1, <3>1, <3>2 DEF Chunks, There
  <2> QED BY <2>2, <2>3 DEF Store
<1>15. OnlyProperRows'
  <2>1. \A r \in Upserted : r \in prices \/ r \in Range(Chunk)
    BY DEF Upserted
  <2> QED BY <1>5, <1>9, <2>1 DEF IInv, OnlyProperRows
<1>16. LogKept'
  <2>1. ASSUME NEW s \in Sources \cap DOMAIN log
        PROVE  RowIsTrue(s, log[s], prices') /\ s \notin Range(todo)
    <3>1. RowIsTrue(s, log[s], prices) /\ s \notin Range(todo)
      BY DEF IInv, LogKept
    <3>2. s # a
      <4>1. a \in Range(todo)
        <5>1. PICK n \in 0 .. Len(Adapters) : todo = SubSeq(Adapters, n + 1, Len(Adapters))
          BY DEF IInv, Turn
        <5>2. todo # <<>>
          BY <1>1 DEF IInv, Turn
        <5>3. Range(todo) = {a} \cup Range(Tail(todo))
          BY <5>1, <5>2, TurnPasses DEF Adapter
        <5> QED BY <5>3
      <4> QED BY <3>1, <4>1
    <3>3. \A r \in prices : r.source = s => r \in Upserted
      BY <1>6, <3>2
    <3>4. RowIsTrue(s, log[s], Upserted)
      BY <1>6, <3>1, <3>3, RowStaysTrue
    <3> QED BY <1>9, <3>1, <3>4
  <2>2. \A s \in Sources \cap DOMAIN log :
          RowIsTrue(s, log[s], prices)' /\ s \notin Range(todo')
    BY <1>1, <2>1 DEF RowIsTrue, There, Latest
  <2> QED BY <1>1, <2>2 DEF IInv, LogKept
<1>17. Heard'
  BY <1>1 DEF IInv, Heard
<1> QED BY <1>10, <1>12, <1>13, <1>14, <1>15, <1>16, <1>17 DEF IInv

\* The report of an adapter that is through.
LEMMA ReportKeeps == ASSUME IInv, Report PROVE IInv'
<1> DEFINE report == LogRow(Status)
<1>1. /\ at = "store" /\ offset >= Len(batch) /\ LogRun(Adapter, report)
      /\ at' = "next" /\ todo' = Tail(todo) /\ Blank /\ prices' = prices
  BY DEF Report
<1>2. ASSUME NEW kept
      PROVE  LET row == [report EXCEPT !.kept = kept]
             IN /\ row.status \in {"success", "partial", "failed"}
                /\ RowIsTrue(Adapter, row, prices)
  <2> DEFINE row == [report EXCEPT !.kept = kept]
  <2>1. /\ row.status = Status /\ row.batch = batch /\ row.facts = facts
        /\ row.seen = tally.seen /\ row.rejected = tally.rejected
        /\ row.written = tally.written
    BY DEF LogRow
  <2>2. Status \in {"success", "partial", "failed"}
    BY DEF Status
  <2> HIDE DEF row
  <2>3. RowIsTrue(Adapter, row, prices)
    BY <1>1, <2>1, ReportIsTrue DEF IInv
  <2> QED BY <2>1, <2>2, <2>3 DEF row
<1> HIDE DEF report
<1>3. /\ LogKept' /\ Heard'
      /\ \E m \in 0 .. Len(Adapters) : todo' = SubSeq(Adapters, m + 1, Len(Adapters))
  <2>1. todo # <<>>
    BY <1>1 DEF IInv, Turn
  <2> QED BY <1>1, <1>2, <2>1, TurnIsLogged DEF IInv
<1>4. Turn' /\ FetchIsTyped' /\ AccountIsTyped' /\ Fresh' /\ Books' /\ Chunks'
  BY <1>1, <1>3, BlankIsFresh
<1>5. OnlyProperRows'
  BY <1>1 DEF IInv, OnlyProperRows
<1> QED BY <1>3, <1>4, <1>5 DEF IInv

-----------------------------------------------------------------------------
(***************************************************************************)
(* The theorems                                                            *)
(***************************************************************************)
\* The invariant holds at first and every step keeps it.
THEOREM RunIsKept == Spec => []IInv
<1>1. Init => IInv
  <2> SUFFICES ASSUME Init PROVE IInv
    OBVIOUS
  <2>1. /\ prices = {} /\ log = <<>> /\ at = "idle" /\ todo = <<>> /\ keys = <<>>
        /\ fetch = NoFetch /\ tally = NoTally /\ batch = <<>> /\ offset = 0 /\ facts = NoFacts
    BY DEF Init, NoLog
  <2>2. /\ Len(Adapters) \in 0 .. Len(Adapters)
        /\ todo = SubSeq(Adapters, Len(Adapters) + 1, Len(Adapters))
    <3>1. Len(Adapters) \in Nat
      BY IngestionAssumption
    <3> QED BY <2>1, <3>1, SubSeqEmpty
  <2>3. Turn /\ Fresh /\ Books
    BY <2>1, <2>2 DEF Turn, Fresh, Books, NoTally, NoFacts
  <2>4. FetchIsTyped
    <3>1. 1 \in 1 .. Spellings /\ 0 \in 0 .. TRIES - 1 /\ <<>> \in Seq(RawRecord)
      BY IngestionAssumption
    <3> QED BY <2>1, <3>1 DEF FetchIsTyped, NoFetch
  <2>5. AccountIsTyped
    BY <2>1 DEF AccountIsTyped, NoTally, NoFacts
  <2>6. Chunks
    <3>1. Done = 0
      BY <2>1 DEF Done
    <3>2. Cardinality(There(batch, prices, 0)) \in Nat
      BY ThereIsFinite
    <3> QED BY <2>1, <3>1, <3>2 DEF Chunks, Latest, NoTally
  <2>7. LogKept /\ Heard /\ OnlyProperRows
    BY <2>1 DEF LogKept, Heard, OnlyProperRows
  <2> QED BY <2>3, <2>4, <2>5, <2>6, <2>7 DEF IInv
<1>2. IInv /\ [Next]_vars => IInv'
  <2> SUFFICES ASSUME IInv, [Next]_vars PROVE IInv'
    OBVIOUS
  <2>1. CASE Start
    BY <2>1, StartKeeps
  <2>2. CASE Metadata
    BY <2>2, MetadataKeeps
  <2>3. CASE NextAdapter
    BY <2>3, NextAdapterKeeps
  <2>4. CASE FirstPage
    BY <2>4, FirstPageKeeps
  <2>5. CASE NextPage
    BY <2>5, NextPageKeeps
  <2>6. CASE Scrape
    BY <2>6, ScrapeKeeps
  <2>7. CASE Store
    BY <2>7, StoreKeeps
  <2>8. CASE Report
    BY <2>8, ReportKeeps
  <2>9. CASE Die
    BY <2>9, DieKeeps
  <2>10. CASE UNCHANGED vars
    <3>1. /\ prices' = prices /\ log' = log /\ at' = at /\ todo' = todo /\ keys' = keys
          /\ fetch' = fetch /\ tally' = tally /\ batch' = batch /\ offset' = offset
          /\ facts' = facts /\ Adapter' = Adapter
      BY <2>10 DEF vars, Adapter
    <3>2. Turn' /\ FetchIsTyped' /\ Fresh'
      BY <3>1 DEF IInv, Turn, FetchIsTyped, Fresh
    <3>3. AccountIsTyped' /\ Books'
      BY <3>1 DEF IInv, AccountIsTyped, Books, GoodRows
    <3>4. Chunks'
      BY <3>1 DEF IInv, Chunks, Done, There, Latest
    <3>5. LogKept'
      BY <3>1 DEF IInv, LogKept, RowIsTrue, There, Latest
    <3>6. Heard' /\ OnlyProperRows'
      BY <3>1 DEF IInv, Heard, OnlyProperRows
    <3> QED BY <3>2, <3>3, <3>4, <3>5, <3>6 DEF IInv
  <2> QED BY <2>1, <2>2, <2>3, <2>4, <2>5, <2>6, <2>7, <2>8, <2>9, <2>10 DEF Next, Step
<1> QED BY <1>1, <1>2, PTL DEF Spec

\* The run keeps its shape, its log the statuses that the CHECK allows, and the table
\* only rows that are positive, ordered and within the band (PriceValidator).
THEOREM OnlyProperIsStored == Spec => []RunStoresProper
<1>1. IInv => TypeOK
  <2> SUFFICES ASSUME IInv PROVE TypeOK
    OBVIOUS
  <2>1. at \in {"idle", "metadata", "next", "fetch", "page", "store"}
    BY DEF IInv, Turn
  <2>2. IsSuffix(todo, Adapters)
    <3>1. PICK n \in 0 .. Len(Adapters) : todo = SubSeq(Adapters, n + 1, Len(Adapters))
      BY DEF IInv, Turn
    <3> QED
      BY <3>1, TailIsSuffix
  <2>3. /\ DOMAIN log \subseteq Sources \cup {"system"}
        /\ \A s \in DOMAIN log : log[s].status \in {"success", "partial", "failed"}
    BY DEF IInv, LogKept
  <2>4. fetch.tries \in 0 .. TRIES - 1 /\ fetch.spelling \in 1 .. Spellings
    BY DEF IInv, FetchIsTyped
  <2>5. Range(keys) \subseteq UNION {Range(KeysOf[s]) : s \in Sources}
    <3>1. CASE at \in {"fetch", "page"}
      <4>1. Adapter \in Sources /\ keys \in Seq(Range(KeysOf[Adapter]))
        BY <3>1, TurnIsHis DEF IInv, Turn
      <4>2. Range(keys) \subseteq Range(KeysOf[Adapter])
        <5> DEFINE K == Range(KeysOf[Adapter])
        <5>1. keys \in Seq(K)
          BY <4>1
        <5> HIDE DEF K
        <5>2. \A i \in DOMAIN keys : keys[i] \in K
          BY <5>1
        <5> QED BY <5>2 DEF Range, K
      <4> QED BY <4>1, <4>2
    <3>2. CASE at \notin {"fetch", "page"}
      BY <2>1, <3>2 DEF IInv, Turn, Range
    <3> QED BY <3>1, <3>2
  <2> QED BY <2>1, <2>2, <2>3, <2>4, <2>5 DEF TypeOK
<1>2. IInv => RunStoresProper
  BY <1>1 DEF IInv, RunStoresProper
<1> QED BY <1>2, RunIsKept, PTL

\* What ingestion_log says of an adapter is so: a success is in the table as it came
\* last, the counts claim no more than was stored, a failure stored nothing, and a
\* source that was down is not taken for one without data (IngestionRunner.run).
THEOREM TheLogIsTrue == Spec => []LogIsTrue
<1>1. ASSUME IInv, NEW s \in Sources, Logged(s)
      PROVE  /\ RowIsTrue(s, log[s], prices)
             /\ DOMAIN log[s].batch = 1 .. Len(log[s].batch)
  <2>1. RowIsTrue(s, log[s], prices)
    BY <1>1 DEF IInv, LogKept, Logged
  <2>2. log[s].batch \in Seq(GoodRows(s))
    BY <2>1 DEF RowIsTrue
  <2> QED BY <2>1, <2>2
<1>2. IInv => SuccessIsStored
  BY <1>1 DEF SuccessIsStored, RowIsTrue, Latest
<1>3. IInv => LogClaimsNoMore
  <2> SUFFICES ASSUME IInv, NEW s \in Sources, Logged(s)
               PROVE  LET row == log[s]
                          there == {i \in DOMAIN row.batch :
                                      \E r \in prices : SameKey(r, row.batch[i])}
                      IN /\ row.written + row.rejected <= row.seen
                         /\ row.written <= Cardinality(there)
                         /\ row.status = "failed" => row.written = 0 /\ ~row.facts.wrote
    BY DEF LogClaimsNoMore
  <2> QED BY <1>1 DEF RowIsTrue, There
<1>4. IInv => DownIsNotEmpty
  BY <1>1 DEF DownIsNotEmpty, RowIsTrue
<1>5. IInv => LogIsTrue
  BY <1>2, <1>3, <1>4 DEF LogIsTrue
<1> QED BY <1>5, RunIsKept, PTL

\* A run that ends by itself, with its metadata, has come to a report for every adapter
\* (base.py: "one source being down never blocks the others").
THEOREM NoSourceBlocksOthers == Spec => EveryAdapterHeard
<1> DEFINE A ==
      Step /\ at' = "idle" => "system" \in DOMAIN log' \/ Sources \subseteq DOMAIN log'
<1>1. IInv /\ [Next]_vars => [A]_vars
  <2> SUFFICES ASSUME IInv, Step, at' = "idle"
               PROVE  "system" \in DOMAIN log' \/ Sources \subseteq DOMAIN log'
    OBVIOUS
  <2>1. CASE Metadata
    BY <2>1 DEF Metadata, LogRun
  <2>2. CASE NextAdapter
    <3>1. at = "next" /\ todo = <<>> /\ log' = log
      BY <2>2 DEF NextAdapter
    <3>2. Range(todo) = {}
      BY <3>1 DEF Range
    <3>3. Sources \subseteq DOMAIN log \cup Range(todo)
      BY <3>1 DEF IInv, Heard
    <3> QED BY <3>1, <3>2, <3>3
  <2>3. CASE FirstPage
    BY <2>3 DEF FirstPage, Retry, KeyFails, ToNextKey, AdapterFails, OtherSpelling
  <2>4. CASE NextPage
    BY <2>4 DEF NextPage, Retry, Take, ToNextKey
  <2>5. CASE Scrape
    BY <2>5 DEF Scrape, KeyFails, Take, ToNextKey
  <2>6. CASE Store
    BY <2>6 DEF Store
  <2>7. CASE Report
    BY <2>7 DEF Report
  <2> QED BY <2>1, <2>2, <2>3, <2>4, <2>5, <2>6, <2>7 DEF Step
<1> QED BY <1>1, RunIsKept, PTL DEF Spec, EveryAdapterHeard
=============================================================================
