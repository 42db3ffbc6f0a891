------------------------ MODULE StableHashMap_proofs ------------------------
(***************************************************************************)
(* StableHashMap implements AssocMap, for any keys, values, hash function  *)
(* and amount of memory: no order of insertions, removals, rehashes and    *)
(* failed allocations makes find_bucket_index lose an entry or find one    *)
(* that was erased, or leaves insert_bucket_index without a bucket.        *)
(*                                                                         *)
(* The invariant says of a table and the first n entries that the table    *)
(* holds exactly the occupied ones (Holds): each is reached by its probe   *)
(* before an empty bucket, and the counts of the code are cardinalities.   *)
(* It is stated with parameters because a rehash builds a second table     *)
(* that holds a growing part of the entries.                               *)
(***************************************************************************)
EXTENDS StableHashMap, FiniteSetTheorems, TLAPS

-----------------------------------------------------------------------------
(* Numbers *)

LEMMA LeastNat ==
  ASSUME NEW S \in SUBSET Nat, S # {}
  PROVE  \E n \in S : \A m \in S : n <= m
<1>1. PICK top \in S : TRUE
  OBVIOUS
<1> DEFINE R == StrictSubsetOrdering(0 .. top)
           T == {0 .. m : m \in {n \in S : n <= top}}
<1>2. IsFiniteSet(0 .. top)
  BY FS_Interval
<1>3. IsWellFoundedOn(R, SUBSET (0 .. top))
  BY <1>2, FS_StrictSubsetOrderingWellFounded, FS_FiniteSubsetsOfFinite
<1>4. T \subseteq SUBSET (0 .. top) /\ T # {}
  OBVIOUS
<1>5. PICK x \in T : \A y \in T : ~(<<y, x>> \in R)
  <2> HIDE DEF R, T
  <2> QED BY <1>3, <1>4, WFMin
<1>6. PICK n \in S : n <= top /\ x = 0 .. n
  OBVIOUS
<1>7. ASSUME NEW m \in S, m < n PROVE FALSE
  <2>1. 0 .. m \in T /\ 0 .. m \subseteq x /\ 0 .. m # x
    BY <1>6, <1>7
  <2>2. <<0 .. m, x>> \in R
    BY <2>1, <1>4 DEF StrictSubsetOrdering
  <2> QED BY <2>1, <2>2, <1>5
<1> QED BY <1>6, <1>7

LEMMA RemainderIs ==
  ASSUME NEW c \in Nat \ {0}, NEW d \in Nat, NEW b \in 0 .. c - 1
  PROVE  (c * d + b) % c = b
<1> DEFINE x == c * d + b
           q == x \div c
           m == x % c
<1>1. x \in Nat
  OBVIOUS
<1>2. x = c * q + m /\ m \in 0 .. c - 1 /\ q \in Int
  <2> HIDE DEF x
  <2> QED BY <1>1
<1>3. c * (d - q) = m - b
  BY <1>2
<1>4. CASE d - q >= 1
  <2>1. c * (d - q) >= c
    BY <1>2, <1>4
  <2> QED BY <1>2, <1>3, <2>1
<1>5. CASE q - d >= 1
  <2>1. c * (q - d) >= c
    BY <1>2, <1>5
  <2>2. c * (q - d) = b - m
    BY <1>2
  <2> QED BY <1>2, <2>2, <2>1
<1>6. CASE d = q
  BY <1>2, <1>6
<1> QED BY <1>2, <1>4, <1>5, <1>6

\* The probes of a key reach every bucket.
LEMMA ProbesReachAll ==
  ASSUME NEW c \in Nat \ {0}, NEW h \in Nat, NEW b \in 0 .. c - 1
  PROVE  \E p \in 0 .. c - 1 : (h + p) % c = b
<1> DEFINE r == h % c
           d == h \div c
<1>1. r \in 0 .. c - 1 /\ h = c * d + r /\ d \in Nat
  BY SMT
<1> HIDE DEF r, d
<1>2. CASE r <= b
  <2>1. h + (b - r) = c * d + b /\ b - r \in 0 .. c - 1
    BY <1>1, <1>2
  <2> QED BY <2>1, <1>1, RemainderIs
<1>3. CASE r > b
  <2>1. h + (c + b - r) = c * (d + 1) + b /\ c + b - r \in 0 .. c - 1 /\ d + 1 \in Nat
    BY <1>1, <1>3
  <2> QED BY <2>1, <1>1, RemainderIs, ZenonT(40)
<1> QED BY <1>1, <1>2, <1>3

\* The thresholds: below the capacity, growing with it, and never zero.
LEMMA Thresholds ==
  ASSUME NEW c \in Nat
  PROVE  /\ Threshold(c) \in Nat
         /\ c # 0 => Threshold(c) < c
         /\ \A d \in Nat : d >= c => Threshold(d) >= Threshold(c)
         /\ Threshold(NextCapacity(c)) > Threshold(c)
         /\ NextCapacity(c) \in Nat \ {0}
  BY CapacityAssumption DEF Threshold, NextCapacity

-----------------------------------------------------------------------------
(* What a table holds *)

Live(t) == {b \in 0 .. t.capacity - 1 : t.buckets[b] > 0}

Taken(t) == {b \in 0 .. t.capacity - 1 : t.buckets[b] # Empty}

Occupied(es, n) == {j \in 1 .. n : es[j].occupied}

KeysOf(es, n) == {es[i].key : i \in Occupied(es, n)}

Reaches(t, k, i, p) ==
  /\ t.buckets[Slot(t, k, p)] = i
  /\ \A q \in 0 .. p - 1 : t.buckets[Slot(t, k, q)] # Empty

Holds(t, es, n) ==
  /\ \A b \in Live(t) : t.buckets[b] \in Occupied(es, n)
  /\ \A b, c \in Live(t) : t.buckets[b] = t.buckets[c] => b = c
  /\ \A i \in Occupied(es, n) : \E p \in 0 .. t.capacity - 1 : Reaches(t, es[i].key, i, p)
  /\ t.used = Cardinality(Taken(t))
  /\ Cardinality(Live(t)) = Cardinality(KeysOf(es, n))

Distinct(es) ==
  \A i, j \in Occupied(es, Len(es)) : es[i].key = es[j].key => i = j

LEMMA SlotType ==
  ASSUME NEW t, IsTable(t), t.capacity # 0, NEW k \in Keys, NEW p \in Nat
  PROVE  Slot(t, k, p) \in 0 .. t.capacity - 1
<1>1. Hash[k] + p \in Nat /\ t.capacity \in Nat \ {0}
  BY HashAssumption DEF IsTable
<1> QED BY <1>1 DEF Slot

LEMMA FiniteTables ==
  ASSUME NEW t, IsTable(t)
  PROVE  IsFiniteSet(Live(t)) /\ IsFiniteSet(Taken(t)) /\ Live(t) \subseteq Taken(t)
<1>0. 0 \in Int /\ t.capacity - 1 \in Int
  BY DEF IsTable
<1>1. IsFiniteSet(0 .. t.capacity - 1)
  BY <1>0, FS_Interval
<1>2. Live(t) \subseteq 0 .. t.capacity - 1 /\ Taken(t) \subseteq 0 .. t.capacity - 1
  BY DEF Live, Taken
<1>3. Live(t) \subseteq Taken(t)
  BY DEF Live, Taken, Empty
<1> QED BY <1>1, <1>2, <1>3, FS_Subset

LEMMA FiniteKeys ==
  ASSUME NEW es, NEW n \in Nat
  PROVE  IsFiniteSet(KeysOf(es, n))
<1> DEFINE S == Occupied(es, n)
           T == KeysOf(es, n)
           f == [j \in S |-> es[j].key]
<1>1. IsFiniteSet(S)
  <2>1. IsFiniteSet(1 .. n) /\ S \subseteq 1 .. n
    BY FS_Interval DEF Occupied
  <2> QED BY <2>1, FS_Subset
<1>2. f \in Surjection(S, T)
  BY DEF Surjection, KeysOf
<1> QED BY <1>1, <1>2, FS_Surjection

\* A table with fewer taken buckets than buckets has an empty one.
LEMMA SomeEmpty ==
  ASSUME NEW t, IsTable(t), Cardinality(Taken(t)) < t.capacity
  PROVE  \E b \in 0 .. t.capacity - 1 : t.buckets[b] = Empty
<1> SUFFICES ASSUME \A b \in 0 .. t.capacity - 1 : t.buckets[b] # Empty PROVE FALSE
  OBVIOUS
<1>1. Taken(t) = 0 .. t.capacity - 1
  BY DEF Taken
<1>0. 0 \in Int /\ t.capacity - 1 \in Int /\ t.capacity \in Nat
  BY DEF IsTable
<1>2. Cardinality(0 .. t.capacity - 1) = t.capacity
  <2>1. Cardinality(0 .. t.capacity - 1)
          = IF 0 > t.capacity - 1 THEN 0 ELSE t.capacity - 1 - 0 + 1
    BY <1>0, FS_Interval, Zenon
  <2> QED BY <2>1, <1>0
<1> QED BY <1>1, <1>2 DEF IsTable

\* The loop of insert_bucket_index ends at a bucket if there is one without an entry.
LEMMA FreeExists ==
  ASSUME NEW t, IsTable(t), NEW k \in Keys,
         NEW b \in 0 .. t.capacity - 1, t.buckets[b] <= 0
  PROVE  HasFree(t, k)
<1> DEFINE S == {p \in 0 .. t.capacity - 1 : t.buckets[Slot(t, k, p)] <= 0}
<1>1. t.capacity \in Nat \ {0} /\ Hash[k] \in Nat
  BY HashAssumption DEF IsTable
<1>2. \E p \in 0 .. t.capacity - 1 : Slot(t, k, p) = b
  BY <1>1, ProbesReachAll DEF Slot
<1>3. S # {} /\ S \in SUBSET Nat
  BY <1>2, <1>1
<1>4. PICK p \in S : \A q \in S : p <= q
  BY <1>3, LeastNat
<1>5. ASSUME NEW q \in 0 .. p - 1
      PROVE  q \in 0 .. t.capacity - 1 /\ t.buckets[Slot(t, k, q)] \in Int
  <2>1. q \in Nat /\ q \in 0 .. t.capacity - 1
    BY <1>1
  <2>2. Slot(t, k, q) \in 0 .. t.capacity - 1
    BY <2>1, <1>1, SlotType
  <2> QED BY <2>1, <2>2 DEF IsTable
<1>6. \A q \in 0 .. p - 1 : t.buckets[Slot(t, k, q)] > 0
  BY <1>4, <1>5, <1>1
<1> QED BY <1>4, <1>6 DEF HasFree, FreeAt

LEMMA FreeBucketIs ==
  ASSUME NEW t, NEW k, HasFree(t, k)
  PROVE  \E p \in 0 .. t.capacity - 1 : FreeAt(t, k, p) /\ FreeBucket(t, k) = Slot(t, k, p)
  BY DEF HasFree, FreeBucket

-----------------------------------------------------------------------------
(* The table changes *)

LEMMA EmptyTableHolds ==
  ASSUME NEW c \in Nat, NEW es
  PROVE  /\ IsTable(EmptyTable(c)) /\ EmptyTable(c).capacity = c /\ EmptyTable(c).used = 0
         /\ Holds(EmptyTable(c), es, 0)
         /\ \A b \in 0 .. c - 1 : EmptyTable(c).buckets[b] = Empty
<1> DEFINE t == EmptyTable(c)
<1>1. /\ IsTable(t) /\ t.capacity = c /\ t.used = 0
      /\ \A b \in 0 .. c - 1 : t.buckets[b] = Empty
  BY DEF EmptyTable, IsTable, Empty
<1>2. Live(t) = {} /\ Taken(t) = {}
  BY <1>1 DEF Live, Taken, Empty
<1>3. Occupied(es, 0) = {} /\ KeysOf(es, 0) = {}
  BY DEF Occupied, KeysOf
<1> QED BY <1>1, <1>2, <1>3, FS_EmptySet DEF Holds

LEMMA FillIs ==
  ASSUME NEW t, IsTable(t), NEW b \in 0 .. t.capacity - 1, NEW i \in Nat \ {0}
  PROVE  LET f == Fill(t, b, i) IN
         /\ IsTable(f)
         /\ f.capacity = t.capacity
         /\ f.buckets = [t.buckets EXCEPT ![b] = i]
         /\ f.used = IF t.buckets[b] = Empty THEN t.used + 1 ELSE t.used
<1> DEFINE u == IF t.buckets[b] = Empty THEN t.used + 1 ELSE t.used
<1>1. Fill(t, b, i) = [capacity |-> t.capacity, buckets |-> [t.buckets EXCEPT ![b] = i],
                       used |-> u]
  BY DEF Fill, IsTable
<1>2. [t.buckets EXCEPT ![b] = i] \in [0 .. t.capacity - 1 -> Int]
  BY DEF IsTable
<1>3. u \in Nat
  BY DEF IsTable
<1> QED BY <1>1, <1>2, <1>3 DEF IsTable

\* An entry with a new key enters the bucket that insert_bucket_index answers: the
\* entries that were reached are, and so is it.
LEMMA FillHolds ==
  ASSUME NEW t, IsTable(t), NEW es, NEW n \in Nat, Holds(t, es, n),
         \A j \in 1 .. n : es[j].key \in Keys,
         NEW fs, \A j \in 1 .. n : fs[j] = es[j],
         fs[n + 1].occupied, fs[n + 1].key \in Keys, fs[n + 1].key \notin KeysOf(es, n),
         NEW p \in 0 .. t.capacity - 1, FreeAt(t, fs[n + 1].key, p)
  PROVE  Holds(Fill(t, Slot(t, fs[n + 1].key, p), n + 1), fs, n + 1)
<1> DEFINE k == fs[n + 1].key
           s == Slot(t, k, p)
           f == Fill(t, s, n + 1)
<1>1. t.capacity \in Nat \ {0} /\ s \in 0 .. t.capacity - 1
  BY SlotType DEF IsTable
<1>2. /\ IsTable(f) /\ f.capacity = t.capacity
      /\ f.buckets = [t.buckets EXCEPT ![s] = n + 1]
      /\ f.used = IF t.buckets[s] = Empty THEN t.used + 1 ELSE t.used
      /\ \A b \in 0 .. t.capacity - 1 : f.buckets[b] = IF b = s THEN n + 1 ELSE t.buckets[b]
      /\ t.buckets[s] <= 0 /\ t.buckets[s] \in Int
  <2>1. n + 1 \in Nat \ {0}
    OBVIOUS
  <2>2. /\ IsTable(f) /\ f.capacity = t.capacity
        /\ f.buckets = [t.buckets EXCEPT ![s] = n + 1]
        /\ f.used = IF t.buckets[s] = Empty THEN t.used + 1 ELSE t.used
    <3> HIDE DEF s
    <3> QED BY <2>1, <1>1, FillIs
  <2> QED BY <2>2, <1>1 DEF IsTable, FreeAt
<1>3. \A x, q : Slot(f, x, q) = Slot(t, x, q)
  BY <1>2 DEF Slot
<1> HIDE DEF f, s
<1>4. Occupied(fs, n + 1) = Occupied(es, n) \cup {n + 1} /\ n + 1 \notin Occupied(es, n)
  BY DEF Occupied
<1>5. KeysOf(fs, n + 1) = KeysOf(es, n) \cup {k}
  <2>1. \A j \in Occupied(es, n) : fs[j].key = es[j].key
    BY DEF Occupied
  <2> QED BY <1>4, <2>1 DEF KeysOf
<1>6. Live(f) = Live(t) \cup {s} /\ s \notin Live(t)
  BY <1>1, <1>2 DEF Live
<1>7. Taken(f) = Taken(t) \cup {s} /\ (s \in Taken(t) <=> t.buckets[s] # Empty)
  BY <1>1, <1>2 DEF Taken, Empty
<1>8. \A b \in Live(f) : f.buckets[b] \in Occupied(fs, n + 1)
  BY <1>2, <1>4, <1>6 DEF Holds, Live
<1>9. \A b, c \in Live(f) : f.buckets[b] = f.buckets[c] => b = c
  BY <1>2, <1>4, <1>6 DEF Holds, Live
<1>10. ASSUME NEW i \in Occupied(fs, n + 1)
       PROVE  \E q \in 0 .. f.capacity - 1 : Reaches(f, fs[i].key, i, q)
  <2>1. CASE i = n + 1
    <3>1. f.buckets[Slot(f, k, p)] = n + 1
      BY <1>1, <1>2, <1>3 DEF s
    <3>2. ASSUME NEW q \in 0 .. p - 1 PROVE f.buckets[Slot(f, k, q)] # Empty
      <4>1. Slot(t, k, q) \in 0 .. t.capacity - 1
        BY <1>1, SlotType
      <4>2. t.buckets[Slot(t, k, q)] > 0 /\ t.buckets[Slot(t, k, q)] \in Int
        BY <4>1 DEF FreeAt, IsTable
      <4> QED BY <4>1, <4>2, <1>2, <1>3 DEF Empty
    <3> QED BY <2>1, <3>1, <3>2, <1>2 DEF Reaches
  <2>2. CASE i \in Occupied(es, n)
    <3>1. PICK q \in 0 .. t.capacity - 1 : Reaches(t, es[i].key, i, q)
      BY <2>2 DEF Holds
    <3>2. i \in 1 .. n /\ fs[i] = es[i]
      BY <2>2 DEF Occupied
    <3>3. f.buckets[Slot(f, es[i].key, q)] = i
      <4>1. Slot(t, es[i].key, q) \in 0 .. t.capacity - 1
        BY <3>2, <1>1, SlotType
      <4>2. Slot(t, es[i].key, q) # s
        BY <3>1, <3>2, <1>2 DEF Reaches
      <4> QED BY <4>1, <4>2, <3>1, <1>2, <1>3 DEF Reaches
    <3>4. ASSUME NEW r \in 0 .. q - 1 PROVE f.buckets[Slot(f, es[i].key, r)] # Empty
      <4>1. Slot(t, es[i].key, r) \in 0 .. t.capacity - 1
        BY <3>2, <1>1, SlotType
      <4> QED BY <4>1, <3>1, <1>2, <1>3 DEF Reaches, Empty
    <3> QED BY <3>2, <3>3, <3>4, <1>2 DEF Reaches
  <2> QED BY <1>4, <2>1, <2>2
<1>11. f.used = Cardinality(Taken(f))
  <2>1. t.used = Cardinality(Taken(t)) /\ IsFiniteSet(Taken(t))
    BY FiniteTables DEF Holds
  <2>2. Cardinality(Taken(t) \cup {s}) = IF s \in Taken(t) THEN Cardinality(Taken(t))
                                          ELSE Cardinality(Taken(t)) + 1
    BY <2>1, FS_AddElement, Zenon
  <2> QED BY <2>1, <2>2, <1>2, <1>7
<1>12. Cardinality(Live(f)) = Cardinality(KeysOf(fs, n + 1))
  <2>1. Cardinality(Live(f)) = Cardinality(Live(t)) + 1
    BY <1>6, FiniteTables, FS_AddElement
  <2>2. Cardinality(KeysOf(fs, n + 1)) = Cardinality(KeysOf(es, n)) + 1
    BY <1>5, FiniteKeys, FS_AddElement
  <2> QED BY <2>1, <2>2 DEF Holds
<1> QED BY <1>8, <1>9, <1>10, <1>11, <1>12, <1>2 DEF Holds, f, s

\* An entry that is not occupied changes nothing.
LEMMA SkipHolds ==
  ASSUME NEW t, NEW es, NEW n \in Nat, Holds(t, es, n), ~es[n + 1].occupied
  PROVE  Holds(t, es, n + 1)
<1>1. Occupied(es, n + 1) = Occupied(es, n)
  BY DEF Occupied
<1>2. KeysOf(es, n + 1) = KeysOf(es, n)
  BY <1>1 DEF KeysOf
<1> QED BY <1>1, <1>2 DEF Holds

\* The first n entries of fs are those of es but for their values, or but for entry i,
\* which is erased.
Written(fs, es, n) ==
  \A j \in 1 .. n : fs[j].key = es[j].key /\ (fs[j].occupied <=> es[j].occupied)

Erased(fs, es, n, i) ==
  \A j \in 1 .. n : /\ fs[j].key = es[j].key
                    /\ fs[j].occupied <=> es[j].occupied /\ j # i

Keyed(es, n) == \A j \in 1 .. n : es[j].key \in Keys

DistinctIn(es, n) == \A j, k \in Occupied(es, n) : es[j].key = es[k].key => j = k

\* Writing a value changes nothing of what is held where.
LEMMA WriteHolds ==
  ASSUME NEW t, NEW es, NEW n \in Nat, Holds(t, es, n), NEW fs, Written(fs, es, n)
  PROVE  Holds(t, fs, n) /\ KeysOf(fs, n) = KeysOf(es, n) /\ Occupied(fs, n) = Occupied(es, n)
<1>1. Occupied(fs, n) = Occupied(es, n)
  BY DEF Occupied, Written
<1>2. \A j \in Occupied(es, n) : fs[j].key = es[j].key
  BY DEF Occupied, Written
<1>3. KeysOf(fs, n) = KeysOf(es, n)
  BY <1>1, <1>2 DEF KeysOf
<1>4. \A i \in Occupied(fs, n) : \E p \in 0 .. t.capacity - 1 : Reaches(t, fs[i].key, i, p)
  BY <1>1, <1>2 DEF Holds
<1> QED BY <1>1, <1>3, <1>4 DEF Holds

\* A tombstone in the bucket of entry i, which is not occupied any more: the probes of
\* the other entries still pass it.
LEMMA EraseHolds ==
  ASSUME NEW t, IsTable(t), NEW es, NEW n \in Nat, Holds(t, es, n),
         DistinctIn(es, n), Keyed(es, n),
         NEW b \in Live(t), NEW i, i = t.buckets[b],
         NEW fs, Erased(fs, es, n, i), NEW u, u = Bury(t, b)
  PROVE  /\ IsTable(u) /\ u.capacity = t.capacity /\ u.used = t.used
         /\ Holds(u, fs, n)
         /\ Occupied(fs, n) = Occupied(es, n) \ {i}
         /\ KeysOf(fs, n) = KeysOf(es, n) \ {es[i].key}
<1>1. b \in 0 .. t.capacity - 1 /\ t.capacity \in Nat /\ t.buckets[b] > 0
  BY DEF Live, IsTable
<1>2. /\ IsTable(u) /\ u.capacity = t.capacity /\ u.used = t.used
      /\ \A a \in 0 .. t.capacity - 1 : u.buckets[a] = IF a = b THEN Dead ELSE t.buckets[a]
  <2>1. u = [capacity |-> t.capacity, buckets |-> [t.buckets EXCEPT ![b] = Dead],
             used |-> t.used]
    BY DEF Bury
  <2>2. [t.buckets EXCEPT ![b] = Dead] \in [0 .. t.capacity - 1 -> Int]
    <3>1. Dead \in Int
      BY DEF Dead
    <3>2. t.buckets \in [0 .. t.capacity - 1 -> Int]
      BY DEF IsTable
    <3> QED BY <3>1, <3>2, Zenon
  <2>3. \A a \in 0 .. t.capacity - 1 :
          [t.buckets EXCEPT ![b] = Dead][a] = IF a = b THEN Dead ELSE t.buckets[a]
    BY DEF IsTable
  <2> QED BY <2>1, <2>2, <2>3 DEF IsTable
<1>3. \A x, q : Slot(u, x, q) = Slot(t, x, q)
  BY <1>2 DEF Slot
<1>4. i \in Occupied(es, n)
  BY DEF Holds
<1>5. Occupied(fs, n) = Occupied(es, n) \ {i}
  BY DEF Occupied, Erased
<1>6. KeysOf(fs, n) = KeysOf(es, n) \ {es[i].key}
  <2>1. \A j \in Occupied(es, n) : fs[j].key = es[j].key
    BY DEF Occupied, Erased
  <2> QED BY <1>4, <1>5, <2>1 DEF KeysOf, DistinctIn
<1>7. Live(u) = Live(t) \ {b}
  BY <1>1, <1>2 DEF Live, Dead
<1>8. Taken(u) = Taken(t)
  BY <1>1, <1>2 DEF Taken, Dead, Empty
<1>9. ASSUME NEW c \in Live(u) PROVE c \in Live(t) /\ u.buckets[c] = t.buckets[c] /\ c # b
  BY <1>7, <1>2 DEF Live
<1>10. \A c \in Live(u) : u.buckets[c] \in Occupied(fs, n)
  BY <1>5, <1>9 DEF Holds
<1>11. \A c, d \in Live(u) : u.buckets[c] = u.buckets[d] => c = d
  BY <1>9 DEF Holds
<1>12. ASSUME NEW j \in Occupied(fs, n)
       PROVE  \E p \in 0 .. u.capacity - 1 : Reaches(u, fs[j].key, j, p)
  <2>1. j \in Occupied(es, n) /\ j # i /\ j \in 1 .. n /\ fs[j].key = es[j].key
        /\ es[j].key \in Keys
    BY <1>5 DEF Occupied, Erased, Keyed
  <2>2. PICK p \in 0 .. t.capacity - 1 : Reaches(t, es[j].key, j, p)
    BY <2>1 DEF Holds
  <2>3. u.buckets[Slot(u, es[j].key, p)] = j
    <3>1. Slot(t, es[j].key, p) \in 0 .. t.capacity - 1
      BY <2>1, <1>1, SlotType
    <3> QED BY <3>1, <2>1, <2>2, <1>2, <1>3 DEF Reaches
  <2>4. ASSUME NEW q \in 0 .. p - 1 PROVE u.buckets[Slot(u, es[j].key, q)] # Empty
    <3>1. Slot(t, es[j].key, q) \in 0 .. t.capacity - 1
      BY <2>1, <1>1, SlotType
    <3> QED BY <3>1, <2>2, <1>2, <1>3 DEF Reaches, Empty, Dead
  <2> QED BY <2>1, <2>3, <2>4, <1>2 DEF Reaches
<1>13. u.used = Cardinality(Taken(u))
  BY <1>2, <1>8 DEF Holds
<1>14. Cardinality(Live(u)) = Cardinality(KeysOf(fs, n))
  <2>1. Cardinality(Live(u)) = Cardinality(Live(t)) - 1
    BY <1>7, FiniteTables, FS_RemoveElement
  <2>2. es[i].key \in KeysOf(es, n)
    BY <1>4 DEF KeysOf
  <2>3. Cardinality(KeysOf(fs, n)) = Cardinality(KeysOf(es, n)) - 1
    <3>1. IsFiniteSet(KeysOf(es, n))
      BY FiniteKeys
    <3>2. Cardinality(KeysOf(es, n) \ {es[i].key})
            = IF es[i].key \in KeysOf(es, n) THEN Cardinality(KeysOf(es, n)) - 1
              ELSE Cardinality(KeysOf(es, n))
      BY <3>1, FS_RemoveElement, Zenon
    <3> QED BY <3>2, <1>6, <2>2
  <2> QED BY <2>1, <2>3 DEF Holds
<1>15. Holds(u, fs, n)
  BY <1>10, <1>11, <1>12, <1>13, <1>14 DEF Holds
<1> QED BY <1>2, <1>5, <1>6, <1>15

-----------------------------------------------------------------------------
(* Finding *)

\* find_bucket_index ends at the entry that a probe reaches.
LEMMA Finds ==
  ASSUME NEW t, IsTable(t), NEW es, NEW n \in Nat, Holds(t, es, n),
         \A j, k \in Occupied(es, n) : es[j].key = es[k].key => j = k,
         NEW i \in Occupied(es, n), es[i].key \in Keys
  PROVE  /\ \E p \in 0 .. t.capacity - 1 : FoundAt(es, t, es[i].key, p)
         /\ BucketIn(es, t, es[i].key) \in Live(t)
         /\ t.buckets[BucketIn(es, t, es[i].key)] = i
<1> DEFINE k == es[i].key
<1>1. PICK p \in 0 .. t.capacity - 1 : Reaches(t, k, i, p)
  BY DEF Holds
<1>2. FoundAt(es, t, k, p)
  BY <1>1 DEF Reaches, FoundAt, Occupied
<1>3. PICK q \in 0 .. t.capacity - 1 : FoundAt(es, t, k, q) /\ BucketIn(es, t, k) = Slot(t, k, q)
  BY <1>2 DEF BucketIn
<1>4. Slot(t, k, q) \in 0 .. t.capacity - 1
  BY SlotType DEF IsTable
<1>5. Slot(t, k, q) \in Live(t)
  BY <1>3, <1>4 DEF FoundAt, Live
<1>6. t.buckets[Slot(t, k, q)] \in Occupied(es, n) /\ es[t.buckets[Slot(t, k, q)]].key = k
  BY <1>3, <1>5 DEF FoundAt, Holds
<1> QED BY <1>2, <1>3, <1>5, <1>6

\* and finds nothing but entries that are there.
LEMMA FindsOnlyHeld ==
  ASSUME NEW t, IsTable(t), NEW es, NEW n \in Nat, Holds(t, es, n), NEW k \in Keys,
         NEW p \in 0 .. t.capacity - 1, FoundAt(es, t, k, p)
  PROVE  k \in KeysOf(es, n)
<1>1. Slot(t, k, p) \in 0 .. t.capacity - 1
  BY SlotType DEF IsTable
<1>2. Slot(t, k, p) \in Live(t)
  BY <1>1 DEF FoundAt, Live
<1>3. t.buckets[Slot(t, k, p)] \in Occupied(es, n)
  BY <1>2 DEF Holds
<1> QED BY <1>3 DEF FoundAt, KeysOf

-----------------------------------------------------------------------------
(* The invariant *)

\* Between two operations, and while a rehash builds another table.
Idle(es, t, l) ==
  /\ es \in Seq(Entry)
  /\ IsTable(t)
  /\ Distinct(es)
  /\ Holds(t, es, Len(es))
  /\ l = Cardinality(KeysOf(es, Len(es)))
  /\ t.used <= Threshold(t.capacity)

\* The new table of a rehash holds the entries passed so far, has no tombstones and is
\* large enough for the rest, and for the key that waits.
Working(es, l, j) ==
  j.busy =>
    /\ j.next \in 1 .. Len(es) + 1
    /\ Holds(j.new, es, j.next - 1)
    /\ \A b \in 0 .. j.new.capacity - 1 : j.new.buckets[b] >= 0
    /\ j.new.capacity # 0
    /\ l <= Threshold(j.new.capacity)
    /\ j.key # NoKey => /\ j.key \notin KeysOf(es, Len(es))
                        /\ j.value \in Values
                        /\ l < Threshold(j.new.capacity)

Inv == TypeOK /\ Idle(entries, table, len) /\ Working(entries, len, job)

LEMMA EntryTypes ==
  ASSUME NEW es \in Seq(Entry)
  PROVE  /\ Len(es) \in Nat
         /\ \A j \in 1 .. Len(es) : /\ es[j] \in Entry
                                    /\ es[j].key \in Keys
                                    /\ es[j].value \in Values
                                    /\ es[j].occupied \in BOOLEAN
         /\ KeysOf(es, Len(es)) \subseteq Keys
<1>1. \A j \in 1 .. Len(es) : es[j] \in Entry
  OBVIOUS
<1>2. \A j \in 1 .. Len(es) : /\ es[j].key \in Keys /\ es[j].value \in Values
                              /\ es[j].occupied \in BOOLEAN
  BY <1>1 DEF Entry
<1>3. KeysOf(es, Len(es)) \subseteq Keys
  BY <1>2 DEF KeysOf, Occupied
<1> QED BY <1>1, <1>2, <1>3

\* A table with room below its threshold has a bucket for every key.
LEMMA RoomBelowThreshold ==
  ASSUME NEW t, IsTable(t), NEW es, NEW n, Holds(t, es, n), t.capacity # 0,
         t.used <= Threshold(t.capacity), NEW k \in Keys
  PROVE  HasFree(t, k)
<1>1. t.capacity \in Nat /\ t.used \in Nat
  BY DEF IsTable
<1>2. Cardinality(Taken(t)) < t.capacity
  <2>1. Threshold(t.capacity) \in Nat /\ Threshold(t.capacity) < t.capacity
    BY <1>1, Thresholds
  <2>2. t.used = Cardinality(Taken(t))
    BY DEF Holds
  <2> QED BY <1>1, <2>1, <2>2
<1>3. PICK b \in 0 .. t.capacity - 1 : t.buckets[b] = Empty
  BY <1>2, SomeEmpty
<1> QED BY <1>3, FreeExists DEF Empty

\* push_back and the bucket of a new key.
LEMMA PushKeeps ==
  ASSUME NEW es, NEW t, NEW l, Idle(es, t, l), t.used < Threshold(t.capacity),
         NEW k \in Keys, NEW v \in Values, k \notin KeysOf(es, Len(es)),
         NEW fs, fs = Append(es, [key |-> k, value |-> v, occupied |-> TRUE]),
         HasFree(t, k)
  PROVE  /\ Idle(fs, Fill(t, FreeBucket(t, k), Len(es) + 1), l + 1)
         /\ Len(fs) = Len(es) + 1
         /\ \A j \in 1 .. Len(es) : fs[j] = es[j]
         /\ Occupied(fs, Len(fs)) = Occupied(es, Len(es)) \cup {Len(es) + 1}
         /\ KeysOf(fs, Len(fs)) = KeysOf(es, Len(es)) \cup {k}
<1> DEFINE n == Len(es)
           e == [key |-> k, value |-> v, occupied |-> TRUE]
           f == Fill(t, FreeBucket(t, k), n + 1)
<1>1. es \in Seq(Entry) /\ e \in Entry /\ n \in Nat
  BY DEF Idle, Entry
<1>2. /\ fs \in Seq(Entry) /\ Len(fs) = n + 1 /\ fs[n + 1] = e
      /\ \A j \in 1 .. n : fs[j] = es[j]
  BY <1>1
<1>3. fs[n + 1].occupied /\ fs[n + 1].key = k
  BY <1>2
<1>4. Occupied(fs, n + 1) = Occupied(es, n) \cup {n + 1}
  BY <1>1, <1>2, <1>3 DEF Occupied
<1>5. \A j \in Occupied(es, n) : fs[j].key = es[j].key /\ j \in 1 .. n
  BY <1>2 DEF Occupied
<1>6. KeysOf(fs, n + 1) = KeysOf(es, n) \cup {k}
  <2>1. ASSUME NEW i \in Occupied(fs, n + 1) PROVE fs[i].key \in KeysOf(es, n) \cup {k}
    BY <1>3, <1>4, <1>5 DEF KeysOf
  <2>2. ASSUME NEW i \in Occupied(es, n) PROVE es[i].key \in KeysOf(fs, n + 1)
    <3>1. i \in Occupied(fs, n + 1) /\ fs[i].key = es[i].key
      BY <1>4, <1>5
    <3> QED BY <3>1 DEF KeysOf
  <2>3. k \in KeysOf(fs, n + 1)
    <3>1. n + 1 \in Occupied(fs, n + 1)
      BY <1>4
    <3> QED BY <3>1, <1>3 DEF KeysOf
  <2>4. KeysOf(fs, n + 1) \subseteq KeysOf(es, n) \cup {k}
    BY <2>1 DEF KeysOf
  <2>5. KeysOf(es, n) \subseteq KeysOf(fs, n + 1)
    BY <2>2 DEF KeysOf
  <2> QED BY <2>3, <2>4, <2>5
<1>7. PICK p \in 0 .. t.capacity - 1 : FreeAt(t, k, p) /\ FreeBucket(t, k) = Slot(t, k, p)
  BY FreeBucketIs
<1>8. IsTable(t) /\ Holds(t, es, n) /\ t.capacity \in Nat /\ t.capacity # 0
  BY <1>7 DEF Idle, IsTable
<1>9. Holds(f, fs, n + 1)
  <2>1. \A j \in 1 .. n : es[j].key \in Keys
    BY <1>1, EntryTypes
  <2>2. Holds(Fill(t, Slot(t, fs[n + 1].key, p), n + 1), fs, n + 1)
    BY <2>1, <1>1, <1>2, <1>3, <1>7, <1>8, FillHolds, ZenonT(40)
  <2> QED BY <2>2, <1>3, <1>7
<1>10. /\ IsTable(f) /\ f.capacity = t.capacity
       /\ f.used = IF t.buckets[FreeBucket(t, k)] = Empty THEN t.used + 1 ELSE t.used
  <2>1. FreeBucket(t, k) \in 0 .. t.capacity - 1
    BY <1>7, <1>8, SlotType
  <2>2. n + 1 \in Nat \ {0}
    BY <1>1
  <2> QED BY <2>1, <2>2, <1>8, FillIs
<1>11. f.used <= Threshold(f.capacity)
  <2>1. Threshold(t.capacity) \in Nat /\ t.used \in Nat
    BY <1>8, Thresholds DEF IsTable
  <2> QED BY <2>1, <1>10
<1>12. Distinct(fs)
  <2> SUFFICES ASSUME NEW i \in Occupied(fs, n + 1), NEW j \in Occupied(fs, n + 1),
                      fs[i].key = fs[j].key
               PROVE  i = j
    BY <1>2 DEF Distinct
  <2>1. \A m \in Occupied(es, n) : es[m].key # k
    BY DEF KeysOf
  <2>2. Distinct(es)
    BY DEF Idle
  <2>3. CASE i \in Occupied(es, n) /\ j \in Occupied(es, n)
    BY <2>2, <2>3, <1>5 DEF Distinct
  <2>4. CASE i = n + 1 /\ j \in Occupied(es, n)
    BY <2>1, <2>4, <1>3, <1>5
  <2>5. CASE j = n + 1 /\ i \in Occupied(es, n)
    BY <2>1, <2>5, <1>3, <1>5
  <2> QED BY <2>3, <2>4, <2>5, <1>4
<1>13. l + 1 = Cardinality(KeysOf(fs, n + 1))
  <2>1. IsFiniteSet(KeysOf(es, n))
    BY <1>1, FiniteKeys
  <2>2. Cardinality(KeysOf(es, n) \cup {k})
          = IF k \in KeysOf(es, n) THEN Cardinality(KeysOf(es, n))
            ELSE Cardinality(KeysOf(es, n)) + 1
    BY <2>1, FS_AddElement, Zenon
  <2> QED BY <2>2, <1>6 DEF Idle
<1> QED BY <1>2, <1>4, <1>6, <1>9, <1>10, <1>11, <1>12, <1>13 DEF Idle

\* find_bucket_index answers with the entry of the key, and only for keys that are there.
LEMMA FindIs ==
  ASSUME NEW es, NEW t, NEW l, Idle(es, t, l), NEW k \in Keys
  PROVE  /\ (l # 0 /\ \E p \in 0 .. t.capacity - 1 : FoundAt(es, t, k, p))
              <=> k \in KeysOf(es, Len(es))
         /\ \A i \in Occupied(es, Len(es)) : es[i].key = k =>
              /\ BucketIn(es, t, k) \in Live(t)
              /\ t.buckets[BucketIn(es, t, k)] = i
<1> DEFINE n == Len(es)
<1>1. es \in Seq(Entry) /\ n \in Nat /\ IsTable(t) /\ Holds(t, es, n)
  BY DEF Idle
<1>2. \A i, j \in Occupied(es, n) : es[i].key = es[j].key => i = j
  BY DEF Idle, Distinct
<1>3. ASSUME NEW i \in Occupied(es, n), es[i].key = k
      PROVE  /\ \E p \in 0 .. t.capacity - 1 : FoundAt(es, t, k, p)
             /\ BucketIn(es, t, k) \in Live(t)
             /\ t.buckets[BucketIn(es, t, k)] = i
  BY <1>1, <1>2, <1>3, Finds
<1>4. ASSUME k \in KeysOf(es, n) PROVE l # 0
  <2>1. IsFiniteSet(KeysOf(es, n)) /\ KeysOf(es, n) # {}
    BY <1>1, <1>4, FiniteKeys
  <2> QED BY <2>1, FS_EmptySet DEF Idle
<1>5. ASSUME NEW p \in 0 .. t.capacity - 1, FoundAt(es, t, k, p) PROVE k \in KeysOf(es, n)
  BY <1>1, <1>5, FindsOnlyHeld
<1>6. ASSUME k \in KeysOf(es, n)
      PROVE  \E p \in 0 .. t.capacity - 1 : FoundAt(es, t, k, p)
  BY <1>3, <1>6 DEF KeysOf
<1> QED BY <1>3, <1>4, <1>5, <1>6

\* The table under way holds as many entries as it has taken buckets.
LEMMA NewTable ==
  ASSUME NEW es \in Seq(Entry), NEW l, NEW j, j.busy, Working(es, l, j), IsTable(j.new)
  PROVE  j.new.used = Cardinality(KeysOf(es, j.next - 1))
<1>1. Live(j.new) = Taken(j.new)
  BY DEF Working, Live, Taken, Empty, IsTable
<1> QED BY <1>1 DEF Working, Holds

LEMMA EmptyIdle ==
  ASSUME NEW c \in Nat
  PROVE  Idle(<<>>, EmptyTable(c), 0) /\ KeysOf(<<>>, 0) = {}
<1>1. /\ IsTable(EmptyTable(c)) /\ Holds(EmptyTable(c), <<>>, 0)
      /\ EmptyTable(c).used = 0 /\ EmptyTable(c).capacity = c
  BY EmptyTableHolds
<1>2. Threshold(c) \in Nat
  BY Thresholds
<1>3. Occupied(<<>>, 0) = {} /\ KeysOf(<<>>, 0) = {} /\ Len(<<>>) = 0 /\ <<>> \in Seq(Entry)
  BY DEF Occupied, KeysOf
<1>4. Distinct(<<>>)
  BY <1>3 DEF Distinct
<1>5. Cardinality(KeysOf(<<>>, 0)) = 0
  BY <1>3, FS_EmptySet
<1> QED BY <1>1, <1>2, <1>3, <1>4, <1>5 DEF Idle

ValueWritten(fs, es, i, v) == fs = [es EXCEPT ![i].value = v]

\* A value is written where find_bucket_index found its key.
LEMMA WriteKeeps ==
  ASSUME NEW es, NEW t, NEW l, Idle(es, t, l),
         NEW i \in Occupied(es, Len(es)), NEW v \in Values,
         NEW fs, ValueWritten(fs, es, i, v)
  PROVE  /\ Idle(fs, t, l)
         /\ Len(fs) = Len(es)
         /\ \A j \in 1 .. Len(es) : /\ fs[j].key = es[j].key
                                    /\ (fs[j].occupied <=> es[j].occupied)
                                    /\ fs[j].value = IF j = i THEN v ELSE es[j].value
         /\ Occupied(fs, Len(fs)) = Occupied(es, Len(es))
         /\ KeysOf(fs, Len(fs)) = KeysOf(es, Len(es))
<1> DEFINE n == Len(es)
<1>1. es \in Seq(Entry) /\ n \in Nat /\ i \in 1 .. n /\ Holds(t, es, n)
  BY DEF Idle, Occupied
<1>2. fs = [es EXCEPT ![i] = [key |-> es[i].key, value |-> v, occupied |-> es[i].occupied]]
  <2>1. es[i] \in Entry
    BY <1>1
  <2>2. [es[i] EXCEPT !.value = v]
          = [key |-> es[i].key, value |-> v, occupied |-> es[i].occupied]
    BY <2>1 DEF Entry
  <2> QED BY <2>2 DEF ValueWritten
<1>3. [key |-> es[i].key, value |-> v, occupied |-> es[i].occupied] \in Entry
  BY <1>1, EntryTypes DEF Entry
<1>4. fs \in Seq(Entry) /\ Len(fs) = n
  BY <1>1, <1>2, <1>3
<1>5. \A j \in 1 .. n : fs[j] = IF j = i THEN [key |-> es[i].key, value |-> v,
                                              occupied |-> es[i].occupied] ELSE es[j]
  BY <1>1, <1>2
<1>6. \A j \in 1 .. n : /\ fs[j].key = es[j].key /\ (fs[j].occupied <=> es[j].occupied)
                        /\ fs[j].value = IF j = i THEN v ELSE es[j].value
  BY <1>5
<1>7. Holds(t, fs, n) /\ KeysOf(fs, n) = KeysOf(es, n) /\ Occupied(fs, n) = Occupied(es, n)
  <2> HIDE DEF n
  <2>1. Written(fs, es, n)
    BY <1>6 DEF Written
  <2> QED BY <1>1, <2>1, WriteHolds
<1>8. \A j \in Occupied(es, n) : fs[j].key = es[j].key
  BY <1>6 DEF Occupied
<1>9. Distinct(fs)
  BY <1>4, <1>7, <1>8 DEF Idle, Distinct
<1> QED BY <1>4, <1>6, <1>7, <1>9 DEF Idle

\* erase: the entry is not occupied any more, and keeps its key and value.
SameValues(fs, es, n) == \A j \in 1 .. n : fs[j].value = es[j].value

LEMMA EraseIs ==
  ASSUME NEW es \in Seq(Entry), NEW i \in 1 .. Len(es), NEW no \in BOOLEAN, ~no,
         NEW fs, fs = [es EXCEPT ![i].occupied = no]
  PROVE  /\ fs \in Seq(Entry) /\ Len(fs) = Len(es)
         /\ Erased(fs, es, Len(es), i) /\ SameValues(fs, es, Len(es))
<1> DEFINE e == [key |-> es[i].key, value |-> es[i].value, occupied |-> no]
           n == Len(es)
<1>1. fs = [es EXCEPT ![i] = e]
  <2>1. es[i] \in Entry
    OBVIOUS
  <2>2. [es[i] EXCEPT !.occupied = no] = e
    BY <2>1 DEF Entry
  <2> QED BY <2>2
<1>2. e \in Entry /\ e.key = es[i].key /\ e.value = es[i].value /\ e.occupied = no
  BY EntryTypes DEF Entry
<1> HIDE DEF e
<1>3. fs \in Seq(Entry) /\ Len(fs) = n
  BY <1>1, <1>2
<1>4. \A j \in 1 .. n : fs[j] = IF j = i THEN e ELSE es[j]
  BY <1>1
<1>5. ASSUME NEW j \in 1 .. n
      PROVE  /\ fs[j].key = es[j].key /\ fs[j].value = es[j].value
             /\ (fs[j].occupied <=> es[j].occupied /\ j # i)
  <2>1. es[j].occupied \in BOOLEAN /\ es[j].key \in Keys
    BY EntryTypes
  <2>2. CASE j = i
    <3>1. fs[j] = e
      BY <1>4, <2>2
    <3> QED BY <3>1, <1>2, <2>1, <2>2, Zenon
  <2>3. CASE j # i
    <3>1. fs[j] = es[j]
      BY <1>4, <2>3
    <3> QED BY <3>1, <2>1, <2>3
  <2> QED BY <2>2, <2>3
<1> QED BY <1>3, <1>5 DEF Erased, SameValues

IsSeq(es) == es \in Seq(Entry)

\* Its bucket becomes a tombstone.
LEMMA EraseKeeps ==
  ASSUME NEW es, NEW t, NEW l, Idle(es, t, l),
         NEW i \in Occupied(es, Len(es)), NEW b \in Live(t), i = t.buckets[b],
         NEW fs, IsSeq(fs), Len(fs) = Len(es), Erased(fs, es, Len(es), i),
         NEW u, u = Bury(t, b)
  PROVE  /\ Idle(fs, u, l - 1) /\ l - 1 \in Nat
         /\ Occupied(fs, Len(fs)) = Occupied(es, Len(es)) \ {i}
         /\ KeysOf(fs, Len(fs)) = KeysOf(es, Len(es)) \ {es[i].key}
<1>1. PICK n : n = Len(es)
  OBVIOUS
<1>2. /\ n \in Nat /\ i \in 1 .. n /\ i \in Occupied(es, n)
      /\ IsTable(t) /\ Holds(t, es, n) /\ l = Cardinality(KeysOf(es, n))
      /\ t.used <= Threshold(t.capacity) /\ DistinctIn(es, n) /\ Keyed(es, n)
      /\ Erased(fs, es, n, i) /\ Len(fs) = n
  BY <1>1, EntryTypes DEF Idle, Occupied, Distinct, DistinctIn, Keyed
<1>3. /\ IsTable(u) /\ u.capacity = t.capacity /\ u.used = t.used
      /\ Holds(u, fs, n)
      /\ Occupied(fs, n) = Occupied(es, n) \ {i}
      /\ KeysOf(fs, n) = KeysOf(es, n) \ {es[i].key}
  BY <1>2, EraseHolds
<1>4. Distinct(fs)
  <2>1. \A j \in Occupied(es, n) : fs[j].key = es[j].key
    BY <1>2 DEF Occupied, Erased
  <2>2. \A j \in Occupied(fs, n) : j \in Occupied(es, n)
    BY <1>3
  <2>3. \A j, k \in Occupied(fs, n) : fs[j].key = fs[k].key => j = k
    BY <2>1, <2>2, <1>2 DEF DistinctIn
  <2> QED BY <2>3, <1>2 DEF Distinct
<1>5. l - 1 = Cardinality(KeysOf(fs, n)) /\ l - 1 \in Nat
  <2>1. IsFiniteSet(KeysOf(es, n)) /\ es[i].key \in KeysOf(es, n)
    BY <1>2, FiniteKeys DEF KeysOf
  <2>2. /\ IsFiniteSet(KeysOf(es, n) \ {es[i].key})
        /\ Cardinality(KeysOf(es, n) \ {es[i].key})
            = IF es[i].key \in KeysOf(es, n) THEN Cardinality(KeysOf(es, n)) - 1
              ELSE Cardinality(KeysOf(es, n))
    BY <2>1, FS_RemoveElement, Zenon
  <2>3. Cardinality(KeysOf(fs, n)) \in Nat
    BY <2>2, <1>3, FS_CardinalityType
  <2>4. Cardinality(KeysOf(fs, n)) = l - 1
    BY <2>1, <2>2, <1>2, <1>3
  <2> QED BY <2>3, <2>4
<1>6. Idle(fs, u, l - 1)
  BY <1>2, <1>3, <1>4, <1>5 DEF Idle, IsSeq
<1> QED BY <1>1, <1>2, <1>3, <1>5, <1>6

\* One turn of the loop of rehash.
LEMMA TurnKeeps ==
  ASSUME NEW es \in Seq(Entry), Distinct(es), NEW l, l = Cardinality(KeysOf(es, Len(es))),
         NEW n \in 0 .. Len(es) - 1,
         NEW t, IsTable(t), Holds(t, es, n), t.capacity # 0,
         \A b \in 0 .. t.capacity - 1 : t.buckets[b] >= 0,
         t.used = Cardinality(KeysOf(es, n)), l <= Threshold(t.capacity),
         es[n + 1].occupied
  PROVE  LET u == Fill(t, FreeBucket(t, es[n + 1].key), n + 1) IN
         /\ HasFree(t, es[n + 1].key)
         /\ IsTable(u) /\ u.capacity = t.capacity
         /\ Holds(u, es, n + 1)
         /\ \A b \in 0 .. u.capacity - 1 : u.buckets[b] >= 0
<1> DEFINE k == es[n + 1].key
           u == Fill(t, FreeBucket(t, k), n + 1)
<1>1. /\ Len(es) \in Nat /\ n \in Nat /\ n + 1 \in 1 .. Len(es) /\ n + 1 \in Nat \ {0}
      /\ t.capacity \in Nat /\ t.used \in Nat
  BY DEF IsTable
<1>2. k \in Keys /\ \A j \in 1 .. n : es[j].key \in Keys
  BY <1>1, EntryTypes
<1>3. k \notin KeysOf(es, n)
  <2>1. n + 1 \in Occupied(es, Len(es)) /\ n + 1 \notin Occupied(es, n)
    BY <1>1 DEF Occupied
  <2>2. Occupied(es, n) \subseteq Occupied(es, Len(es))
    BY <1>1 DEF Occupied
  <2> QED BY <2>1, <2>2 DEF KeysOf, Distinct
<1>4. t.used <= Threshold(t.capacity)
  <2>1. KeysOf(es, n) \subseteq KeysOf(es, Len(es))
    BY <1>1 DEF KeysOf, Occupied
  <2>2. IsFiniteSet(KeysOf(es, Len(es)))
    BY <1>1, FiniteKeys
  <2>3. Cardinality(KeysOf(es, n)) <= Cardinality(KeysOf(es, Len(es)))
    BY <2>1, <2>2, FS_Subset
  <2>4. Cardinality(KeysOf(es, Len(es))) \in Nat /\ Threshold(t.capacity) \in Nat
    BY <2>2, FS_CardinalityType, <1>1, Thresholds
  <2> QED BY <2>3, <2>4, <1>1
<1>5. HasFree(t, k)
  BY <1>2, <1>4, RoomBelowThreshold
<1>6. PICK p \in 0 .. t.capacity - 1 : FreeAt(t, k, p) /\ FreeBucket(t, k) = Slot(t, k, p)
  BY <1>5, FreeBucketIs
<1>7. FreeBucket(t, k) \in 0 .. t.capacity - 1
  <2>1. p \in Nat
    BY <1>1
  <2> QED BY <2>1, <1>2, <1>6, SlotType
<1>8. IsTable(u) /\ u.capacity = t.capacity
      /\ u.buckets = [t.buckets EXCEPT ![FreeBucket(t, k)] = n + 1]
  BY <1>1, <1>7, FillIs
<1>9. Holds(u, es, n + 1)
  <2>1. Holds(Fill(t, Slot(t, k, p), n + 1), es, n + 1)
    BY <1>1, <1>2, <1>3, <1>6, FillHolds
  <2> QED BY <2>1, <1>6
<1>10. \A b \in 0 .. u.capacity - 1 : u.buckets[b] >= 0
  <2> HIDE DEF u
  <2>1. \A b \in 0 .. t.capacity - 1 :
          u.buckets[b] = IF b = FreeBucket(t, k) THEN n + 1 ELSE t.buckets[b]
    BY <1>7, <1>8 DEF IsTable
  <2> QED BY <2>1, <1>1, <1>8
<1> QED BY <1>5, <1>8, <1>9, <1>10

-----------------------------------------------------------------------------
(* What the entries show to a caller *)

\* c is what get answers with the entries es.
Shows(es, c) ==
  /\ c = [k \in Keys |-> c[k]]
  /\ \A i \in Occupied(es, Len(es)) : c[es[i].key] = es[i].value
  /\ \A k \in Keys \ KeysOf(es, Len(es)) : c[k] = NoValue

\* The entries of keys that are still there are where they were.
Keeps(es, fs) ==
  \A i \in Occupied(es, Len(es)) :
    es[i].key \in KeysOf(fs, Len(fs)) => /\ i \in Occupied(fs, Len(fs))
                                        /\ fs[i].key = es[i].key

\* What an operation may do to the entries, seen from outside.
Effect(es, fs) ==
  \/ fs = es
  \/ \E k \in Keys, v \in Values : \A c : Shows(es, c) => Shows(fs, [c EXCEPT ![k] = v])
  \/ \E k \in Keys : \A c : Shows(es, c) => Shows(fs, [c EXCEPT ![k] = NoValue])
  \/ Shows(fs, [k \in Keys |-> NoValue])

LEMMA ShowsOnce ==
  ASSUME NEW es, NEW c, NEW d, Shows(es, c), Shows(es, d)
  PROVE  c = d
<1>1. ASSUME NEW k \in Keys PROVE c[k] = d[k]
  <2>1. CASE k \in KeysOf(es, Len(es))
    BY <2>1 DEF KeysOf, Shows
  <2>2. CASE k \notin KeysOf(es, Len(es))
    BY <2>2 DEF Shows
  <2> QED BY <2>1, <2>2
<1>2. c = [k \in Keys |-> c[k]] /\ d = [k \in Keys |-> d[k]]
  BY DEF Shows
<1> QED BY <1>1, <1>2

LEMMA SameKeeps ==
  ASSUME NEW es
  PROVE  Keeps(es, es) /\ Effect(es, es)
BY DEF Keeps, Effect

LEMMA LengthBound ==
  ASSUME NEW es, NEW t, NEW l, Idle(es, t, l)
  PROVE  l \in Nat /\ t.used \in Nat /\ l <= t.used /\ t.capacity \in Nat
<1>1. IsFiniteSet(Live(t)) /\ IsFiniteSet(Taken(t)) /\ Live(t) \subseteq Taken(t)
  BY FiniteTables DEF Idle
<1>2. Cardinality(Live(t)) <= Cardinality(Taken(t)) /\ Cardinality(Live(t)) \in Nat
  BY <1>1, FS_Subset, FS_CardinalityType
<1> QED BY <1>2 DEF Idle, Holds, IsTable

LEMMA WriteShows ==
  ASSUME NEW es, NEW t, NEW l, Idle(es, t, l),
         NEW i \in Occupied(es, Len(es)), NEW v \in Values,
         NEW fs, ValueWritten(fs, es, i, v)
  PROVE  Keeps(es, fs) /\ Effect(es, fs)
<1>1. PICK n : n = Len(es)
  OBVIOUS
<1>2. /\ Len(fs) = n /\ Occupied(fs, n) = Occupied(es, n) /\ KeysOf(fs, n) = KeysOf(es, n)
      /\ \A j \in Occupied(es, n) : fs[j].key = es[j].key
      /\ \A j \in Occupied(es, n) : fs[j].value = IF j = i THEN v ELSE es[j].value
  <2>1. /\ Len(fs) = Len(es)
        /\ \A j \in 1 .. Len(es) : /\ fs[j].key = es[j].key
                                   /\ (fs[j].occupied <=> es[j].occupied)
                                   /\ fs[j].value = IF j = i THEN v ELSE es[j].value
        /\ Occupied(fs, Len(fs)) = Occupied(es, Len(es))
        /\ KeysOf(fs, Len(fs)) = KeysOf(es, Len(es))
    BY WriteKeeps
  <2>2. \A j \in Occupied(es, n) : j \in 1 .. Len(es)
    BY <1>1 DEF Occupied
  <2> QED BY <2>1, <2>2, <1>1
<1>3. /\ es[i].key \in Keys /\ i \in Occupied(es, n)
      /\ \A j \in Occupied(es, n) : es[j].key = es[i].key => j = i
      /\ \A j \in Occupied(es, n) : es[j].key \in Keys
  BY <1>1, EntryTypes DEF Idle, Distinct, Occupied
<1>4. ASSUME NEW c, Shows(es, c) PROVE Shows(fs, [c EXCEPT ![es[i].key] = v])
  <2> DEFINE d == [c EXCEPT ![es[i].key] = v]
  <2>1. /\ d = [k \in Keys |-> d[k]]
        /\ \A k \in Keys : d[k] = IF k = es[i].key THEN v ELSE c[k]
    BY <1>4, <1>3 DEF Shows
  <2> HIDE DEF d
  <2>2. \A j \in Occupied(fs, n) : d[fs[j].key] = fs[j].value
    BY <2>1, <1>1, <1>2, <1>3, <1>4 DEF Shows
  <2>3. \A k \in Keys \ KeysOf(fs, n) : d[k] = NoValue
    BY <2>1, <1>1, <1>2, <1>3, <1>4 DEF Shows, KeysOf
  <2>4. Shows(fs, d)
    BY <2>1, <2>2, <2>3, <1>2 DEF Shows
  <2> QED BY <2>4 DEF d
<1>5. Effect(es, fs)
  BY <1>3, <1>4 DEF Effect
<1>6. Keeps(es, fs)
  BY <1>1, <1>2 DEF Keeps
<1> QED BY <1>5, <1>6

LEMMA PushShows ==
  ASSUME NEW es, NEW t, NEW l, Idle(es, t, l), NEW k \in Keys, NEW v \in Values,
         k \notin KeysOf(es, Len(es)),
         NEW fs, fs = Append(es, [key |-> k, value |-> v, occupied |-> TRUE])
  PROVE  Keeps(es, fs) /\ Effect(es, fs)
<1>1. PICK n : n = Len(es)
  OBVIOUS
<1>2. /\ Len(fs) = n + 1 /\ n \in Nat /\ fs[n + 1].key = k /\ fs[n + 1].value = v
      /\ fs[n + 1].occupied
      /\ \A j \in 1 .. n : fs[j] = es[j]
  <2>1. es \in Seq(Entry) /\ [key |-> k, value |-> v, occupied |-> TRUE] \in Entry
    BY DEF Idle, Entry
  <2> QED BY <1>1, <2>1
<1>3. Occupied(fs, n + 1) = Occupied(es, n) \cup {n + 1}
  BY <1>2 DEF Occupied
<1>4. \A j \in Occupied(es, n) : fs[j] = es[j] /\ es[j].key \in Keys /\ es[j].key # k
  BY <1>1, <1>2, EntryTypes DEF Occupied, KeysOf, Idle
<1>5. ASSUME NEW c, Shows(es, c) PROVE Shows(fs, [c EXCEPT ![k] = v])
  <2> DEFINE d == [c EXCEPT ![k] = v]
  <2>1. /\ d = [x \in Keys |-> d[x]]
        /\ \A x \in Keys : d[x] = IF x = k THEN v ELSE c[x]
    BY <1>5 DEF Shows
  <2> HIDE DEF d
  <2>2. ASSUME NEW j \in Occupied(fs, n + 1) PROVE d[fs[j].key] = fs[j].value
    <3>1. CASE j = n + 1
      BY <3>1, <2>1, <1>2
    <3>2. CASE j \in Occupied(es, n)
      <4>1. c[es[j].key] = es[j].value
        BY <3>2, <1>1, <1>5 DEF Shows
      <4> QED BY <4>1, <3>2, <2>1, <1>4
    <3> QED BY <3>1, <3>2, <1>3
  <2>3. ASSUME NEW x \in Keys, x \notin KeysOf(fs, n + 1) PROVE d[x] = NoValue
    <3>1. x # k
      <4>1. fs[n + 1].key \in KeysOf(fs, n + 1)
        BY <1>3 DEF KeysOf
      <4> QED BY <4>1, <1>2, <2>3
    <3>2. x \notin KeysOf(es, n)
      BY <2>3, <1>3, <1>4 DEF KeysOf
    <3> QED BY <3>1, <3>2, <2>1, <1>1, <1>5 DEF Shows
  <2>4. Shows(fs, d)
    BY <2>1, <2>2, <2>3, <1>2 DEF Shows
  <2> QED BY <2>4 DEF d
<1>6. Effect(es, fs)
  BY <1>5 DEF Effect
<1>7. Keeps(es, fs)
  BY <1>1, <1>2, <1>3, <1>4 DEF Keeps
<1> QED BY <1>6, <1>7

LEMMA EraseShows ==
  ASSUME NEW es, NEW t, NEW l, Idle(es, t, l), NEW i \in Occupied(es, Len(es)),
         NEW fs, Len(fs) = Len(es), Erased(fs, es, Len(es), i), SameValues(fs, es, Len(es)),
         Occupied(fs, Len(fs)) = Occupied(es, Len(es)) \ {i},
         KeysOf(fs, Len(fs)) = KeysOf(es, Len(es)) \ {es[i].key}
  PROVE  Keeps(es, fs) /\ Effect(es, fs)
<1>1. PICK n : n = Len(es)
  OBVIOUS
<1>2. \A j \in Occupied(es, n) : fs[j].key = es[j].key /\ fs[j].value = es[j].value
  BY <1>1 DEF Erased, SameValues, Occupied
<1>3. /\ es[i].key \in Keys /\ i \in Occupied(es, n)
      /\ \A j \in Occupied(es, n) : es[j].key = es[i].key => j = i
      /\ \A j \in Occupied(es, n) : es[j].key \in Keys
  BY <1>1, EntryTypes DEF Idle, Distinct, Occupied
<1>4. ASSUME NEW c, Shows(es, c) PROVE Shows(fs, [c EXCEPT ![es[i].key] = NoValue])
  <2> DEFINE d == [c EXCEPT ![es[i].key] = NoValue]
  <2>1. /\ d = [k \in Keys |-> d[k]]
        /\ \A k \in Keys : d[k] = IF k = es[i].key THEN NoValue ELSE c[k]
    BY <1>4, <1>3 DEF Shows
  <2> HIDE DEF d
  <2>2. \A j \in Occupied(fs, n) : d[fs[j].key] = fs[j].value
    BY <2>1, <1>1, <1>2, <1>3, <1>4 DEF Shows
  <2>3. \A k \in Keys \ KeysOf(fs, n) : d[k] = NoValue
    BY <2>1, <1>1, <1>4 DEF Shows
  <2>4. Shows(fs, d)
    BY <2>1, <2>2, <2>3, <1>1 DEF Shows
  <2> QED BY <2>4 DEF d
<1>5. Effect(es, fs)
  BY <1>3, <1>4 DEF Effect
<1>6. Keeps(es, fs)
  BY <1>1, <1>2, <1>3 DEF Keeps
<1> QED BY <1>5, <1>6

-----------------------------------------------------------------------------
(* The operations *)

JobOK(j) ==
  /\ j = [busy |-> j.busy, next |-> j.next, new |-> j.new, key |-> j.key, value |-> j.value]
  /\ j.busy \in BOOLEAN
  /\ j.next \in Nat
  /\ IsTable(j.new)
  /\ j.key \in Keys \cup {NoKey}
  /\ j.value \in Values \cup {NoValue}

LEMMA NoJobOK == JobOK(NoJob) /\ ~NoJob.busy
<1>1. IsTable(EmptyTable(0))
  BY EmptyTableHolds
<1>2. /\ NoJob.busy = FALSE /\ NoJob.next = 0 /\ NoJob.new = EmptyTable(0)
      /\ NoJob.key = NoKey /\ NoJob.value = NoValue
      /\ NoJob = [busy |-> FALSE, next |-> 0, new |-> EmptyTable(0), key |-> NoKey,
                  value |-> NoValue]
  BY DEF NoJob
<1> QED BY <1>1, <1>2 DEF JobOK

LEMMA InvNext ==
  ASSUME Idle(entries', table', len'), JobOK(job'), Working(entries', len', job')
  PROVE  Inv'
<1>1. len' \in Nat
  BY LengthBound
<1>2. entries' \in Seq(Entry) /\ IsTable(table')
  BY DEF Idle
<1> QED BY <1>1, <1>2 DEF Inv, TypeOK, JobOK

LEMMA InvGives ==
  ASSUME Inv
  PROVE  /\ Idle(entries, table, len) /\ JobOK(job) /\ Working(entries, len, job)
BY DEF Inv, TypeOK, JobOK

\* rehash starts, on a table with room for every entry, and for the key if there is one.
LEMMA StartStep ==
  ASSUME Inv, NEW c \in Nat \ {0}, len <= Threshold(c), NEW k, NEW v,
         \/ k = NoKey /\ v = NoValue
         \/ /\ k \in Keys /\ v \in Values /\ k \notin KeysOf(entries, Len(entries))
            /\ len < Threshold(c),
         StartRehash(c, k, v)
  PROVE  Inv' /\ entries' = entries
<1>1. Idle(entries, table, len) /\ UNCHANGED <<entries, table, len>>
  BY InvGives DEF StartRehash
<1>2. job' = [busy |-> TRUE, next |-> 1, new |-> EmptyTable(c), key |-> k, value |-> v]
  BY DEF StartRehash
<1>3. /\ IsTable(EmptyTable(c)) /\ EmptyTable(c).capacity = c
      /\ Holds(EmptyTable(c), entries, 0)
      /\ \A b \in 0 .. c - 1 : EmptyTable(c).buckets[b] = Empty
  BY EmptyTableHolds
<1>4. JobOK(job')
  BY <1>2, <1>3 DEF JobOK
<1>5. Len(entries) \in Nat
  BY <1>1, EntryTypes DEF Idle
<1>6. Working(entries, len, job')
  BY <1>2, <1>3, <1>5, ValueAssumption DEF Working, Empty
<1>7. Idle(entries', table', len') /\ JobOK(job') /\ Working(entries', len', job')
  BY <1>1, <1>4, <1>6
<1>8. Inv'
  BY <1>7, InvNext
<1> QED BY <1>1, <1>8

\* insert_new behind check_grow.
LEMMA PushStep ==
  ASSUME Inv, NEW t, Idle(entries, t, len), t.used < Threshold(t.capacity),
         NEW k \in Keys, NEW v \in Values, k \notin KeysOf(entries, Len(entries)),
         Push(t, k, v)
  PROVE  Idle(entries', table', len') /\ Keeps(entries, entries') /\ Effect(entries, entries')
<1>1. CASE /\ HasFree(t, k)
           /\ entries' = Append(entries, [key |-> k, value |-> v, occupied |-> TRUE])
           /\ table' = Fill(t, FreeBucket(t, k), Len(entries) + 1)
           /\ len' = len + 1
  <2>1. Idle(entries', Fill(t, FreeBucket(t, k), Len(entries) + 1), len + 1)
    BY <1>1, PushKeeps
  <2>2. Keeps(entries, entries') /\ Effect(entries, entries')
    BY <1>1, PushShows
  <2> QED BY <1>1, <2>1, <2>2
<1>2. CASE table' = t /\ UNCHANGED <<entries, len>>
  BY <1>2, SameKeeps
<1> QED BY <1>1, <1>2 DEF Push

LEMMA InsertStep ==
  ASSUME Inv, ~job.busy, NEW k \in Keys, NEW v \in Values,
         k \notin KeysOf(entries, Len(entries)), InsertNew(k, v)
  PROVE  Inv' /\ Keeps(entries, entries') /\ Effect(entries, entries')
<1>1. /\ Idle(entries, table, len) /\ len \in Nat /\ table.capacity \in Nat
      /\ table.used \in Nat /\ len <= table.used /\ table.used <= Threshold(table.capacity)
      /\ JobOK(job)
  BY InvGives, LengthBound DEF Idle
<1>2. CASE table.capacity # 0 /\ table.used < Threshold(table.capacity)
  <2>1. Push(table, k, v) /\ UNCHANGED job
    BY <1>2 DEF InsertNew
  <2>2. Idle(entries', table', len') /\ Keeps(entries, entries') /\ Effect(entries, entries')
    BY <1>1, <1>2, <2>1, PushStep
  <2>3. JobOK(job') /\ Working(entries', len', job')
    BY <1>1, <2>1 DEF Working
  <2> QED BY <2>2, <2>3, InvNext
<1>3. CASE ~(table.capacity # 0 /\ table.used < Threshold(table.capacity))
  <2> DEFINE c == IF table.capacity # 0 /\ len < table.used
                  THEN table.capacity ELSE NextCapacity(table.capacity)
  <2>1. StartRehash(c, k, v)
    BY <1>3 DEF InsertNew
  <2>2. /\ Threshold(table.capacity) \in Nat
        /\ Threshold(NextCapacity(table.capacity)) > Threshold(table.capacity)
        /\ NextCapacity(table.capacity) \in Nat \ {0}
        /\ Threshold(NextCapacity(table.capacity)) \in Nat
    BY <1>1, Thresholds
  <2>3. c \in Nat \ {0} /\ len < Threshold(c) /\ Threshold(c) \in Nat
    BY <1>1, <2>2
  <2> HIDE DEF c
  <2>4. Inv' /\ entries' = entries
    <3>1. len <= Threshold(c)
      BY <1>1, <2>3
    <3> QED BY <2>1, <2>3, <3>1, StartStep
  <2> QED BY <2>4, SameKeeps
<1> QED BY <1>2, <1>3

\* Found is what FindIs is about.
LEMMA FoundIs ==
  ASSUME Idle(entries, table, len), NEW k \in Keys
  PROVE  /\ Found(k) <=> k \in KeysOf(entries, Len(entries))
         /\ \A i \in Occupied(entries, Len(entries)) : entries[i].key = k =>
              BucketOf(k) \in Live(table) /\ EntryOf(k) = i
BY FindIs DEF Found, EntryOf, BucketOf

LEMMA SetStep ==
  ASSUME Inv, NEW k \in Keys, NEW v \in Values, Set(k, v)
  PROVE  Inv' /\ Keeps(entries, entries') /\ Effect(entries, entries')
<1>1. Idle(entries, table, len) /\ ~job.busy /\ JobOK(job)
  BY InvGives DEF Set
<1>2. CASE Found(k)
  <2>1. PICK i \in Occupied(entries, Len(entries)) : entries[i].key = k /\ EntryOf(k) = i
    BY <1>1, <1>2, FoundIs DEF KeysOf
  <2>2. ValueWritten(entries', entries, i, v) /\ UNCHANGED <<table, len, job>>
    BY <1>2, <2>1 DEF Set, ValueWritten
  <2>3. Idle(entries', table, len)
    BY <1>1, <2>2, WriteKeeps
  <2>4. Keeps(entries, entries') /\ Effect(entries, entries')
    BY <1>1, <2>2, WriteShows
  <2>5. Idle(entries', table', len') /\ JobOK(job') /\ Working(entries', len', job')
    BY <1>1, <2>2, <2>3 DEF Working
  <2> QED BY <2>4, <2>5, InvNext
<1>3. CASE ~Found(k)
  <2>1. k \notin KeysOf(entries, Len(entries)) /\ InsertNew(k, v)
    BY <1>1, <1>3, FoundIs DEF Set
  <2> QED BY <2>1, <1>1, InsertStep
<1> QED BY <1>2, <1>3

LEMMA GetOrInsertStep ==
  ASSUME Inv, NEW k \in Keys, NEW v \in Values, GetOrInsert(k, v)
  PROVE  Inv' /\ Keeps(entries, entries') /\ Effect(entries, entries')
<1>1. Idle(entries, table, len) /\ ~job.busy /\ ~Found(k) /\ InsertNew(k, v)
  BY InvGives DEF GetOrInsert
<1>2. k \notin KeysOf(entries, Len(entries))
  BY <1>1, FoundIs
<1> QED BY <1>1, <1>2, InsertStep

LEMMA EraseStep ==
  ASSUME Inv, NEW k \in Keys, Erase(k)
  PROVE  Inv' /\ Keeps(entries, entries') /\ Effect(entries, entries')
<1>1. /\ Idle(entries, table, len) /\ ~job.busy /\ JobOK(job) /\ Found(k)
      /\ entries' = [entries EXCEPT ![EntryOf(k)].occupied = FALSE]
      /\ table' = Bury(table, BucketOf(k)) /\ len' = len - 1 /\ UNCHANGED job
  BY InvGives DEF Erase
<1>2. PICK i \in Occupied(entries, Len(entries)) :
        entries[i].key = k /\ EntryOf(k) = i /\ BucketOf(k) \in Live(table)
  BY <1>1, FoundIs DEF KeysOf
<1>3. i = table.buckets[BucketOf(k)]
  BY <1>2 DEF EntryOf
<1>4. /\ entries' \in Seq(Entry) /\ Len(entries') = Len(entries)
      /\ Erased(entries', entries, Len(entries), i)
      /\ SameValues(entries', entries, Len(entries))
  <2>1. entries \in Seq(Entry) /\ i \in 1 .. Len(entries)
    BY <1>1 DEF Idle, Occupied
  <2>2. PICK no \in BOOLEAN : no = FALSE
    OBVIOUS
  <2>3. entries' = [entries EXCEPT ![i].occupied = no]
    BY <1>1, <1>2, <2>2
  <2> QED BY <2>1, <2>2, <2>3, EraseIs
<1>5. /\ Idle(entries', table', len') /\ len' \in Nat
      /\ Occupied(entries', Len(entries')) = Occupied(entries, Len(entries)) \ {i}
      /\ KeysOf(entries', Len(entries')) = KeysOf(entries, Len(entries)) \ {entries[i].key}
  <2>1. IsSeq(entries')
    BY <1>4 DEF IsSeq
  <2>2. /\ Idle(entries, table, len) /\ BucketOf(k) \in Live(table)
        /\ table' = Bury(table, BucketOf(k)) /\ len' = len - 1
    BY <1>1, <1>2
  <2>3. Len(entries') = Len(entries) /\ Erased(entries', entries, Len(entries), i)
    BY <1>4
  <2>4. /\ Idle(entries', table', len - 1) /\ len - 1 \in Nat
        /\ Occupied(entries', Len(entries')) = Occupied(entries, Len(entries)) \ {i}
        /\ KeysOf(entries', Len(entries'))
              = KeysOf(entries, Len(entries)) \ {entries[i].key}
    BY <1>3, <2>1, <2>2, <2>3, EraseKeeps
  <2> QED BY <2>2, <2>4
<1>6. Keeps(entries, entries') /\ Effect(entries, entries')
  BY <1>1, <1>4, <1>5, EraseShows
<1>7. JobOK(job') /\ Working(entries', len', job')
  BY <1>1 DEF Working
<1> QED BY <1>5, <1>6, <1>7, InvNext

LEMMA ClearStep ==
  ASSUME Inv, Clear
  PROVE  Inv' /\ Keeps(entries, entries') /\ Effect(entries, entries')
<1>1. /\ Idle(entries, table, len) /\ ~job.busy /\ JobOK(job) /\ entries' = <<>>
      /\ table' = EmptyTable(table.capacity) /\ len' = 0 /\ UNCHANGED job
  BY InvGives DEF Clear
<1>2. Idle(entries', table', len') /\ KeysOf(entries', Len(entries')) = {}
  <2>1. table.capacity \in Nat
    BY <1>1, LengthBound
  <2>2. Len(<<>>) = 0
    OBVIOUS
  <2> QED BY <1>1, <2>1, <2>2, EmptyIdle
<1>3. Keeps(entries, entries')
  BY <1>2 DEF Keeps
<1>4. Shows(entries', [k \in Keys |-> NoValue])
  BY <1>2 DEF Shows, KeysOf
<1>5. Effect(entries, entries')
  BY <1>4 DEF Effect
<1>6. JobOK(job') /\ Working(entries', len', job')
  BY <1>1 DEF Working
<1> QED BY <1>2, <1>3, <1>5, <1>6, InvNext

LEMMA ReserveStep ==
  ASSUME Inv, NEW c \in Capacities, Reserve(c)
  PROVE  Inv' /\ entries' = entries
<1>1. /\ Idle(entries, table, len) /\ ~job.busy /\ c > table.capacity
      /\ StartRehash(c, NoKey, NoValue)
  BY InvGives DEF Reserve
<1>2. /\ len \in Nat /\ len <= table.used /\ table.used <= Threshold(table.capacity)
      /\ table.capacity \in Nat /\ table.used \in Nat
  BY <1>1, LengthBound DEF Idle
<1>3. c \in Nat \ {0}
  BY CapacityAssumption DEF Capacities
<1>4. /\ Threshold(c) >= Threshold(table.capacity) /\ Threshold(c) \in Nat
      /\ Threshold(table.capacity) \in Nat
  BY <1>1, <1>2, <1>3, Thresholds
<1>5. len <= Threshold(c)
  BY <1>2, <1>4
<1> QED BY <1>1, <1>3, <1>5, StartStep

LEMMA RehashEntryStep ==
  ASSUME Inv, RehashEntry
  PROVE  Inv' /\ entries' = entries
<1>1. PICK n : n = job.next - 1
  OBVIOUS
<1>2. PICK t : t = job.new
  OBVIOUS
<1>3. /\ Idle(entries, table, len) /\ JobOK(job) /\ Working(entries, len, job)
      /\ job.busy /\ job.next <= Len(entries) /\ UNCHANGED <<entries, table, len>>
  BY InvGives DEF RehashEntry
<1>4. /\ entries \in Seq(Entry) /\ Len(entries) \in Nat /\ Distinct(entries)
      /\ len = Cardinality(KeysOf(entries, Len(entries)))
  BY <1>3, EntryTypes DEF Idle
<1>5. n \in 0 .. Len(entries) - 1 /\ n + 1 = job.next /\ job.next \in Nat /\ n \in Nat
  BY <1>1, <1>3, <1>4 DEF Working
<1>6. /\ IsTable(t) /\ Holds(t, entries, n) /\ t.capacity # 0
      /\ \A b \in 0 .. t.capacity - 1 : t.buckets[b] >= 0
      /\ len <= Threshold(t.capacity)
  BY <1>1, <1>2, <1>3 DEF Working, JobOK
<1>7. t.used = Cardinality(KeysOf(entries, n))
  <2>1. IsTable(job.new)
    BY <1>3 DEF JobOK
  <2> QED BY <1>1, <1>2, <1>3, <1>4, <2>1, NewTable
<1> DEFINE u == Fill(t, FreeBucket(t, entries[n + 1].key), n + 1)
           w == IF entries[n + 1].occupied THEN u ELSE t
<1>8. job' = [busy |-> job.busy, next |-> n + 2, new |-> w, key |-> job.key,
              value |-> job.value]
  <2>1. job' = [job EXCEPT !.next = @ + 1, !.new = w]
    BY <1>2, <1>5 DEF RehashEntry
  <2>2. job.next + 1 = n + 2
    BY <1>5
  <2>3. job = [busy |-> job.busy, next |-> job.next, new |-> job.new, key |-> job.key,
               value |-> job.value]
    BY <1>3 DEF JobOK
  <2> HIDE DEF w
  <2> QED BY <2>1, <2>2, <2>3
<1>9. /\ IsTable(w) /\ w.capacity = t.capacity /\ Holds(w, entries, n + 1)
      /\ \A b \in 0 .. w.capacity - 1 : w.buckets[b] >= 0
  <2>1. CASE entries[n + 1].occupied
    <3>1. /\ IsTable(u) /\ u.capacity = t.capacity /\ Holds(u, entries, n + 1)
          /\ \A b \in 0 .. u.capacity - 1 : u.buckets[b] >= 0
      <4> HIDE DEF u
      <4> QED BY <1>4, <1>5, <1>6, <1>7, <2>1, TurnKeeps DEF u
    <3> QED BY <3>1, <2>1
  <2>2. CASE ~entries[n + 1].occupied
    BY <1>5, <1>6, <2>2, SkipHolds
  <2> QED BY <2>1, <2>2
<1> HIDE DEF w
<1>10. JobOK(job')
  BY <1>3, <1>5, <1>8, <1>9 DEF JobOK
<1>11. Working(entries, len, job')
  <2>1. job'.next = n + 2 /\ job'.new = w /\ job'.key = job.key /\ job'.value = job.value
    BY <1>8
  <2>2. n + 2 - 1 = n + 1 /\ n + 2 \in 1 .. Len(entries) + 1
    BY <1>4, <1>5
  <2>3. /\ len <= Threshold(t.capacity)
        /\ job.key # NoKey => /\ job.key \notin KeysOf(entries, Len(entries))
                              /\ job.value \in Values
                              /\ len < Threshold(t.capacity)
    BY <1>2, <1>3 DEF Working
  <2>4. /\ job'.next \in 1 .. Len(entries) + 1
        /\ Holds(job'.new, entries, job'.next - 1)
        /\ \A b \in 0 .. job'.new.capacity - 1 : job'.new.buckets[b] >= 0
        /\ job'.new.capacity # 0
    <3>1. job'.next - 1 = n + 1 /\ job'.next \in 1 .. Len(entries) + 1
      BY <1>5, <2>1, <2>2
    <3>2. Holds(job'.new, entries, job'.next - 1)
      BY <1>9, <2>1, <3>1, Zenon
    <3>3. \A b \in 0 .. job'.new.capacity - 1 : job'.new.buckets[b] >= 0
      BY <1>9, <2>1, Zenon
    <3>4. job'.new.capacity # 0
      BY <1>6, <1>9, <2>1
    <3> QED BY <3>1, <3>2, <3>3, <3>4
  <2>5. /\ len <= Threshold(job'.new.capacity)
        /\ job'.key # NoKey => /\ job'.key \notin KeysOf(entries, Len(entries))
                               /\ job'.value \in Values
                               /\ len < Threshold(job'.new.capacity)
    BY <1>9, <2>1, <2>3
  <2> QED BY <2>4, <2>5 DEF Working
<1>12. Idle(entries', table', len') /\ Working(entries', len', job')
  BY <1>3, <1>11
<1> QED BY <1>3, <1>10, <1>12, InvNext

LEMMA RehashEndsStep ==
  ASSUME Inv, RehashEnds
  PROVE  Inv' /\ Keeps(entries, entries') /\ Effect(entries, entries')
<1>1. /\ Idle(entries, table, len) /\ JobOK(job) /\ Working(entries, len, job)
      /\ job.busy /\ job.next > Len(entries) /\ job' = NoJob
  BY InvGives DEF RehashEnds
<1>2. entries \in Seq(Entry) /\ Len(entries) \in Nat /\ IsTable(job.new)
  BY <1>1, EntryTypes DEF Idle, JobOK
<1>3. job.next - 1 = Len(entries)
  BY <1>1, <1>2 DEF Working, JobOK
<1>4. /\ Holds(job.new, entries, Len(entries))
      /\ job.new.used = len /\ len <= Threshold(job.new.capacity)
      /\ job.new.capacity # 0
  <2>1. job.new.used = Cardinality(KeysOf(entries, Len(entries)))
    BY <1>1, <1>2, <1>3, NewTable
  <2> QED BY <1>1, <1>3, <2>1 DEF Working, Idle
<1>5. Idle(entries, job.new, len)
  BY <1>1, <1>2, <1>4 DEF Idle
<1>6. JobOK(job') /\ Working(entries', len', job')
  BY <1>1, NoJobOK DEF Working
<1>7. CASE job.key = NoKey
  <2>1. table' = job.new /\ UNCHANGED <<entries, len>>
    BY <1>7 DEF RehashEnds
  <2> QED BY <1>5, <1>6, <2>1, InvNext, SameKeeps
<1>8. CASE job.key # NoKey
  <2>1. /\ job.key \in Keys /\ job.key \notin KeysOf(entries, Len(entries))
        /\ job.value \in Values /\ job.new.used < Threshold(job.new.capacity)
        /\ Push(job.new, job.key, job.value)
    BY <1>1, <1>4, <1>8 DEF RehashEnds, Working, JobOK
  <2> QED BY <1>5, <1>6, <2>1, PushStep, InvNext
<1> QED BY <1>7, <1>8

LEMMA InitInv ==
  ASSUME Init
  PROVE  Inv
<1>1. entries = <<>> /\ table = EmptyTable(0) /\ len = 0 /\ job = NoJob
  BY DEF Init
<1>2. Idle(entries, table, len)
  BY <1>1, EmptyIdle
<1>3. JobOK(job) /\ Working(entries, len, job)
  BY <1>1, NoJobOK DEF Working
<1> QED BY <1>1, <1>2, <1>3 DEF Inv, TypeOK, JobOK, Idle

\* Every step keeps the invariant, and the entries of the keys it keeps.
LEMMA Steps ==
  ASSUME Inv, [Next]_vars
  PROVE  Inv' /\ Keeps(entries, entries') /\ Effect(entries, entries')
<1>1. ASSUME NEW k \in Keys, NEW v \in Values, Set(k, v) \/ GetOrInsert(k, v)
      PROVE  Inv' /\ Keeps(entries, entries') /\ Effect(entries, entries')
  BY <1>1, SetStep, GetOrInsertStep
<1>2. ASSUME NEW k \in Keys, Erase(k)
      PROVE  Inv' /\ Keeps(entries, entries') /\ Effect(entries, entries')
  BY <1>2, EraseStep
<1>3. ASSUME NEW c \in Capacities, Reserve(c)
      PROVE  Inv' /\ Keeps(entries, entries') /\ Effect(entries, entries')
  BY <1>3, ReserveStep, SameKeeps
<1>4. CASE RehashEntry
  BY <1>4, RehashEntryStep, SameKeeps
<1>5. CASE UNCHANGED vars
  <2>1. Idle(entries', table', len') /\ JobOK(job') /\ Working(entries', len', job')
        /\ entries' = entries
    BY <1>5, InvGives DEF vars
  <2> QED BY <2>1, InvNext, SameKeeps
<1> QED BY <1>1, <1>2, <1>3, <1>4, <1>5, ClearStep, RehashEndsStep DEF Next

-----------------------------------------------------------------------------
(* The theorems *)

\* The invariant holds for any keys, values, hash function and amount of memory.
THEOREM Invariant == Spec => []Inv
<1>1. Init => Inv
  BY InitInv
<1>2. Inv /\ [Next]_vars => Inv'
  BY Steps
<1> QED BY <1>1, <1>2, PTL DEF Spec

\* The entries, buckets, counts and the rehash under way of stable_hash_map.h have their
\* types.
THEOREM TypeCorrect == Spec => []TypeOK
<1>1. Inv => TypeOK
  BY DEF Inv
<1> QED BY <1>1, Invariant, PTL

\* rehash never meets an entry for which the new buckets have no room.
THEOREM RehashNeverFails == Spec => []RehashFits
<1>1. ASSUME Inv, job.busy, job.next <= Len(entries), entries[job.next].occupied
      PROVE  HasFree(job.new, entries[job.next].key)
  <2>1. PICK n : n = job.next - 1
    OBVIOUS
  <2>2. PICK t : t = job.new
    OBVIOUS
  <2>3. /\ Idle(entries, table, len) /\ JobOK(job) /\ Working(entries, len, job)
    BY <1>1, InvGives
  <2>4. /\ entries \in Seq(Entry) /\ Len(entries) \in Nat /\ Distinct(entries)
        /\ len = Cardinality(KeysOf(entries, Len(entries)))
    BY <2>3, EntryTypes DEF Idle
  <2>5. n \in 0 .. Len(entries) - 1 /\ n + 1 = job.next
    BY <1>1, <2>1, <2>3, <2>4 DEF Working
  <2>6. /\ IsTable(t) /\ Holds(t, entries, n) /\ t.capacity # 0
        /\ \A b \in 0 .. t.capacity - 1 : t.buckets[b] >= 0
        /\ len <= Threshold(t.capacity)
    BY <1>1, <2>1, <2>2, <2>3 DEF Working, JobOK
  <2>7. t.used = Cardinality(KeysOf(entries, n))
    <3>1. IsTable(job.new)
      BY <2>3 DEF JobOK
    <3> QED BY <1>1, <2>1, <2>2, <2>3, <2>4, <3>1, NewTable
  <2>8. entries[n + 1].occupied
    BY <1>1, <2>5
  <2>9. HasFree(t, entries[n + 1].key)
    BY <2>4, <2>5, <2>6, <2>7, <2>8, TurnKeeps
  <2> QED BY <2>2, <2>5, <2>9
<1>2. Inv => RehashFits
  BY <1>1 DEF RehashFits
<1> QED BY <1>2, Invariant, PTL

\* Content shows the entries.
LEMMA ContentShows ==
  ASSUME Inv
  PROVE  Shows(entries, Content)
<1>1. Idle(entries, table, len)
  BY InvGives
<1>2. Content = [k \in Keys |-> Content[k]]
  BY DEF Content
<1>3. ASSUME NEW i \in Occupied(entries, Len(entries))
      PROVE  Content[entries[i].key] = entries[i].value
  <2>1. entries[i].key \in Keys /\ entries[i].key \in KeysOf(entries, Len(entries))
    BY <1>1, EntryTypes DEF Idle, Occupied, KeysOf
  <2>2. Found(entries[i].key) /\ EntryOf(entries[i].key) = i
    BY <1>1, <2>1, FoundIs
  <2> QED BY <2>1, <2>2 DEF Content
<1>4. ASSUME NEW k \in Keys \ KeysOf(entries, Len(entries)) PROVE Content[k] = NoValue
  BY <1>1, FoundIs DEF Content
<1> QED BY <1>2, <1>3, <1>4 DEF Shows

\* Iteration and length tell the same as get.
LEMMA AllAgree ==
  ASSUME Inv
  PROVE  /\ Listed = {k \in Keys : Content[k] # NoValue}
         /\ Listed = KeysOf(entries, Len(entries))
         /\ len = Cardinality(Listed)
<1>1. Idle(entries, table, len) /\ Shows(entries, Content)
  BY InvGives, ContentShows
<1>2. entries \in Seq(Entry)
  BY <1>1 DEF Idle
<1>3. {j \in DOMAIN entries : entries[j].occupied} = Occupied(entries, Len(entries))
  BY <1>2 DEF Occupied
<1>4. Listed = KeysOf(entries, Len(entries))
  BY <1>3 DEF Listed, KeysOf
<1>5. \A i \in Occupied(entries, Len(entries)) : entries[i].key \in Keys /\ entries[i].value # NoValue
  BY <1>2, EntryTypes, ValueAssumption DEF Occupied
<1>6. \A k \in KeysOf(entries, Len(entries)) : k \in Keys /\ Content[k] # NoValue
  BY <1>1, <1>5 DEF KeysOf, Shows
<1>7. \A k \in Keys : Content[k] # NoValue => k \in KeysOf(entries, Len(entries))
  BY <1>1 DEF Shows
<1> QED BY <1>1, <1>4, <1>6, <1>7 DEF Idle

\* What a caller sees, as the invariant implies it before and after a step.
Seen(es, c, s, l) ==
  /\ Shows(es, c)
  /\ s = {k \in Keys : c[k] # NoValue}
  /\ l = Cardinality(s)

LEMMA SameCardinality ==
  ASSUME NEW S
  PROVE  Map!Cardinality(S) = Cardinality(S)
BY DEF Cardinality, Map!Cardinality

\* A step changes what a caller sees as one call does, or not.
LEMMA EffectSeen ==
  ASSUME NEW es, NEW c, NEW s, NEW l, Seen(es, c, s, l),
         NEW fs, NEW d, NEW u, NEW m, Seen(fs, d, u, m), Effect(es, fs)
  PROVE  \/ c = d /\ s = u /\ l = m
         \/ \E k \in Keys, v \in Values : d = [c EXCEPT ![k] = v]
         \/ \E k \in Keys : d = [c EXCEPT ![k] = NoValue]
         \/ d = [k \in Keys |-> NoValue]
<1>1. CASE fs = es
  <2>1. c = d
    BY <1>1, ShowsOnce DEF Seen
  <2> QED BY <2>1 DEF Seen
<1>2. ASSUME NEW k \in Keys, NEW v, \A x : Shows(es, x) => Shows(fs, [x EXCEPT ![k] = v])
      PROVE  d = [c EXCEPT ![k] = v]
  <2>1. Shows(fs, [c EXCEPT ![k] = v]) /\ Shows(fs, d)
    BY <1>2 DEF Seen
  <2> QED BY <2>1, ShowsOnce
<1>3. CASE Shows(fs, [k \in Keys |-> NoValue])
  BY <1>3, ShowsOnce DEF Seen
<1> QED BY <1>1, <1>2, <1>3 DEF Effect

\* StableHashMap does for its callers what AssocMap says.
THEOREM IsAMap == Spec => ImplementsMap
<1>1. Init => Map!Init
  <2> SUFFICES ASSUME Init PROVE Map!Init
    OBVIOUS
  <2>1. entries = <<>> /\ len = 0
    BY DEF Init
  <2>2. \A k : ~Found(k)
    BY <2>1 DEF Found
  <2>3. Content = [k \in Keys |-> NoValue]
    BY <2>2 DEF Content
  <2>4. Listed = {}
    BY <2>1 DEF Listed
  <2> QED BY <2>1, <2>3, <2>4 DEF Map!Init
<1>2. Inv => Seen(entries, Content, Listed, len)
  BY ContentShows, AllAgree DEF Seen
<1>3. Inv' => Seen(entries, Content, Listed, len)'
  BY <1>2, PTL
<1>4. Inv /\ Inv' /\ [Next]_vars => [Map!Next]_(Map!vars)
  <2> SUFFICES ASSUME Inv, Inv', [Next]_vars PROVE [Map!Next]_(Map!vars)
    OBVIOUS
  <2>1. Effect(entries, entries')
    BY Steps
  <2>2. Seen(entries, Content, Listed, len)
    BY <1>2
  <2>3. Seen(entries', Content', Listed', len')
    BY <1>3
  <2>4. Listed' = {k \in Keys : Content'[k] # NoValue} /\ len' = Cardinality(Listed')
    BY <2>3 DEF Seen
  <2>6. \/ Content = Content' /\ Listed = Listed' /\ len = len'
        \/ \E k \in Keys, v \in Values : Content' = [Content EXCEPT ![k] = v]
        \/ \E k \in Keys : Content' = [Content EXCEPT ![k] = NoValue]
        \/ Content' = [k \in Keys |-> NoValue]
    <3> HIDE DEF Seen
    <3> QED BY <2>1, <2>2, <2>3, EffectSeen
  <2>7. CASE Content = Content' /\ Listed = Listed' /\ len = len'
    BY <2>7 DEF Map!vars
  <2>8. ASSUME NEW k \in Keys, NEW v \in Values, Content' = [Content EXCEPT ![k] = v]
        PROVE  Map!Next
    BY <2>4, <2>8, SameCardinality DEF Map!Next, Map!Set, Map!Becomes
  <2>9. ASSUME NEW k \in Keys, Content' = [Content EXCEPT ![k] = NoValue]
        PROVE  Map!Next
    BY <2>4, <2>9, SameCardinality DEF Map!Next, Map!Erase, Map!Becomes
  <2>10. CASE Content' = [k \in Keys |-> NoValue]
    BY <2>4, <2>10, SameCardinality DEF Map!Next, Map!Clear, Map!Becomes
  <2> QED BY <2>6, <2>7, <2>8, <2>9, <2>10
<1> QED BY <1>1, <1>4, Invariant, PTL DEF Spec, ImplementsMap, Map!Spec

\* Pointers that were handed out stay good until their key is erased.
THEOREM PointersAreStable == Spec => PointersStay
<1>1. Inv => /\ Idle(entries, table, len)
             /\ Listed = KeysOf(entries, Len(entries))
  BY InvGives, AllAgree
<1>2. Inv' => /\ Idle(entries, table, len)'
              /\ (Listed = KeysOf(entries, Len(entries)))'
  BY <1>1, PTL
<1>4. Inv => \A i \in Occupied(entries, Len(entries)) :
               Found(entries[i].key) /\ EntryOf(entries[i].key) = i
  <2> SUFFICES ASSUME Inv, NEW i \in Occupied(entries, Len(entries))
               PROVE  Found(entries[i].key) /\ EntryOf(entries[i].key) = i
    OBVIOUS
  <2>1. entries[i].key \in Keys /\ entries[i].key \in KeysOf(entries, Len(entries))
    BY <1>1, EntryTypes DEF Idle, Occupied, KeysOf
  <2> QED BY <2>1, <1>1, FoundIs
<1>5. Inv' => (\A i \in Occupied(entries, Len(entries)) :
                 Found(entries[i].key) /\ EntryOf(entries[i].key) = i)'
  BY <1>4, PTL
<1>6. Inv /\ Inv' /\ [Next]_vars =>
        [\A i \in DOMAIN entries : entries[i].occupied =>
           \/ /\ i \in DOMAIN entries'
              /\ entries'[i].key = entries[i].key
              /\ entries'[i].occupied
              /\ Found(entries[i].key)' /\ EntryOf(entries[i].key)' = i
           \/ entries[i].key \notin Listed']_vars
  <2> SUFFICES ASSUME Inv, Inv', [Next]_vars,
                      NEW i \in DOMAIN entries, entries[i].occupied,
                      entries[i].key \in Listed'
               PROVE  /\ i \in DOMAIN entries'
                      /\ entries'[i].key = entries[i].key
                      /\ entries'[i].occupied
                      /\ Found(entries[i].key)' /\ EntryOf(entries[i].key)' = i
    OBVIOUS
  <2>1. i \in Occupied(entries, Len(entries))
    BY <1>1 DEF Idle, Occupied
  <2>2. Listed' = KeysOf(entries', Len(entries')) /\ entries' \in Seq(Entry)
    BY <1>2 DEF Idle
  <2>3. Keeps(entries, entries')
    BY Steps
  <2>4. i \in Occupied(entries', Len(entries')) /\ entries'[i].key = entries[i].key
    BY <2>1, <2>2, <2>3 DEF Keeps
  <2>5. i \in DOMAIN entries' /\ entries'[i].occupied
    BY <2>2, <2>4 DEF Occupied
  <2> QED BY <1>5, <2>4, <2>5
<1> QED BY <1>6, Invariant, PTL DEF Spec, PointersStay
=============================================================================
