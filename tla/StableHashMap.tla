---------------------------- MODULE StableHashMap ----------------------------
(***************************************************************************)
(* The map of stable_hash_map.h: buckets probed one after another, with    *)
(* tombstones, that hold the indices of entries which never move, so that  *)
(* a pointer to a value survives the growth of the map.                    *)
(*                                                                         *)
(* rehash is a loop over the entries and is one step per entry here; a map *)
(* is used by one thread, so nothing else happens between these steps.     *)
(* Every allocation may fail.                                              *)
(***************************************************************************)
EXTENDS Integers, Sequences, FiniteSets

CONSTANTS
  Keys, Values, NoValue, NoKey,
  Hash,            \* hash_key: the seed is a constant of the code, so is the hash
  MinCapacity,     \* two to MAP_MIN_LOG2_CAPACITY; 8 in the code
  MaxCapacity,     \* the largest bucket array there is memory for
  MaxEntries       \* the number of entries there is memory for

ASSUME HashAssumption == Hash \in [Keys -> Nat]
ASSUME ValueAssumption == NoValue \notin Values /\ NoKey \notin Keys
ASSUME CapacityAssumption == /\ MinCapacity \in Nat \ {0, 1}
                             /\ MaxCapacity \in Nat
                             /\ MaxEntries \in Nat

VARIABLES
  entries,    \* m_entries: the stored entries, erased ones included
  table,      \* m_buckets, m_bucket_capacity and m_used_buckets
  len,        \* m_len
  job         \* a rehash under way, and what insert_new will do after it

vars == <<entries, table, len, job>>

-----------------------------------------------------------------------------
(* Buckets: empty, deleted, or the index of an entry *)

Empty == 0
Dead == -1

EmptyTable(c) == [capacity |-> c, buckets |-> [b \in 0 .. c - 1 |-> Empty], used |-> 0]

NoJob == [busy |-> FALSE, next |-> 0, new |-> EmptyTable(0), key |-> NoKey, value |-> NoValue]

\* The p-th bucket that a probe for k looks at.
Slot(t, k, p) == (Hash[k] + p) % t.capacity

\* find_bucket_index: k is at the p-th probe, and no bucket before it is empty.
FoundAt(es, t, k, p) ==
  LET b == t.buckets[Slot(t, k, p)] IN
  /\ b > 0
  /\ es[b].occupied
  /\ es[b].key = k
  /\ \A q \in 0 .. p - 1 : t.buckets[Slot(t, k, q)] # Empty

BucketIn(es, t, k) == Slot(t, k, CHOOSE p \in 0 .. t.capacity - 1 : FoundAt(es, t, k, p))

Found(k) == len # 0 /\ \E p \in 0 .. table.capacity - 1 : FoundAt(entries, table, k, p)

BucketOf(k) == BucketIn(entries, table, k)

EntryOf(k) == table.buckets[BucketOf(k)]

\* insert_bucket_index: the first deleted bucket before the first empty one, or that
\* one, which is the first that holds no entry.
FreeAt(t, k, p) ==
  /\ t.buckets[Slot(t, k, p)] <= 0
  /\ \A q \in 0 .. p - 1 : t.buckets[Slot(t, k, q)] > 0

HasFree(t, k) == \E p \in 0 .. t.capacity - 1 : FreeAt(t, k, p)

FreeBucket(t, k) == Slot(t, k, CHOOSE p \in 0 .. t.capacity - 1 : FreeAt(t, k, p))

\* Entry i, whose key is k, enters bucket b.
Fill(t, b, i) ==
  [capacity |-> t.capacity,
   buckets |-> [t.buckets EXCEPT ![b] = i],
   used |-> IF t.buckets[b] = Empty THEN t.used + 1 ELSE t.used]

\* mutant of Bury: the bucket is empty again
BadBury(t, b) ==
  [capacity |-> t.capacity, buckets |-> [t.buckets EXCEPT ![b] = Empty], used |-> t.used]

\* A tombstone takes the place of an entry.
Bury(t, b) ==
  [capacity |-> t.capacity, buckets |-> [t.buckets EXCEPT ![b] = Dead], used |-> t.used]

-----------------------------------------------------------------------------
(* insert_new, check_grow, grow, reserve, rehash *)

Threshold(c) == (c * 75) \div 100

NextCapacity(c) == IF c * 2 > MinCapacity THEN c * 2 ELSE MinCapacity

\* insert_new behind check_grow, with the table that is then there.
Push(t, k, v) ==
  \/ /\ Len(entries) < MaxEntries
     /\ HasFree(t, k)
     /\ entries' = Append(entries, [key |-> k, value |-> v, occupied |-> TRUE])
     /\ table' = Fill(t, FreeBucket(t, k), Len(entries) + 1)
     /\ len' = len + 1
  \/ /\ table' = t
     /\ UNCHANGED <<entries, len>>

\* rehash starts, for insert_new of k and v or, without a key, for reserve.
StartRehash(c, k, v) ==
  /\ c <= MaxCapacity
  /\ job' = [busy |-> TRUE, next |-> 1, new |-> EmptyTable(c), key |-> k, value |-> v]
  /\ UNCHANGED <<entries, table, len>>

InsertNew(k, v) ==
  IF table.capacity # 0 /\ table.used < Threshold(table.capacity)
  THEN Push(table, k, v) /\ UNCHANGED job
  ELSE StartRehash(IF table.capacity # 0 /\ len < table.used
                   THEN table.capacity ELSE NextCapacity(table.capacity), k, v)

-----------------------------------------------------------------------------
(* The operations *)

Set(k, v) ==
  /\ ~job.busy
  /\ IF Found(k)
     THEN /\ entries' = [entries EXCEPT ![EntryOf(k)].value = v]
          /\ UNCHANGED <<table, len, job>>
     ELSE InsertNew(k, v)

GetOrInsert(k, v) == ~job.busy /\ ~Found(k) /\ InsertNew(k, v)

Erase(k) ==
  /\ ~job.busy
  /\ Found(k)
  /\ entries' = [entries EXCEPT ![EntryOf(k)].occupied = FALSE]
  /\ table' = Bury(table, BucketOf(k))
  /\ len' = len - 1
  /\ UNCHANGED job

Clear ==
  /\ ~job.busy
  /\ entries' = <<>>
  /\ table' = EmptyTable(table.capacity)
  /\ len' = 0
  /\ UNCHANGED job

\* reserve(n): n rounded up to a power of two times the least capacity.
Reserve(c) ==
  /\ ~job.busy
  /\ c > table.capacity
  /\ StartRehash(c, NoKey, NoValue)

\* One turn of the loop of rehash.
RehashEntry ==
  /\ job.busy
  /\ job.next <= Len(entries)
  /\ job' = [job EXCEPT
       !.next = @ + 1,
       !.new = IF entries[job.next].occupied
               THEN Fill(@, FreeBucket(@, entries[job.next].key), job.next)
               ELSE @]
  /\ UNCHANGED <<entries, table, len>>

\* mutant of RehashEnds: the last entry is left out
BadRehashEnds ==
  /\ job.busy
  /\ job.next >= Len(entries)
  /\ IF job.key = NoKey
     THEN table' = job.new /\ UNCHANGED <<entries, len>>
     ELSE Push(job.new, job.key, job.value)
  /\ job' = NoJob

\* The end of rehash, and the rest of insert_new.
RehashEnds ==
  /\ job.busy
  /\ job.next > Len(entries)
  /\ IF job.key = NoKey
     THEN table' = job.new /\ UNCHANGED <<entries, len>>
     ELSE Push(job.new, job.key, job.value)
  /\ job' = NoJob

Capacities == {c \in MinCapacity .. MaxCapacity : \E e \in 0 .. MaxCapacity : c = 2 ^ e}

Init ==
  /\ entries = <<>>
  /\ table = EmptyTable(0)
  /\ len = 0
  /\ job = NoJob

Next ==
  \/ \E k \in Keys, v \in Values : Set(k, v) \/ GetOrInsert(k, v)
  \/ \E k \in Keys : Erase(k)
  \/ Clear
  \/ \E c \in Capacities : Reserve(c)
  \/ RehashEntry
  \/ RehashEnds

Spec == Init /\ [][Next]_vars

-----------------------------------------------------------------------------
(* What it promises *)

Entry == [key : Keys, value : Values, occupied : BOOLEAN]

IsTable(t) ==
  /\ t = [capacity |-> t.capacity, buckets |-> t.buckets, used |-> t.used]
  /\ t.capacity \in Nat
  /\ t.buckets \in [0 .. t.capacity - 1 -> Int]
  /\ t.used \in Nat

TypeOK ==
  /\ entries \in Seq(Entry)
  /\ IsTable(table)
  /\ len \in Nat
  /\ job = [busy |-> job.busy, next |-> job.next, new |-> job.new,
             key |-> job.key, value |-> job.value]
  /\ job.busy \in BOOLEAN
  /\ job.next \in Nat
  /\ IsTable(job.new)
  /\ job.key \in Keys \cup {NoKey}
  /\ job.value \in Values \cup {NoValue}

\* The keys an iteration passes: those of the occupied entries, in their order.
Listed == {entries[i].key : i \in {j \in DOMAIN entries : entries[j].occupied}}

Content == [k \in Keys |-> IF Found(k) THEN entries[EntryOf(k)].value ELSE NoValue]

Map == INSTANCE AssocMap WITH content <- Content, listed <- Listed, size <- len

\* get, iteration and len of StableHashMap agree through insertions into deleted
\* buckets, growth, rehashes in place and failed allocations, and only the
\* operation called changes them.
ImplementsMap == Map!Spec

\* A pointer that set, get_or_insert or get handed out stays the entry of its key
\* until the key is erased or the map cleared, whatever else is inserted and however
\* often the buckets are rehashed.
PointersStay ==
  [][\A i \in DOMAIN entries : entries[i].occupied =>
       \/ /\ i \in DOMAIN entries'
          /\ entries'[i].key = entries[i].key
          /\ entries'[i].occupied
          /\ Found(entries[i].key)' /\ EntryOf(entries[i].key)' = i
       \/ entries[i].key \notin Listed']_vars

\* The assertion of rehash: every entry finds a bucket in the new table.
RehashFits ==
  job.busy /\ job.next <= Len(entries) /\ entries[job.next].occupied
    => HasFree(job.new, entries[job.next].key)
=============================================================================
