------------------------------- MODULE HashMap -------------------------------
(***************************************************************************)
(* The map of hash_map.h: one array of cells probed from the home of the   *)
(* key, Robin Hood order (a key never passes one that is nearer its home), *)
(* tombstones, and an insertion that closes the gaps tombstones leave.     *)
(*                                                                         *)
(* The seed of the hash is the address of the array, so every allocation   *)
(* gives the keys new homes.  An allocation may fail, with the debug       *)
(* assertion that says so left out of the build.  The map is used by one   *)
(* thread and an operation is one step.                                    *)
(***************************************************************************)
EXTENDS Integers, Sequences, FiniteSets

CONSTANTS
  Keys, Values, NoValue,
  Hashes,         \* the hash functions that an address may give
  MinLog2,        \* MAP_MIN_LOG2_CAPACITY; 3 in the code
  MaxLog2         \* the largest array there is memory for

VARIABLES
  data,           \* m_data: the array, its size and the hash of its keys
  len,            \* m_len
  handed          \* the key of the last set or get_or_insert, and the cell it handed out

vars == <<data, len, handed>>

NoCell == -1
Keyless == "KEYLESS"
Nothing == [key |-> Keyless, cell |-> NoCell]

-----------------------------------------------------------------------------
(* Cells: the hash is kept with the key, and stays when the key is erased *)

Empty == [key |-> Keyless, value |-> NoValue, hash |-> 0, used |-> FALSE]
Cell(h, k, v) == [key |-> k, value |-> v, hash |-> h, used |-> TRUE]
Tombstone(c) == [Empty EXCEPT !.hash = c.hash, !.used = TRUE]

IsEmpty(c) == ~c.used
IsDeleted(c) == c.used /\ c.key = Keyless
IsValid(c) == c.used /\ c.key # Keyless

NoData == [capacity |-> 0, hash |-> [k \in Keys |-> 0], cells |-> <<>>]

Allocate(log2, hash) ==
  [capacity |-> 2 ^ log2, hash |-> hash, cells |-> [i \in 0 .. 2 ^ log2 - 1 |-> Empty]]

Next1(d, i) == (i + 1) % d.capacity

\* probe_distance: how far cell c, found at i, is from its home.
Distance(d, c, i) == (i - c.hash) % d.capacity

-----------------------------------------------------------------------------
(* find_index *)

ProbeAt(d, k, n) == (d.hash[k] + n) % d.capacity

Matches(d, k, n) ==
  LET c == d.cells[ProbeAt(d, k, n)] IN IsValid(c) /\ c.key = k

\* The n-th probe gives up: nothing is there, or a cell nearer its home.
GivesUp(d, k, n) ==
  LET i == ProbeAt(d, k, n) IN
  IsEmpty(d.cells[i]) \/ n > Distance(d, d.cells[i], i)

RECURSIVE Probe(_, _, _)
Probe(d, k, n) ==
  CASE GivesUp(d, k, n) -> NoCell
    [] ~GivesUp(d, k, n) /\ Matches(d, k, n) -> ProbeAt(d, k, n)
    [] OTHER -> Probe(d, k, n + 1)

FindIndex(d, k) == IF len = 0 \/ d = NoData THEN NoCell ELSE Probe(d, k, 0)

-----------------------------------------------------------------------------
(* insert_hash_with_key.  w is the state of its loops: the array d, the cell  *)
(* carried, where it is and how far from its home, and the result.            *)

\* mutant of PutDown: the last one put down is the result
BadPutDown(w) == [w EXCEPT !.d.cells[w.at] = w.carried, !.result = w.at]

\* The cell carried is put down at w.at; the first one put down is the new key.
PutDown(w) ==
  [w EXCEPT !.d.cells[w.at] = w.carried, !.result = IF @ = NoCell THEN w.at ELSE @]

Onward(w) == [w EXCEPT !.at = Next1(w.d, @), !.distance = @ + 1]

\* Cells beyond the gap move back towards their homes until one is at home.
RECURSIVE ShiftBack(_, _, _)
ShiftBack(d, from, to) ==
  LET moved == [d EXCEPT !.cells[to] = d.cells[from], !.cells[from] = Empty]
      f == Next1(d, from)
      c == moved.cells[f]
      probe == Distance(d, c, f)
  IN IF IsEmpty(c) \/ probe = 0 THEN moved
     ELSE ShiftBack(moved, f, IF probe < (f - Next1(d, to)) % d.capacity
                              THEN (f - probe) % d.capacity ELSE Next1(d, to))

\* w.at is free, and so are the tombstones up to `ahead` cells beyond it.
RECURSIVE CloseGap(_, _)
CloseGap(w, ahead) ==
  LET f == (w.at + ahead) % w.d.capacity
      c == w.d.cells[f]
      probe == Distance(w.d, c, f)
  IN CASE IsDeleted(c) -> CloseGap([w EXCEPT !.d.cells[f] = Empty], ahead + 1)
       [] IsEmpty(c) -> PutDown(w)
       [] IsValid(c) /\ probe < ahead ->
            LET p == PutDown(w) IN
            IF probe = 0 THEN p
            ELSE [p EXCEPT !.d = ShiftBack(p.d, f, (f - probe) % w.d.capacity)]
       [] IsValid(c) /\ probe >= ahead /\ w.distance < probe - ahead ->
            CloseGap(Onward([w EXCEPT !.d.cells[w.at] = c, !.d.cells[f] = Empty]), ahead)
       [] OTHER ->
            CloseGap(Onward([PutDown(w) EXCEPT !.d.cells[f] = Empty, !.carried = c,
                                               !.distance = probe - ahead]), ahead)

RECURSIVE Displace(_)
Displace(w) ==
  LET c == w.d.cells[w.at]
      probe == Distance(w.d, c, w.at)
  IN CASE IsEmpty(c) -> PutDown(w)
       [] IsDeleted(c) -> CloseGap([w EXCEPT !.d.cells[w.at] = Empty], 1)
       [] IsValid(c) /\ w.distance > probe ->
            Displace(Onward([PutDown(w) EXCEPT !.carried = c, !.distance = probe]))
       [] OTHER -> Displace(Onward(w))

Insert(d, k, v) ==
  Displace([d |-> d, carried |-> Cell(d.hash[k], k, v), at |-> d.hash[k] % d.capacity,
            distance |-> 0, result |-> NoCell])

-----------------------------------------------------------------------------
(* reserve, grow, check_grow *)

\* The loop of reserve: the first m_len valid cells, in order, into the new array.
RECURSIVE Rehash(_, _, _, _)
Rehash(old, new, i, remaining) ==
  IF i = old.capacity \/ remaining = 0 THEN new
  ELSE LET c == old.cells[i] IN
       IF IsValid(c) THEN Rehash(old, Insert(new, c.key, c.value).d, i + 1, remaining - 1)
       ELSE Rehash(old, new, i + 1, remaining)

CeilLog2(n) == CHOOSE e \in 0 .. n : 2 ^ e >= n /\ \A f \in 0 .. e - 1 : 2 ^ f < n

\* The arrays that reserve(n) may leave; none when it has no memory.
Reserved(n) ==
  LET e == IF CeilLog2(n) > MinLog2 THEN CeilLog2(n) ELSE MinLog2 IN
  IF e > MaxLog2 THEN {}
  ELSE {Rehash(data, Allocate(e, h), 0, len) : h \in Hashes}

Threshold(d) == (d.capacity * 75) \div 100

NeedsToGrow == data = NoData \/ len >= Threshold(data)

\* The arrays that an insertion may find behind check_grow.
Grown ==
  IF ~NeedsToGrow THEN {data}
  ELSE Reserved(IF data = NoData THEN 2 ^ MinLog2 ELSE data.capacity * 2)

-----------------------------------------------------------------------------
(* The operations *)

InsertNew(k, v) ==
  \/ \E d \in Grown :
       LET w == Insert(d, k, v) IN
       /\ data' = w.d
       /\ len' = len + 1
       /\ handed' = [key |-> k, cell |-> w.result]
  \/ /\ NeedsToGrow
     /\ handed' = Nothing
     /\ UNCHANGED <<data, len>>

Set(k, v) ==
  LET i == FindIndex(data, k) IN
  IF i # NoCell
  THEN /\ data' = [data EXCEPT !.cells[i].value = v]
       /\ handed' = [key |-> k, cell |-> i]
       /\ UNCHANGED len
  ELSE InsertNew(k, v)

GetOrInsert(k, v) ==
  LET i == FindIndex(data, k) IN
  IF i # NoCell THEN handed' = [key |-> k, cell |-> i] /\ UNCHANGED <<data, len>>
  ELSE InsertNew(k, v)

\* mutant of Erase: no tombstone is left
BadErase(k) ==
  LET i == FindIndex(data, k) IN
  /\ i # NoCell
  /\ data' = [data EXCEPT !.cells[i] = Empty]
  /\ len' = len - 1
  /\ handed' = Nothing

\* A tombstone is left only where a probe for another key may pass.
Erase(k) ==
  LET i == FindIndex(data, k)
      n == Next1(data, i)
      passed == ~IsEmpty(data.cells[n]) /\ Distance(data, data.cells[n], n) # 0
  IN
  /\ i # NoCell
  /\ data' = [data EXCEPT !.cells[i] = IF passed THEN Tombstone(@) ELSE Empty]
  /\ len' = len - 1
  /\ handed' = Nothing

Clear ==
  /\ data # NoData
  /\ data' = [data EXCEPT !.cells = [i \in DOMAIN @ |-> Empty]]
  /\ len' = 0
  /\ handed' = Nothing

Reserve(n) ==
  /\ data.capacity < n
  /\ data' \in Reserved(n)
  /\ handed' = Nothing
  /\ UNCHANGED len

Init ==
  /\ data = NoData
  /\ len = 0
  /\ handed = Nothing

Next ==
  \/ \E k \in Keys, v \in Values : Set(k, v) \/ GetOrInsert(k, v)
  \/ \E k \in Keys : Erase(k)
  \/ Clear
  \/ \E e \in MinLog2 .. MaxLog2 : Reserve(2 ^ e)

Spec == Init /\ [][Next]_vars

-----------------------------------------------------------------------------
(* What it promises *)

Valid == {i \in DOMAIN data.cells : IsValid(data.cells[i])}

Listed == {data.cells[i].key : i \in Valid}

Content ==
  [k \in Keys |->
     LET i == FindIndex(data, k) IN IF i = NoCell THEN NoValue ELSE data.cells[i].value]

Map == INSTANCE AssocMap WITH content <- Content, listed <- Listed, size <- len

ImplementsMap == Map!Spec

\* The pointer that set and get_or_insert hand out is into the cell of their key, unless
\* every cell was taken, by a key or a tombstone: then the cells that
\* insert_hash_with_key moves to close the gap go round the whole array and may move the
\* new key out of the cell it has already noted.
HandedOutIsItsKey ==
  [][\/ handed'.cell = NoCell
     \/ data'.cells[handed'.cell].key = handed'.key
     \/ data # NoData /\ \A i \in DOMAIN data.cells : ~IsEmpty(data.cells[i])]_vars

\* The invariant of Robin Hood order that find_index relies on when it gives up early.
RobinHood ==
  \A i \in Valid : Distance(data, data.cells[i], i) > 0 =>
    LET p == (i - 1) % data.capacity IN
    /\ ~IsEmpty(data.cells[p])
    /\ Distance(data, data.cells[i], i) <= Distance(data, data.cells[p], p) + 1
=============================================================================
