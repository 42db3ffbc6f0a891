------------------------- MODULE TreeRefresh_proofs ------------------------
(* Proofs about TreeRefresh: for any changes by anyone, queues of any size  *)
(* and any interleaving, the tree on screen is never pulled away and no     *)
(* change is forgotten that the code does not throw away on purpose.        *)
EXTENDS TreeRefresh, SequenceTheorems, TLAPS

USE ChangesAreDisjoint, QueueAssumption, BoundAssumption

-----------------------------------------------------------------------------
(* What the queues hold *)

\* A sequence is empty, or it has a head.
LEMMA HeadOfOne ==
  ASSUME NEW S, NEW q \in Seq(S), Len(q) <= 1
  PROVE  /\ Len(q) = 0 <=> q = <<>>
         /\ q # <<>> => Len(q) = 1 /\ Head(q) = q[1] /\ q[1] \in S /\ Tail(q) = <<>>
                        /\ DOMAIN q = {1}
  <1>1. CASE q = <<>>
    BY <1>1, EmptySeq
  <1>2. CASE q # <<>>
    <2>1. Len(q) \in Nat \ {0}
      BY <1>2, EmptySeq
    <2>2. Len(q) = 1
      <3>1. \A n \in Nat \ {0} : n <= 1 => n = 1
        OBVIOUS
      <3>. QED  BY <2>1, <3>1
    <2>3. Tail(q) \in Seq(S) /\ Len(Tail(q)) = 0
      BY <1>2, <2>2, HeadTailProperties
    <2>4. Tail(q) = <<>>
      BY <2>3, EmptySeq
    <2>. QED  BY <1>2, <2>2, <2>4
  <1>. QED  BY <1>1, <1>2

\* Where the one fetch is, nothing else is.
LEMMA WhereTheFetchIs ==
  ASSUME Inv
  PROVE  /\ requests # <<>> => /\ Head(requests) = requests[1] /\ Head(requests) \in FetchRequest
                               /\ Tail(requests) = <<>> /\ ~Serving /\ results = <<>>
                               /\ DOMAIN requests = {1}
         /\ results # <<>> => /\ Head(results) = results[1] /\ Head(results) \in FetchResult
                              /\ Tail(results) = <<>> /\ ~Serving /\ requests = <<>>
                              /\ DOMAIN results = {1}
         /\ Serving => requests = <<>> /\ results = <<>>
         /\ host = "running" =>
              (fetch.pending <=> requests # <<>> \/ Serving \/ results # <<>>)
  <1>1. requests \in Seq(FetchRequest) /\ results \in Seq(FetchResult)
    BY DEF Inv, TypeOK
  <1>2. Len(requests) \in Nat /\ Len(results) \in Nat
    BY <1>1
  <1>3. Len(requests) + (IF Serving THEN 1 ELSE 0) + Len(results) <= 1
    BY DEF Inv, Protocol
  <1>4. Len(requests) <= 1 /\ Len(results) <= 1
    BY <1>2, <1>3
  <1>5. /\ Len(requests) = 0 <=> requests = <<>>
        /\ requests # <<>> => Len(requests) = 1 /\ Head(requests) = requests[1]
             /\ requests[1] \in FetchRequest /\ Tail(requests) = <<>> /\ DOMAIN requests = {1}
    BY <1>1, <1>4, HeadOfOne
  <1>6. /\ Len(results) = 0 <=> results = <<>>
        /\ results # <<>> => Len(results) = 1 /\ Head(results) = results[1]
             /\ results[1] \in FetchResult /\ Tail(results) = <<>> /\ DOMAIN results = {1}
    BY <1>1, <1>4, HeadOfOne
  <1>7. host = "running" =>
          Len(requests) + (IF Serving THEN 1 ELSE 0) + Len(results) = IF fetch.pending THEN 1 ELSE 0
    BY DEF Inv, OneFetch
  <1>8. fetch.pending \in BOOLEAN
    BY DEF Inv, TypeOK
  <1>. QED  BY <1>2, <1>3, <1>5, <1>6, <1>7, <1>8

\* An empty queue.
LEMMA EmptyQueue ==
  ASSUME NEW S, NEW q, q = <<>>
  PROVE  q \in Seq(S) /\ Len(q) = 0 /\ DOMAIN q = {}
  BY EmptySeq

\* A queue of one element.
LEMMA AppendToEmpty ==
  ASSUME NEW S, NEW q \in Seq(S), q = <<>>, NEW r \in S
  PROVE  /\ Append(q, r) \in Seq(S) /\ Len(Append(q, r)) = 1 /\ Append(q, r) # <<>>
         /\ Append(q, r)[1] = r /\ DOMAIN Append(q, r) = {1}
  <1>1. Append(q, r) \in Seq(S) /\ Len(Append(q, r)) = Len(q) + 1 /\ Len(q) = 0
    BY AppendProperties, EmptySeq
  <1>2. Append(q, r)[1] = r
    BY <1>1, AppendProperties
  <1>. QED  BY <1>1, <1>2, EmptySeq

-----------------------------------------------------------------------------
(* Steps that leave the fetch alone *)

\* The invariant holds initially.
LEMMA InitInv == Init => Inv
  <1>. SUFFICES ASSUME Init PROVE Inv
    OBVIOUS
  <1>. USE DEF Init, Idle, FirstFetch, FirstRequests, FirstContents, NoGit, Holds, NoTree
  <1>1. [gen |-> 1, arena |-> 1] \in FetchRequest
    BY DEF FetchRequest
  <1>2. requests \in Seq(FetchRequest) /\ Len(requests) = 1 /\ DOMAIN requests = {1}
        /\ requests[1].gen = 1 /\ requests[1].arena = 1
    BY <1>1
  <1>3. results \in Seq(FetchResult) /\ Len(results) = 0 /\ DOMAIN results = {}
    BY EmptyQueue
  <1>4. ~Serving
    BY DEF Serving
  <1>5. /\ fetch \in [pending : BOOLEAN, again : BOOLEAN, loading : BOOLEAN, gen : Nat]
        /\ contents \in [0..1 -> SUBSET SUBSET TreeChanges] /\ contents[0] = {{}}
        /\ worker \in [pc : {"poll", "reading", "push", "git", "exited"}, arena : 0..1,
                        gen : Nat, files : SUBSET TreeChanges, ok : BOOLEAN]
        /\ git \in [requests : 0..GitQueue, results : 0..GitQueue, left : 0..MaxGit]
    OBVIOUS
  <1>6. /\ host = "running" /\ stop = FALSE /\ disk = {} /\ tree = {} /\ index = 0
        /\ unseen = {} /\ changed = {} /\ ticks = "none" /\ ignoring = FALSE
        /\ discarded = {} /\ worker.pc = "poll"
        /\ fetch.gen = 1 /\ fetch.pending = TRUE /\ fetch.again = FALSE
    OBVIOUS
  <1>7. watching \in BOOLEAN
    OBVIOUS
  <1>. HIDE DEF Init, Idle, FirstFetch, FirstRequests, FirstContents, NoGit
  <1>8. TypeOK
    <2>1. /\ host \in {"running", "joining", "stopped"} /\ stop \in BOOLEAN
          /\ ignoring \in BOOLEAN /\ ticks \in {"none", "recent", "settled"}
      BY <1>6
    <2>2. /\ disk \in SUBSET Changes /\ tree \in SUBSET TreeChanges /\ index \in 0..1
          /\ unseen \in SUBSET Changes /\ changed \in SUBSET TreeChanges
          /\ discarded \in SUBSET TreeChanges
      BY <1>6
    <2>. QED  BY <1>2, <1>3, <1>5, <1>7, <2>1, <2>2 DEF TypeOK
  <1>9. (IF Serving THEN 1 ELSE 0) = 0
    BY <1>4
  <1>10. Protocol
    <2>1. stop = (host # "running")
      BY <1>6
    <2>2. Len(requests) + (IF Serving THEN 1 ELSE 0) + Len(results) <= 1
      BY <1>2, <1>3, <1>9
    <2>3. worker.pc # "exited" /\ worker.pc # "reading" /\ fetch.pending
      BY <1>6
    <2>. QED  BY <2>1, <2>2, <2>3 DEF Protocol
  <1>11. OneFetch
    BY <1>2, <1>3, <1>4, <1>6, <1>9 DEF OneFetch
  <1>12. TreeIsIntact
    BY <1>2, <1>3, <1>4, <1>5, <1>6 DEF TreeIsIntact
  <1>13. NothingIsForgotten
    BY <1>6 DEF NothingIsForgotten
  <1>. QED  BY <1>8, <1>10, <1>11, <1>12, <1>13 DEF Inv

\* Time passes.
LEMMA ClockInv ==
  ASSUME Inv, Clock
  PROVE  Inv'
  <1>1. UNCHANGED <<treeVars, fetchVars, results, worker, watching, unseen, changed, git,
                    discarded, lifeVars>>
    BY DEF Clock, Debounced, IgnoreEnds
  <1>. USE <1>1 DEF treeVars, fetchVars, lifeVars, Inv
  <1>2. ticks' \in {"none", "recent", "settled"} /\ ignoring' \in BOOLEAN
    BY DEF Clock, Debounced, IgnoreEnds, TypeOK
  <1>3. TypeOK'
    BY <1>2 DEF TypeOK
  <1>4. Serving' = Serving
    BY DEF Serving
  <1>5. Protocol' /\ OneFetch' /\ TreeIsIntact'
    BY <1>4 DEF Protocol, OneFetch, TreeIsIntact
  <1>6. NothingIsForgotten'
    BY <1>4 DEF NothingIsForgotten, Covers
  <1>. QED  BY <1>3, <1>5, <1>6

\* Requests and results of git go through the queues.
LEMMA GitInv ==
  ASSUME Inv, SubmitGit \/ SyncGit \/ WorkerTakesGit \/ WorkerPushesGit
  PROVE  Inv'
  <1>1. UNCHANGED <<treeVars, fetchVars, results, watchVars, discarded, lifeVars>>
    BY DEF SubmitGit, SyncGit, WorkerTakesGit, WorkerPushesGit
  <1>. USE <1>1 DEF treeVars, fetchVars, lifeVars, watchVars, Inv
  <1>2. git' \in [requests : 0..GitQueue, results : 0..GitQueue, left : 0..MaxGit]
    <2>1. /\ git \in [requests : 0..GitQueue, results : 0..GitQueue, left : 0..MaxGit]
          /\ git.requests \in 0..GitQueue /\ git.results \in 0..GitQueue /\ git.left \in 0..MaxGit
      BY DEF TypeOK
    <2>2. CASE SubmitGit
      <3>1. git.requests + 1 \in 0..GitQueue /\ git.left - 1 \in 0..MaxGit
        BY <2>1, <2>2 DEF SubmitGit
      <3>. QED  BY <2>1, <2>2, <3>1 DEF SubmitGit
    <2>3. CASE SyncGit
      <3>1. git.results - 1 \in 0..GitQueue
        BY <2>1, <2>3 DEF SyncGit
      <3>. QED  BY <2>1, <2>3, <3>1 DEF SyncGit
    <2>4. CASE WorkerTakesGit
      <3>1. git.requests - 1 \in 0..GitQueue
        BY <2>1, <2>4 DEF WorkerTakesGit
      <3>. QED  BY <2>1, <2>4, <3>1 DEF WorkerTakesGit
    <2>5. CASE WorkerPushesGit
      <3>1. git.results < GitQueue => git.results + 1 \in 0..GitQueue
        BY <2>1
      <3>. QED  BY <2>1, <2>5, <3>1 DEF WorkerPushesGit
    <2>. QED  BY <2>2, <2>3, <2>4, <2>5
  <1>3. worker' \in [pc : {"poll", "reading", "push", "git", "exited"}, arena : 0..1, gen : Nat,
                     files : SUBSET TreeChanges, ok : BOOLEAN]
    <2>1. CASE SubmitGit \/ SyncGit
      BY <2>1 DEF TypeOK, SubmitGit, SyncGit
    <2>2. CASE WorkerTakesGit
      BY <2>2 DEF TypeOK, WorkerTakesGit
    <2>3. CASE WorkerPushesGit
      BY <2>3 DEF WorkerPushesGit, Idle
    <2>. QED  BY <2>1, <2>2, <2>3
  <1>4. worker' = worker \/ (~Serving /\ ~Serving' /\ worker'.pc \notin {"reading", "exited"})
    BY DEF SubmitGit, SyncGit, WorkerTakesGit, WorkerPushesGit, Serving, Idle, TypeOK
  <1>5. TypeOK'
    BY <1>2, <1>3 DEF TypeOK
  <1>6. Serving' = Serving /\ (Serving => worker' = worker)
    BY <1>4 DEF Serving
  <1>7. Protocol' /\ OneFetch'
    BY <1>4, <1>6 DEF Protocol, OneFetch
  <1>8. TreeIsIntact'
    BY <1>4, <1>6 DEF TreeIsIntact, Serving
  <1>9. NothingIsForgotten'
    BY <1>6 DEF NothingIsForgotten, Covers
  <1>. QED  BY <1>5, <1>7, <1>8, <1>9

\* Another program changes the directory: the watcher has it to report.
LEMMA ExternalChangeInv ==
  ASSUME Inv, NEW c \in External \cup Writes, ExternalChange(c)
  PROVE  Inv'
  <1>. USE DEF Inv, ExternalChange
  <1>1. TypeOK'
    BY DEF TypeOK, Changes, TreeChanges, fetchVars, lifeVars
  <1>2. Serving' = Serving
    BY DEF Serving
  <1>3. Protocol' /\ OneFetch' /\ TreeIsIntact'
    BY <1>2 DEF Protocol, OneFetch, TreeIsIntact, fetchVars, lifeVars
  <1>4. NothingIsForgotten'
    BY <1>2 DEF NothingIsForgotten, Covers, fetchVars, TypeOK
  <1>. QED  BY <1>1, <1>3, <1>4

\* The watcher reports: what it reports becomes pending or is discarded.
LEMMA ConsumeChangeInv ==
  ASSUME Inv, ConsumeChange
  PROVE  Inv'
  <1>. USE DEF Inv
  <1>1. PICK report \in SUBSET unseen \ {{}}, restarted \in BOOLEAN :
          /\ watching' = restarted
          /\ unseen' = IF restarted THEN unseen \ report ELSE {}
          /\ changed' = IF ignoring THEN changed ELSE changed \cup (report \ Writes)
          /\ discarded' = discarded \cup (External \cap
               ((IF ignoring THEN report ELSE {}) \cup (IF restarted THEN {} ELSE unseen \ report)))
    BY DEF ConsumeChange
  <1>2. /\ UNCHANGED <<treeVars, fetchVars, results, worker, ignoring, git, lifeVars>>
        /\ ticks' = "recent"
    BY DEF ConsumeChange
  <1>. USE <1>2 DEF treeVars, fetchVars, lifeVars
  <1>3. /\ unseen' \in SUBSET Changes /\ changed' \in SUBSET TreeChanges
        /\ discarded' \in SUBSET TreeChanges /\ watching' \in BOOLEAN
    BY <1>1 DEF TypeOK, Changes, TreeChanges
  <1>4. TypeOK'
    BY <1>3 DEF TypeOK
  <1>5. Serving' = Serving
    BY DEF Serving
  <1>6. Protocol' /\ OneFetch' /\ TreeIsIntact'
    BY <1>5 DEF Protocol, OneFetch, TreeIsIntact
  <1>7. \A c \in External \cap (unseen \cup changed) :
          c \in discarded' \/ c \in External \cap (unseen' \cup changed')
    BY <1>1 DEF TreeChanges
  <1>8. discarded \subseteq discarded'
    BY <1>1
  <1>9. NothingIsForgotten'
    BY <1>5, <1>7, <1>8 DEF NothingIsForgotten, Covers
  <1>. QED  BY <1>4, <1>6, <1>9

-----------------------------------------------------------------------------
(* request_launch_tree_refresh *)

FetchFields == [pending : BOOLEAN, again : BOOLEAN, loading : BOOLEAN, gen : Nat]
Arenas == [0..1 -> SUBSET SUBSET TreeChanges]

\* A refresh is asked of the fetch that is pending, or is put in the empty
\* queue and gets the other arena.
LEMMA RefreshEffect ==
  ASSUME NEW f \in FetchFields, NEW at \in 0..1, NEW mem \in Arenas,
         requests \in Seq(FetchRequest), ~f.pending => requests = <<>>,
         RequestRefresh(f, at, mem)
  PROVE  /\ requests' \in Seq(FetchRequest) /\ fetch' \in FetchFields /\ contents' \in Arenas
         /\ f.pending => /\ requests' = requests /\ contents' = mem
                         /\ fetch' = [f EXCEPT !.again = TRUE, !.loading = TRUE]
         /\ ~f.pending =>
              /\ Len(requests') = 1 /\ DOMAIN requests' = {1} /\ requests' # <<>>
              /\ requests'[1] = [gen |-> f.gen + 1, arena |-> 1 - at]
              /\ contents' = [mem EXCEPT ![1 - at] = NoTree]
              /\ fetch' = [f EXCEPT !.pending = TRUE, !.loading = TRUE, !.gen = f.gen + 1]
  <1>1. CASE f.pending
    BY <1>1 DEF RequestRefresh, FetchFields
  <1>2. CASE ~f.pending
    <2>. DEFINE r == [gen |-> f.gen + 1, arena |-> 1 - at]
    <2>1. r \in FetchRequest
      BY DEF FetchFields, FetchRequest
    <2>2. Len(requests) < TreeQueue
      BY <1>2, EmptySeq
    <2>3. /\ requests' = Append(requests, r)
          /\ contents' = [mem EXCEPT ![1 - at] = NoTree]
          /\ fetch' = [f EXCEPT !.pending = TRUE, !.loading = TRUE, !.gen = f.gen + 1]
      BY <1>2, <2>2 DEF RequestRefresh
    <2>4. /\ requests' \in Seq(FetchRequest) /\ Len(requests') = 1 /\ DOMAIN requests' = {1}
          /\ requests' # <<>> /\ requests'[1] = r
      BY <1>2, <2>1, <2>3, AppendToEmpty
    <2>5. contents' \in Arenas
      BY <2>3 DEF Arenas, NoTree
    <2>6. fetch' \in FetchFields
      <3>1. f.gen + 1 \in Nat
        BY DEF FetchFields
      <3>. QED  BY <2>3, <3>1 DEF FetchFields
    <2>. QED  BY <1>2, <2>3, <2>4, <2>5, <2>6
  <1>. QED  BY <1>1, <1>2

\* A refresh asked for between two results keeps every invariant, and
\* covers every change, however the directory and the watcher changed.
LEMMA HostRefreshInv ==
  ASSUME Inv, host = "running", RequestRefresh(fetch, index, contents),
         UNCHANGED <<tree, index, results, worker, lifeVars>>
  PROVE  /\ Protocol' /\ OneFetch' /\ TreeIsIntact' /\ NothingIsForgotten'
         /\ requests' \in Seq(FetchRequest) /\ fetch' \in FetchFields /\ contents' \in Arenas
  <1>. USE DEF lifeVars
  <1>1. /\ fetch \in FetchFields /\ index \in 0..1 /\ contents \in Arenas
        /\ requests \in Seq(FetchRequest) /\ results \in Seq(FetchResult)
    BY DEF Inv, TypeOK, FetchFields, Arenas
  <1>2. /\ ~fetch.pending => requests = <<>> /\ results = <<>> /\ ~Serving
        /\ Serving' = Serving
    BY WhereTheFetchIs DEF Serving
  <1>3. /\ requests' \in Seq(FetchRequest) /\ fetch' \in FetchFields /\ contents' \in Arenas
        /\ fetch.pending => /\ requests' = requests /\ contents' = contents
                            /\ fetch' = [fetch EXCEPT !.again = TRUE, !.loading = TRUE]
        /\ ~fetch.pending =>
              /\ Len(requests') = 1 /\ DOMAIN requests' = {1} /\ requests' # <<>>
              /\ requests'[1] = [gen |-> fetch.gen + 1, arena |-> 1 - index]
              /\ contents' = [contents EXCEPT ![1 - index] = NoTree]
              /\ fetch' = [fetch EXCEPT !.pending = TRUE, !.loading = TRUE, !.gen = fetch.gen + 1]
    BY <1>1, <1>2, RefreshEffect
  <1>4. CASE fetch.pending
    <2>1. /\ requests' = requests /\ contents' = contents /\ fetch'.pending /\ fetch'.again
          /\ fetch'.gen = fetch.gen
      BY <1>1, <1>3, <1>4 DEF FetchFields
    <2>2. Protocol' /\ OneFetch' /\ TreeIsIntact'
      BY <1>2, <1>4, <2>1 DEF Inv, Protocol, OneFetch, TreeIsIntact
    <2>3. NothingIsForgotten'
      BY <2>1 DEF NothingIsForgotten
    <2>. QED  BY <1>3, <2>2, <2>3
  <1>5. CASE ~fetch.pending
    <2>a. /\ fetch'.gen = fetch.gen + 1 /\ fetch'.pending
      BY <1>1, <1>3, <1>5 DEF FetchFields
    <2>b. requests'[1].gen = fetch'.gen /\ requests'[1].arena = 1 - index
      BY <1>3, <1>5, <2>a
    <2>c. contents'[index] = contents[index]
      BY <1>1, <1>3, <1>5 DEF Arenas
    <2>1. /\ Len(requests') = 1 /\ DOMAIN requests' = {1} /\ requests' # <<>>
          /\ requests'[1].gen = fetch'.gen /\ requests'[1].arena = 1 - index
          /\ fetch'.pending /\ contents'[index] = contents[index]
      BY <1>3, <1>5, <2>a, <2>b, <2>c
    <2>2. ~Serving' /\ results' = <<>> /\ Len(results') = 0 /\ DOMAIN results' = {}
      BY <1>2, <1>5, EmptySeq
    <2>3. Protocol' /\ OneFetch'
      BY <2>1, <2>2 DEF Inv, Protocol, OneFetch
    <2>4. TreeIsIntact'
      BY <1>1, <2>1, <2>2 DEF Inv, TreeIsIntact, Serving
    <2>5. NothingIsForgotten'
      BY <2>1 DEF NothingIsForgotten, Covers
    <2>. QED  BY <1>3, <2>3, <2>4, <2>5
  <1>. QED  BY <1>4, <1>5

\* The reports have settled: a refresh, or nothing to do.
LEMMA SettleChangeInv ==
  ASSUME Inv, SettleChange
  PROVE  Inv'
  <1>1. /\ host = "running" /\ ticks' = "none" /\ changed' = {}
        /\ UNCHANGED <<disk, tree, index, results, worker, watching, unseen, ignoring, git,
                       discarded, lifeVars>>
    BY DEF SettleChange
  <1>2. CASE changed # {}
    <2>1. RequestRefresh(fetch, index, contents)
      BY <1>2 DEF SettleChange
    <2>2. /\ Protocol' /\ OneFetch' /\ TreeIsIntact' /\ NothingIsForgotten'
          /\ requests' \in Seq(FetchRequest) /\ fetch' \in FetchFields /\ contents' \in Arenas
      BY <1>1, <2>1, HostRefreshInv
    <2>3. TypeOK'
      BY <1>1, <2>2 DEF Inv, TypeOK, FetchFields, Arenas, lifeVars
    <2>. QED  BY <2>2, <2>3 DEF Inv
  <1>3. CASE changed = {}
    <2>1. UNCHANGED <<contents, fetch, requests>>
      BY <1>3 DEF SettleChange, fetchVars
    <2>. USE <1>1, <1>3, <2>1 DEF Inv, lifeVars
    <2>2. TypeOK'
      BY DEF TypeOK
    <2>3. Serving' = Serving
      BY DEF Serving
    <2>4. Protocol' /\ OneFetch' /\ TreeIsIntact'
      BY <2>3 DEF Protocol, OneFetch, TreeIsIntact
    <2>5. NothingIsForgotten'
      BY <2>3 DEF NothingIsForgotten, Covers
    <2>. QED  BY <2>2, <2>4, <2>5
  <1>. QED  BY <1>2, <1>3

\* An operation of the editor: in place, or through a refresh.
LEMMA TreeOperationInv ==
  ASSUME Inv, NEW c \in Ops, TreeOperation(c)
  PROVE  Inv'
  <1>1. /\ host = "running" /\ disk' = disk \cup {c}
        /\ unseen' = IF watching THEN unseen \cup {c} ELSE unseen
        /\ UNCHANGED <<results, worker, watching, git, lifeVars>>
    BY DEF TreeOperation
  <1>2. disk' \in SUBSET Changes /\ unseen' \in SUBSET Changes /\ c \in TreeChanges
    BY <1>1 DEF Inv, TypeOK, Changes, TreeChanges
  <1>3. CASE OpRefreshes(c)
    <2>1. /\ RequestRefresh(fetch, index, contents)
          /\ UNCHANGED <<tree, index, ticks, changed, ignoring, discarded>>
      BY <1>3 DEF OpRefreshes
    <2>2. /\ Protocol' /\ OneFetch' /\ TreeIsIntact' /\ NothingIsForgotten'
          /\ requests' \in Seq(FetchRequest) /\ fetch' \in FetchFields /\ contents' \in Arenas
      BY <1>1, <2>1, HostRefreshInv
    <2>3. TypeOK'
      BY <1>1, <1>2, <2>1, <2>2 DEF Inv, TypeOK, FetchFields, Arenas, lifeVars
    <2>. QED  BY <2>2, <2>3 DEF Inv
  <1>4. CASE OpInPlace(c)
    <2>. USE DEF Inv, lifeVars
    <2>1. /\ tree' = tree \cup {c}
          /\ contents' = [contents EXCEPT ![index] = Holds(tree')]
          /\ ticks' = "none" /\ changed' = {} /\ ignoring' = TRUE
          /\ fetch' = [fetch EXCEPT !.again = fetch.again \/ fetch.pending]
          /\ discarded' = discarded \cup (changed \cap External)
          /\ UNCHANGED <<index, requests>>
      BY <1>4 DEF OpInPlace
    <2>2. /\ contents \in Arenas /\ index \in 0..1 /\ tree' \in SUBSET TreeChanges
          /\ fetch \in FetchFields
      BY <1>2, <2>1 DEF TypeOK, Arenas, FetchFields
    <2>3. contents' \in Arenas /\ contents'[index] = Holds(tree') /\ contents'[1 - index] = contents[1 - index]
      BY <2>1, <2>2 DEF Arenas, Holds
    <2>4. /\ fetch' \in FetchFields /\ fetch'.pending = fetch.pending /\ fetch'.gen = fetch.gen
          /\ fetch'.again = (fetch.again \/ fetch.pending)
      BY <2>1, <2>2 DEF FetchFields
    <2>5. TypeOK'
      BY <1>1, <1>2, <2>1, <2>2, <2>3, <2>4 DEF TypeOK, Arenas, FetchFields
    <2>6. Serving' = Serving
      BY <1>1 DEF Serving
    <2>7. Protocol' /\ OneFetch'
      BY <1>1, <2>1, <2>4, <2>6 DEF Protocol, OneFetch
    <2>8. \A a \in 0..1 : a # index => a = 1 - index
      BY <2>2
    <2>9. /\ worker.arena \in 0..1
          /\ \A i \in DOMAIN results : results[i].arena \in 0..1
      <3>1. results \in Seq(FetchResult) /\ worker.arena \in 0..1
        BY DEF TypeOK
      <3>2. \A i \in DOMAIN results : results[i] \in FetchResult
        BY <3>1, ElementOfSeq
      <3>. QED  BY <3>1, <3>2 DEF FetchResult
    <2>10. TreeIsIntact'
      BY <1>1, <2>1, <2>3, <2>6, <2>8, <2>9 DEF TreeIsIntact, Serving
    <2>11. NothingIsForgotten'
      BY <1>1, <2>1, <2>4, <2>6 DEF NothingIsForgotten, Covers
    <2>. QED  BY <2>5, <2>7, <2>10, <2>11
  <1>. QED  BY <1>3, <1>4 DEF TreeOperation

\* A result is taken: the tree and its arena change together, and a refresh
\* that was asked for meanwhile is started.
LEMMA SyncInv ==
  ASSUME Inv, Sync
  PROVE  Inv'
  <1>. DEFINE r == Head(results)
              f == [fetch EXCEPT !.pending = FALSE, !.again = FALSE]
              at == IF r.ok THEN r.arena ELSE index
              m == IF r.ok THEN [contents EXCEPT ![index] = NoTree] ELSE contents
  <1>1. /\ host = "running" /\ results # <<>> /\ results' = Tail(results)
        /\ UNCHANGED <<disk, worker, watchVars, git, lifeVars>>
    BY DEF Sync
  <1>2. /\ r = results[1] /\ r \in FetchResult /\ results' = <<>> /\ DOMAIN results = {1}
        /\ ~Serving /\ requests = <<>> /\ fetch.pending
    BY <1>1, WhereTheFetchIs
  <1>3. r.gen = fetch.gen
    BY <1>1, <1>2 DEF Inv, OneFetch
  <1>4. /\ tree' = IF r.ok THEN r.files ELSE tree
        /\ index' = at
        /\ discarded' = IF r.ok \/ fetch.again THEN discarded ELSE discarded \cup (r.files \ tree)
        /\ IF fetch.again
             THEN RequestRefresh(f, at, m)
             ELSE /\ fetch' = [f EXCEPT !.loading = FALSE]
                  /\ contents' = m /\ UNCHANGED requests
    BY <1>3 DEF Sync
  <1>5. /\ r.ok \in BOOLEAN /\ r.files \in SUBSET TreeChanges /\ r.arena \in 0..1
        /\ r.arena # index /\ (r.ok => contents[r.arena] = Holds(r.files))
        /\ contents[index] = Holds(tree)
    BY <1>1, <1>2 DEF Inv, TreeIsIntact, FetchResult
  <1>6. /\ tree \in SUBSET TreeChanges /\ index \in 0..1 /\ contents \in Arenas
        /\ fetch \in FetchFields /\ discarded \in SUBSET TreeChanges
        /\ requests \in Seq(FetchRequest)
    BY DEF Inv, TypeOK, Arenas, FetchFields
  <1>7. /\ f \in FetchFields /\ ~f.pending /\ ~f.again /\ f.gen = fetch.gen
    BY <1>6 DEF FetchFields
  <1>8. m \in Arenas
    BY <1>6 DEF Arenas, NoTree
  <1>. HIDE DEF f
  <1>9. \A c \in disk \ Writes :
          \/ fetch.again \/ c \in r.files
          \/ c \in discarded
          \/ c \in External \cap (unseen \cup changed)
    BY <1>1, <1>2 DEF Inv, NothingIsForgotten, Covers
  <1>. HIDE DEF r
  <1>10. /\ tree' \in SUBSET TreeChanges /\ index' \in 0..1 /\ discarded' \in SUBSET TreeChanges
         /\ m[index'] = Holds(tree')
    BY <1>4, <1>5, <1>6 DEF Arenas
  <1>. HIDE DEF m
  <1>a. at \in 0..1
    BY <1>5, <1>6
  <1>. HIDE DEF at
  <1>11. ~Serving' /\ Len(results') = 0 /\ DOMAIN results' = {} /\ results' \in Seq(FetchResult)
    <2>1. ~Serving'
      BY <1>1, <1>2 DEF Serving
    <2>. QED  BY <1>2, <2>1, EmptyQueue
  <1>12. CASE fetch.again
    <2>1. /\ requests' \in Seq(FetchRequest) /\ fetch' \in FetchFields /\ contents' \in Arenas
          /\ Len(requests') = 1 /\ DOMAIN requests' = {1} /\ requests' # <<>>
          /\ requests'[1] = [gen |-> f.gen + 1, arena |-> 1 - at]
          /\ contents' = [m EXCEPT ![1 - at] = NoTree]
          /\ fetch' = [f EXCEPT !.pending = TRUE, !.loading = TRUE, !.gen = f.gen + 1]
      BY <1>2, <1>4, <1>6, <1>7, <1>8, <1>a, <1>12, RefreshEffect
    <2>2. fetch'.gen = f.gen + 1 /\ fetch'.pending
      BY <1>7, <2>1 DEF FetchFields
    <2>3. requests'[1].gen = fetch'.gen /\ requests'[1].arena = 1 - index'
      BY <1>4, <2>1, <2>2
    <2>4. contents'[index'] = Holds(tree')
      BY <1>4, <1>8, <1>a, <1>10, <2>1 DEF Arenas
    <2>5. TypeOK'
      BY <1>1, <1>10, <1>11, <2>1 DEF Inv, TypeOK, FetchFields, Arenas, watchVars, lifeVars
    <2>6. Protocol' /\ OneFetch'
      BY <1>1, <1>11, <2>1, <2>2, <2>3 DEF Inv, Protocol, OneFetch, lifeVars
    <2>7. TreeIsIntact'
      BY <1>10, <1>11, <2>1, <2>3, <2>4 DEF TreeIsIntact, Serving
    <2>8. NothingIsForgotten'
      BY <2>1, <2>2 DEF NothingIsForgotten, Covers
    <2>. QED  BY <2>5, <2>6, <2>7, <2>8 DEF Inv
  <1>13. CASE ~fetch.again
    <2>1. /\ fetch' = [f EXCEPT !.loading = FALSE]
          /\ contents' = m /\ requests' = <<>>
      BY <1>2, <1>4, <1>13
    <2>2. /\ fetch' \in FetchFields /\ ~fetch'.pending /\ ~fetch'.again
      BY <1>7, <2>1 DEF FetchFields
    <2>3. Len(requests') = 0 /\ DOMAIN requests' = {} /\ requests' \in Seq(FetchRequest)
      BY <2>1, EmptyQueue
    <2>4. TypeOK'
      BY <1>1, <1>8, <1>10, <1>11, <2>1, <2>2, <2>3
         DEF Inv, TypeOK, FetchFields, Arenas, watchVars, lifeVars
    <2>5. Protocol' /\ OneFetch'
      BY <1>1, <1>11, <2>2, <2>3 DEF Inv, Protocol, OneFetch, lifeVars
    <2>6. TreeIsIntact'
      BY <1>10, <1>11, <2>1, <2>3 DEF TreeIsIntact, Serving
    <2>7. \A c \in disk \ Writes :
            \/ c \in tree' \/ c \in discarded'
            \/ c \in External \cap (unseen \cup changed)
      BY <1>4, <1>9, <1>13
    <2>8. NothingIsForgotten'
      BY <1>1, <2>2, <2>7 DEF NothingIsForgotten, watchVars
    <2>. QED  BY <2>4, <2>5, <2>6, <2>8 DEF Inv
  <1>. QED  BY <1>12, <1>13

-----------------------------------------------------------------------------
(* The worker *)

\* The thread ends.
LEMMA WorkerExitInv ==
  ASSUME Inv, WorkerExit
  PROVE  Inv'
  <1>1. /\ worker.pc = "poll" /\ stop /\ worker' = [worker EXCEPT !.pc = "exited"]
        /\ UNCHANGED <<treeVars, fetchVars, results, watchVars, git, discarded, lifeVars>>
    BY DEF WorkerExit
  <1>. USE <1>1 DEF treeVars, fetchVars, watchVars, lifeVars, Inv
  <1>2. TypeOK'
    BY DEF TypeOK
  <1>3. ~Serving /\ ~Serving' /\ worker'.pc = "exited" /\ host # "running"
    BY DEF Serving, TypeOK, Protocol
  <1>4. Protocol' /\ OneFetch'
    BY <1>3 DEF Protocol, OneFetch
  <1>5. TreeIsIntact' /\ NothingIsForgotten'
    BY <1>3 DEF TreeIsIntact, NothingIsForgotten, Serving
  <1>. QED  BY <1>2, <1>4, <1>5

\* The worker takes the request and begins to read what is there.
LEMMA WorkerTakesFetchInv ==
  ASSUME Inv, WorkerTakesFetch
  PROVE  Inv'
  <1>. DEFINE r == Head(requests)
  <1>1. /\ worker.pc = "poll" /\ ~stop /\ requests # <<>> /\ requests' = Tail(requests)
        /\ worker' = [pc |-> "reading", arena |-> r.arena, gen |-> r.gen,
                      files |-> disk \ Writes, ok |-> FALSE]
        /\ UNCHANGED <<treeVars, fetch, results, watchVars, git, discarded, lifeVars>>
    BY DEF WorkerTakesFetch
  <1>2. /\ r = requests[1] /\ r \in FetchRequest /\ requests' = <<>> /\ results = <<>>
        /\ DOMAIN requests = {1}
    BY <1>1, WhereTheFetchIs
  <1>3. /\ host = "running" /\ fetch.pending
    BY <1>1, WhereTheFetchIs DEF Inv, Protocol, TypeOK
  <1>4. r.gen = fetch.gen /\ r.arena # index
    BY <1>2, <1>3 DEF Inv, OneFetch, TreeIsIntact
  <1>5. r.gen \in Nat /\ r.arena \in 0..1
    BY <1>2 DEF FetchRequest
  <1>. HIDE DEF r
  <1>. USE <1>1 DEF treeVars, watchVars, lifeVars
  <1>6. /\ requests' \in Seq(FetchRequest) /\ Len(requests') = 0 /\ DOMAIN requests' = {}
        /\ Len(results') = 0 /\ DOMAIN results' = {}
    BY <1>2, EmptyQueue
  <1>7. disk \ Writes \in SUBSET TreeChanges
    BY DEF Inv, TypeOK, Changes
  <1>8. TypeOK'
    BY <1>5, <1>6, <1>7 DEF Inv, TypeOK
  <1>9. Serving'
    BY DEF Serving
  <1>10. Protocol' /\ OneFetch'
    BY <1>3, <1>4, <1>6, <1>9 DEF Inv, Protocol, OneFetch
  <1>11. TreeIsIntact'
    BY <1>3, <1>4, <1>6 DEF Inv, TreeIsIntact
  <1>12. NothingIsForgotten'
    BY <1>3, <1>9 DEF NothingIsForgotten, Covers
  <1>. QED  BY <1>8, <1>10, <1>11, <1>12 DEF Inv

\* The directory is read into the other arena, or it is not.
LEMMA WorkerReadsInv ==
  ASSUME Inv, WorkerReads
  PROVE  Inv'
  <1>1. /\ worker.pc = "reading"
        /\ UNCHANGED <<disk, tree, index, fetchVars, results, watchVars, git, discarded, lifeVars>>
    BY DEF WorkerReads
  <1>2. Serving /\ requests = <<>> /\ results = <<>>
    BY <1>1, WhereTheFetchIs DEF Serving
  <1>3. /\ worker.arena \in 0..1 /\ contents \in Arenas
        /\ worker \in [pc : {"poll", "reading", "push", "git", "exited"}, arena : 0..1, gen : Nat,
                       files : SUBSET TreeChanges, ok : BOOLEAN]
    BY DEF Inv, TypeOK, Arenas
  <1>4. \E files \in SUBSET TreeChanges :
          /\ worker.files \subseteq files
          /\ \/ /\ contents' = [contents EXCEPT ![worker.arena] = Holds(files)]
                /\ worker' = [worker EXCEPT !.pc = "push", !.files = files, !.ok = TRUE]
             \/ contents' = contents /\ worker' = [worker EXCEPT !.pc = "push"]
    <2>1. disk \ Writes \subseteq TreeChanges
      BY DEF Inv, TypeOK, Changes
    <2>2. worker.files \in SUBSET TreeChanges
      BY <1>3
    <2>. QED  BY <2>1, <2>2 DEF WorkerReads
  <1>5. PICK files \in SUBSET TreeChanges :
          /\ worker.files \subseteq files
          /\ \/ /\ contents' = [contents EXCEPT ![worker.arena] = Holds(files)]
                /\ worker' = [worker EXCEPT !.pc = "push", !.files = files, !.ok = TRUE]
             \/ contents' = contents /\ worker' = [worker EXCEPT !.pc = "push"]
    BY <1>4
  <1>. USE <1>1 DEF fetchVars, watchVars, lifeVars
  <1>6. /\ worker' \in [pc : {"poll", "reading", "push", "git", "exited"}, arena : 0..1, gen : Nat,
                        files : SUBSET TreeChanges, ok : BOOLEAN]
        /\ worker'.pc = "push" /\ worker'.arena = worker.arena /\ worker'.gen = worker.gen
        /\ worker.files \subseteq worker'.files
    BY <1>3, <1>5
  <1>7. contents' \in Arenas
    BY <1>3, <1>5 DEF Arenas, Holds
  <1>8. TypeOK'
    BY <1>6, <1>7 DEF Inv, TypeOK, Arenas
  <1>9. Serving'
    BY <1>6 DEF Serving
  <1>10. Protocol' /\ OneFetch'
    BY <1>2, <1>6, <1>9 DEF Inv, Protocol, OneFetch
  <1>11. TreeIsIntact'
    <2>1. CASE contents' = [contents EXCEPT ![worker.arena] = Holds(files)]
               /\ worker' = [worker EXCEPT !.pc = "push", !.files = files, !.ok = TRUE]
      <3>1. worker'.files = files /\ contents'[worker.arena] = Holds(files)
        BY <1>3, <2>1 DEF Arenas
      <3>2. worker.arena # index /\ host # "stopped" => contents'[index] = contents[index]
        BY <1>3, <2>1 DEF Arenas
      <3>. QED  BY <1>2, <1>6, <3>1, <3>2 DEF Inv, TreeIsIntact
    <2>2. CASE contents' = contents /\ worker' = [worker EXCEPT !.pc = "push"]
      <3>1. ~worker'.ok
        BY <1>1, <1>3, <2>2 DEF Inv, Protocol
      <3>. QED  BY <1>2, <1>6, <2>2, <3>1 DEF Inv, TreeIsIntact
    <2>. QED  BY <1>5, <2>1, <2>2
  <1>12. NothingIsForgotten'
    BY <1>2, <1>6, <1>9 DEF Inv, NothingIsForgotten, Covers
  <1>. QED  BY <1>8, <1>10, <1>11, <1>12 DEF Inv

\* The result is in the queue, or nobody will take it.
LEMMA WorkerPushesInv ==
  ASSUME Inv, WorkerPushes
  PROVE  Inv'
  <1>. DEFINE r == [gen |-> worker.gen, arena |-> worker.arena,
                    files |-> worker.files, ok |-> worker.ok]
  <1>1. /\ worker.pc = "push"
        /\ UNCHANGED <<treeVars, fetchVars, watchVars, git, discarded, lifeVars>>
        /\ worker' = IF worker.ok THEN [worker EXCEPT !.pc = "git"] ELSE Idle
        /\ \/ ~stop /\ results' = Append(results, r)
           \/ stop /\ results' = results
    BY DEF WorkerPushes
  <1>2. Serving /\ requests = <<>> /\ results = <<>>
    BY <1>1, WhereTheFetchIs DEF Serving
  <1>3. /\ worker \in [pc : {"poll", "reading", "push", "git", "exited"}, arena : 0..1, gen : Nat,
                       files : SUBSET TreeChanges, ok : BOOLEAN]
        /\ results \in Seq(FetchResult)
    BY DEF Inv, TypeOK
  <1>4. r \in FetchResult
    BY <1>3 DEF FetchResult
  <1>. USE <1>1 DEF treeVars, fetchVars, watchVars, lifeVars
  <1>5. /\ worker' \in [pc : {"poll", "reading", "push", "git", "exited"}, arena : 0..1, gen : Nat,
                        files : SUBSET TreeChanges, ok : BOOLEAN]
        /\ worker'.pc \in {"git", "poll"}
    BY <1>3 DEF Idle
  <1>6. ~Serving'
    BY <1>5 DEF Serving
  <1>7. Len(requests) = 0 /\ DOMAIN requests = {} /\ Len(results) = 0 /\ DOMAIN results = {}
    BY <1>2, EmptyQueue
  <1>8. CASE ~stop
    <2>1. host = "running" /\ fetch.pending
      BY <1>2, <1>8, WhereTheFetchIs DEF Inv, Protocol, TypeOK
    <2>a. results' = Append(results, r)
      BY <1>8
    <2>. HIDE DEF r
    <2>b. /\ Append(results, r) \in Seq(FetchResult) /\ Len(Append(results, r)) = 1
          /\ Append(results, r) # <<>> /\ Append(results, r)[1] = r
          /\ DOMAIN Append(results, r) = {1}
      <3>1. results \in Seq(FetchResult) /\ results = <<>> /\ r \in FetchResult
        BY <1>2, <1>3, <1>4
      <3>. HIDE <1>1
      <3>. QED  BY <3>1, AppendToEmpty
    <2>2. /\ results' \in Seq(FetchResult) /\ Len(results') = 1 /\ results' # <<>>
          /\ results'[1] = r /\ DOMAIN results' = {1}
      BY <2>a, <2>b
    <2>3. /\ r.gen = worker.gen /\ r.arena = worker.arena /\ r.files = worker.files
          /\ r.ok = worker.ok
      BY DEF r
    <2>4. TypeOK'
      BY <1>5, <2>2 DEF Inv, TypeOK
    <2>5. Protocol' /\ OneFetch'
      BY <1>2, <1>5, <1>6, <1>7, <2>1, <2>2, <2>3 DEF Inv, Protocol, OneFetch
    <2>6. TreeIsIntact'
      BY <1>2, <1>5, <1>6, <1>7, <2>1, <2>2, <2>3 DEF Inv, TreeIsIntact
    <2>7. NothingIsForgotten'
      BY <1>2, <2>1, <2>2, <2>3 DEF Inv, NothingIsForgotten, Covers
    <2>. QED  BY <2>4, <2>5, <2>6, <2>7 DEF Inv
  <1>9. CASE stop
    <2>1. host # "running" /\ results' = results
      BY <1>9 DEF Inv, Protocol
    <2>2. TypeOK'
      BY <1>5, <2>1 DEF Inv, TypeOK
    <2>3. Protocol' /\ OneFetch'
      BY <1>5, <1>6, <1>7, <1>9, <2>1 DEF Inv, Protocol, OneFetch
    <2>4. TreeIsIntact'
      BY <1>5, <1>6, <1>7, <2>1 DEF Inv, TreeIsIntact
    <2>5. NothingIsForgotten'
      BY <2>1 DEF NothingIsForgotten
    <2>. QED  BY <2>2, <2>3, <2>4, <2>5 DEF Inv
  <1>. QED  BY <1>8, <1>9

-----------------------------------------------------------------------------
(* The life of a workspace *)

\* The host asks the worker to stop.
LEMMA StopInv ==
  ASSUME Inv, Stop
  PROVE  Inv'
  <1>1. /\ host = "running" /\ stop' = TRUE /\ host' = "joining"
        /\ UNCHANGED <<treeVars, fetchVars, results, worker, watchVars, git, discarded>>
    BY DEF Stop
  <1>. USE <1>1 DEF treeVars, fetchVars, watchVars, Inv
  <1>2. TypeOK'
    BY DEF TypeOK
  <1>3. Serving' = Serving
    BY DEF Serving
  <1>4. Protocol' /\ OneFetch' /\ TreeIsIntact'
    BY <1>3 DEF Protocol, OneFetch, TreeIsIntact
  <1>5. NothingIsForgotten'
    BY DEF NothingIsForgotten
  <1>. QED  BY <1>2, <1>4, <1>5

\* Another workspace begins as the first one did.
LEMMA RestartInv ==
  ASSUME Restart
  PROVE  Inv'
  <1>. USE DEF Restart, Idle, FirstFetch, FirstRequests, FirstContents, NoGit, Holds, NoTree
  <1>1. [gen |-> 1, arena |-> 1] \in FetchRequest
    BY DEF FetchRequest
  <1>2. requests' \in Seq(FetchRequest) /\ Len(requests') = 1 /\ DOMAIN requests' = {1}
        /\ requests'[1] = [gen |-> 1, arena |-> 1]
    BY <1>1
  <1>3. results' \in Seq(FetchResult) /\ Len(results') = 0 /\ DOMAIN results' = {}
    BY EmptyQueue
  <1>4. ~Serving'
    BY DEF Serving
  <1>a. /\ host' = "running" /\ stop' = FALSE /\ disk' = {} /\ tree' = {} /\ index' = 0
        /\ fetch' = [pending |-> TRUE, again |-> FALSE, loading |-> TRUE, gen |-> 1]
        /\ unseen' = {} /\ changed' = {} /\ ticks' = "none" /\ ignoring' = FALSE /\ discarded' = {}
    OBVIOUS
  <1>b. /\ contents' \in [0..1 -> SUBSET SUBSET TreeChanges] /\ contents'[0] = {{}}
        /\ worker' = [pc |-> "poll", arena |-> 0, gen |-> 0, files |-> {}, ok |-> FALSE]
    OBVIOUS
  <1>c. git' \in [requests : 0..GitQueue, results : 0..GitQueue, left : 0..MaxGit]
    OBVIOUS
  <1>i. watching' \in BOOLEAN
    OBVIOUS
  <1>j. /\ fetch' \in [pending : BOOLEAN, again : BOOLEAN, loading : BOOLEAN, gen : Nat]
        /\ worker' \in [pc : {"poll", "reading", "push", "git", "exited"}, arena : 0..1,
                         gen : Nat, files : SUBSET TreeChanges, ok : BOOLEAN]
    BY <1>a, <1>b
  <1>. HIDE DEF Restart, Idle, FirstFetch, FirstRequests, FirstContents, NoGit
  <1>5. TypeOK'
    BY <1>2, <1>3, <1>a, <1>b, <1>c, <1>i, <1>j DEF TypeOK
  <1>d. requests'[1].gen = 1 /\ requests'[1].arena = 1 /\ worker'.pc = "poll"
        /\ fetch'.gen = 1 /\ fetch'.pending = TRUE /\ fetch'.again = FALSE
    BY <1>2, <1>a, <1>b
  <1>f. /\ (IF Serving' THEN 1 ELSE 0) = 0
        /\ Len(requests') + (IF Serving' THEN 1 ELSE 0) + Len(results') = 1
    BY <1>2, <1>3, <1>4
  <1>g. Protocol'
    <2>1. stop' = (host' # "running")
      BY <1>a
    <2>2. /\ worker'.pc = "exited" => stop'
          /\ worker'.pc = "reading" => ~worker'.ok
          /\ host' = "running" /\ fetch'.again => fetch'.pending
      BY <1>d
    <2>3. Len(requests') + (IF Serving' THEN 1 ELSE 0) + Len(results') <= 1
      BY <1>f
    <2>. QED  BY <2>1, <2>2, <2>3 DEF Protocol
  <1>h. OneFetch'
    BY <1>2, <1>3, <1>4, <1>a, <1>d, <1>f DEF OneFetch
  <1>6. Protocol' /\ OneFetch'
    BY <1>g, <1>h
  <1>e. TreeIsIntact'
    BY <1>2, <1>3, <1>4, <1>a, <1>b, <1>d DEF TreeIsIntact
  <1>7. NothingIsForgotten'
    BY <1>a DEF NothingIsForgotten
  <1>. QED  BY <1>5, <1>6, <1>e, <1>7 DEF Inv

\* The program ends.
LEMMA QuitInv ==
  ASSUME Inv, Quit
  PROVE  Inv'
  <1>1. /\ host = "joining" /\ worker.pc = "exited" /\ host' = "stopped"
        /\ requests' = <<>> /\ results' = <<>>
        /\ contents' = [a \in 0..1 |-> NoTree]
        /\ git' = [git EXCEPT !.requests = 0, !.results = 0]
        /\ UNCHANGED <<disk, tree, index, fetch, worker, watchVars, discarded, stop>>
    BY DEF Quit
  <1>. USE <1>1 DEF watchVars, Inv
  <1>2. /\ requests' \in Seq(FetchRequest) /\ Len(requests') = 0 /\ DOMAIN requests' = {}
        /\ results' \in Seq(FetchResult) /\ Len(results') = 0 /\ DOMAIN results' = {}
    BY EmptyQueue
  <1>3. git' \in [requests : 0..GitQueue, results : 0..GitQueue, left : 0..MaxGit]
    <2>1. git \in [requests : 0..GitQueue, results : 0..GitQueue, left : 0..MaxGit]
      BY DEF TypeOK
    <2>2. 0 \in 0..GitQueue
      OBVIOUS
    <2>. QED  BY <2>1, <2>2
  <1>4. contents' \in [0..1 -> SUBSET SUBSET TreeChanges]
    BY DEF NoTree
  <1>5. TypeOK'
    BY <1>2, <1>3, <1>4 DEF TypeOK
  <1>6. ~Serving'
    BY DEF Serving
  <1>7. Protocol' /\ OneFetch' /\ TreeIsIntact' /\ NothingIsForgotten'
    BY <1>2, <1>6 DEF Protocol, OneFetch, TreeIsIntact, NothingIsForgotten
  <1>. QED  BY <1>5, <1>7

-----------------------------------------------------------------------------
(* The theorems *)

\* Every step keeps the invariant.
LEMMA StepInv ==
  ASSUME Inv, [Next]_vars
  PROVE  Inv'
  <1>1. CASE Clock
    BY <1>1, ClockInv
  <1>2. CASE \E c \in External \cup Writes : ExternalChange(c)
    BY <1>2, ExternalChangeInv
  <1>3. CASE \E c \in Ops : TreeOperation(c)
    BY <1>3, TreeOperationInv
  <1>4. CASE Sync
    BY <1>4, SyncInv
  <1>5. CASE ConsumeChange
    BY <1>5, ConsumeChangeInv
  <1>6. CASE SettleChange
    BY <1>6, SettleChangeInv
  <1>7. CASE SubmitGit \/ SyncGit \/ WorkerTakesGit \/ WorkerPushesGit
    BY <1>7, GitInv
  <1>8. CASE Stop
    BY <1>8, StopInv
  <1>9. CASE Restart
    BY <1>9, RestartInv
  <1>10. CASE Quit
    BY <1>10, QuitInv
  <1>11. CASE WorkerExit
    BY <1>11, WorkerExitInv
  <1>12. CASE WorkerTakesFetch
    BY <1>12, WorkerTakesFetchInv
  <1>13. CASE WorkerReads
    BY <1>13, WorkerReadsInv
  <1>14. CASE WorkerPushes
    BY <1>14, WorkerPushesInv
  <1>15. CASE UNCHANGED vars
    <2>. USE <1>15 DEF vars, treeVars, fetchVars, watchVars, lifeVars, Inv
    <2>1. TypeOK'
      BY DEF TypeOK
    <2>2. Serving' = Serving
      BY DEF Serving
    <2>3. Protocol' /\ OneFetch' /\ TreeIsIntact'
      BY <2>2 DEF Protocol, OneFetch, TreeIsIntact
    <2>4. NothingIsForgotten'
      BY <2>2 DEF NothingIsForgotten, Covers
    <2>. QED  BY <2>1, <2>3, <2>4
  <1>. QED
    BY <1>1, <1>2, <1>3, <1>4, <1>5, <1>6, <1>7, <1>8, <1>9, <1>10, <1>11, <1>12, <1>13, <1>14,
       <1>15
       DEF Next, Host, HostHandlers, Worker, Others

\* The invariant and what makes it inductive hold in every state, whatever
\* the host, the worker and the watcher do.
THEOREM Invariance == SafeSpec => []Inv
  <1>1. Init => Inv
    BY InitInv
  <1>2. Inv /\ [Next]_vars => Inv'
    BY StepInv
  <1>. QED  BY <1>1, <1>2, PTL DEF SafeSpec

\* Type correctness: the queues of git stay within their capacity.
THEOREM TypeCorrect == SafeSpec => []TypeOK
  BY Invariance, PTL DEF Inv

\* The single-fetch discipline behind the two arenas: request, worker and
\* result together are one fetch, of the generation the host waits for.
THEOREM FetchIsSingle == SafeSpec => []OneFetch
  BY Invariance, PTL DEF Inv

\* The worker never writes the arena the host shows, and a result still
\* holds what was read when the host takes it.
THEOREM ArenasAreDisjoint == SafeSpec => []TreeIsIntact
  BY Invariance, PTL DEF Inv

\* No change in the directory is lost between the watcher, a running fetch
\* and the operations of the editor, except those whose report is discarded.
THEOREM NoChangeIsForgotten == SafeSpec => []NothingIsForgotten
  BY Invariance, PTL DEF Inv
=============================================================================
