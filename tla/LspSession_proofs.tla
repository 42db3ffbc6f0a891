--------------------------- MODULE LspSession_proofs ---------------------------
(***************************************************************************)
(* Theorems about LspSession, for any files, servers and revisions: types, *)
(* that no process outlives its client, that a document is opened once and *)
(* changed only while it is open, that what the editor has recorded as     *)
(* synchronised is what the server has, and that the two tables of         *)
(* requests agree.  The lemmas follow the calls: one for each operator on  *)
(* a session, from what is sent up to a frame.                             *)
(***************************************************************************)
EXTENDS LspSession, TLAPS

Sessions == [c : ClientType, s : ServerType, e : EditorType]
HeardIn(x) == x.c.stdin /\ x.s.reads
EarlyIn(x) == x.c.id \in Clangd /\ ~x.c.database

\* A process belongs to a client that is started with a known server.
Tracked(x) ==
    /\ x.s.reads => x.s.alive
    /\ x.s.alive => x.c.started
    /\ x.c.started => x.c.id \in Servers

\* What the status says: a client that is not started has failed or is new, and
\* one that counts as ready is initialised unless it was started with a warning.
Told(x) ==
    /\ ~x.c.started => x.c.status = "FAILED" \/ x.c = OffClient
    /\ Ready(x) => EarlyIn(x) \/ x.c.initialized
    /\ ~x.c.initialized => x.c.doc = NoDoc

\* The documents of a server that hears the client, when d is what the editor
\* has recorded: none is open but d and the client's, d is open if it is the
\* client's, and has the revision recorded unless the server was early.
Documents(x, d) ==
    HeardIn(x) =>
        /\ \A p \in Paths : x.s.docs[p] # Closed => p = d.path /\ p = x.c.doc.path
        /\ d.path # NoPath /\ d.path = x.c.doc.path => x.s.docs[d.path] # Closed
        /\ x.c.initialized /\ ~EarlyIn(x) /\ d.path # NoPath => x.s.docs[d.path] = d.rev

Kept(x) == x.s.errors \cap {"open twice", "change closed"} = {}
Tables(x) == HeardIn(x) => x.c.requests = x.s.asked

InvWith(x, d) ==
    /\ x \in Sessions /\ d \in Doc
    /\ d.path = NoPath => d = NoDoc
    /\ Tracked(x) /\ Told(x) /\ Documents(x, d) /\ Kept(x) /\ Tables(x)

InvOf(x) == InvWith(x, x.e.synced)

\* Between frames what is recorded was recorded by a client that was initialised,
\* unless it was early.
Recorded(x) == x.c.started /\ ~EarlyIn(x) /\ x.e.synced.path # NoPath => x.c.initialized

Inv == InvOf(session) /\ Recorded(session) /\ commands \in 0..MaxCommands

\* What sending leaves alone.
SameButSent(x, y) ==
    /\ y.e = x.e
    /\ y.c.started = x.c.started /\ y.c.initialized = x.c.initialized
    /\ y.c.status = x.c.status /\ y.c.id = x.c.id /\ y.c.database = x.c.database

-----------------------------------------------------------------------------
(* Sending *)

LEMMA DocFacts ==
    /\ NoDoc \in Doc /\ NoDoc.path = NoPath
    /\ Closed \in Nat /\ Closed \notin 0..MaxRev /\ 0..MaxRev \subseteq 0..Closed
    /\ Closed \in 0..Closed
BY SessionAssumption DEF NoDoc, Doc, Files, Closed

LEMMA OffFacts ==
    /\ OffClient \in ClientType /\ NoProcess \in ServerType
    /\ ~OffClient.started /\ ~OffClient.stdin /\ OffClient.status = "OFF"
    /\ OffClient.doc = NoDoc
BY DocFacts DEF OffClient, NoProcess, ClientType, ServerType, Statuses

\* Writes to two fields deep in a session.
Shut(y) == [y EXCEPT !.c.stdin = FALSE]

LEMMA ShutFacts ==
    ASSUME NEW y \in Sessions, NEW z, z = Shut(y)
    PROVE  /\ z \in Sessions /\ z.s = y.s /\ SameButSent(y, z)
           /\ z.c.doc = y.c.doc /\ ~z.c.stdin
<1>1. z \in Sessions /\ z.e = y.e /\ z.s = y.s /\ z.c = [y.c EXCEPT !.stdin = FALSE]
  BY DEF Sessions, ClientType, Shut
<1> QED BY <1>1 DEF Sessions, ClientType, SameButSent

WithDoc(y, p, r) == [y EXCEPT !.s.docs[p] = r]

LEMMA DocsFacts ==
    ASSUME NEW y \in Sessions, NEW p \in Paths, NEW r \in 0..Closed,
           NEW z, z = WithDoc(y, p, r)
    PROVE  /\ z \in Sessions /\ z.c = y.c /\ z.e = y.e
           /\ z.s.alive = y.s.alive /\ z.s.reads = y.s.reads
           /\ z.s.asked = y.s.asked /\ z.s.errors = y.s.errors
           /\ z.s.docs[p] = r /\ \A q \in Paths \ {p} : z.s.docs[q] = y.s.docs[q]
<1>1. y.s \in ServerType /\ y.s.docs \in [Paths -> 0..Closed]
  BY DEF Sessions, ServerType
<1>2. z.c = y.c /\ z.e = y.e /\ z.s = [y.s EXCEPT !.docs[p] = r]
  BY DEF Sessions, WithDoc
<1>3. /\ z.s.docs = [y.s.docs EXCEPT ![p] = r]
      /\ z.s.alive = y.s.alive /\ z.s.reads = y.s.reads
      /\ z.s.asked = y.s.asked /\ z.s.errors = y.s.errors
  BY <1>1, <1>2 DEF ServerType
<1>4. z.s.docs \in [Paths -> 0..Closed]
  BY <1>1, <1>3
<1>5. z.s \in ServerType
  BY <1>1, <1>2, <1>4 DEF ServerType
<1>6. z \in Sessions
  BY <1>2, <1>5 DEF Sessions, WithDoc
<1> QED BY <1>1, <1>2, <1>3, <1>6

\* What neither opens nor closes a document, and keeps the tables together, keeps
\* the invariant.
LEMMA QuietKeeps ==
    ASSUME NEW x, NEW y, NEW d, InvWith(x, d), x.c.started, y \in Sessions,
           SameButSent(x, y), y.c.doc = x.c.doc, y.s.docs = x.s.docs,
           y.s.alive = x.s.alive, y.s.reads = x.s.reads, y.c.stdin => x.c.stdin,
           Kept(y), Tables(y)
    PROVE  InvWith(y, d)
<1>1. Tracked(y) /\ Told(y)
  BY DEF InvWith, SameButSent, Tracked, Told, Ready, EarlyIn
<1>2. Documents(y, d)
  BY DEF InvWith, SameButSent, Documents, HeardIn, EarlyIn
<1> QED BY <1>1, <1>2 DEF InvWith

\* A request leaves the documents alone and keeps the tables together, whether it
\* is written, dropped or finds the pipe broken.
LEMMA RequestKeeps ==
    ASSUME NEW x, NEW d, InvWith(x, d), x.c.started, NEW kind \in Kinds, NEW r \in Doc
    PROVE  /\ InvWith(SendRequest(x, kind, r), d)
           /\ SameButSent(x, SendRequest(x, kind, r))
           /\ SendRequest(x, kind, r).c.doc = x.c.doc
           /\ SendRequest(x, kind, r).s.docs = x.s.docs
<1> DEFINE q == [kind |-> kind, doc |-> r, uri |-> x.c.doc.path]
           y == [x EXCEPT !.c.requests = @ \cup {q}]
           broken == kind # "INITIALIZE" /\ (q.uri = NoPath \/ y.s.docs[q.uri] = Closed)
           told == [Error(y, "request closed", broken) EXCEPT !.s.asked = @ \cup {q}]
           shut == [y EXCEPT !.c.stdin = FALSE]
<1>1. q \in Request
  BY DEF InvWith, Sessions, ClientType, Request, Doc
<1>2. x \in Sessions /\ Kept(x) /\ Tables(x)
  BY DEF InvWith
<1>3. /\ y \in Sessions /\ y.s = x.s /\ SameButSent(x, y)
      /\ y.c.doc = x.c.doc /\ y.c.stdin = x.c.stdin /\ y.c.requests = x.c.requests \cup {q}
  <2> HIDE DEF q
  <2>1. y \in Sessions /\ y.e = x.e /\ y.s = x.s /\ y.c = [x.c EXCEPT !.requests = @ \cup {q}]
    BY <1>1, <1>2 DEF Sessions, ClientType
  <2> QED BY <1>2, <2>1 DEF Sessions, ClientType, SameButSent
<1>4. /\ told \in Sessions /\ told.e = y.e /\ told.c = y.c
      /\ told.s.reads = x.s.reads /\ told.s.alive = x.s.alive /\ told.s.docs = x.s.docs
      /\ told.s.asked = x.s.asked \cup {q}
      /\ told.s.errors \subseteq x.s.errors \cup {"request closed"}
  <2> HIDE DEF y, q, broken
  <2>1. CASE broken
    BY <1>1, <1>2, <1>3, <2>1 DEF Error, Sessions, ServerType, ProtocolErrors
  <2>2. CASE ~broken
    BY <1>1, <1>2, <1>3, <2>2 DEF Error, Sessions, ServerType, ProtocolErrors
  <2> QED BY <2>1, <2>2
<1>5. /\ shut \in Sessions /\ shut.s = x.s /\ SameButSent(y, shut)
      /\ shut.c.doc = x.c.doc /\ ~shut.c.stdin
  BY <1>3, ShutFacts DEF Shut
<1>6. SendRequest(x, kind, r) = Deliver(y, told)
  BY DEF SendRequest
<1> HIDE DEF y, q, told, shut
<1>7. told.e = y.e /\ told.c = y.c => SameButSent(x, told)
  BY <1>3 DEF SameButSent
<1>8. CASE ~y.c.stdin
  <2>1. SendRequest(x, kind, r) = y
    BY <1>6, <1>8 DEF Deliver
  <2>2. Kept(y) /\ Tables(y)
    BY <1>2, <1>3, <1>8 DEF Kept, Tables, HeardIn
  <2> QED BY <1>3, <2>1, <2>2, QuietKeeps
<1>9. CASE y.c.stdin /\ ~y.s.reads
  <2>1. SendRequest(x, kind, r) = shut
    BY <1>6, <1>9 DEF Deliver, shut
  <2>2. Kept(shut) /\ Tables(shut) /\ SameButSent(x, shut)
    BY <1>2, <1>3, <1>5 DEF Kept, Tables, HeardIn, SameButSent
  <2> QED BY <1>3, <1>5, <2>1, <2>2, QuietKeeps
<1>10. CASE y.c.stdin /\ y.s.reads
  <2>1. SendRequest(x, kind, r) = told
    BY <1>6, <1>10 DEF Deliver
  <2>2. Kept(told)
    BY <1>2, <1>4 DEF Kept
  <2>3. Tables(told)
    BY <1>2, <1>3, <1>4, <1>10 DEF Tables, HeardIn
  <2>4. SameButSent(x, told) /\ told.c.doc = x.c.doc /\ told.c.stdin = x.c.stdin
    BY <1>3, <1>4, <1>7
  <2> QED BY <1>3, <1>4, <2>1, <2>2, <2>3, <2>4, QuietKeeps
<1> QED BY <1>8, <1>9, <1>10

WithClientDoc(x, d) == [x EXCEPT !.c.doc = d]

\* Opening or changing the document in view keeps the invariant, with that
\* document recorded, if the protocol allows it of a server that hears it.
LEMMA WriteKeeps ==
    ASSUME NEW x, InvOf(x), x.c.started, x.c.initialized,
           NEW d \in Doc, d.path \in Paths, x.e.synced.path \in {NoPath, d.path},
           NEW y, y = WithClientDoc(x, d),
           NEW z, ~y.c.stdin => z = y,
           y.c.stdin /\ ~y.s.reads => z = Shut(y),
           y.c.stdin /\ y.s.reads => z = WithDoc(y, d.path, d.rev)
    PROVE  InvWith(z, d) /\ SameButSent(x, z)
<1>1. x \in Sessions /\ Tracked(x) /\ Told(x) /\ Documents(x, x.e.synced) /\ Kept(x) /\ Tables(x)
  BY DEF InvOf, InvWith
<1>2. /\ y \in Sessions /\ y.s = x.s /\ SameButSent(x, y) /\ y.c.doc = d
      /\ y.c.stdin = x.c.stdin /\ y.c.requests = x.c.requests
  <2>1. y \in Sessions /\ y.e = x.e /\ y.s = x.s /\ y.c = [x.c EXCEPT !.doc = d]
    BY <1>1 DEF Sessions, ClientType, WithClientDoc
  <2> QED BY <1>1, <2>1 DEF Sessions, ClientType, SameButSent
<1>3. d.path # NoPath /\ d.rev \in 0..Closed /\ d.rev # Closed
  BY SessionAssumption, DocFacts DEF Doc
<1>4. Tracked(z) /\ Told(z) /\ Documents(z, d) /\ Kept(z) /\ Tables(z) /\ z \in Sessions
        => InvWith(z, d)
  BY <1>3 DEF InvWith
<1>5. CASE ~y.c.stdin
  <2>1. z = y
    BY <1>5
  <2>2. Tracked(z) /\ Told(z) /\ Documents(z, d) /\ Kept(z) /\ Tables(z)
    BY <1>1, <1>2, <1>5, <2>1 DEF Tracked, Told, Ready, EarlyIn, Documents, HeardIn, Kept,
       Tables, SameButSent
  <2> QED BY <1>2, <1>4, <2>1, <2>2
<1>6. CASE y.c.stdin /\ ~y.s.reads
  <2>1. z = Shut(y)
    BY <1>6
  <2>3. z \in Sessions /\ z.s = x.s /\ SameButSent(x, z) /\ z.c.doc = d /\ ~z.c.stdin
    BY <1>2, <2>1, ShutFacts, ZenonT(40) DEF SameButSent
  <2>4. Tracked(z) /\ Told(z) /\ Documents(z, d) /\ Kept(z) /\ Tables(z)
    BY <1>1, <2>3 DEF Tracked, Told, Ready, EarlyIn, Documents, HeardIn, Kept,
       Tables, SameButSent
  <2> QED BY <1>4, <2>3, <2>4
<1>7. CASE y.c.stdin /\ y.s.reads
  <2>1. HeardIn(x)
    BY <1>2, <1>7 DEF HeardIn
  <2>2. z = WithDoc(y, d.path, d.rev)
    BY <1>7
  <2>3. y \in Sessions /\ d.rev \in 0..Closed
    BY <1>2, <1>3
  <2>4. /\ z \in Sessions /\ z.c = y.c /\ z.e = y.e
        /\ z.s.alive = x.s.alive /\ z.s.reads = x.s.reads
        /\ z.s.asked = x.s.asked /\ z.s.errors = x.s.errors
        /\ z.s.docs[d.path] = d.rev
        /\ \A p \in Paths \ {d.path} : z.s.docs[p] = x.s.docs[p]
    BY <1>2, <2>2, <2>3, DocsFacts
  <2>5. SameButSent(x, z) /\ z.c.doc = d /\ z.c.requests = x.c.requests
    BY <1>2, <2>4 DEF SameButSent
  <2>6. Tracked(z) /\ Told(z) /\ Kept(z) /\ Tables(z)
    BY <1>1, <2>1, <2>4, <2>5 DEF Tracked, Told, Ready, EarlyIn, HeardIn, Kept,
       Tables, SameButSent
  <2>7. Documents(z, d)
    <3>1. ASSUME NEW p \in Paths, z.s.docs[p] # Closed
          PROVE  p = d.path
      <4>1. CASE p # d.path
        <5>1. x.s.docs[p] # Closed
          BY <2>4, <3>1, <4>1
        <5>2. p = x.e.synced.path
          BY <1>1, <2>1, <5>1 DEF Documents
        <5> QED BY <4>1, <5>2, SessionAssumption
      <4> QED BY <4>1
    <3>2. z.s.docs[d.path] = d.rev
      BY <2>4
    <3> QED BY <1>3, <2>5, <3>1, <3>2 DEF Documents
  <2> QED BY <1>4, <2>4, <2>6, <2>5, <2>7
<1> QED BY <1>5, <1>6, <1>7

\* The editor's document, opened or changed; an early server is told nothing.
LEMMA SyncKeeps ==
    ASSUME NEW x, InvOf(x), Ready(x), x.e.file \in Paths,
           x.e.synced.path \in {NoPath, x.e.file},
           NEW y, y = Send(x, IF x.e.synced.path = x.e.file THEN "DID_CHANGE" ELSE "DID_OPEN",
                           Focused(x))
    PROVE  InvWith(y, Focused(x)) /\ SameButSent(x, y)
<1> DEFINE d == Focused(x)
<1>1. x \in Sessions /\ Tracked(x) /\ Told(x) /\ Documents(x, x.e.synced) /\ Kept(x) /\ Tables(x)
  BY DEF InvOf, InvWith
<1>2. d \in Doc /\ d.path = x.e.file /\ d.path \in Paths /\ d.path # NoPath
  BY <1>1, SessionAssumption DEF Focused, Doc, Files, Sessions, EditorType
<1>3. x.c.started
  BY <1>1, OffFacts DEF Told, Ready
<1> HIDE DEF d
<1>4. CASE ~x.c.initialized
  <2>1. y = x
    BY <1>4 DEF Send, d
  <2>2. x.c.doc.path = NoPath
    BY <1>1, <1>4, DocFacts DEF Told
  <2>3. Documents(x, d)
    BY <1>1, <1>2, <1>4, <2>2, SessionAssumption DEF Documents
  <2> QED BY <1>1, <1>2, <2>1, <2>3 DEF InvWith, SameButSent, d
<1>5. CASE x.c.initialized /\ (x.e.synced.path # x.e.file \/ x.c.doc.path # d.path)
  <2>1. y = SendOpen(x, d)
    BY <1>3, <1>5 DEF Send, SendChange, d
  <2> DEFINE w == [x EXCEPT !.c.doc = d]
  <2>2. w.s = x.s
    BY <1>1 DEF Sessions
  <2>3. HeardIn(x) => x.s.docs[d.path] = Closed
    BY <1>1, <1>2, <1>5 DEF Documents
  <2>4. y = Deliver(w, [Error(w, "open twice", w.s.docs[d.path] # Closed)
                           EXCEPT !.s.docs[d.path] = d.rev])
    BY <2>1 DEF SendOpen
  <2>5. HeardIn(x) <=> w.c.stdin /\ w.s.reads
    BY <1>1, <2>2 DEF HeardIn, Sessions, ClientType
  <2>6. w = WithClientDoc(x, d)
    BY DEF w, WithClientDoc
  <2> HIDE DEF w
  <2>7. /\ ~w.c.stdin => y = w
        /\ w.c.stdin /\ ~w.s.reads => y = Shut(w)
        /\ w.c.stdin /\ w.s.reads => y = WithDoc(w, d.path, d.rev)
    BY <2>2, <2>3, <2>4, <2>5 DEF Deliver, Error, Shut, WithDoc
  <2>8. x.e.synced.path \in {NoPath, d.path}
    BY <1>2
  <2> QED BY <1>2, <1>3, <1>5, <2>6, <2>7, <2>8, WriteKeeps DEF d
<1>6. CASE x.c.initialized /\ x.e.synced.path = x.e.file /\ x.c.doc.path = d.path
  <2> DEFINE w == [x EXCEPT !.c.doc = d]
  <2>1. y = Deliver(w, [Error(w, "change closed", w.s.docs[d.path] = Closed)
                           EXCEPT !.s.docs[d.path] = d.rev])
    BY <1>3, <1>6 DEF Send, SendChange, d
  <2>2. w.s = x.s
    BY <1>1 DEF Sessions
  <2>3. HeardIn(x) => x.s.docs[d.path] # Closed
    BY <1>1, <1>2, <1>6 DEF Documents
  <2> HIDE DEF w
  <2>5. HeardIn(x) <=> w.c.stdin /\ w.s.reads
    BY <1>1, <2>2 DEF HeardIn, Sessions, ClientType, w
  <2>6. w = WithClientDoc(x, d)
    BY DEF w, WithClientDoc
  <2>7. /\ ~w.c.stdin => y = w
        /\ w.c.stdin /\ ~w.s.reads => y = Shut(w)
        /\ w.c.stdin /\ w.s.reads => y = WithDoc(w, d.path, d.rev)
    BY <2>1, <2>2, <2>3, <2>5 DEF Deliver, Error, Shut, WithDoc
  <2>8. x.e.synced.path \in {NoPath, d.path}
    BY <1>2
  <2> QED BY <1>2, <1>3, <1>6, <2>6, <2>7, <2>8, WriteKeeps DEF d
<1> QED BY <1>4, <1>5, <1>6

\* After a close nothing is recorded and nothing is open.
LEMMA UnsyncKeeps ==
    ASSUME NEW x, InvOf(x)
    PROVE  /\ InvOf(Unsync(x)) /\ Unsync(x).e.synced.path = NoPath
           /\ Unsync(x).e.file = x.e.file /\ Unsync(x).e.rev = x.e.rev
<1> DEFINE d == x.e.synced
           y == Send(x, "DID_CLOSE", d)
           z == Forget(y)
<1>1. x \in Sessions /\ Tracked(x) /\ Told(x) /\ Documents(x, d) /\ Kept(x) /\ Tables(x)
  BY DEF InvOf, InvWith
<1>2. CASE d.path = NoPath
  BY <1>2 DEF Unsync
<1>3. CASE d.path # NoPath
  <2>1. Unsync(x) = z
    BY <1>3 DEF Unsync
  <2>2. d.path \in Paths
    BY <1>1, <1>3 DEF Sessions, EditorType, Doc, Files
  <2>3. /\ y \in Sessions /\ y.e = x.e /\ Tracked(y) /\ Told(y) /\ Kept(y) /\ Tables(y)
        /\ y.c.started = x.c.started
        /\ HeardIn(y) => \A p \in Paths : y.s.docs[p] = Closed
    <3> DEFINE told == [Error(x, "close closed", x.s.docs[d.path] = Closed)
                            EXCEPT !.s.docs[d.path] = Closed]
               broken == x.s.docs[d.path] = Closed
               v == Error(x, "close closed", broken)
    <3>1. CASE ~x.c.started
      <4>1. y = x
        BY <3>1 DEF Send
      <4> QED BY <1>1, <3>1, <4>1 DEF Tracked, HeardIn
    <3>2. CASE x.c.started /\ ~x.c.stdin
      <4>1. y = x
        BY <3>2 DEF Send, SendClose, Deliver
      <4> QED BY <1>1, <3>2, <4>1 DEF HeardIn
    <3>3. CASE x.c.started /\ x.c.stdin /\ ~x.s.reads
      <4>1. y = Shut(x)
        BY <3>3 DEF Send, SendClose, Deliver, Shut
      <4>2. /\ y \in Sessions /\ y.s = x.s /\ SameButSent(x, y)
            /\ y.c.doc = x.c.doc /\ ~y.c.stdin
        BY <1>1, <4>1, ShutFacts
      <4> QED BY <1>1, <3>3, <4>2 DEF Tracked, Told, Ready, EarlyIn, Kept, Tables, HeardIn,
                SameButSent
    <3>4. CASE x.c.started /\ x.c.stdin /\ x.s.reads
      <4>1. y = told
        BY <3>4 DEF Send, SendClose, Deliver
      <4>2. /\ v \in Sessions /\ v.c = x.c /\ v.e = x.e
            /\ v.s.docs = x.s.docs /\ v.s.alive = x.s.alive /\ v.s.reads = x.s.reads
            /\ v.s.asked = x.s.asked /\ v.s.errors \subseteq x.s.errors \cup {"close closed"}
        <5> HIDE DEF broken
        <5>1. CASE broken
          BY <1>1, <5>1 DEF Error, Sessions, ServerType, ProtocolErrors
        <5>2. CASE ~broken
          BY <1>1, <5>2 DEF Error
        <5> QED BY <5>1, <5>2
      <4>3. y = WithDoc(v, d.path, Closed)
        BY <4>1 DEF WithDoc
      <4> HIDE DEF v, told, y, d
      <4>4. v \in Sessions /\ Closed \in 0..Closed
        BY <4>2, DocFacts
      <4>5. /\ y \in Sessions /\ y.c = v.c /\ y.e = v.e
            /\ y.s.alive = v.s.alive /\ y.s.reads = v.s.reads
            /\ y.s.asked = v.s.asked /\ y.s.errors = v.s.errors
            /\ y.s.docs[d.path] = Closed
            /\ \A p \in Paths \ {d.path} : y.s.docs[p] = v.s.docs[p]
        BY <2>2, <4>3, <4>4, DocsFacts
      <4>6. y.c = x.c /\ y.e = x.e /\ Tracked(y) /\ Told(y) /\ Kept(y) /\ Tables(y)
        BY <1>1, <4>2, <4>5 DEF Tracked, Told, Ready, EarlyIn, Kept, Tables, HeardIn
      <4>7. ASSUME NEW p \in Paths
            PROVE  y.s.docs[p] = Closed
        BY <1>1, <3>4, <4>2, <4>5, ZenonT(40) DEF Documents, HeardIn, d
      <4> QED BY <4>5, <4>6, <4>7
    <3> QED BY <1>1, <3>1, <3>2, <3>3, <3>4 DEF Sessions, ClientType
  <2>4. /\ z \in Sessions /\ z.c = y.c /\ z.s = y.s
        /\ z.e.synced = NoDoc /\ z.e.file = x.e.file /\ z.e.rev = x.e.rev
    BY <2>3, DocFacts DEF Forget, Sessions, EditorType
  <2>5. Documents(z, NoDoc)
    BY <2>3, <2>4, DocFacts DEF Documents, HeardIn
  <2>6. Tracked(z) /\ Told(z) /\ Kept(z) /\ Tables(z)
    BY <2>3, <2>4 DEF Tracked, Told, Ready, EarlyIn, Kept, Tables, HeardIn
  <2> QED BY <2>1, <2>3, <2>4, <2>5, <2>6, DocFacts DEF InvOf, InvWith
<1> QED BY <1>2, <1>3

\* Fields of the editor that are not recorded matter to nothing else.
LEMMA EditorKeeps ==
    ASSUME NEW x, NEW d, InvWith(x, d), NEW y \in Sessions, y.c = x.c, y.s = x.s
    PROVE  InvWith(y, d)
BY DEF InvWith, Tracked, Told, Ready, EarlyIn, Documents, HeardIn, Kept, Tables

LEMMA SendKeeps ==
    ASSUME NEW x, NEW d, InvWith(x, d), NEW r \in Doc,
           NEW kind \in Background \cup {"HOVER"}
    PROVE  InvWith(Send(x, kind, r), d) /\ SameButSent(x, Send(x, kind, r))
<1>1. kind \in Kinds /\ kind \notin {"DID_OPEN", "DID_CHANGE", "DID_CLOSE"}
  BY DEF Background, Kinds
<1>2. Send(x, kind, r) = x \/ (x.c.started /\ Send(x, kind, r) = SendRequest(x, kind, r))
  BY <1>1 DEF Send
<1> QED BY <1>1, <1>2, RequestKeeps DEF SameButSent

LEMMA InlayHintsKeep ==
    ASSUME NEW x, NEW d, InvWith(x, d)
    PROVE  LET y == RequestInlayHints(x)
           IN  /\ InvWith(y, d) /\ y.e.file = x.e.file /\ y.e.rev = x.e.rev
               /\ y.e.synced = x.e.synced
               /\ y.c.initialized = x.c.initialized /\ y.c.id = x.c.id
               /\ y.c.database = x.c.database
<1> DEFINE r == Focused(x)
           u == Send(x, "INLAY_HINTS", r)
           y == [u EXCEPT !.e.asked = r]
<1>1. x \in Sessions
  BY DEF InvWith
<1>2. r \in Doc
  BY <1>1 DEF Focused, Doc, Sessions, EditorType
<1> HIDE DEF r
<1>3. InvWith(u, d) /\ SameButSent(x, u)
  BY <1>2, SendKeeps DEF Background
<1>4. u \in Sessions
  BY <1>3 DEF InvWith
<1> HIDE DEF u
<1>5. /\ y \in Sessions /\ y.c = u.c /\ y.s = u.s /\ y.e.file = u.e.file
      /\ y.e.rev = u.e.rev /\ y.e.synced = u.e.synced
  BY <1>2, <1>4 DEF Sessions, EditorType
<1> HIDE DEF y
<1>6. InvWith(y, d)
  BY <1>3, <1>5, EditorKeeps
<1>7. RequestInlayHints(x) = x \/ RequestInlayHints(x) = y
  BY DEF RequestInlayHints, y, u, r
<1> QED BY <1>3, <1>5, <1>6, <1>7 DEF SameButSent

\* After the synchronisation the document in view is recorded, by a client that is
\* initialised or early.
LEMMA SynchroniseKeeps ==
    ASSUME NEW x, InvOf(x), Ready(x), x.e.file \in Paths,
           x.e.synced.path \in {NoPath, x.e.file}
    PROVE  LET z == Synchronise(x)
           IN InvOf(z) /\ Recorded(z) /\ z.e.file = x.e.file /\ z.e.rev = x.e.rev
<1> DEFINE d == Focused(x)
           y == Send(x, IF x.e.synced.path = x.e.file THEN "DID_CHANGE" ELSE "DID_OPEN", d)
           t == Send(y, "SEMANTIC_TOKENS", Focused(y))
           h == RequestInlayHints(t)
           z == [h EXCEPT !.e.synced = Focused(h)]
<1>1. x \in Sessions /\ d \in Doc /\ d.path = x.e.file
  BY DEF InvOf, InvWith, Focused, Doc, Sessions, EditorType
<1>2. EarlyIn(x) \/ x.c.initialized
  BY DEF InvOf, InvWith, Told
<1>3. CASE x.e.synced = d
  <2>1. Synchronise(x) = x \/ Synchronise(x) = RequestInlayHints(x)
    BY <1>3 DEF Synchronise
  <2>2. InvWith(x, x.e.synced)
    BY DEF InvOf
  <2>3. InvOf(RequestInlayHints(x)) /\ Recorded(RequestInlayHints(x))
        /\ RequestInlayHints(x).e.file = x.e.file /\ RequestInlayHints(x).e.rev = x.e.rev
    BY <1>2, <2>2, InlayHintsKeep DEF InvOf, Recorded, EarlyIn
  <2> QED BY <1>2, <2>1, <2>3 DEF Recorded
<1>4. CASE x.e.synced # d
  <2>1. Synchronise(x) = z
    BY <1>4 DEF Synchronise
  <2>2. InvWith(y, d) /\ SameButSent(x, y)
    BY SyncKeeps
  <2>3. Focused(y) = d
    BY <2>2 DEF Focused, SameButSent
  <2> HIDE DEF y, d
  <2>4. InvWith(t, d) /\ SameButSent(y, t)
    BY <1>1, <2>2, <2>3, SendKeeps DEF Background
  <2> HIDE DEF t
  <2>5. /\ InvWith(h, d) /\ h.e.file = t.e.file /\ h.e.rev = t.e.rev
        /\ h.c.initialized = t.c.initialized /\ h.c.id = t.c.id /\ h.c.database = t.c.database
    BY <2>4, InlayHintsKeep
  <2>6. Focused(h) = d
    BY <2>2, <2>4, <2>5 DEF Focused, SameButSent, d
  <2>7. h \in Sessions
    BY <2>5 DEF InvWith
  <2> HIDE DEF h
  <2>8. z \in Sessions /\ z.c = h.c /\ z.s = h.s /\ z.e.synced = d
        /\ z.e.file = h.e.file /\ z.e.rev = h.e.rev
    BY <1>1, <2>6, <2>7 DEF Sessions, EditorType
  <2> HIDE DEF z
  <2>9. InvOf(z)
    BY <2>5, <2>8, EditorKeeps DEF InvOf
  <2>10. z.e.file = x.e.file /\ z.e.rev = x.e.rev /\ Recorded(z)
    BY <1>2, <2>2, <2>4, <2>5, <2>8 DEF Recorded, EarlyIn, SameButSent
  <2> QED BY <2>1, <2>9, <2>10
<1> QED BY <1>3, <1>4

-----------------------------------------------------------------------------
(* Starting and stopping *)

LEMMA StopKeeps ==
    ASSUME NEW x, InvOf(x)
    PROVE  InvOf(Stop(x)) /\ Stop(x).e = x.e /\ Stop(x).c = OffClient
<1> DEFINE y == Stop(x)
<1>1. x \in Sessions /\ Kept(x) /\ x.e.synced \in Doc /\ (x.e.synced.path = NoPath => x.e.synced = NoDoc)
  BY DEF InvOf, InvWith
<1>2. x.s.errors \in SUBSET ProtocolErrors
  BY <1>1 DEF Sessions, ServerType
<1>3. [NoProcess EXCEPT !.errors = x.s.errors] \in ServerType
  BY <1>2, OffFacts DEF ServerType
<1>4. /\ y \in Sessions /\ y.c = OffClient /\ y.e = x.e
      /\ y.s = [NoProcess EXCEPT !.errors = x.s.errors]
  BY <1>1, <1>3, OffFacts DEF Stop, Sessions
<1>5. ~y.s.alive /\ ~y.s.reads /\ y.s.errors = x.s.errors
  BY <1>4 DEF NoProcess
<1> HIDE DEF y
<1>6. Tracked(y) /\ Told(y) /\ Documents(y, x.e.synced) /\ Kept(y) /\ Tables(y)
  BY <1>1, <1>4, <1>5, OffFacts DEF Tracked, Told, Ready, Documents, HeardIn, Kept, Tables
<1> QED BY <1>1, <1>4, <1>6 DEF InvOf, InvWith, y

\* A client as it was constructed may be started, with or without success.
LEMMA StartKeeps ==
    ASSUME NEW x, InvOf(x), x.c = OffClient, NEW id \in Servers, NEW z \in Start(x, id)
    PROVE  InvOf(z) /\ z.e = x.e
<1> DEFINE d == x.e.synced
<1>1. /\ x \in Sessions /\ Kept(x) /\ Tracked(x) /\ d \in Doc /\ (d.path = NoPath => d = NoDoc)
      /\ x.e \in EditorType
  BY DEF InvOf, InvWith, Sessions
<1>2. ~x.s.alive /\ ~x.s.reads
  BY <1>1, OffFacts DEF Tracked
<1>3. ASSUME NEW c \in ClientType, z.c = c, z.s = x.s, z.e = x.e, z \in Sessions,
             ~c.started, c.status = "FAILED", c.doc = NoDoc
      PROVE  InvOf(z)
  BY <1>1, <1>2, <1>3 DEF InvOf, InvWith, Tracked, Told, Ready, Documents, HeardIn, Kept, Tables
<1>4. CASE z = [x EXCEPT !.c.status = "FAILED"]
  <2>1. z \in Sessions /\ z.s = x.s /\ z.e = x.e /\ z.c = [OffClient EXCEPT !.status = "FAILED"]
    BY <1>1, <1>4 DEF Sessions, ClientType, Statuses
  <2>2. z.c \in ClientType /\ ~z.c.started /\ z.c.status = "FAILED" /\ z.c.doc = NoDoc
    BY <2>1 DEF Sessions, OffClient
  <2> QED BY <1>3, <2>1, <2>2
<1>5. CASE z = [x EXCEPT !.c.status = "FAILED", !.c.id = id]
  <2>1. /\ z \in Sessions /\ z.s = x.s /\ z.e = x.e
        /\ z.c = [OffClient EXCEPT !.status = "FAILED", !.id = id]
    BY <1>1, <1>5 DEF Sessions, ClientType, Statuses
  <2>2. z.c \in ClientType /\ ~z.c.started /\ z.c.status = "FAILED" /\ z.c.doc = NoDoc
    BY <2>1 DEF Sessions, OffClient
  <2> QED BY <1>3, <2>1, <2>2
<1>6. ASSUME NEW db \in BOOLEAN,
             NEW status, status = IF id \in Clangd /\ ~db THEN "WARNING" ELSE "STARTING",
             NEW y, y = [x EXCEPT
                     !.c = [@ EXCEPT !.started = TRUE, !.id = id, !.stdin = TRUE,
                                     !.database = db, !.status = status],
                     !.s = [@ EXCEPT !.alive = TRUE, !.reads = TRUE,
                                     !.docs = [p \in Paths |-> Closed], !.asked = {}]],
             z = SendRequest(y, "INITIALIZE", NoDoc)
      PROVE  InvOf(z) /\ z.e = x.e
  <2>1. status \in {"WARNING", "STARTING"} /\ (status = "WARNING" => id \in Clangd /\ ~db)
    BY <1>6
  <2>2. /\ y.c = [OffClient EXCEPT !.started = TRUE, !.id = id, !.stdin = TRUE,
                                   !.database = db, !.status = status]
        /\ y.s = [x.s EXCEPT !.alive = TRUE, !.reads = TRUE,
                             !.docs = [p \in Paths |-> Closed], !.asked = {}]
        /\ y.e = x.e /\ y = [c |-> y.c, s |-> y.s, e |-> y.e]
    BY <1>1, <1>6 DEF Sessions
  <2>3. /\ y.c \in ClientType /\ y.c.started /\ y.c.id = id /\ y.c.status = status
        /\ y.c.database = db /\ y.c.doc = NoDoc /\ y.c.requests = {}
    BY <2>1, <2>2, OffFacts, ZenonT(40) DEF OffClient, ClientType, Statuses
  <2>4. /\ y.s \in ServerType /\ y.s.alive /\ y.s.asked = {} /\ y.s.errors = x.s.errors
        /\ \A p \in Paths : y.s.docs[p] = Closed
    <3>1. x.s \in ServerType /\ [p \in Paths |-> Closed] \in [Paths -> 0..Closed]
      BY <1>1, DocFacts DEF Sessions
    <3>2. y.s.docs = [p \in Paths |-> Closed]
      BY <2>2, <3>1 DEF ServerType
    <3>3. y.s.alive /\ y.s.asked = {} /\ y.s.errors = x.s.errors
      BY <2>2, <3>1 DEF ServerType
    <3>4. y.s \in ServerType
      BY <2>2, <3>1 DEF ServerType
    <3> QED BY <3>2, <3>3, <3>4
  <2>5. ~y.c.initialized
    BY <2>2 DEF OffClient
  <2>6. y \in Sessions
    BY <1>1, <2>2, <2>3, <2>4 DEF Sessions
  <2>7. Told(y)
    BY <2>1, <2>3, <2>5 DEF Told, Ready, EarlyIn
  <2>8. Documents(y, d)
    BY <2>3, <2>4, <2>5, DocFacts DEF Documents
  <2>9. Tracked(y) /\ Kept(y) /\ Tables(y)
    BY <1>1, <2>3, <2>4 DEF Tracked, Kept, Tables
  <2>10. InvWith(y, d)
    BY <1>1, <2>6, <2>7, <2>8, <2>9 DEF InvWith
  <2>11. InvWith(z, d) /\ SameButSent(y, z)
    <3>1. "INITIALIZE" \in Kinds /\ NoDoc \in Doc
      BY DocFacts DEF Kinds
    <3>2. /\ InvWith(SendRequest(y, "INITIALIZE", NoDoc), d)
          /\ SameButSent(y, SendRequest(y, "INITIALIZE", NoDoc))
      BY <2>3, <2>10, <3>1, RequestKeeps
    <3>3. z = SendRequest(y, "INITIALIZE", NoDoc)
      BY <1>6
    <3> QED BY <3>2, <3>3
  <2> QED BY <2>2, <2>11 DEF InvOf, SameButSent
<1>7. z = [x EXCEPT !.c.status = "FAILED"] \/ z = [x EXCEPT !.c.status = "FAILED", !.c.id = id]
      \/ \E db \in BOOLEAN :
           z = SendRequest([x EXCEPT
                     !.c = [@ EXCEPT !.started = TRUE, !.id = id, !.stdin = TRUE,
                                     !.database = db,
                                     !.status = IF id \in Clangd /\ ~db
                                                THEN "WARNING" ELSE "STARTING"],
                     !.s = [@ EXCEPT !.alive = TRUE, !.reads = TRUE,
                                     !.docs = [p \in Paths |-> Closed], !.asked = {}]],
                   "INITIALIZE", NoDoc)
  BY OffFacts DEF Start
<1>8. z = [x EXCEPT !.c.status = "FAILED"] => z.e = x.e
  BY <1>1 DEF Sessions
<1>9. z = [x EXCEPT !.c.status = "FAILED", !.c.id = id] => z.e = x.e
  BY <1>1 DEF Sessions
<1> QED BY <1>4, <1>5, <1>6, <1>7, <1>8, <1>9

LEMMA ControlStartKeeps ==
    ASSUME NEW x, InvOf(x), NEW id \in Servers, NEW retry \in BOOLEAN,
           NEW z \in ControlStart(x, id, retry)
    PROVE  InvOf(z) /\ z.e = x.e
<1>1. CASE x.c.started /\ x.c.id = id
  BY <1>1 DEF ControlStart
<1>2. CASE ~(x.c.started /\ x.c.id = id)
  <2> DEFINE y == IF x.c.started THEN Stop(x) ELSE x
  <2>1. InvOf(y) /\ y.e = x.e
    BY StopKeeps
  <2>2. y.c.status = "FAILED" \/ y.c = OffClient
    BY StopKeeps DEF InvOf, InvWith, Told
  <2>3. z = y \/ (y.c.status = "FAILED" /\ z \in Start(Stop(y), id))
        \/ (y.c.status # "FAILED" /\ z \in Start(y, id))
    BY <1>2 DEF ControlStart
  <2> HIDE DEF y
  <2>4. InvOf(Stop(y)) /\ Stop(y).e = y.e /\ Stop(y).c = OffClient
    BY <2>1, StopKeeps
  <2>5. CASE z = y
    BY <2>1, <2>5
  <2>6. CASE z \in Start(Stop(y), id)
    BY <2>1, <2>4, <2>6, StartKeeps
  <2>7. CASE y.c.status # "FAILED" /\ z \in Start(y, id)
    BY <2>1, <2>2, <2>7, StartKeeps
  <2> QED BY <2>3, <2>5, <2>6, <2>7
<1> QED BY <1>1, <1>2

LEMMA ControlKeeps ==
    ASSUME NEW x, InvOf(x), NEW id \in Servers,
           NEW kind \in {"ENSURE_STARTED", "START", "STOP", "RESTART"}, NEW z \in Control(x, kind, id)
    PROVE  InvOf(z) /\ z.e = x.e
<1>1. CASE kind = "ENSURE_STARTED"
  BY <1>1, ControlStartKeeps DEF Control
<1>2. CASE kind = "START"
  BY <1>2, ControlStartKeeps DEF Control
<1>3. CASE kind = "STOP"
  BY <1>3, StopKeeps DEF Control
<1>4. CASE kind = "RESTART"
  <2>1. InvOf(Stop(x)) /\ Stop(x).e = x.e
    BY StopKeeps
  <2>2. z \in ControlStart(Stop(x), id, TRUE)
    BY <1>4 DEF Control
  <2> QED BY <2>1, <2>2, ControlStartKeeps
<1> QED BY <1>1, <1>2, <1>3, <1>4

-----------------------------------------------------------------------------
(* A frame *)

\* An update of the document synchronisation ends with a record that a client that is
\* initialised, or early, has made.
LEMMA UpdateKeeps ==
    ASSUME NEW x, InvOf(x), NEW w \in Update(x)
    PROVE  InvOf(w) /\ Recorded(w) /\ w.e.file = x.e.file /\ w.e.rev = x.e.rev
<1>1. ASSUME NEW y, InvOf(y)
      PROVE  /\ InvOf(Unsync(y)) /\ Recorded(Unsync(y)) /\ Unsync(y).e.synced.path = NoPath
             /\ Unsync(y).e.file = y.e.file /\ Unsync(y).e.rev = y.e.rev
  BY <1>1, UnsyncKeeps DEF Recorded
<1>2. CASE x.e.file \in JsonPaths
  BY <1>1, <1>2 DEF Update
<1>3. CASE x.e.file \notin JsonPaths
  <2> DEFINE y == IF x.e.synced.path # x.e.file THEN Unsync(x) ELSE x
  <2>1. InvOf(y) /\ y.e.file = x.e.file /\ y.e.rev = x.e.rev /\ y.e.synced.path \in {NoPath, y.e.file}
    BY <1>1
  <2>2. PICK z \in EnsureStarted(y) :
           w = IF Ready(z) /\ LspFile(z) /\ z.e.view = "CODE" THEN Synchronise(z) ELSE Unsync(z)
    BY <1>3 DEF Update
  <2> HIDE DEF y
  <2>3. InvOf(z) /\ z.e = y.e
    <3>1. CASE ~LspFile(y)
      BY <2>1, <2>2, <3>1 DEF EnsureStarted
    <3>2. CASE LspFile(y)
      <4>1. y.e.file \in Files
        BY <2>1 DEF InvOf, InvWith, Sessions, EditorType
      <4>2. ServerFor[y.e.file] \in Servers
        BY <3>2, <4>1, SessionAssumption DEF LspFile, Files
      <4> QED BY <2>1, <2>2, <3>2, <4>2, ControlKeeps DEF EnsureStarted
    <3> QED BY <3>1, <3>2
  <2>4. CASE Ready(z) /\ LspFile(z) /\ z.e.view = "CODE"
    <3>1. z.e.file \in Files
      BY <2>3 DEF InvOf, InvWith, Sessions, EditorType
    <3>2. z.e.file \in Paths
      BY <2>4, <3>1, SessionAssumption DEF LspFile, Files
    <3> QED BY <2>1, <2>2, <2>3, <2>4, <3>2, SynchroniseKeeps
  <2>5. CASE ~(Ready(z) /\ LspFile(z) /\ z.e.view = "CODE")
    BY <1>1, <2>1, <2>2, <2>3, <2>5
  <2> QED BY <2>4, <2>5
<1> QED BY <1>2, <1>3

\* A frame keeps the invariant if its input does.
LEMMA FrameKeeps ==
    ASSUME Inv, NEW x \in Update(session), NEW y, InvOf(x) => InvOf(y), NEW z \in Update(y),
           client' = z.c, server' = z.s, editor' = z.e, commands' \in 0..MaxCommands
    PROVE  Inv'
<1>1. InvOf(session)
  BY DEF Inv
<1>2. InvOf(x)
  BY <1>1, UpdateKeeps
<1>3. InvOf(z) /\ Recorded(z)
  BY <1>2, UpdateKeeps
<1>4. z = [c |-> z.c, s |-> z.s, e |-> z.e]
  BY <1>3 DEF InvOf, InvWith, Sessions
<1>5. session' = z
  BY <1>4 DEF session
<1>6. InvOf(session)' /\ Recorded(session)'
  BY <1>3, <1>5 DEF InvOf, InvWith, Recorded, Tracked, Told, Ready, EarlyIn, Documents, HeardIn,
     Kept, Tables, Sessions
<1> QED BY <1>6 DEF Inv

\* What the user does to the editor.
LEMMA EditedKeeps ==
    ASSUME NEW x, InvOf(x), NEW y \in Sessions, y.c = x.c, y.s = x.s, y.e.synced = x.e.synced
    PROVE  InvOf(y)
BY EditorKeeps DEF InvOf

LEMMA HoverKeeps ==
    ASSUME NEW x, InvOf(x), NEW y \in RequestLsp(x, "HOVER")
    PROVE  InvOf(y)
<1>1. CASE ~Ready(x) \/ ~LspFile(x)
  BY <1>1 DEF RequestLsp
<1>2. CASE Ready(x) /\ LspFile(x)
  <2>1. PICK w \in Update(x) :
           y = IF w.e.synced.path = w.e.file THEN Send(w, "HOVER", Focused(w)) ELSE w
    BY <1>2 DEF RequestLsp
  <2>2. InvOf(w)
    BY UpdateKeeps
  <2>3. Focused(w) \in Doc
    BY <2>2 DEF InvOf, InvWith, Focused, Doc, Sessions, EditorType
  <2>4. InvOf(Send(w, "HOVER", Focused(w)))
    BY <2>2, <2>3, SendKeeps DEF InvOf, SameButSent
  <2> QED BY <2>1, <2>2, <2>4
<1> QED BY <1>1, <1>2

-----------------------------------------------------------------------------
(* The invariant *)

LEMMA InitInv == Init => Inv
<1> SUFFICES ASSUME Init
             PROVE  Inv
  OBVIOUS
<1> DEFINE x == session
<1>1. x.c = OffClient /\ x.s = NoProcess /\ x.e = editor /\ editor.synced = NoDoc
  BY DEF Init, session
<1>2. editor \in EditorType
  BY DocFacts, SessionAssumption DEF Init, EditorType, Views
<1>3. x \in Sessions
  BY <1>1, <1>2, OffFacts DEF Sessions, session, Init
<1>4. ~x.s.alive /\ ~x.s.reads /\ x.s.errors = {}
  BY <1>1 DEF NoProcess
<1>5. /\ Tracked(x) /\ Told(x) /\ Documents(x, x.e.synced) /\ Kept(x) /\ Tables(x)
      /\ Recorded(x)
  BY <1>1, <1>4, OffFacts DEF Tracked, Told, Ready, Documents, HeardIn, Kept, Tables, Recorded
<1> QED BY <1>1, <1>3, <1>5, DocFacts, SessionAssumption DEF Inv, InvOf, InvWith, Init

LEMMA StepInv == Inv /\ [Next]_vars => Inv'
<1> SUFFICES ASSUME Inv, [Next]_vars
             PROVE  Inv'
  OBVIOUS
<1>1. /\ InvOf(session) /\ Recorded(session) /\ session \in Sessions
      /\ session = [c |-> client, s |-> server, e |-> editor]
      /\ client \in ClientType /\ server \in ServerType /\ editor \in EditorType
      /\ commands \in 0..MaxCommands
  BY DEF Inv, InvOf, InvWith, session, Sessions
<1>2. CASE Idle
  <2>1. PICK x, y, z : /\ x \in Update(session) /\ y \in NoInput(x) /\ z \in Update(y)
                       /\ client' = z.c /\ server' = z.s /\ editor' = z.e
    BY <1>2 DEF Idle, Frame
  <2>2. y = x
    BY <2>1 DEF NoInput
  <2>3. commands' \in 0..MaxCommands
    BY <1>1, <1>2 DEF Idle
  <2> QED BY <2>1, <2>2, <2>3, FrameKeeps
<1>3. CASE Edit
  <2>1. PICK x, y, z : /\ x \in Update(session) /\ y = [x EXCEPT !.e.rev = @ + 1] /\ z \in Update(y)
                       /\ client' = z.c /\ server' = z.s /\ editor' = z.e
    BY <1>3 DEF Edit, Frame
  <2>2. InvOf(x) /\ x \in Sessions /\ x.e.rev = editor.rev
    BY <1>1, <2>1, UpdateKeeps DEF InvOf, InvWith
  <2>3. x.e.rev + 1 \in 0..MaxRev
    <3>1. editor.rev < MaxRev /\ editor.rev \in 0..MaxRev
      BY <1>1, <1>3 DEF Edit, EditorType
    <3> QED BY <2>2, <3>1, SessionAssumption
  <2>5. y \in Sessions /\ y.c = x.c /\ y.s = x.s /\ y.e.synced = x.e.synced
    BY <2>1, <2>2, <2>3 DEF Sessions, EditorType
  <2>4. commands' \in 0..MaxCommands
    BY <1>1, <1>3 DEF Edit
  <2> QED BY <2>1, <2>2, <2>4, <2>5, EditedKeeps, FrameKeeps
<1>4. ASSUME NEW f \in Files, NEW r \in 0..MaxRev, ShowFile(f, r)
      PROVE  Inv'
  <2>1. PICK x, y, z : /\ x \in Update(session) /\ z \in Update(y)
                       /\ y = [x EXCEPT !.e.file = f, !.e.rev = r, !.e.view = "CODE"]
                       /\ client' = z.c /\ server' = z.s /\ editor' = z.e
    BY <1>4 DEF ShowFile, Frame
  <2>2. InvOf(x) /\ x \in Sessions
    BY <1>1, <2>1, UpdateKeeps DEF InvOf, InvWith
  <2>3. y \in Sessions /\ y.c = x.c /\ y.s = x.s /\ y.e.synced = x.e.synced
    BY <1>1, <2>1, <2>2 DEF Sessions, EditorType, Views, Files
  <2>4. commands' \in 0..MaxCommands
    <3>1. commands < MaxCommands /\ commands' = commands + 1
      BY <1>4 DEF ShowFile
    <3> QED BY <1>1, <3>1, SessionAssumption
  <2> QED BY <2>1, <2>2, <2>3, <2>4, EditedKeeps, FrameKeeps
<1>5. ASSUME NEW v \in Views, NEW f \in {editor.file, NoPath}, ShowView(v, f)
      PROVE  Inv'
  <2>1. PICK x, y, z : /\ x \in Update(session) /\ z \in Update(y)
                       /\ y = [x EXCEPT !.e.view = v, !.e.file = f]
                       /\ client' = z.c /\ server' = z.s /\ editor' = z.e
    BY <1>5 DEF ShowView, Frame
  <2>2. InvOf(x) /\ x \in Sessions
    BY <1>1, <2>1, UpdateKeeps DEF InvOf, InvWith
  <2>3. y \in Sessions /\ y.c = x.c /\ y.s = x.s /\ y.e.synced = x.e.synced
    BY <1>1, <2>1, <2>2 DEF Sessions, EditorType, Views, Files
  <2>4. commands' \in 0..MaxCommands
    <3>1. commands < MaxCommands /\ commands' = commands + 1
      BY <1>5 DEF ShowView
    <3> QED BY <1>1, <3>1, SessionAssumption
  <2> QED BY <2>1, <2>2, <2>3, <2>4, EditedKeeps, FrameKeeps
<1>6. CASE Hover
  <2>1. PICK x, y, z : /\ x \in Update(session) /\ y \in RequestLsp(x, "HOVER") /\ z \in Update(y)
                       /\ client' = z.c /\ server' = z.s /\ editor' = z.e
    BY <1>6 DEF Hover, Frame
  <2>2. InvOf(x) => InvOf(y)
    BY <2>1, HoverKeeps
  <2>3. commands' \in 0..MaxCommands
    BY <1>1, <1>6 DEF Hover
  <2> QED BY <2>1, <2>2, <2>3, FrameKeeps
<1>7. ASSUME NEW kind \in {"START", "STOP", "RESTART"}, Command(kind)
      PROVE  Inv'
  <2>1. PICK x, y, z : /\ x \in Update(session) /\ y \in Control(x, kind, ServerFor[x.e.file])
                       /\ z \in Update(y) /\ client' = z.c /\ server' = z.s /\ editor' = z.e
    BY <1>7 DEF Command, Frame
  <2>2. InvOf(x) /\ x.e.file = editor.file
    BY <1>1, <2>1, UpdateKeeps
  <2>3. ServerFor[x.e.file] \in Servers
    BY <1>1, <1>7, <2>2, SessionAssumption DEF Command, EditorType, Files
  <2>4. InvOf(y)
    BY <2>1, <2>2, <2>3, ControlKeeps
  <2>5. commands' \in 0..MaxCommands
    BY <1>1, <1>7, SessionAssumption DEF Command
  <2> QED BY <2>1, <2>4, <2>5, FrameKeeps
<1>8. CASE PollExited
  <2> DEFINE x == session
             y == session'
  <2>1. /\ y.c = [client EXCEPT !.status = "FAILED", !.started = FALSE]
        /\ y.s = server /\ y.e = editor /\ ~server.alive
        /\ y = [c |-> y.c, s |-> y.s, e |-> y.e] /\ commands' = commands
    BY <1>8 DEF PollExited, session
  <2>2. /\ y.c \in ClientType /\ y.c.status = "FAILED" /\ ~y.c.started
        /\ y.c.initialized = client.initialized /\ y.c.doc = client.doc
    BY <1>1, <2>1 DEF ClientType, Statuses
  <2>3. x.c = client /\ x.s = server /\ x.e = editor
    BY DEF session
  <2>4. y \in Sessions
    BY <1>1, <2>1, <2>2 DEF Sessions
  <2> HIDE DEF x, y
  <2>5. InvWith(x, x.e.synced)
    BY <1>1 DEF InvOf, x
  <2>6. ~y.s.reads
    BY <2>1, <2>3, <2>5 DEF InvWith, Tracked
  <2>7. InvOf(y) /\ Recorded(y)
    BY <2>1, <2>2, <2>3, <2>4, <2>5, <2>6 DEF InvOf, InvWith, Tracked, Told, Ready, Documents,
       HeardIn, Kept, Tables, Recorded
  <2> QED BY <1>1, <2>1, <2>7 DEF Inv, y
<1>9. ASSUME NEW r \in server.asked, Answer(r)
      PROVE  Inv'
  <2> DEFINE hints == IF r.kind = "INLAY_HINTS" /\ r.doc = client.doc THEN r.doc ELSE client.hints
  <2>1. PICK caps \in SUBSET Background :
           client' = [client EXCEPT
               !.requests = @ \ {r},
               !.caps = caps,
               !.initialized = @ \/ r.kind = "INITIALIZE",
               !.status = IF r.kind # "INITIALIZE" THEN @
                          ELSE IF client.database THEN "READY" ELSE "WARNING",
               !.hints = hints]
    <3>1. PICK caps \in (IF r.kind = "INITIALIZE" THEN SUBSET Background ELSE {client.caps}) :
             client' = [client EXCEPT
               !.requests = @ \ {r},
               !.caps = caps,
               !.initialized = @ \/ r.kind = "INITIALIZE",
               !.status = IF r.kind # "INITIALIZE" THEN @
                          ELSE IF client.database THEN "READY" ELSE "WARNING",
               !.hints = IF r.kind = "INLAY_HINTS" /\ r.doc = client.doc THEN r.doc ELSE @]
      BY <1>9 DEF Answer
    <3>2. caps \in SUBSET Background
      BY <1>1 DEF ClientType
    <3> QED BY <3>1, <3>2
  <2> DEFINE x == session
             y == session'
             done == client.initialized \/ r.kind = "INITIALIZE"
             status == IF r.kind # "INITIALIZE" THEN client.status
                       ELSE IF client.database THEN "READY" ELSE "WARNING"
  <2>2. done \in BOOLEAN /\ (client.initialized => done) /\ (~done => ~client.initialized)
    BY <1>1 DEF ClientType
  <2>3. /\ status \in Statuses
        /\ status = client.status \/ (done /\ status \in {"READY", "WARNING"})
    BY <1>1 DEF ClientType, Statuses
  <2>4. r \in Request /\ hints \in Doc
    BY <1>1 DEF ServerType, ClientType, Request
  <2> HIDE DEF done, status, hints
  <2>5. y.c = [client EXCEPT !.requests = @ \ {r}, !.caps = caps, !.initialized = done,
                             !.status = status, !.hints = hints]
    BY <2>1 DEF session, done, status, hints
  <2>6. /\ y.c \in ClientType /\ y.c.requests = client.requests \ {r}
        /\ y.c.initialized = done /\ y.c.status = status /\ y.c.started = client.started
        /\ y.c.id = client.id /\ y.c.database = client.database /\ y.c.doc = client.doc
        /\ y.c.stdin = client.stdin
    BY <1>1, <2>2, <2>3, <2>4, <2>5 DEF ClientType
  <2>7. /\ y.s = [server EXCEPT !.asked = @ \ {r}] /\ y.e = editor
        /\ y = [c |-> y.c, s |-> y.s, e |-> y.e]
    BY <1>9 DEF Answer, session
  <2>8. /\ y.s \in ServerType /\ y.s.asked = server.asked \ {r} /\ y.s.docs = server.docs
        /\ y.s.alive = server.alive /\ y.s.reads = server.reads /\ y.s.errors = server.errors
    BY <1>1, <2>7 DEF ServerType
  <2>9. y \in Sessions
    BY <1>1, <2>6, <2>7, <2>8 DEF Sessions
  <2>10. client.started /\ commands' = commands
    BY <1>9 DEF Answer
  <2>11. x.c = client /\ x.s = server /\ x.e = editor
    BY DEF session
  <2> HIDE DEF x, y
  <2>12. InvWith(x, x.e.synced) /\ Recorded(x)
    BY <1>1 DEF InvOf, x
  <2>13. Tracked(y) /\ Told(y)
    BY <2>2, <2>3, <2>6, <2>8, <2>10, <2>11, <2>12 DEF InvWith, Tracked, Told, Ready, EarlyIn
  <2>14. Kept(y) /\ Tables(y)
    BY <2>6, <2>8, <2>11, <2>12 DEF InvWith, Kept, Tables, HeardIn
  <2>15. Documents(y, x.e.synced)
    <3>1. done /\ ~EarlyIn(y) /\ x.e.synced.path # NoPath => client.initialized
      BY <2>6, <2>10, <2>11, <2>12 DEF Recorded, EarlyIn
    <3>2. EarlyIn(x) <=> EarlyIn(y)
      BY <2>6, <2>11 DEF EarlyIn
    <3> QED BY <2>6, <2>8, <2>11, <2>12, <3>1, <3>2 DEF InvWith, Documents, HeardIn
  <2>16. Recorded(y)
    BY <2>2, <2>6, <2>7, <2>11, <2>12 DEF Recorded, EarlyIn
  <2>17. InvOf(y)
    BY <2>7, <2>9, <2>11, <2>12, <2>13, <2>14, <2>15 DEF InvOf, InvWith
  <2> QED BY <1>1, <2>10, <2>16, <2>17 DEF Inv, y
<1>10. CASE ServerExits
  <2> DEFINE x == session
             y == session'
  <2>1. PICK a \in BOOLEAN : server' = [server EXCEPT !.alive = a, !.reads = FALSE]
    BY <1>10 DEF ServerExits
  <2>2. /\ y.c = client /\ y.e = editor /\ y.s = [server EXCEPT !.alive = a, !.reads = FALSE]
        /\ y = [c |-> y.c, s |-> y.s, e |-> y.e]
    BY <1>10, <2>1 DEF ServerExits, session
  <2>3. /\ y.s \in ServerType /\ ~y.s.reads /\ server.alive
        /\ y.s.errors = server.errors
    BY <1>1, <1>10, <2>2 DEF ServerType, ServerExits
  <2>4. x.c = client /\ x.s = server /\ x.e = editor
    BY DEF session
  <2>5. y \in Sessions
    BY <1>1, <2>2, <2>3 DEF Sessions
  <2>6. commands' \in 0..MaxCommands
    BY <1>1, <1>10, SessionAssumption DEF ServerExits
  <2> HIDE DEF x, y
  <2>7. InvWith(x, x.e.synced) /\ Recorded(x)
    BY <1>1 DEF InvOf, x
  <2>8. InvOf(y) /\ Recorded(y)
    BY <2>2, <2>3, <2>4, <2>5, <2>7 DEF InvOf, InvWith, Tracked, Told, Ready, EarlyIn, Documents,
       HeardIn, Kept, Tables, Recorded
  <2> QED BY <2>6, <2>8 DEF Inv, y
<1>11. CASE UNCHANGED vars
  <2>1. session' = session /\ commands' = commands
    BY <1>11 DEF vars, session
  <2> QED BY <1>1, <2>1 DEF Inv, InvOf, InvWith, Recorded, Tracked, Told, Ready, EarlyIn, Documents,
          HeardIn, Kept, Tables, Sessions
<1> QED BY <1>2, <1>3, <1>4, <1>5, <1>6, <1>7, <1>8, <1>9, <1>10, <1>11 DEF Next

THEOREM Invariant == Spec => []Inv
<1>1. Init => Inv
  BY InitInv
<1>2. Inv /\ [Next]_vars => Inv'
  BY StepInv
<1> QED BY <1>1, <1>2, PTL DEF Spec

-----------------------------------------------------------------------------
(* Theorems *)

\* The fields of client, server and editor keep their types (LspClient, LspBridge
\* and the LSP fields of EditorState), and a client that is started has a server.
THEOREM TypeCorrect == Spec => []TypeOK
<1>1. Inv => TypeOK
  BY DEF Inv, InvOf, InvWith, Sessions, session, Tracked, TypeOK
<1> QED BY <1>1, Invariant, PTL

\* A document is opened once and changed only while it is open
\* (update_editor_lsp_document, editor_model.cpp), also at a server that counts as
\* ready before it is initialised.
THEOREM ProtocolIsKept == Spec => []ProtocolKept
<1>1. Inv => ProtocolKept
  BY DEF Inv, InvOf, InvWith, session, Kept, ProtocolKept
<1> QED BY <1>1, Invariant, PTL

\* What update_editor_lsp_document records as synchronised is open at the server with
\* that revision, unless the server was ready too early.
THEOREM SyncedIsOpen == Spec => []SyncedMeansOpen
<1>1. Inv => SyncedMeansOpen
  <2> SUFFICES ASSUME Inv, client.started, Heard, ~Early, editor.synced # NoDoc
               PROVE  server.docs[editor.synced.path] = editor.synced.rev
    BY DEF SyncedMeansOpen
  <2>1. /\ Documents(session, editor.synced) /\ Recorded(session)
        /\ editor.synced.path = NoPath => editor.synced = NoDoc
    BY DEF Inv, InvOf, InvWith, session
  <2>2. HeardIn(session) /\ ~EarlyIn(session)
    BY DEF Heard, HeardIn, Early, EarlyIn, session
  <2>3. client.initialized
    BY <2>1, <2>2 DEF Recorded, session
  <2> QED BY <2>1, <2>2, <2>3 DEF Documents, session
<1> QED BY <1>1, Invariant, PTL

\* No process outlives its client (lsp_client_stop and lsp_client_poll), and while the
\* pipe works what the client waits for is what the server has to answer (next_id and
\* take_pending, lsp_client_win32.cpp), whatever the servers and however commands and
\* exits interleave.
THEOREM TablesAgree == Spec => []Answerable
<1>1. Inv => Answerable
  BY DEF Inv, InvOf, InvWith, session, Tracked, Tables, HeardIn, Heard, Answerable
<1> QED BY <1>1, Invariant, PTL
===============================================================================
