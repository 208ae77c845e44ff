-------------------------- MODULE WriteStreamProofs --------------------------
(***************************************************************************)
(* The proof that every write is committed under the account that added    *)
(* it, in the order in which that account added its writes, and that none  *)
(* is lost, for all users, batches, pipeline sizes and interleavings.      *)
(*                                                                         *)
(* The argument: a change of user travels from FIRAuth over the main queue *)
(* to the worker queue, and a token takes the same way; so either a token  *)
(* on its way is of the sync engine's user, or a change of user is in      *)
(* front of it, which closes the stream the token is for.  The pipeline    *)
(* only holds batches of the sync engine's user, and what is on the wire   *)
(* is the pipeline.                                                        *)
(*                                                                         *)
(* The pipeline is the front of the user's queue, so an answer, which is   *)
(* for the pipeline's first batch, takes that batch out of the queue, and  *)
(* what is committed has only settled batches before it.  A stream that    *)
(* waits for a token has one request, which is at one place of the way.    *)
(*                                                                         *)
(* Last, the write path implements EventStore: each batch is stored for a  *)
(* document of its own, in the order of the documents.                     *)
(***************************************************************************)
EXTENDS WriteHistory, SequenceTheorems, FiniteSetTheorems,
        WellFoundedInduction, TLAPS

(* A queue on which changes of user, the entries of a kind, travel from    *)
(* those who know of `last` to those who know of `first`: the last change  *)
(* is to `last`, and without one they agree.                               *)
Changes(q, kind) == \E j \in 1..Len(q) : q[j].what = kind
Arrives(q, kind, last, first) ==
  /\ \A i \in 1..Len(q) : q[i].what = kind =>
       \/ q[i].user = last
       \/ \E j \in 1..Len(q) : i < j /\ q[j].what = kind
  /\ first = last \/ Changes(q, kind)

(* A token on the queue that a stream still waits for is of user u, or a   *)
(* change of user is in front of it.                                       *)
Fits(q, kind, what, u) ==
  \A i \in 1..Len(q) : q[i].what = what /\ q[i].live =>
    \/ q[i].user = u
    \/ \E j \in 1..Len(q) : j < i /\ q[j].what = kind

UsersArrive ==
  /\ Arrives(mainQueue, "notify", authUser, currentUser)
  /\ Arrives(workerQueue, "credential", currentUser, sdkUser)

TokensFit ==
  /\ \A u \in Users : \A i \in 1..Len(fetches[u]) :
       fetches[u][i].live => \/ u = sdkUser
                             \/ Changes(mainQueue, "notify")
                             \/ Changes(workerQueue, "credential")
  /\ \/ Changes(workerQueue, "credential")
     \/ Fits(mainQueue, "notify", "token", sdkUser)
  /\ Fits(workerQueue, "credential", "resume", sdkUser)

(* An established stream has a token, and on its wire is the pipeline.     *)
WireFits ==
  /\ handshake => stream = "Open"
  /\ stream = "Open" => token # NoToken
  /\ idle => pipeline = <<>>
  /\ ~handshake => sent = <<>> /\ answers = <<>>
  /\ handshake =>
       /\ Len(answers) + Len(sent) = Len(pipeline)
       /\ \A i \in 1..Len(answers) : answers[i] = pipeline[i]
       /\ \A i \in 1..Len(sent) : sent[i] = pipeline[Len(answers) + i]

(* A mutation queue holds what its user wrote.                             *)
QueuesAreOwn == \A u \in Users : \A b \in queues[u] : writer[b] = u

StreamInv ==
  /\ StreamTypeOK /\ UsersArrive /\ TokensFit /\ WireFits /\ QueuesAreOwn
  /\ OwnStream /\ CommittedAsWriter

-----------------------------------------------------------------------------
\* Sequences.

(* An appended entry is the last; the others stay.                         *)
LEMMA Appended ==
  ASSUME NEW S, NEW q \in Seq(S), NEW e \in S, NEW r, r = Append(q, e)
  PROVE  /\ r \in Seq(S) /\ Len(q) \in Nat /\ Len(r) = Len(q) + 1
         /\ \A i \in 1..Len(q) : r[i] = q[i]
         /\ r[Len(q) + 1] = e
<1>1. Len(q) \in Nat
  BY LenProperties
<1>2. QED
  BY <1>1, AppendProperties

(* Two entries that are posted together are appended one by one.           *)
LEMMA TwoAppended ==
  ASSUME NEW S, NEW q \in Seq(S), NEW d \in S, NEW e \in S
  PROVE  q \o <<d, e>> = Append(Append(q, d), e)
<1>1. <<d>> \in Seq(S) /\ <<e>> \in Seq(S) /\ Append(q, d) \in Seq(S)
  BY AppendProperties
<1>2. <<d, e>> = <<d>> \o <<e>>
  <2>1. PICK r : r = Append(<<d>>, e)
    OBVIOUS
  <2>2. /\ r \in Seq(S) /\ Len(r) = Len(<<d>>) + 1
        /\ r[Len(<<d>>) + 1] = e
        /\ \A i \in 1..Len(<<d>>) : r[i] = <<d>>[i]
    BY <1>1, <2>1, Appended
  <2>3. Len(<<d>>) = 1 /\ <<d>>[1] = d
    OBVIOUS
  <2>4. Len(r) = 2 /\ r[1] = d /\ r[2] = e
    BY <2>2, <2>3
  <2>5. /\ <<d, e>> \in Seq(S) /\ Len(<<d, e>>) = 2
        /\ <<d, e>>[1] = d /\ <<d, e>>[2] = e
    OBVIOUS
  <2>6. \A i \in 1..2 : i = 1 \/ i = 2
    OBVIOUS
  <2>7. r = <<d, e>>
    BY <2>2, <2>4, <2>5, <2>6, SeqEqual
  <2>8. QED
    BY <1>1, <2>1, <2>7, AppendIsConcat
<1>3. q \o <<d, e>> = (q \o <<d>>) \o <<e>>
  BY <1>1, <1>2, ConcatAssociative
<1>4. QED
  BY <1>1, <1>3, AppendIsConcat

(* Without its head, a queue's entries move up by one.                     *)
LEMMA Taken ==
  ASSUME NEW S, NEW q \in Seq(S), q # <<>>, NEW r, r = Tail(q)
  PROVE  /\ r \in Seq(S) /\ Len(q) \in Nat \ {0} /\ Len(r) = Len(q) - 1
         /\ Head(q) \in S /\ Head(q) = q[1]
         /\ \A i \in 1..Len(r) : r[i] = q[i + 1]
BY HeadTailProperties, EmptySeq

(* Marking requests, callbacks or tasks leaves what they are for.          *)
LEMMA MarkedRequests ==
  ASSUME NEW q \in Seq(Requests)
  PROVE  /\ TokenChanged(q) \in Seq(Requests) /\ StreamClosed(q) \in Seq(Requests)
         /\ Len(TokenChanged(q)) = Len(q) /\ Len(StreamClosed(q)) = Len(q)
         /\ \A i \in 1..Len(q) : TokenChanged(q)[i].live = q[i].live
         /\ \A i \in 1..Len(q) : ~StreamClosed(q)[i].live
<1>1. /\ Len(q) \in Nat /\ DOMAIN q = 1..Len(q)
      /\ \A i \in 1..Len(q) : q[i] \in Requests
  BY LenProperties, ElementOfSeq
<1>2. /\ TokenChanged(q) \in [1..Len(q) -> Requests]
      /\ StreamClosed(q) \in [1..Len(q) -> Requests]
  BY <1>1 DEF TokenChanged, StreamClosed, Requests
<1>3. TokenChanged(q) \in Seq(Requests) /\ StreamClosed(q) \in Seq(Requests)
  BY <1>1, <1>2, SeqDef
<1>4. Len(TokenChanged(q)) = Len(q) /\ Len(StreamClosed(q)) = Len(q)
  BY <1>1, <1>2, <1>3, LenProperties
<1>5. /\ \A i \in 1..Len(q) : TokenChanged(q)[i].live = q[i].live
      /\ \A i \in 1..Len(q) : ~StreamClosed(q)[i].live
  BY <1>1 DEF TokenChanged, StreamClosed, Requests
<1>6. QED
  BY <1>3, <1>4, <1>5

LEMMA MarkedCallbacks ==
  ASSUME NEW q \in Seq(Callbacks)
  PROVE  /\ TokenChanged(q) \in Seq(Callbacks)
         /\ StreamClosed(q) \in Seq(Callbacks)
         /\ Len(TokenChanged(q)) = Len(q) /\ Len(StreamClosed(q)) = Len(q)
         /\ \A i \in 1..Len(q) :
              /\ TokenChanged(q)[i].what = q[i].what
              /\ TokenChanged(q)[i].user = q[i].user
              /\ TokenChanged(q)[i].live = q[i].live
              /\ StreamClosed(q)[i].what = q[i].what
              /\ StreamClosed(q)[i].user = q[i].user
              /\ ~StreamClosed(q)[i].live
<1>1. /\ Len(q) \in Nat /\ DOMAIN q = 1..Len(q)
      /\ \A i \in 1..Len(q) : q[i] \in Callbacks
  BY LenProperties, ElementOfSeq
<1>2. /\ TokenChanged(q) \in [1..Len(q) -> Callbacks]
      /\ StreamClosed(q) \in [1..Len(q) -> Callbacks]
  BY <1>1 DEF TokenChanged, StreamClosed, Callbacks
<1>3. TokenChanged(q) \in Seq(Callbacks) /\ StreamClosed(q) \in Seq(Callbacks)
  BY <1>1, <1>2, SeqDef
<1>4. Len(TokenChanged(q)) = Len(q) /\ Len(StreamClosed(q)) = Len(q)
  BY <1>1, <1>2, <1>3, LenProperties
<1>5. \A i \in 1..Len(q) :
        /\ TokenChanged(q)[i].what = q[i].what
        /\ TokenChanged(q)[i].user = q[i].user
        /\ TokenChanged(q)[i].live = q[i].live
        /\ StreamClosed(q)[i].what = q[i].what
        /\ StreamClosed(q)[i].user = q[i].user
        /\ ~StreamClosed(q)[i].live
  BY <1>1 DEF TokenChanged, StreamClosed, Callbacks
<1>6. QED
  BY <1>3, <1>4, <1>5

LEMMA MarkedTasks ==
  ASSUME NEW q \in Seq(Tasks)
  PROVE  /\ StreamClosed(q) \in Seq(Tasks) /\ Len(StreamClosed(q)) = Len(q)
         /\ \A i \in 1..Len(q) :
              /\ StreamClosed(q)[i].what = q[i].what
              /\ StreamClosed(q)[i].user = q[i].user
              /\ ~StreamClosed(q)[i].live
<1>1. /\ Len(q) \in Nat /\ DOMAIN q = 1..Len(q)
      /\ \A i \in 1..Len(q) : q[i] \in Tasks
  BY LenProperties, ElementOfSeq
<1>2. StreamClosed(q) \in [1..Len(q) -> Tasks]
  BY <1>1 DEF StreamClosed, Tasks
<1>3. StreamClosed(q) \in Seq(Tasks)
  BY <1>1, <1>2, SeqDef
<1>4. Len(StreamClosed(q)) = Len(q)
  BY <1>1, <1>2, <1>3, LenProperties
<1>5. \A i \in 1..Len(q) :
        /\ StreamClosed(q)[i].what = q[i].what
        /\ StreamClosed(q)[i].user = q[i].user
        /\ ~StreamClosed(q)[i].live
  BY <1>1 DEF StreamClosed, Tasks
<1>6. QED
  BY <1>3, <1>4, <1>5

-----------------------------------------------------------------------------
\* The pipeline.

(* The pipeline f is p with batches of the queue Q, `new`, behind it, and  *)
(* within its limit.                                                       *)
Extends(f, p, Q, n, new) ==
  /\ f \in Seq(1..n) /\ Len(f) \in Nat /\ Len(f) <= MaxPending
  /\ Len(p) \in Nat /\ Len(p) <= Len(f)
  /\ \A i \in 1..Len(p) : f[i] = p[i]
  /\ \A i \in (Len(p) + 1)..Len(f) : f[i] \in Q
  /\ new \in Seq(1..n) /\ Len(new) = Len(f) - Len(p)
  /\ \A i \in 1..(Len(f) - Len(p)) : new[i] = f[Len(p) + i]

LEMMA FilledPipeline ==
  ASSUME NEW n \in Nat, NEW p \in Seq(1..n), Len(p) <= MaxPending,
         NEW Q \in SUBSET (1..n), NEW f \in Pipelines, IsFilled(f, p, Q)
  PROVE  Extends(f, p, Q, n, SubSeq(f, Len(p) + 1, Len(f)))
<1>1. f \in Seq(Batches) /\ Len(f) \in Nat
  <2>1. PICK k \in 0..MaxWrites : f \in [1..k -> Batches]
    BY DEF Pipelines
  <2>2. f \in Seq(Batches)
    BY <2>1, WriteBounds, SeqDef
  <2>3. QED
    BY <2>2, LenProperties
<1>2. Len(p) \in Nat /\ \A i \in 1..Len(p) : p[i] \in 1..n
  BY LenProperties, ElementOfSeq
<1>3. Len(p) <= Len(f) /\ SubSeq(f, 1, Len(p)) = p
  BY DEF IsFilled
<1>4. \A i \in 1..Len(p) : f[i] = p[i]
  <2>1. \A i \in 1..Len(p) : f[i] \in Batches
    BY <1>1, <1>2, <1>3, ElementOfSeq
  <2>2. \A i \in 1..(Len(p) - 1 + 1) : SubSeq(f, 1, Len(p))[i] = f[1 + i - 1]
    BY <1>2, <2>1, SubSeqProperties
  <2>3. QED
    BY <1>2, <1>3, <2>2
<1>5. \A i \in (Len(p) + 1)..Len(f) : f[i] \in Q
  BY DEF IsFilled
<1>6. ASSUME NEW i \in 1..Len(f)
      PROVE  f[i] \in 1..n
  <2>1. CASE i \in 1..Len(p)
    BY <1>2, <1>4, <2>1
  <2>2. CASE i \in (Len(p) + 1)..Len(f)
    BY <1>5, <2>2
  <2>3. i \in 1..Len(p) \/ i \in (Len(p) + 1)..Len(f)
    <3>1. Len(p) \in Nat
      BY <1>2
    <3>2. QED
      BY <1>1, <3>1
  <2>4. QED
    BY <2>1, <2>2, <2>3
<1>7. f \in Seq(1..n)
  <2>1. SubSeq(f, 1, Len(f)) \in Seq(1..n)
    BY <1>1, <1>6, SubSeqProperties
  <2>2. QED
    BY <1>1, <2>1, SubSeqFull
<1>8. Len(f) <= MaxPending
  <2>1. CASE Len(f) = Len(p)
    BY <2>1
  <2>2. CASE Len(f) # Len(p)
    <3>1. Len(f) \in (Len(p) + 1)..Len(f)
      BY <1>1, <1>2, <1>3, <2>2
    <3>2. CanAddToWritePipeline(SubSeq(f, 1, Len(f) - 1))
      BY <3>1 DEF IsFilled
    <3>3. Len(SubSeq(f, 1, Len(f) - 1)) = Len(f) - 1
      <4>1. \A i \in 1..(Len(f) - 1) : f[i] \in 1..n
        BY <1>1, <1>6
      <4>2. Len(SubSeq(f, 1, Len(f) - 1)) =
              IF 1 <= Len(f) - 1 THEN Len(f) - 1 - 1 + 1 ELSE 0
        BY <1>1, <4>1, SubSeqProperties
      <4>3. Len(p) \in Nat /\ Len(f) \in Nat /\ Len(p) + 1 <= Len(f)
        BY <1>1, <1>2, <3>1
      <4>4. PICK k : k = Len(SubSeq(f, 1, Len(f) - 1))
        OBVIOUS
      <4>5. k = IF 1 <= Len(f) - 1 THEN Len(f) - 1 - 1 + 1 ELSE 0
        BY <4>2, <4>4
      <4>6. PICK m \in Nat : m = Len(f)
        BY <4>3
      <4>7. k = m - 1
        BY <4>3, <4>5, <4>6
      <4>8. QED
        BY <4>4, <4>6, <4>7
    <3>4. QED
      BY <1>1, <3>2, <3>3, WriteBounds DEF CanAddToWritePipeline
  <2>3. QED
    BY <2>1, <2>2
<1>9. /\ SubSeq(f, Len(p) + 1, Len(f)) \in Seq(1..n)
      /\ Len(SubSeq(f, Len(p) + 1, Len(f))) = Len(f) - Len(p)
      /\ \A i \in 1..(Len(f) - Len(p)) :
           SubSeq(f, Len(p) + 1, Len(f))[i] = f[Len(p) + i]
  <2>1. \A i \in (Len(p) + 1)..Len(f) : f[i] \in 1..n
    BY <1>5
  <2>2. Len(p) + 1 \in Int /\ Len(f) \in Int
    BY <1>1, <1>2
  <2>3. /\ SubSeq(f, Len(p) + 1, Len(f)) \in Seq(1..n)
        /\ Len(SubSeq(f, Len(p) + 1, Len(f))) =
             IF Len(p) + 1 <= Len(f) THEN Len(f) - (Len(p) + 1) + 1 ELSE 0
        /\ \A i \in 1..(Len(f) - (Len(p) + 1) + 1) :
             SubSeq(f, Len(p) + 1, Len(f))[i] = f[Len(p) + 1 + i - 1]
    BY <2>1, <2>2, SubSeqProperties
  <2>4. QED
    BY <1>1, <1>2, <1>3, <2>3
<1>10. QED
  BY <1>1, <1>2, <1>3, <1>4, <1>5, <1>7, <1>8, <1>9 DEF Extends

(* What FillWritePipeline does to the pipeline, the wire and the stream.   *)
Fills(p, Q, s, wire) ==
  /\ Len(pipeline') \in Nat /\ Len(p) \in Nat /\ Len(p) <= Len(pipeline')
  /\ \A i \in 1..Len(p) : pipeline'[i] = p[i]
  /\ \A i \in (Len(p) + 1)..Len(pipeline') : pipeline'[i] \in Q
  /\ s = "Open" <=> stream' = "Open"
  /\ idle' => pipeline' = <<>> \/ (idle /\ pipeline' = p)
  /\ s = "Open" /\ handshake =>
       /\ Len(wire) \in Nat
       /\ Len(sent') = Len(wire) + (Len(pipeline') - Len(p))
       /\ \A i \in 1..Len(sent') :
            sent'[i] = IF i <= Len(wire) THEN wire[i]
                       ELSE pipeline'[Len(p) + (i - Len(wire))]
  /\ ~(s = "Open" /\ handshake) => sent' = wire

LEMMA FilledStream ==
  ASSUME NEW n \in Nat, NEW p \in Seq(1..n), Len(p) <= MaxPending,
         NEW Q \in SUBSET (1..n), NEW s \in Stages,
         NEW wire \in Seq(1..n), NEW requests \in Seq(Requests),
         forceRefresh \in BOOLEAN, idle \in BOOLEAN,
         FillWritePipeline(p, Q, s, wire, requests)
  PROVE  /\ Fills(p, Q, s, wire)
         /\ pipeline' \in Seq(1..n) /\ Len(pipeline') <= MaxPending
         /\ sent' \in Seq(1..n) /\ idle' \in BOOLEAN /\ stream' \in Stages
         /\ authQueue' \in Seq(Requests) /\ forceRefresh' \in BOOLEAN
<1>1. PICK f \in Pipelines :
        /\ IsFilled(f, p, Q) /\ pipeline' = f
        /\ IF s = "Open" /\ handshake
           THEN /\ sent' = wire \o SubSeq(f, Len(p) + 1, Len(f))
                /\ idle' = (f = <<>> \/ (idle /\ f = p))
           ELSE sent' = wire /\ idle' = FALSE
        /\ IF s \in {"Initial", "Error"} /\ f # <<>> THEN Start(s, requests)
           ELSE stream' = s /\ authQueue' = requests /\ UNCHANGED forceRefresh
  BY DEF FillWritePipeline
<1>0. IsFilled(f, p, Q)
  BY <1>1
<1>2. PICK new : /\ new = SubSeq(f, Len(p) + 1, Len(f))
                 /\ Extends(f, p, Q, n, new)
  BY <1>0, FilledPipeline
<1>3. /\ f \in Seq(1..n) /\ Len(f) \in Nat /\ Len(f) <= MaxPending
      /\ Len(p) \in Nat /\ Len(p) <= Len(f)
      /\ \A i \in 1..Len(p) : f[i] = p[i]
      /\ \A i \in (Len(p) + 1)..Len(f) : f[i] \in Q
  BY <1>2 DEF Extends
<1>4. /\ new \in Seq(1..n) /\ Len(new) = Len(f) - Len(p)
      /\ \A i \in 1..(Len(f) - Len(p)) : new[i] = f[Len(p) + i]
  BY <1>2 DEF Extends
<1>5. /\ wire \o new \in Seq(1..n) /\ Len(wire) \in Nat
      /\ Len(wire \o new) = Len(wire) + (Len(f) - Len(p))
      /\ \A i \in 1..Len(wire \o new) :
           (wire \o new)[i] = IF i <= Len(wire) THEN wire[i]
                              ELSE f[Len(p) + (i - Len(wire))]
  <2>1. new \in Seq(1..n) /\ Len(new) = Len(f) - Len(p) /\ Len(wire) \in Nat
    BY <1>4, LenProperties
  <2>2. /\ wire \o new \in Seq(1..n)
        /\ Len(wire \o new) = Len(wire) + Len(new)
        /\ \A i \in 1..Len(wire) + Len(new) :
             (wire \o new)[i] = IF i <= Len(wire) THEN wire[i]
                                ELSE new[i - Len(wire)]
    BY <2>1, ConcatProperties
  <2>3. \A i \in 1..Len(wire) + Len(new) : ~(i <= Len(wire)) =>
          i - Len(wire) \in 1..(Len(f) - Len(p))
    BY <1>3, <2>1
  <2>4. QED
    BY <1>4, <2>1, <2>2, <2>3
<1>6. /\ sent' \in Seq(1..n) /\ idle' \in BOOLEAN
      /\ s = "Open" /\ handshake => sent' = wire \o new
      /\ ~(s = "Open" /\ handshake) => sent' = wire
  BY <1>1, <1>2, <1>5
<1>7. /\ stream' \in Stages /\ authQueue' \in Seq(Requests)
      /\ forceRefresh' \in BOOLEAN
      /\ s = "Open" <=> stream' = "Open"
  <2>1. CASE s \in {"Initial", "Error"} /\ f # <<>>
    <3>1. Start(s, requests)
      BY <1>1, <2>1
    <3>2. Request(forceRefresh) \in Requests
      BY DEF Request, Requests
    <3>3. Append(requests, Request(forceRefresh)) \in Seq(Requests)
      BY <3>2, AppendProperties
    <3>4. QED
      BY <2>1, <3>1, <3>3 DEF Start, Stages
  <2>2. CASE ~(s \in {"Initial", "Error"} /\ f # <<>>)
    BY <1>1, <2>2
  <2>3. QED
    BY <2>1, <2>2
<1>8. s = "Open" /\ handshake =>
        /\ Len(wire) \in Nat
        /\ Len(sent') = Len(wire) + (Len(f) - Len(p))
        /\ \A i \in 1..Len(sent') :
             sent'[i] = IF i <= Len(wire) THEN wire[i]
                        ELSE f[Len(p) + (i - Len(wire))]
  BY <1>5, <1>6
<1>9. pipeline' = f /\ (idle' => f = <<>> \/ (idle /\ f = p))
  <2>1. CASE s = "Open" /\ handshake
    BY <1>1, <2>1
  <2>2. CASE ~(s = "Open" /\ handshake)
    <3>1. idle' = FALSE /\ pipeline' = f
      BY <1>1, <2>2
    <3>2. QED
      BY <3>1
  <2>3. QED
    BY <2>1, <2>2
<1>10. Fills(p, Q, s, wire)
  BY <1>3, <1>6, <1>7, <1>8, <1>9 DEF Fills
<1>11. QED
  BY <1>3, <1>6, <1>7, <1>9, <1>10

-----------------------------------------------------------------------------
\* Types.

(* An answer, or a write on the wire, is for a batch of the pipeline.      *)
LEMMA WireHasPipeline ==
  ASSUME StreamTypeOK, WireFits, sent # <<>> \/ answers # <<>>
  PROVE  /\ handshake /\ stream = "Open" /\ token \in Users
         /\ pipeline # <<>> /\ Len(pipeline) \in Nat \ {0}
         /\ Len(answers) \in Nat /\ Len(sent) \in Nat
<1>1. Len(answers) \in Nat /\ Len(sent) \in Nat /\ Len(pipeline) \in Nat
  BY LenProperties DEF StreamTypeOK
<1>2. handshake /\ stream = "Open" /\ token \in Users
  BY DEF WireFits, StreamTypeOK
<1>3. Len(sent) # 0 \/ Len(answers) # 0
  BY <1>1, EmptySeq DEF StreamTypeOK
<1>4. Len(pipeline) # 0
  BY <1>1, <1>2, <1>3 DEF WireFits
<1>5. QED
  BY <1>1, <1>2, <1>4, EmptySeq DEF StreamTypeOK

LEMMA StreamTypeInit == Init => StreamTypeOK
<1> SUFFICES ASSUME Init PROVE StreamTypeOK
  OBVIOUS
<1>1. Credential(authUser) \in Tasks
  BY DEF Init, Credential, Tasks
<1>2. <<Credential(authUser)>> \in Seq(Tasks)
  BY <1>1
<1>3. Len(<<>>) = 0 /\ 1..0 = {}
  BY EmptySeq
<1>4. /\ <<>> \in Seq(Requests) /\ <<>> \in Seq(Callbacks) /\ <<>> \in Seq(Users)
      /\ <<>> \in Seq(Stored)
  BY EmptySeq
<1>5. /\ authQueue \in Seq(Requests) /\ mainQueue \in Seq(Callbacks)
      /\ workerQueue \in Seq(Tasks) /\ fetches \in [Users -> Seq(Requests)]
      /\ pipeline \in Seq(Stored) /\ sent \in Seq(Stored)
      /\ answers \in Seq(Stored) /\ writer \in Seq(Users)
  BY <1>2, <1>4 DEF Init
<1>6. Len(writer) = 0 /\ Len(pipeline) = 0
  BY <1>3 DEF Init
<1>7. /\ authUser \in Users /\ currentUser \in Users /\ sdkUser \in Users
      /\ expired \in SUBSET Users /\ forceRefresh = FALSE
      /\ queues \in [Users -> SUBSET Stored] /\ acked = {} /\ refused = {}
      /\ stream = "Initial" /\ handshake = FALSE /\ idle = FALSE
      /\ token = NoToken /\ committed = {} /\ added = 0 /\ events = 0
  BY DEF Init
<1>8. /\ Len(pipeline) <= MaxPending /\ stream \in Stages
      /\ token \in Users \cup {NoToken}
      /\ added \in 0..MaxWrites /\ events \in 0..MaxEvents
  BY <1>6, <1>7, WriteBounds DEF Stages
<1>9. QED
  BY <1>5, <1>7, <1>8 DEF StreamTypeOK

LEMMA StreamTypeStep ==
  ASSUME StreamTypeOK, WireFits, [Next]_vars
  PROVE  StreamTypeOK'
<1> USE UsersAssumption, WriteBounds
<1>0. Len(writer) \in Nat
  BY LenProperties DEF StreamTypeOK
<1>1. ASSUME NEW u \in Users, SignIn(u)
      PROVE  StreamTypeOK'
  <2>1. Notification(u) \in Callbacks
    BY DEF Notification, Callbacks
  <2>2. mainQueue' \in Seq(Callbacks)
    BY <1>1, <2>1, Appended DEF SignIn, StreamTypeOK
  <2>3. /\ authUser' \in Users /\ expired' \in SUBSET Users
        /\ events' \in 0..MaxEvents
        /\ UNCHANGED <<fetches, authQueue, workerQueue, providerVars, localVars,
                       streamVars, wireVars, serverVars, added>>
    BY <1>1 DEF SignIn, StreamTypeOK
  <2>4. QED
    BY <2>2, <2>3 DEF StreamTypeOK, Stored, providerVars, localVars,
                      streamVars, wireVars, serverVars
<1>2. ASSUME NEW u \in Users, FetchAccessToken(u) \/ FetchFails(u)
      PROVE  StreamTypeOK'
  <2>1. Head(fetches[u]) \in Requests /\ Tail(fetches[u]) \in Seq(Requests)
    BY <1>2, Taken DEF FetchAccessToken, FetchFails, StreamTypeOK
  <2>2. fetches' \in [Users -> Seq(Requests)]
    BY <1>2, <2>1 DEF FetchAccessToken, FetchFails, StreamTypeOK
  <2>3. /\ Notification(u) \in Callbacks /\ Notification(Nobody) \in Callbacks
        /\ TokenCallback(Head(fetches[u]), u, TRUE) \in Callbacks
        /\ TokenCallback(Head(fetches[u]), u, FALSE) \in Callbacks
    BY <2>1 DEF Notification, TokenCallback, Callbacks, Requests
  <2>4. \A e \in Callbacks : /\ Append(mainQueue, e) \in Seq(Callbacks)
                             /\ \A d \in Callbacks :
                                  mainQueue \o <<e, d>> \in Seq(Callbacks)
    BY AppendProperties, ConcatProperties DEF StreamTypeOK
  <2>5. \A e \in Callbacks, q \in Seq(Callbacks) : q \o <<e>> \in Seq(Callbacks)
    BY ConcatProperties
  <2>6. mainQueue' \in Seq(Callbacks)
    <3>1. CASE FetchAccessToken(u)
      <4>1. PICK q \in {Append(mainQueue, Notification(u)), mainQueue} :
              mainQueue' = q \o <<TokenCallback(Head(fetches[u]), u, TRUE)>>
        BY <3>1 DEF FetchAccessToken
      <4>2. q \in Seq(Callbacks)
        BY <2>3, <2>4 DEF StreamTypeOK
      <4>3. QED
        BY <2>3, <2>5, <4>1, <4>2
    <3>2. CASE FetchFails(u)
      BY <2>3, <2>4, <3>2 DEF FetchFails
    <3>3. QED
      BY <1>2, <3>1, <3>2
  <2>7. authUser' \in Users /\ expired' \in SUBSET Users
    BY <1>2 DEF FetchAccessToken, FetchFails, StreamTypeOK
  <2>8. UNCHANGED <<authQueue, workerQueue, providerVars, localVars, streamVars,
                    wireVars, serverVars, boundVars>>
    BY <1>2 DEF FetchAccessToken, FetchFails
  <2>9. QED
    BY <2>2, <2>6, <2>7, <2>8 DEF StreamTypeOK, Stored, providerVars, localVars,
                                  streamVars, wireVars, serverVars, boundVars
<1>3. CASE TokenExpires
  <2>1. /\ authUser' \in Users /\ expired' \in SUBSET Users
        /\ events' \in 0..MaxEvents
        /\ UNCHANGED <<fetches, queueVars, providerVars, localVars,
                       streamVars, wireVars, serverVars, added>>
    BY <1>3 DEF TokenExpires, StreamTypeOK
  <2>2. QED
    BY <2>1 DEF StreamTypeOK, Stored, queueVars, providerVars, localVars,
                streamVars, wireVars, serverVars
<1>4. CASE GetToken
  <2>1. Head(authQueue) \in Requests /\ authQueue' \in Seq(Requests)
    BY <1>4, Taken DEF GetToken, StreamTypeOK
  <2>2. TokenCallback(Head(authQueue), Nobody, TRUE) \in Callbacks
    BY <2>1 DEF TokenCallback, Callbacks, Requests
  <2>3. mainQueue' \in Seq(Callbacks)
    <3>1. Append(mainQueue, TokenCallback(Head(authQueue), Nobody, TRUE))
            \in Seq(Callbacks)
      BY <2>2, AppendProperties DEF StreamTypeOK
    <3>2. QED
      BY <1>4, <3>1 DEF GetToken, StreamTypeOK
  <2>4. Append(fetches[authUser], Head(authQueue)) \in Seq(Requests)
    BY <2>1, AppendProperties DEF StreamTypeOK
  <2>5. fetches' \in [Users -> Seq(Requests)]
    BY <1>4, <2>4 DEF GetToken, StreamTypeOK
  <2>6. QED
    BY <1>4, <2>1, <2>3, <2>5 DEF GetToken, StreamTypeOK, Stored, providerVars,
              localVars, streamVars, wireVars, serverVars, boundVars
<1>5. CASE OnNotification
  <2>1. Head(mainQueue) \in Callbacks /\ Tail(mainQueue) \in Seq(Callbacks)
    BY <1>5, Taken DEF OnNotification, StreamTypeOK
  <2>2. currentUser' \in Users /\ Credential(currentUser') \in Tasks
    BY <1>5, <2>1 DEF OnNotification, Credential, Tasks, Callbacks
  <2>3. mainQueue' \in Seq(Callbacks) /\ authQueue' \in Seq(Requests)
    BY <1>5, <2>1, MarkedCallbacks, MarkedRequests
       DEF OnNotification, StreamTypeOK
  <2>4. fetches' \in [Users -> Seq(Requests)]
    BY <1>5, MarkedRequests DEF OnNotification, StreamTypeOK
  <2>5. workerQueue' \in Seq(Tasks)
    BY <1>5, <2>2, AppendProperties DEF OnNotification, StreamTypeOK
  <2>6. QED
    BY <1>5, <2>2, <2>3, <2>4, <2>5 DEF OnNotification, StreamTypeOK, Stored,
              localVars, streamVars, wireVars, serverVars, boundVars
<1>6. CASE OnToken
  <2>1. Head(mainQueue) \in Callbacks /\ mainQueue' \in Seq(Callbacks)
    BY <1>6, Taken DEF OnToken, StreamTypeOK
  <2>2. [what |-> "resume", user |-> Head(mainQueue).user,
         ok |-> Head(mainQueue).ok /\ Head(mainQueue).same,
         live |-> Head(mainQueue).live] \in Tasks
    BY <2>1 DEF Tasks, Callbacks
  <2>3. workerQueue' \in Seq(Tasks)
    BY <1>6, <2>2, AppendProperties DEF OnToken, StreamTypeOK
  <2>4. QED
    BY <1>6, <2>1, <2>3 DEF OnToken, StreamTypeOK, Stored, authVars,
              providerVars, localVars, streamVars, wireVars, serverVars, boundVars
<1>7. CASE AddDocument
  <2>1. WriteTask \in Tasks
    BY DEF WriteTask, Tasks
  <2>2. workerQueue' \in Seq(Tasks)
    BY <1>7, <2>1, AppendProperties DEF AddDocument, StreamTypeOK
  <2>3. /\ added' \in 0..MaxWrites
        /\ UNCHANGED <<authVars, authQueue, mainQueue, providerVars, localVars,
                       streamVars, wireVars, serverVars, events>>
    BY <1>0, <1>7 DEF AddDocument, StreamTypeOK
  <2>4. QED
    BY <2>2, <2>3 DEF StreamTypeOK, Stored, authVars, providerVars, localVars,
              streamVars, wireVars, serverVars
<1>8. CASE WriteMutations
  <2>1. PICK n : n = Len(writer')
    OBVIOUS
  <2>2. /\ writer' \in Seq(Users) /\ n = Len(writer) + 1 /\ n \in Nat
        /\ Stored \subseteq 1..n /\ Stored' = 1..n
    BY <1>0, <1>8, <2>1, AppendProperties DEF WriteMutations, StreamTypeOK, Stored
  <2>3. /\ pipeline \in Seq(1..n) /\ sent \in Seq(1..n) /\ answers \in Seq(1..n)
    BY <2>2, SeqMonotonic DEF StreamTypeOK
  <2>4. queues' \in [Users -> SUBSET (1..n)]
    <3>1. n \in 1..n
      BY <2>2
    <3>2. queues' = [queues EXCEPT ![sdkUser] = @ \cup {n}]
      BY <1>8, <2>1 DEF WriteMutations
    <3>3. queues \in [Users -> SUBSET (1..n)]
      BY <2>2 DEF StreamTypeOK
    <3>4. QED
      BY <3>1, <3>2, <3>3
  <2>5. queues'[sdkUser] \in SUBSET (1..n)
    BY <2>4 DEF StreamTypeOK
  <2>6. /\ pipeline' \in Seq(1..n) /\ Len(pipeline') <= MaxPending
        /\ sent' \in Seq(1..n) /\ idle' \in BOOLEAN /\ stream' \in Stages
        /\ authQueue' \in Seq(Requests) /\ forceRefresh' \in BOOLEAN
    BY <1>8, <2>2, <2>3, <2>5, FilledStream DEF WriteMutations, StreamTypeOK
  <2>7. workerQueue' \in Seq(Tasks)
    BY <1>8, Taken DEF WriteMutations, Task, StreamTypeOK
  <2>8. UNCHANGED <<authVars, mainQueue, currentUser, sdkUser, acked, handshake,
                    token, answers, serverVars, boundVars>>
    BY <1>8 DEF WriteMutations
  <2>9. committed \in SUBSET [batch: 1..n, as: Users]
    BY <2>2 DEF StreamTypeOK
  <2>10. QED
    BY <2>1, <2>2, <2>3, <2>4, <2>6, <2>7, <2>8, <2>9 DEF StreamTypeOK,
              authVars, serverVars, boundVars
<1>9. CASE HandleCredentialChange
  <2>1. Head(workerQueue) \in Tasks /\ Tail(workerQueue) \in Seq(Tasks)
    BY <1>9, Taken DEF HandleCredentialChange, Task, StreamTypeOK
  <2>2. sdkUser' \in Users /\ workerQueue' \in Seq(Tasks)
    BY <1>9, <2>1, MarkedTasks DEF HandleCredentialChange, Tasks
  <2>3. mainQueue' \in Seq(Callbacks) /\ StreamClosed(authQueue) \in Seq(Requests)
    BY <1>9, MarkedCallbacks, MarkedRequests
       DEF HandleCredentialChange, StreamTypeOK
  <2>4. fetches' \in [Users -> Seq(Requests)]
    BY <1>9, MarkedRequests DEF HandleCredentialChange, StreamTypeOK
  <2>5. PICK s \in Stages :
          FillWritePipeline(<<>>, queues[sdkUser'], s, <<>>,
                            StreamClosed(authQueue))
    BY <1>9 DEF HandleCredentialChange, Stages
  <2>6. /\ <<>> \in Seq(Stored) /\ Len(<<>>) <= MaxPending
        /\ queues[sdkUser'] \in SUBSET Stored
    BY <2>2, EmptySeq DEF StreamTypeOK
  <2>7. /\ pipeline' \in Seq(Stored) /\ Len(pipeline') <= MaxPending
        /\ sent' \in Seq(Stored) /\ idle' \in BOOLEAN /\ stream' \in Stages
        /\ authQueue' \in Seq(Requests) /\ forceRefresh' \in BOOLEAN
    BY <1>0, <2>3, <2>5, <2>6, FilledStream DEF StreamTypeOK, Stored
  <2>8. QED
    BY <1>9, <2>2, <2>3, <2>4, <2>6, <2>7 DEF HandleCredentialChange,
              StreamTypeOK, Stored, serverVars, boundVars
<1>10. ASSUME UNCHANGED pipeline, CloseStream
       PROVE  /\ handshake' \in BOOLEAN /\ idle' \in BOOLEAN /\ stream' \in Stages
              /\ token' \in Users \cup {NoToken}
              /\ sent' \in Seq(Stored) /\ answers' \in Seq(Stored)
  BY <1>10, EmptySeq DEF CloseStream, Stages
<1>11. CASE ResumeStartWithCredentials
  <2>1. Head(workerQueue) \in Tasks /\ workerQueue' \in Seq(Tasks)
    BY <1>11, Taken DEF ResumeStartWithCredentials, Task, StreamTypeOK
  <2>2. Head(workerQueue).user \in Users
    BY <2>1 DEF Tasks
  <2>3. UNCHANGED pipeline
    BY <1>11 DEF ResumeStartWithCredentials, CloseStream, streamVars
  <2>4. /\ handshake' \in BOOLEAN /\ idle' \in BOOLEAN /\ stream' \in Stages
        /\ token' \in Users \cup {NoToken}
        /\ sent' \in Seq(Stored) /\ answers' \in Seq(Stored)
    <3>1. CASE CloseStream
      BY <1>10, <2>3, <3>1
    <3>2. CASE ~CloseStream
      BY <1>11, <2>2, <3>2 DEF ResumeStartWithCredentials, StreamTypeOK,
                               streamVars, wireVars
    <3>3. QED
      BY <3>1, <3>2
  <2>5. QED
    BY <1>11, <2>1, <2>3, <2>4 DEF ResumeStartWithCredentials, StreamTypeOK,
              Stored, authVars, providerVars, localVars, serverVars, boundVars
<1>12. CASE OnStreamStart
  BY <1>12 DEF OnStreamStart, StreamEvent, StreamTypeOK, Stored, Stages, authVars,
               localVars, wireVars, serverVars, boundVars
<1>13. CASE OnWriteStreamHandshakeComplete
  <2>1. sent' \in Seq(Stored)
    BY <1>13, ConcatProperties DEF OnWriteStreamHandshakeComplete, StreamTypeOK
  <2>2. QED
    BY <1>13, <2>1 DEF OnWriteStreamHandshakeComplete, StreamEvent, StreamTypeOK,
              Stored, authVars, localVars, serverVars, boundVars
<1>14. CASE OnWriteStreamMutationResult
  <2>1. /\ pipeline # <<>> /\ Head(pipeline) \in Stored
        /\ Tail(pipeline) \in Seq(Stored) /\ Len(Tail(pipeline)) = Len(pipeline) - 1
        /\ Len(pipeline) \in Nat \ {0}
    BY <1>14, WireHasPipeline, Taken DEF OnWriteStreamMutationResult, StreamTypeOK
  <2>2. answers' \in Seq(Stored)
    BY <1>14, Taken DEF OnWriteStreamMutationResult, StreamTypeOK
  <2>3. /\ queues' \in [Users -> SUBSET Stored] /\ acked' \in SUBSET Stored
    BY <1>14, <2>1 DEF OnWriteStreamMutationResult, StreamTypeOK
  <2>4. Len(Tail(pipeline)) <= MaxPending /\ queues'[sdkUser] \in SUBSET Stored
    BY <2>1, <2>3 DEF StreamTypeOK
  <2>5. /\ pipeline' \in Seq(Stored) /\ Len(pipeline') <= MaxPending
        /\ sent' \in Seq(Stored) /\ idle' \in BOOLEAN /\ stream' \in Stages
        /\ authQueue' \in Seq(Requests) /\ forceRefresh' \in BOOLEAN
    <3>1. FillWritePipeline(Tail(pipeline), queues'[sdkUser], stream, sent,
                            authQueue)
      BY <1>14 DEF OnWriteStreamMutationResult
    <3>2. QED
      BY <1>0, <2>1, <2>4, <3>1, FilledStream DEF StreamTypeOK, Stored
  <2>6. QED
    BY <1>14, <2>2, <2>3, <2>5 DEF OnWriteStreamMutationResult, StreamEvent,
              StreamTypeOK, Stored, authVars, serverVars, boundVars
<1>15. CASE OnStreamError
  <2>1. UNCHANGED pipeline
    BY <1>15 DEF OnStreamError, CloseStream
  <2>2. /\ handshake' \in BOOLEAN /\ idle' \in BOOLEAN /\ stream' \in Stages
        /\ token' \in Users \cup {NoToken}
        /\ sent' \in Seq(Stored) /\ answers' \in Seq(Stored)
    BY <1>10, <1>15, <2>1 DEF OnStreamError
  <2>3. QED
    BY <1>15, <2>1, <2>2 DEF OnStreamError, StreamEvent, StreamTypeOK, Stored,
              authVars, localVars, serverVars, boundVars
<1>16. CASE HandleWriteError
  <2>1. /\ pipeline # <<>> /\ Head(pipeline) \in Stored
        /\ Tail(pipeline) \in Seq(Stored) /\ Len(Tail(pipeline)) = Len(pipeline) - 1
        /\ Len(pipeline) \in Nat \ {0}
    BY <1>16, WireHasPipeline, Taken DEF HandleWriteError, StreamTypeOK
  <2>2. Head(sent) \in Stored
    BY <1>16, Taken DEF HandleWriteError, StreamTypeOK
  <2>3. queues' \in [Users -> SUBSET Stored]
    BY <1>16, <2>1 DEF HandleWriteError, StreamTypeOK
  <2>4. Len(Tail(pipeline)) <= MaxPending /\ queues'[sdkUser] \in SUBSET Stored
    BY <2>1, <2>3 DEF StreamTypeOK
  <2>5. /\ pipeline' \in Seq(Stored) /\ Len(pipeline') <= MaxPending
        /\ sent' \in Seq(Stored) /\ idle' \in BOOLEAN /\ stream' \in Stages
        /\ authQueue' \in Seq(Requests) /\ forceRefresh' \in BOOLEAN
    <3>1. FillWritePipeline(Tail(pipeline), queues'[sdkUser], "Initial", <<>>,
                            authQueue)
      BY <1>16 DEF HandleWriteError
    <3>2. <<>> \in Seq(Stored) /\ "Initial" \in Stages
      BY EmptySeq DEF Stages
    <3>3. QED
      BY <1>0, <2>1, <2>4, <3>1, <3>2, FilledStream DEF StreamTypeOK, Stored
  <2>6. QED
    BY <1>16, <2>2, <2>3, <2>5 DEF HandleWriteError, StreamEvent, StreamTypeOK,
              Stored, authVars, boundVars
<1>17. CASE BackoffElapsed
  <2>1. Request(forceRefresh) \in Requests
    BY DEF Request, Requests, StreamTypeOK
  <2>2. /\ authQueue' \in Seq(Requests) /\ stream' \in Stages
        /\ forceRefresh' \in BOOLEAN
    <3>1. Append(authQueue, Request(forceRefresh)) \in Seq(Requests)
      BY <2>1, AppendProperties DEF StreamTypeOK
    <3>2. QED
      BY <1>17, <3>1 DEF BackoffElapsed, Start, Stages
  <2>3. QED
    BY <1>17, <2>2 DEF BackoffElapsed, StreamEvent, StreamTypeOK, Stored, authVars,
              localVars, wireVars, serverVars, boundVars
<1>18. CASE IdleTimeout
  BY <1>18 DEF IdleTimeout, StreamEvent, StreamTypeOK, Stored, Stages, authVars,
               localVars, wireVars, serverVars, boundVars
<1>19. CASE Commit
  <2>1. Head(sent) \in Stored /\ sent' \in Seq(Stored) /\ token \in Users
    BY <1>19, Taken, WireHasPipeline DEF Commit, StreamTypeOK
  <2>2. answers' \in Seq(Stored)
    BY <1>19, <2>1, AppendProperties DEF Commit, StreamTypeOK
  <2>3. committed' \in SUBSET [batch: Stored, as: Users]
    BY <1>19, <2>1 DEF Commit, StreamTypeOK
  <2>4. QED
    BY <1>19, <2>1, <2>2, <2>3 DEF Commit, StreamEvent, StreamTypeOK, Stored,
              authVars, localVars, streamVars, boundVars
<1>20. CASE Relaunch
  <2>1. Credential(authUser) \in Tasks
    BY DEF Credential, Tasks, StreamTypeOK
  <2>2. workerQueue' \in Seq(Tasks)
    BY <1>20, <2>1 DEF Relaunch
  <2>3. /\ <<>> \in Seq(Stored) /\ <<>> \in Seq(Requests) /\ <<>> \in Seq(Callbacks)
        /\ Len(<<>>) = 0
    BY EmptySeq
  <2>4. /\ authQueue' \in Seq(Requests) /\ mainQueue' \in Seq(Callbacks)
        /\ fetches' \in [Users -> Seq(Requests)]
        /\ pipeline' \in Seq(Stored) /\ Len(pipeline') = 0
        /\ sent' \in Seq(Stored) /\ answers' \in Seq(Stored)
    BY <1>20, <2>3 DEF Relaunch
  <2>5. /\ currentUser' \in Users /\ events' \in 0..MaxEvents
        /\ forceRefresh' = FALSE /\ stream' = "Initial" /\ handshake' = FALSE
        /\ token' = NoToken /\ idle' = FALSE
        /\ UNCHANGED <<authUser, expired, localVars, serverVars, added>>
    BY <1>20 DEF Relaunch, StreamTypeOK
  <2>6. Stored' = Stored
    BY <2>5 DEF Stored, localVars
  <2>7. /\ Len(pipeline') <= MaxPending /\ stream' \in Stages
        /\ token' \in Users \cup {NoToken}
    BY <2>4, <2>5 DEF Stages
  <2>8. QED
    BY <2>2, <2>4, <2>5, <2>6, <2>7 DEF StreamTypeOK, localVars, serverVars
<1>21. CASE UNCHANGED vars
  BY <1>21 DEF vars, StreamTypeOK, Stored, authVars, queueVars, providerVars,
               localVars, streamVars, wireVars, serverVars, boundVars
<1>22. QED
  BY <1>1, <1>2, <1>3, <1>4, <1>5, <1>6, <1>7, <1>8, <1>9, <1>11, <1>12, <1>13,
     <1>14, <1>15, <1>16, <1>17, <1>18, <1>19, <1>20, <1>21 DEF Next

-----------------------------------------------------------------------------
\* The wire.

(* The pipeline is filled by the four actions that change a queue's front. *)
LEMMA WriteFills ==
  ASSUME StreamTypeOK, StreamTypeOK', WriteMutations
  PROVE  Fills(pipeline, queues'[sdkUser], stream, sent)
<1>1. PICK n : n = Len(writer')
  OBVIOUS
<1>2. n \in Nat /\ n = Len(writer) + 1 /\ Len(writer) \in Nat
  BY <1>1, AppendProperties, LenProperties DEF WriteMutations, StreamTypeOK
<1>3. pipeline \in Seq(1..n) /\ sent \in Seq(1..n)
  <2>1. 1..Len(writer) \subseteq 1..n
    BY <1>2
  <2>2. QED
    BY <2>1, SeqMonotonic DEF StreamTypeOK, Stored
<1>4. queues'[sdkUser] \in SUBSET (1..n)
  BY <1>1 DEF StreamTypeOK, Stored
<1>5. FillWritePipeline(pipeline, queues'[sdkUser], stream, sent, authQueue)
  BY DEF WriteMutations
<1>6. QED
  BY <1>2, <1>3, <1>4, <1>5, FilledStream DEF StreamTypeOK

LEMMA CredentialFills ==
  ASSUME StreamTypeOK, StreamTypeOK', HandleCredentialChange
  PROVE  \E s \in Stages \ {"Open"} : Fills(<<>>, queues'[sdkUser'], s, <<>>)
<1>1. Len(writer) \in Nat
  BY LenProperties DEF StreamTypeOK
<1>2. PICK s \in Stages \ {"Open"} :
        FillWritePipeline(<<>>, queues[sdkUser'], s, <<>>, StreamClosed(authQueue))
  BY DEF HandleCredentialChange, Stages
<1>3. /\ StreamClosed(authQueue) \in Seq(Requests)
      /\ <<>> \in Seq(Stored) /\ Len(<<>>) <= MaxPending
  BY MarkedRequests, EmptySeq, WriteBounds DEF StreamTypeOK
<1>4. queues[sdkUser'] \in SUBSET Stored /\ queues' = queues
  BY DEF StreamTypeOK, HandleCredentialChange
<1>5. Fills(<<>>, queues[sdkUser'], s, <<>>)
  BY <1>1, <1>2, <1>3, <1>4, FilledStream DEF StreamTypeOK, Stored
<1>6. QED
  BY <1>4, <1>5

LEMMA SettledFills ==
  ASSUME StreamTypeOK, StreamTypeOK', WireFits
  PROVE  /\ OnWriteStreamMutationResult =>
              Fills(Tail(pipeline), queues'[sdkUser], stream, sent)
         /\ HandleWriteError =>
              Fills(Tail(pipeline), queues'[sdkUser], "Initial", <<>>)
<1>1. Len(writer) \in Nat
  BY LenProperties DEF StreamTypeOK
<1>2. SUFFICES ASSUME OnWriteStreamMutationResult \/ HandleWriteError
               PROVE  /\ OnWriteStreamMutationResult =>
                           Fills(Tail(pipeline), queues'[sdkUser], stream, sent)
                      /\ HandleWriteError =>
                           Fills(Tail(pipeline), queues'[sdkUser], "Initial", <<>>)
  OBVIOUS
<1>3. pipeline # <<>>
  BY <1>2, WireHasPipeline DEF OnWriteStreamMutationResult, HandleWriteError
<1>4. Tail(pipeline) \in Seq(Stored) /\ Len(Tail(pipeline)) <= MaxPending
  <2>1. /\ Tail(pipeline) \in Seq(Stored) /\ Len(pipeline) \in Nat
        /\ Len(Tail(pipeline)) = Len(pipeline) - 1
    BY <1>3, Taken DEF StreamTypeOK
  <2>2. QED
    BY <2>1, WriteBounds DEF StreamTypeOK
<1>5. UNCHANGED writer
  BY <1>2 DEF OnWriteStreamMutationResult, HandleWriteError
<1>6. queues'[sdkUser] \in SUBSET Stored
  BY <1>5 DEF StreamTypeOK, Stored
<1>7. <<>> \in Seq(Stored) /\ "Initial" \in Stages
  BY EmptySeq DEF Stages
<1>8. ASSUME OnWriteStreamMutationResult
      PROVE  Fills(Tail(pipeline), queues'[sdkUser], stream, sent)
  <2>1. FillWritePipeline(Tail(pipeline), queues'[sdkUser], stream, sent, authQueue)
    BY <1>8 DEF OnWriteStreamMutationResult
  <2>2. QED
    BY <1>1, <1>4, <1>6, <2>1, FilledStream DEF StreamTypeOK, Stored
<1>9. ASSUME HandleWriteError
      PROVE  Fills(Tail(pipeline), queues'[sdkUser], "Initial", <<>>)
  <2>1. FillWritePipeline(Tail(pipeline), queues'[sdkUser], "Initial", <<>>, authQueue)
    BY <1>9 DEF HandleWriteError
  <2>2. QED
    BY <1>1, <1>4, <1>6, <1>7, <2>1, FilledStream DEF StreamTypeOK, Stored
<1>10. QED
  BY <1>8, <1>9

(* A closed stream has an empty wire.                                      *)
LEMMA ClosedWire ==
  ASSUME ~handshake', stream' # "Open", idle' => pipeline' = <<>>,
         sent' = <<>>, answers' = <<>>
  PROVE  WireFits'
BY DEF WireFits

LEMMA WireStep ==
  ASSUME StreamTypeOK, StreamTypeOK', WireFits, [Next]_vars
  PROVE  WireFits'
<1>1. ASSUME UNCHANGED <<streamVars, wireVars>>
      PROVE  WireFits'
  BY <1>1 DEF WireFits, streamVars, wireVars
<1>2. ASSUME NEW u \in Users, SignIn(u) \/ FetchAccessToken(u) \/ FetchFails(u)
      PROVE  WireFits'
  BY <1>1, <1>2 DEF SignIn, FetchAccessToken, FetchFails
<1>3. CASE \/ TokenExpires \/ GetToken \/ OnNotification \/ OnToken
           \/ AddDocument \/ UNCHANGED vars
  BY <1>1, <1>3 DEF TokenExpires, GetToken, OnNotification, OnToken, AddDocument,
                    vars
<1>4. CASE WriteMutations
  <2>1. Fills(pipeline, queues'[sdkUser], stream, sent)
    BY <1>4, WriteFills
  <2>2. UNCHANGED <<handshake, token, answers>>
    BY <1>4 DEF WriteMutations
  <2>3. /\ Len(answers) \in Nat /\ Len(sent) \in Nat /\ Len(pipeline) \in Nat
        /\ Len(pipeline') \in Nat
    BY LenProperties DEF StreamTypeOK
  <2>4. CASE handshake
    <3>1. /\ stream = "Open" /\ stream' = "Open" /\ token # NoToken
          /\ Len(answers) + Len(sent) = Len(pipeline)
      BY <2>1, <2>4 DEF Fills, WireFits
    <3>2. /\ Len(pipeline) <= Len(pipeline')
          /\ Len(sent') = Len(sent) + (Len(pipeline') - Len(pipeline))
      BY <2>1, <2>4, <3>1 DEF Fills
    <3>3. Len(answers') + Len(sent') = Len(pipeline')
      BY <2>2, <2>3, <3>1, <3>2
    <3>4. \A i \in 1..Len(answers') : answers'[i] = pipeline'[i]
      <4>1. \A i \in 1..Len(answers) : i \in 1..Len(pipeline)
        BY <2>3, <3>1
      <4>2. QED
        BY <2>1, <2>2, <2>4, <4>1 DEF Fills, WireFits
    <3>5. ASSUME NEW i \in 1..Len(sent')
          PROVE  sent'[i] = pipeline'[Len(answers') + i]
      <4>1. sent'[i] = IF i <= Len(sent) THEN sent[i]
                       ELSE pipeline'[Len(pipeline) + (i - Len(sent))]
        BY <2>1, <2>4, <3>1 DEF Fills
      <4>2. CASE i <= Len(sent)
        <5>1. i \in 1..Len(sent) /\ Len(answers) + i \in 1..Len(pipeline)
          BY <2>3, <3>1, <4>2
        <5>2. sent[i] = pipeline[Len(answers) + i]
          BY <2>4, <5>1 DEF WireFits
        <5>3. pipeline'[Len(answers) + i] = pipeline[Len(answers) + i]
          BY <2>1, <5>1 DEF Fills
        <5>4. QED
          BY <2>2, <4>1, <4>2, <5>2, <5>3
      <4>3. CASE ~(i <= Len(sent))
        <5>1. Len(pipeline) + (i - Len(sent)) = Len(answers) + i
          BY <2>3, <3>1
        <5>2. QED
          BY <2>2, <4>1, <4>3, <5>1
      <4>4. QED
        BY <4>2, <4>3
    <3>6. idle' => pipeline' = <<>>
      BY <2>1 DEF Fills, WireFits
    <3>7. QED
      BY <2>2, <2>4, <3>1, <3>3, <3>4, <3>5, <3>6 DEF WireFits
  <2>5. CASE ~handshake
    BY <2>1, <2>2, <2>5 DEF Fills, WireFits
  <2>6. QED
    BY <2>4, <2>5
<1>5. CASE HandleCredentialChange
  <2>1. PICK s \in Stages \ {"Open"} : Fills(<<>>, queues'[sdkUser'], s, <<>>)
    BY <1>5, CredentialFills
  <2>2. ~handshake' /\ answers' = <<>>
    BY <1>5 DEF HandleCredentialChange
  <2>3. stream' # "Open" /\ sent' = <<>> /\ (idle' => pipeline' = <<>>)
    BY <2>1 DEF Fills
  <2>4. QED
    BY <2>2, <2>3, ClosedWire
<1>6. ASSUME CloseStream
      PROVE  WireFits'
  <2>1. /\ ~handshake' /\ stream' # "Open" /\ ~idle'
        /\ sent' = <<>> /\ answers' = <<>>
    BY <1>6 DEF CloseStream
  <2>2. QED
    BY <2>1, ClosedWire
<1>7. CASE ResumeStartWithCredentials
  <2>1. CASE CloseStream
    BY <1>6, <2>1
  <2>2. CASE UNCHANGED <<streamVars, wireVars>>
    BY <1>1, <2>2
  <2>3. CASE /\ token' = Head(workerQueue).user
             /\ UNCHANGED <<pipeline, stream, handshake, idle, wireVars>>
    <3>1. Head(workerQueue) \in Tasks
      BY <1>7, Taken DEF ResumeStartWithCredentials, Task, StreamTypeOK
    <3>2. token' # NoToken
      BY <2>3, <3>1, UsersAssumption DEF Tasks
    <3>3. QED
      BY <2>3, <3>2 DEF WireFits, wireVars
  <2>4. QED
    BY <1>7, <2>1, <2>2, <2>3 DEF ResumeStartWithCredentials
<1>8. CASE OnStreamStart
  BY <1>8 DEF OnStreamStart, WireFits, wireVars
<1>9. CASE OnWriteStreamHandshakeComplete
  <2>1. /\ ~handshake /\ handshake' /\ sent = <<>> /\ answers = <<>>
        /\ sent' = sent \o pipeline
        /\ UNCHANGED <<pipeline, stream, token, idle, answers>>
        /\ stream = "Open" /\ token # NoToken /\ (idle => pipeline = <<>>)
    BY <1>9 DEF OnWriteStreamHandshakeComplete, WireFits
  <2>2. sent' = pipeline
    BY <2>1, ConcatEmptySeq DEF StreamTypeOK
  <2>3. Len(pipeline) \in Nat /\ Len(answers) = 0
    BY <2>1, LenProperties, EmptySeq DEF StreamTypeOK
  <2>4. QED
    BY <2>1, <2>2, <2>3 DEF WireFits
<1>10. CASE OnWriteStreamMutationResult
  <2>1. /\ handshake /\ stream = "Open" /\ token # NoToken /\ pipeline # <<>>
        /\ Len(answers) \in Nat /\ Len(sent) \in Nat
        /\ Len(answers) + Len(sent) = Len(pipeline)
        /\ answers # <<>> /\ answers' = Tail(answers)
        /\ UNCHANGED <<handshake, token>>
    BY <1>10, WireHasPipeline, UsersAssumption
       DEF OnWriteStreamMutationResult, WireFits
  <2>2. /\ Len(answers') = Len(answers) - 1 /\ Len(answers) \in Nat \ {0}
        /\ \A i \in 1..Len(answers') : answers'[i] = answers[i + 1]
    BY <2>1, Taken DEF StreamTypeOK
  <2>3. /\ Len(Tail(pipeline)) = Len(pipeline) - 1 /\ Len(pipeline) \in Nat \ {0}
        /\ \A i \in 1..Len(Tail(pipeline)) : Tail(pipeline)[i] = pipeline[i + 1]
    BY <2>1, Taken DEF StreamTypeOK
  <2>4. Fills(Tail(pipeline), queues'[sdkUser], stream, sent)
    BY <1>10, SettledFills
  <2>5. /\ Len(pipeline') \in Nat /\ Len(pipeline) - 1 <= Len(pipeline')
        /\ Len(sent') = Len(sent) + (Len(pipeline') - (Len(pipeline) - 1))
        /\ \A i \in 1..Len(sent') :
             sent'[i] = IF i <= Len(sent) THEN sent[i]
                        ELSE pipeline'[Len(pipeline) - 1 + (i - Len(sent))]
        /\ stream' = "Open"
    BY <2>1, <2>3, <2>4 DEF Fills
  <2>6. \A i \in 1..(Len(pipeline) - 1) : pipeline'[i] = pipeline[i + 1]
    BY <2>3, <2>4 DEF Fills
  <2>7. Len(answers') + Len(sent') = Len(pipeline')
    <3>1. Len(sent') = Len(sent) + (Len(pipeline') - (Len(pipeline) - 1))
      BY <2>5
    <3>2. /\ Len(answers) + Len(sent) = Len(pipeline)
          /\ Len(answers') = Len(answers) - 1
          /\ Len(answers) \in Nat /\ Len(sent) \in Nat /\ Len(pipeline') \in Nat
      BY <2>1, <2>2, <2>5
    <3>3. QED
      BY <3>1, <3>2
  <2>8. ASSUME NEW i \in 1..Len(answers')
        PROVE  answers'[i] = pipeline'[i]
    <3>1. i \in 1..(Len(pipeline) - 1) /\ i + 1 \in 1..Len(answers)
      BY <2>1, <2>2, <2>3
    <3>2. answers[i + 1] = pipeline[i + 1]
      BY <2>1, <3>1 DEF WireFits
    <3>3. QED
      BY <2>2, <2>6, <3>1, <3>2
  <2>9. ASSUME NEW i \in 1..Len(sent')
        PROVE  sent'[i] = pipeline'[Len(answers') + i]
    <3>1. CASE i <= Len(sent)
      <4>1. /\ i \in 1..Len(sent)
            /\ Len(answers) - 1 + i \in 1..(Len(pipeline) - 1)
            /\ Len(answers) - 1 + i + 1 = Len(answers) + i
        BY <2>1, <2>2, <2>3, <3>1
      <4>2. sent[i] = pipeline[Len(answers) + i]
        BY <2>1, <4>1 DEF WireFits
      <4>3. pipeline'[Len(answers) - 1 + i] = pipeline[Len(answers) + i]
        BY <2>6, <4>1
      <4>4. QED
        BY <2>2, <2>5, <3>1, <4>2, <4>3
    <3>2. CASE ~(i <= Len(sent))
      <4>1. Len(pipeline) - 1 + (i - Len(sent)) = Len(answers) - 1 + i
        BY <2>1, <2>2, <2>3
      <4>2. QED
        BY <2>2, <2>5, <3>2, <4>1
    <3>3. QED
      BY <3>1, <3>2
  <2>10. idle' => pipeline' = <<>>
    <3>1. ~idle
      BY <2>1 DEF WireFits
    <3>2. QED
      BY <2>4, <3>1 DEF Fills
  <2>11. QED
    BY <2>1, <2>5, <2>7, <2>8, <2>9, <2>10 DEF WireFits
<1>11. CASE OnStreamError
  BY <1>6, <1>11 DEF OnStreamError
<1>12. CASE HandleWriteError
  <2>1. Fills(Tail(pipeline), queues'[sdkUser], "Initial", <<>>)
    BY <1>12, SettledFills
  <2>2. ~handshake' /\ answers' = <<>> /\ pipeline # <<>>
    BY <1>12, WireHasPipeline DEF HandleWriteError
  <2>3. ~idle /\ stream' # "Open" /\ sent' = <<>>
    BY <2>1, <2>2 DEF Fills, WireFits
  <2>4. idle' => pipeline' = <<>>
    BY <2>1, <2>3 DEF Fills
  <2>5. QED
    BY <2>2, <2>3, <2>4, ClosedWire
<1>13. CASE BackoffElapsed
  BY <1>13 DEF BackoffElapsed, Start, WireFits, wireVars
<1>14. CASE IdleTimeout
  <2>1. pipeline = <<>> /\ Len(pipeline) = 0
    BY <1>14, EmptySeq DEF IdleTimeout, WireFits
  <2>2. sent = <<>> /\ answers = <<>>
    <3>1. Len(sent) \in Nat /\ Len(answers) \in Nat
      BY LenProperties DEF StreamTypeOK
    <3>2. CASE handshake
      <4>1. Len(sent) = 0 /\ Len(answers) = 0
        BY <2>1, <3>1, <3>2 DEF WireFits
      <4>2. QED
        BY <4>1, EmptySeq DEF StreamTypeOK
    <3>3. QED
      BY <3>2 DEF WireFits
  <2>3. /\ ~handshake' /\ stream' # "Open" /\ ~idle'
        /\ UNCHANGED <<sent, answers>>
    BY <1>14 DEF IdleTimeout, wireVars
  <2>4. QED
    BY <2>2, <2>3, ClosedWire
<1>15. CASE Commit
  <2>1. /\ handshake /\ sent # <<>> /\ sent' = Tail(sent)
        /\ answers' = Append(answers, Head(sent))
        /\ UNCHANGED <<pipeline, stream, handshake, token, idle>>
    BY <1>15, WireHasPipeline DEF Commit, streamVars
  <2>0. sent \in Seq(Stored) /\ answers \in Seq(Stored)
    BY DEF StreamTypeOK
  <2>2. /\ Len(sent) \in Nat \ {0} /\ Len(sent') = Len(sent) - 1
        /\ Head(sent) \in Stored /\ Head(sent) = sent[1]
        /\ \A i \in 1..Len(sent') : sent'[i] = sent[i + 1]
    BY <2>0, <2>1, Taken
  <2>3. /\ Len(answers) \in Nat /\ Len(answers') = Len(answers) + 1
        /\ \A i \in 1..Len(answers) : answers'[i] = answers[i]
        /\ answers'[Len(answers) + 1] = sent[1]
    BY <2>0, <2>1, <2>2, Appended
  <2>4. /\ Len(answers) + Len(sent) = Len(pipeline)
        /\ \A i \in 1..Len(answers) : answers[i] = pipeline[i]
        /\ \A i \in 1..Len(sent) : sent[i] = pipeline[Len(answers) + i]
    BY <2>1 DEF WireFits
  <2>5. Len(answers') + Len(sent') = Len(pipeline')
    BY <2>1, <2>2, <2>3, <2>4
  <2>6. ASSUME NEW i \in 1..Len(answers')
        PROVE  answers'[i] = pipeline'[i]
    <3>1. i \in 1..Len(answers) \/ i = Len(answers) + 1
      BY <2>3
    <3>2. sent[1] = pipeline[Len(answers) + 1]
      BY <2>2, <2>4
    <3>3. QED
      BY <2>1, <2>3, <2>4, <3>1, <3>2
  <2>7. ASSUME NEW i \in 1..Len(sent')
        PROVE  sent'[i] = pipeline'[Len(answers') + i]
    <3>1. i + 1 \in 1..Len(sent) /\ Len(answers) + (i + 1) = Len(answers) + 1 + i
      BY <2>2, <2>3
    <3>2. sent[i + 1] = pipeline[Len(answers) + (i + 1)]
      BY <2>4, <3>1
    <3>3. QED
      BY <2>1, <2>2, <2>3, <3>1, <3>2
  <2>8. QED
    BY <2>1, <2>5, <2>6, <2>7 DEF WireFits
<1>16. CASE Relaunch
  <2>1. /\ ~handshake' /\ stream' # "Open" /\ ~idle'
        /\ sent' = <<>> /\ answers' = <<>>
    BY <1>16 DEF Relaunch
  <2>2. QED
    BY <2>1, ClosedWire
<1>17. QED
  BY <1>2, <1>3, <1>4, <1>5, <1>7, <1>8, <1>9, <1>10, <1>11, <1>12, <1>13, <1>14,
     <1>15, <1>16 DEF Next

-----------------------------------------------------------------------------
\* The queues between FIRAuth and the stream.

(* A change of user goes to the end of a queue.                            *)
LEMMA ChangeAppended ==
  ASSUME NEW S, NEW q \in Seq(S), NEW e \in S, NEW r, r = Append(q, e),
         NEW kind, e.what = kind, NEW first
  PROVE  /\ Changes(r, kind) /\ Arrives(r, kind, e.user, first)
         /\ \A what, u : what # kind /\ Fits(q, kind, what, u) =>
              Fits(r, kind, what, u)
<1>1. /\ Len(q) \in Nat /\ Len(r) = Len(q) + 1
      /\ \A i \in 1..Len(q) : r[i] = q[i]
      /\ r[Len(q) + 1] = e
  BY Appended
<1>2. /\ Len(q) + 1 \in 1..Len(r)
      /\ \A i \in 1..Len(r) : \/ i \in 1..Len(q) /\ i < Len(q) + 1
                              \/ i = Len(q) + 1
      /\ \A i \in 1..Len(q) : i \in 1..Len(r)
  BY <1>1
<1>3. Changes(r, kind)
  BY <1>1, <1>2 DEF Changes
<1>4. Arrives(r, kind, e.user, first)
  BY <1>1, <1>2, <1>3 DEF Arrives
<1>5. ASSUME NEW what, NEW u, what # kind, Fits(q, kind, what, u)
      PROVE  Fits(r, kind, what, u)
  BY <1>1, <1>2, <1>5 DEF Fits
<1>6. QED
  BY <1>3, <1>4, <1>5

(* Something else does.                                                    *)
LEMMA OtherAppended ==
  ASSUME NEW S, NEW q \in Seq(S), NEW e \in S, NEW r, r = Append(q, e),
         NEW kind, e.what # kind
  PROVE  /\ Changes(r, kind) <=> Changes(q, kind)
         /\ \A last, first : Arrives(q, kind, last, first) =>
              Arrives(r, kind, last, first)
         /\ \A what, u :
              /\ Fits(q, kind, what, u)
              /\ e.what = what /\ e.live => e.user = u \/ Changes(q, kind)
              => Fits(r, kind, what, u)
<1>1. /\ Len(q) \in Nat /\ Len(r) = Len(q) + 1
      /\ \A i \in 1..Len(q) : r[i] = q[i]
      /\ r[Len(q) + 1] = e
  BY Appended
<1>2. /\ \A i \in 1..Len(r) : \/ i \in 1..Len(q) /\ i < Len(q) + 1
                              \/ i = Len(q) + 1
      /\ \A i \in 1..Len(q) : i \in 1..Len(r) /\ i < Len(q) + 1
  BY <1>1
<1>3. Changes(r, kind) <=> Changes(q, kind)
  BY <1>1, <1>2 DEF Changes
<1>4. ASSUME NEW last, NEW first, Arrives(q, kind, last, first)
      PROVE  Arrives(r, kind, last, first)
  BY <1>1, <1>2, <1>3, <1>4 DEF Arrives
<1>5. ASSUME NEW what, NEW u, Fits(q, kind, what, u),
             e.what = what /\ e.live => e.user = u \/ Changes(q, kind)
      PROVE  Fits(r, kind, what, u)
  <2>1. ASSUME NEW i \in 1..Len(r), r[i].what = what, r[i].live
        PROVE  \/ r[i].user = u
               \/ \E j \in 1..Len(r) : j < i /\ r[j].what = kind
    <3>1. CASE i \in 1..Len(q)
      BY <1>1, <1>2, <1>5, <2>1, <3>1 DEF Fits
    <3>2. CASE i = Len(q) + 1
      BY <1>1, <1>2, <1>5, <2>1, <3>2 DEF Changes
    <3>3. QED
      BY <1>2, <3>1, <3>2
  <2>2. QED
    BY <2>1 DEF Fits
<1>6. QED
  BY <1>3, <1>4, <1>5

(* The change at the front of a queue reaches its other end.               *)
LEMMA ChangeTaken ==
  ASSUME NEW S, NEW q \in Seq(S), q # <<>>, NEW r, r = Tail(q),
         NEW kind, Head(q).what = kind
  PROVE  \A last, first : Arrives(q, kind, last, first) =>
           Arrives(r, kind, last, Head(q).user)
<1>1. /\ Len(q) \in Nat \ {0} /\ Len(r) = Len(q) - 1 /\ Head(q) = q[1]
      /\ \A i \in 1..Len(r) : r[i] = q[i + 1]
  BY Taken
<1>2. /\ \A i \in 1..Len(r) : i + 1 \in 1..Len(q) /\ 1 < i + 1
      /\ \A i \in 1..Len(q) : 1 < i => i - 1 \in 1..Len(r) /\ (i - 1) + 1 = i
      /\ 1 \in 1..Len(q)
      /\ \A i \in 1..Len(r), j \in 1..Len(q) : i + 1 < j => i < j - 1 /\ 1 < j
  BY <1>1
<1>3. ASSUME NEW last, NEW first, Arrives(q, kind, last, first)
      PROVE  Arrives(r, kind, last, Head(q).user)
  <2>1. ASSUME NEW i \in 1..Len(r), r[i].what = kind, r[i].user # last
        PROVE  \E j \in 1..Len(r) : i < j /\ r[j].what = kind
    <3>1. PICK j \in 1..Len(q) : i + 1 < j /\ q[j].what = kind
      BY <1>1, <1>2, <1>3, <2>1 DEF Arrives
    <3>2. j - 1 \in 1..Len(r) /\ i < j - 1 /\ r[j - 1] = q[j]
      BY <1>1, <1>2, <3>1
    <3>3. QED
      BY <3>1, <3>2
  <2>2. ASSUME Head(q).user # last
        PROVE  Changes(r, kind)
    <3>1. PICK j \in 1..Len(q) : 1 < j /\ q[j].what = kind
      BY <1>1, <1>2, <1>3, <2>2 DEF Arrives
    <3>2. j - 1 \in 1..Len(r) /\ r[j - 1] = q[j]
      BY <1>1, <1>2, <3>1
    <3>3. QED
      BY <3>1, <3>2 DEF Changes
  <2>3. QED
    BY <2>1, <2>2 DEF Arrives
<1>4. QED
  BY <1>3

(* Something else is taken from the front.                                 *)
LEMMA OtherTaken ==
  ASSUME NEW S, NEW q \in Seq(S), q # <<>>, NEW r, r = Tail(q),
         NEW kind, Head(q).what # kind
  PROVE  /\ Changes(r, kind) <=> Changes(q, kind)
         /\ \A last, first : Arrives(q, kind, last, first) =>
              Arrives(r, kind, last, first)
         /\ \A what, u : Fits(q, kind, what, u) =>
              /\ Fits(r, kind, what, u)
              /\ Head(q).what = what /\ Head(q).live => Head(q).user = u
<1>1. /\ Len(q) \in Nat \ {0} /\ Len(r) = Len(q) - 1 /\ Head(q) = q[1]
      /\ \A i \in 1..Len(r) : r[i] = q[i + 1]
  BY Taken
<1>2. /\ \A i \in 1..Len(r) : i + 1 \in 1..Len(q)
      /\ \A i \in 1..Len(q) : i = 1 \/ (i - 1 \in 1..Len(r) /\ (i - 1) + 1 = i)
      /\ 1 \in 1..Len(q)
  BY <1>1
<1>3. /\ \A i \in 1..Len(r), j \in 1..Len(q) : i + 1 < j => i < j - 1
      /\ \A i \in 1..Len(r), j \in 1..Len(q) : j < i + 1 => j - 1 < i
      /\ \A j \in 1..Len(q) : ~(j < 1)
  BY <1>1
<1>4. \A j \in 1..Len(q) : q[j].what = kind =>
        j - 1 \in 1..Len(r) /\ r[j - 1] = q[j]
  BY <1>1, <1>2
<1>5. Changes(r, kind) <=> Changes(q, kind)
  BY <1>1, <1>2, <1>4 DEF Changes
<1>6. ASSUME NEW last, NEW first, Arrives(q, kind, last, first)
      PROVE  Arrives(r, kind, last, first)
  <2>1. ASSUME NEW i \in 1..Len(r), r[i].what = kind, r[i].user # last
        PROVE  \E j \in 1..Len(r) : i < j /\ r[j].what = kind
    <3>1. PICK j \in 1..Len(q) : i + 1 < j /\ q[j].what = kind
      BY <1>1, <1>2, <1>6, <2>1 DEF Arrives
    <3>2. QED
      BY <1>3, <1>4, <3>1
  <2>2. QED
    BY <1>5, <1>6, <2>1 DEF Arrives
<1>7. ASSUME NEW what, NEW u, Fits(q, kind, what, u)
      PROVE  /\ Fits(r, kind, what, u)
             /\ Head(q).what = what /\ Head(q).live => Head(q).user = u
  <2>1. ASSUME NEW i \in 1..Len(r), r[i].what = what, r[i].live, r[i].user # u
        PROVE  \E j \in 1..Len(r) : j < i /\ r[j].what = kind
    <3>1. PICK j \in 1..Len(q) : j < i + 1 /\ q[j].what = kind
      BY <1>1, <1>2, <1>7, <2>1 DEF Fits
    <3>2. QED
      BY <1>3, <1>4, <3>1
  <2>2. Head(q).what = what /\ Head(q).live => Head(q).user = u
    BY <1>1, <1>2, <1>3, <1>7 DEF Fits
  <2>3. QED
    BY <2>1, <2>2 DEF Fits
<1>8. QED
  BY <1>5, <1>6, <1>7

(* Entries that are marked stay where they are.                            *)
LEMMA EntriesMarked ==
  ASSUME NEW q, NEW r, Len(r) = Len(q),
         \A i \in 1..Len(q) : r[i].what = q[i].what /\ r[i].user = q[i].user,
         NEW kind
  PROVE  /\ Changes(r, kind) <=> Changes(q, kind)
         /\ \A last, first : Arrives(q, kind, last, first) =>
              Arrives(r, kind, last, first)
         /\ (\A i \in 1..Len(q) : ~r[i].live) =>
              \A what, u : Fits(r, kind, what, u)
<1>1. Changes(r, kind) <=> Changes(q, kind)
  BY DEF Changes
<1>2. ASSUME NEW last, NEW first, Arrives(q, kind, last, first)
      PROVE  Arrives(r, kind, last, first)
  BY <1>1, <1>2 DEF Arrives
<1>3. (\A i \in 1..Len(q) : ~r[i].live) => \A what, u : Fits(r, kind, what, u)
  BY DEF Fits
<1>4. QED
  BY <1>1, <1>2, <1>3

(* What the token service answers is posted last, a change of user before  *)
(* it.                                                                     *)
LEMMA FetchPosts ==
  ASSUME StreamTypeOK, NEW u \in Users, FetchAccessToken(u) \/ FetchFails(u)
  PROVE  \E q \in Seq(Callbacks), ok \in BOOLEAN :
           /\ mainQueue' = Append(q, TokenCallback(Head(fetches[u]), u, ok))
           /\ \/ q = mainQueue /\ authUser' = authUser
              \/ \E w \in Users : q = Append(mainQueue, Notification(w)) /\ authUser' = w
<1> USE UsersAssumption
<1>1. mainQueue \in Seq(Callbacks) /\ fetches[u] \in Seq(Requests) /\ fetches[u] # <<>>
  BY DEF StreamTypeOK, FetchAccessToken, FetchFails
<1>2. Head(fetches[u]) \in Requests
  BY <1>1, Taken
<1>3. \A ok \in BOOLEAN : TokenCallback(Head(fetches[u]), u, ok) \in Callbacks
  BY <1>2 DEF TokenCallback, Callbacks, Requests
<1>4. \A w \in Users : Notification(w) \in Callbacks
  BY DEF Notification, Callbacks
<1>5. \A q \in Seq(Callbacks), e \in Callbacks : q \o <<e>> = Append(q, e)
  BY AppendIsConcat
<1>6. \A w \in Users : Append(mainQueue, Notification(w)) \in Seq(Callbacks)
  BY <1>1, <1>4, AppendProperties
<1>7. CASE FetchAccessToken(u)
  <2>1. PICK q \in {Append(mainQueue, Notification(u)), mainQueue} :
          /\ mainQueue' = q \o <<TokenCallback(Head(fetches[u]), u, TRUE)>>
          /\ q # mainQueue => u = authUser
    BY <1>7 DEF FetchAccessToken
  <2>2. q \in Seq(Callbacks)
    BY <1>1, <1>6
  <2>3. authUser' = authUser
    BY <1>7 DEF FetchAccessToken
  <2>4. mainQueue' = Append(q, TokenCallback(Head(fetches[u]), u, TRUE))
    BY <1>3, <1>5, <2>1, <2>2
  <2>5. \/ q = mainQueue /\ authUser' = authUser
        \/ q = Append(mainQueue, Notification(u)) /\ authUser' = u
    BY <2>1, <2>3
  <2>6. QED
    BY <2>2, <2>4, <2>5
<1>8. CASE FetchFails(u)
  <2>1. CASE /\ UNCHANGED authUser
             /\ mainQueue' = Append(mainQueue, TokenCallback(Head(fetches[u]), u, FALSE))
    BY <1>1, <2>1
  <2>2. CASE /\ authUser' = Nobody
             /\ mainQueue' = mainQueue \o
                  <<Notification(Nobody), TokenCallback(Head(fetches[u]), u, FALSE)>>
    <3> DEFINE n == Notification(Nobody)
               e == TokenCallback(Head(fetches[u]), u, FALSE)
    <3>1. n \in Callbacks /\ e \in Callbacks /\ mainQueue' = mainQueue \o <<n, e>>
      BY <1>3, <1>4, <2>2
    <3> HIDE DEF n, e
    <3>2. mainQueue' = Append(Append(mainQueue, n), e)
      BY <1>1, <3>1, TwoAppended
    <3>3. mainQueue' = Append(Append(mainQueue, Notification(Nobody)),
                              TokenCallback(Head(fetches[u]), u, FALSE))
      BY <3>2 DEF n, e
    <3>4. QED
      BY <1>6, <2>2, <3>3
  <2>3. QED
    BY <1>8, <2>1, <2>2 DEF FetchFails
<1>9. QED
  BY <1>7, <1>8

(* Users and tokens keep in step through every action.                     *)
LEMMA QueuesStep ==
  ASSUME StreamTypeOK, UsersArrive, TokensFit, [Next]_vars
  PROVE  UsersArrive' /\ TokensFit'
<1> DEFINE Changing == \/ Changes(mainQueue, "notify")
                       \/ Changes(workerQueue, "credential")
<1> USE UsersAssumption
<1>0. authUser = sdkUser \/ Changing
  BY DEF UsersArrive, Arrives
<1>1. ASSUME UNCHANGED <<authUser, fetches, mainQueue, currentUser, workerQueue,
                         sdkUser>>
      PROVE  UsersArrive' /\ TokensFit'
  BY <1>1 DEF UsersArrive, TokensFit
<1>2. /\ mainQueue \in Seq(Callbacks) /\ workerQueue \in Seq(Tasks)
      /\ \A u \in Users : fetches[u] \in Seq(Requests)
  BY DEF StreamTypeOK
<1>3. ASSUME NEW u \in Users, SignIn(u)
      PROVE  UsersArrive' /\ TokensFit'
  <2>1. /\ Notification(u) \in Callbacks /\ Notification(u).what = "notify"
        /\ Notification(u).user = u
    BY DEF Notification, Callbacks
  <2>2. /\ mainQueue' = Append(mainQueue, Notification(u)) /\ authUser' = u
        /\ UNCHANGED <<fetches, workerQueue, currentUser, sdkUser>>
    BY <1>3 DEF SignIn, providerVars, localVars
  <2>3. /\ Changes(mainQueue', "notify")
        /\ Arrives(mainQueue', "notify", u, currentUser)
        /\ Fits(mainQueue, "notify", "token", sdkUser) =>
             Fits(mainQueue', "notify", "token", sdkUser)
    BY <1>2, <2>1, <2>2, ChangeAppended
  <2>4. QED
    BY <2>2, <2>3 DEF UsersArrive, TokensFit
<1>4. ASSUME NEW u \in Users, FetchAccessToken(u) \/ FetchFails(u)
      PROVE  UsersArrive' /\ TokensFit'
  <2>1. /\ fetches[u] # <<>> /\ fetches' = [fetches EXCEPT ![u] = Tail(@)]
        /\ UNCHANGED <<workerQueue, currentUser, sdkUser>>
    BY <1>4 DEF FetchAccessToken, FetchFails, providerVars, localVars
  <2>2. /\ Head(fetches[u]) \in Requests /\ Head(fetches[u]) = fetches[u][1]
        /\ Len(fetches[u]) \in Nat \ {0}
        /\ Len(Tail(fetches[u])) = Len(fetches[u]) - 1
        /\ \A i \in 1..Len(Tail(fetches[u])) : Tail(fetches[u])[i] = fetches[u][i + 1]
    BY <1>2, <2>1, Taken
  <2>3. /\ 1 \in 1..Len(fetches[u])
        /\ \A i \in 1..Len(Tail(fetches[u])) : i + 1 \in 1..Len(fetches[u])
    BY <2>2
  <2>4. fetches[u][1].live => u = sdkUser \/ Changing
    BY <2>3 DEF TokensFit
  <2>5. ASSUME NEW v \in Users, NEW i \in 1..Len(fetches'[v]), fetches'[v][i].live
        PROVE  v = sdkUser \/ Changing
    <3>1. CASE v = u
      <4>1. fetches'[u] = Tail(fetches[u])
        BY <2>1 DEF StreamTypeOK
      <4>2. i \in 1..Len(Tail(fetches[u])) /\ fetches[u][i + 1].live
        BY <2>2, <2>5, <3>1, <4>1
      <4>3. QED
        BY <2>3, <3>1, <4>2 DEF TokensFit
    <3>2. CASE v # u
      <4>1. fetches'[v] = fetches[v]
        BY <2>1, <3>2 DEF StreamTypeOK
      <4>2. QED
        BY <2>5, <4>1 DEF TokensFit
    <3>3. QED
      BY <3>1, <3>2
  <2>6. ASSUME NEW ok \in BOOLEAN
        PROVE  /\ TokenCallback(Head(fetches[u]), u, ok) \in Callbacks
               /\ TokenCallback(Head(fetches[u]), u, ok).what = "token"
               /\ TokenCallback(Head(fetches[u]), u, ok).user = u
               /\ TokenCallback(Head(fetches[u]), u, ok).live => fetches[u][1].live
    BY <2>2 DEF TokenCallback, Callbacks, Requests
  <2>7. ASSUME NEW w \in Users
        PROVE  /\ Notification(w) \in Callbacks /\ Notification(w).what = "notify"
               /\ Notification(w).user = w
    BY DEF Notification, Callbacks
  <2>8. PICK q \in Seq(Callbacks), ok \in BOOLEAN :
          /\ mainQueue' = Append(q, TokenCallback(Head(fetches[u]), u, ok))
          /\ \/ q = mainQueue /\ authUser' = authUser
             \/ \E w \in Users : q = Append(mainQueue, Notification(w)) /\ authUser' = w
    BY <1>4, FetchPosts
  <2>9. /\ Arrives(q, "notify", authUser', currentUser)
        /\ Changes(mainQueue, "notify") => Changes(q, "notify")
        /\ \/ Changes(workerQueue, "credential")
           \/ Fits(q, "notify", "token", sdkUser)
    <3>1. CASE q = mainQueue /\ authUser' = authUser
      BY <3>1 DEF UsersArrive, TokensFit
    <3>2. CASE \E w \in Users : q = Append(mainQueue, Notification(w)) /\ authUser' = w
      <4>1. PICK w \in Users : q = Append(mainQueue, Notification(w)) /\ authUser' = w
        BY <3>2
      <4> DEFINE n == Notification(w)
      <4>2. n \in Callbacks /\ n.what = "notify" /\ n.user = w
        BY <2>7
      <4> HIDE DEF n
      <4>3. q = Append(mainQueue, n)
        BY <4>1 DEF n
      <4>4. /\ Changes(q, "notify") /\ Arrives(q, "notify", w, currentUser)
            /\ Fits(mainQueue, "notify", "token", sdkUser) =>
                 Fits(q, "notify", "token", sdkUser)
        BY <1>2, <4>2, <4>3, ChangeAppended
      <4>5. QED
        BY <4>1, <4>4 DEF TokensFit
    <3>3. QED
      BY <2>8, <3>1, <3>2
  <2>10. /\ Changes(mainQueue', "notify") <=> Changes(q, "notify")
         /\ Arrives(mainQueue', "notify", authUser', currentUser)
         /\ \/ Changes(workerQueue, "credential")
            \/ Fits(mainQueue', "notify", "token", sdkUser)
    <3> DEFINE e == TokenCallback(Head(fetches[u]), u, ok)
    <3> HIDE DEF e
    <3>1. /\ e \in Callbacks /\ e.what = "token" /\ e.user = u
          /\ e.live => fetches[u][1].live
      BY <2>6 DEF e
    <3>2. mainQueue' = Append(q, e)
      BY <2>8 DEF e
    <3>3. /\ Changes(mainQueue', "notify") <=> Changes(q, "notify")
          /\ Arrives(q, "notify", authUser', currentUser) =>
               Arrives(mainQueue', "notify", authUser', currentUser)
          /\ /\ Fits(q, "notify", "token", sdkUser)
             /\ e.what = "token" /\ e.live => e.user = sdkUser \/ Changes(q, "notify")
             => Fits(mainQueue', "notify", "token", sdkUser)
      BY <3>1, <3>2, OtherAppended
    <3>4. QED
      BY <2>4, <2>9, <3>1, <3>3
  <2>11. QED
    BY <2>1, <2>5, <2>9, <2>10 DEF UsersArrive, TokensFit
<1>5. CASE GetToken
  <2> DEFINE r == Head(authQueue)
  <2>1. r \in Requests
    BY <1>5, Taken DEF GetToken, StreamTypeOK
  <2>2. UNCHANGED <<authUser, workerQueue, currentUser, sdkUser>>
    BY <1>5 DEF GetToken, providerVars, localVars
  <2>3. CASE authUser = Nobody
    <3> DEFINE e == TokenCallback(r, Nobody, TRUE)
    <3>1. /\ e \in Callbacks /\ e.what = "token" /\ e.user = Nobody
      BY <2>1 DEF TokenCallback, Callbacks, Requests
    <3>2. mainQueue' = Append(mainQueue, e) /\ UNCHANGED fetches
      BY <1>5, <2>3 DEF GetToken
    <3> HIDE DEF e, r
    <3>3. /\ Changes(mainQueue', "notify") <=> Changes(mainQueue, "notify")
          /\ Arrives(mainQueue, "notify", authUser, currentUser) =>
               Arrives(mainQueue', "notify", authUser, currentUser)
          /\ /\ Fits(mainQueue, "notify", "token", sdkUser)
             /\ e.what = "token" /\ e.live =>
                  e.user = sdkUser \/ Changes(mainQueue, "notify")
             => Fits(mainQueue', "notify", "token", sdkUser)
      BY <1>2, <3>1, <3>2, OtherAppended
    <3>4. QED
      BY <1>0, <2>2, <2>3, <3>1, <3>2, <3>3 DEF UsersArrive, TokensFit
  <2>4. CASE authUser # Nobody
    <3>1. /\ fetches' = [fetches EXCEPT ![authUser] = Append(@, r)]
          /\ UNCHANGED mainQueue
      BY <1>5, <2>4 DEF GetToken
    <3>2. /\ Len(fetches[authUser]) \in Nat
          /\ Len(Append(fetches[authUser], r)) = Len(fetches[authUser]) + 1
          /\ \A i \in 1..Len(fetches[authUser]) :
               Append(fetches[authUser], r)[i] = fetches[authUser][i]
      BY <2>1, Appended DEF StreamTypeOK
    <3>3. ASSUME NEW v \in Users, NEW i \in 1..Len(fetches'[v]), fetches'[v][i].live
          PROVE  v = sdkUser \/ Changing
      <4>1. CASE v = authUser
        BY <1>0, <4>1
      <4>2. CASE v # authUser
        <5>1. fetches'[v] = fetches[v]
          BY <3>1, <4>2 DEF StreamTypeOK
        <5>2. QED
          BY <3>3, <5>1 DEF TokensFit
      <4>3. QED
        BY <4>1, <4>2
    <3>4. QED
      BY <2>2, <3>1, <3>3 DEF UsersArrive, TokensFit
  <2>5. QED
    BY <2>3, <2>4
<1>6. CASE OnNotification
  <2>1. /\ mainQueue # <<>> /\ Head(mainQueue).what = "notify"
        /\ mainQueue' = TokenChanged(Tail(mainQueue))
        /\ currentUser' = Head(mainQueue).user
        /\ workerQueue' = Append(workerQueue, Credential(currentUser'))
        /\ UNCHANGED <<authUser, sdkUser>>
    BY <1>6 DEF OnNotification, localVars
  <2>2. Tail(mainQueue) \in Seq(Callbacks) /\ Head(mainQueue) \in Callbacks
    BY <1>2, <2>1, Taken
  <2>3. Arrives(Tail(mainQueue), "notify", authUser, currentUser')
    BY <1>2, <2>1, ChangeTaken DEF UsersArrive
  <2>4. Arrives(mainQueue', "notify", authUser, currentUser')
    <3>1. /\ Len(mainQueue') = Len(Tail(mainQueue))
          /\ \A i \in 1..Len(Tail(mainQueue)) :
               /\ mainQueue'[i].what = Tail(mainQueue)[i].what
               /\ mainQueue'[i].user = Tail(mainQueue)[i].user
      BY <2>1, <2>2, MarkedCallbacks
    <3>2. QED
      BY <2>3, <3>1, EntriesMarked
  <2>5. /\ Credential(currentUser') \in Tasks
        /\ Credential(currentUser').what = "credential"
        /\ Credential(currentUser').user = currentUser'
    BY <2>1, <2>2 DEF Credential, Tasks, Callbacks
  <2>6. /\ Changes(workerQueue', "credential")
        /\ Arrives(workerQueue', "credential", currentUser', sdkUser)
        /\ Fits(workerQueue, "credential", "resume", sdkUser) =>
             Fits(workerQueue', "credential", "resume", sdkUser)
    BY <1>2, <2>1, <2>5, ChangeAppended
  <2>7. QED
    BY <2>1, <2>4, <2>6 DEF UsersArrive, TokensFit
<1>7. CASE OnToken
  <2> DEFINE t == Head(mainQueue)
             e == [what |-> "resume", user |-> t.user, ok |-> t.ok /\ t.same,
                   live |-> t.live]
  <2>1. /\ mainQueue # <<>> /\ t.what = "token" /\ mainQueue' = Tail(mainQueue)
        /\ workerQueue' = Append(workerQueue, e)
        /\ UNCHANGED <<authUser, fetches, currentUser, sdkUser>>
    BY <1>7 DEF OnToken, authVars, providerVars, localVars
  <2>2. t \in Callbacks
    BY <1>2, <2>1, Taken
  <2>3. /\ e \in Tasks /\ e.what = "resume" /\ e.user = t.user /\ e.live = t.live
    BY <2>2 DEF Tasks, Callbacks
  <2> HIDE DEF e
  <2>4. /\ Changes(mainQueue', "notify") <=> Changes(mainQueue, "notify")
        /\ Arrives(mainQueue, "notify", authUser, currentUser) =>
             Arrives(mainQueue', "notify", authUser, currentUser)
        /\ Fits(mainQueue, "notify", "token", sdkUser) =>
             /\ Fits(mainQueue', "notify", "token", sdkUser)
             /\ t.what = "token" /\ t.live => t.user = sdkUser
    BY <1>2, <2>1, OtherTaken
  <2>5. /\ Changes(workerQueue', "credential") <=> Changes(workerQueue, "credential")
        /\ Arrives(workerQueue, "credential", currentUser, sdkUser) =>
             Arrives(workerQueue', "credential", currentUser, sdkUser)
        /\ /\ Fits(workerQueue, "credential", "resume", sdkUser)
           /\ e.what = "resume" /\ e.live =>
                e.user = sdkUser \/ Changes(workerQueue, "credential")
           => Fits(workerQueue', "credential", "resume", sdkUser)
    BY <1>2, <2>1, <2>3, OtherAppended
  <2>6. QED
    BY <2>1, <2>3, <2>4, <2>5 DEF UsersArrive, TokensFit
<1>8. CASE AddDocument
  <2>1. /\ workerQueue' = Append(workerQueue, WriteTask)
        /\ UNCHANGED <<authUser, fetches, mainQueue, currentUser, sdkUser>>
    BY <1>8 DEF AddDocument, authVars, providerVars, localVars
  <2>2. WriteTask \in Tasks /\ WriteTask.what = "write"
    BY DEF WriteTask, Tasks
  <2>3. /\ Changes(workerQueue', "credential") <=> Changes(workerQueue, "credential")
        /\ Arrives(workerQueue, "credential", currentUser, sdkUser) =>
             Arrives(workerQueue', "credential", currentUser, sdkUser)
        /\ Fits(workerQueue, "credential", "resume", sdkUser) =>
             Fits(workerQueue', "credential", "resume", sdkUser)
    BY <1>2, <2>1, <2>2, OtherAppended
  <2>4. QED
    BY <2>1, <2>3 DEF UsersArrive, TokensFit
<1>9. CASE WriteMutations \/ ResumeStartWithCredentials
  <2>1. /\ workerQueue # <<>> /\ Head(workerQueue).what # "credential"
        /\ workerQueue' = Tail(workerQueue)
        /\ UNCHANGED <<authUser, fetches, mainQueue, currentUser, sdkUser>>
    BY <1>9 DEF WriteMutations, ResumeStartWithCredentials, Task, authVars,
                providerVars, localVars
  <2>2. /\ Changes(workerQueue', "credential") <=> Changes(workerQueue, "credential")
        /\ Arrives(workerQueue, "credential", currentUser, sdkUser) =>
             Arrives(workerQueue', "credential", currentUser, sdkUser)
        /\ Fits(workerQueue, "credential", "resume", sdkUser) =>
             Fits(workerQueue', "credential", "resume", sdkUser)
    BY <1>2, <2>1, OtherTaken
  <2>3. QED
    BY <2>1, <2>2 DEF UsersArrive, TokensFit
<1>10. CASE HandleCredentialChange
  <2>1. /\ workerQueue # <<>> /\ Head(workerQueue).what = "credential"
        /\ sdkUser' = Head(workerQueue).user
        /\ workerQueue' = StreamClosed(Tail(workerQueue))
        /\ mainQueue' = StreamClosed(mainQueue)
        /\ fetches' = [u \in Users |-> StreamClosed(fetches[u])]
        /\ UNCHANGED <<authUser, currentUser>>
    BY <1>10 DEF HandleCredentialChange, Task
  <2>2. Tail(workerQueue) \in Seq(Tasks)
    BY <1>2, <2>1, Taken
  <2>3. Arrives(Tail(workerQueue), "credential", currentUser, sdkUser')
    BY <1>2, <2>1, ChangeTaken DEF UsersArrive
  <2>4. /\ Arrives(workerQueue', "credential", currentUser, sdkUser')
        /\ Fits(workerQueue', "credential", "resume", sdkUser')
    <3>1. /\ Len(workerQueue') = Len(Tail(workerQueue))
          /\ \A i \in 1..Len(Tail(workerQueue)) :
               /\ workerQueue'[i].what = Tail(workerQueue)[i].what
               /\ workerQueue'[i].user = Tail(workerQueue)[i].user
               /\ ~workerQueue'[i].live
      BY <2>1, <2>2, MarkedTasks
    <3>2. QED
      BY <2>3, <3>1, EntriesMarked
  <2>5. /\ Arrives(mainQueue', "notify", authUser, currentUser)
        /\ Fits(mainQueue', "notify", "token", sdkUser')
    <3>1. /\ Len(mainQueue') = Len(mainQueue)
          /\ \A i \in 1..Len(mainQueue) :
               /\ mainQueue'[i].what = mainQueue[i].what
               /\ mainQueue'[i].user = mainQueue[i].user
               /\ ~mainQueue'[i].live
      BY <1>2, <2>1, MarkedCallbacks
    <3>2. Arrives(mainQueue, "notify", authUser, currentUser)
      BY DEF UsersArrive
    <3>3. QED
      BY <3>1, <3>2, EntriesMarked
  <2>6. \A u \in Users : \A i \in 1..Len(fetches'[u]) : ~fetches'[u][i].live
    BY <1>2, <2>1, MarkedRequests
  <2>7. QED
    BY <2>1, <2>4, <2>5, <2>6 DEF UsersArrive, TokensFit
<1>11. CASE Relaunch
  <2>1. /\ mainQueue' = <<>> /\ fetches' = [u \in Users |-> <<>>]
        /\ workerQueue' = <<Credential(authUser)>>
        /\ currentUser' = authUser /\ UNCHANGED <<authUser, sdkUser>>
    BY <1>11 DEF Relaunch, localVars
  <2>2. /\ Len(mainQueue') = 0 /\ \A u \in Users : Len(fetches'[u]) = 0
        /\ Len(workerQueue') = 1 /\ workerQueue'[1] = Credential(authUser)
    BY <2>1
  <2>3. /\ Credential(authUser).what = "credential"
        /\ Credential(authUser).user = authUser
    BY DEF Credential
  <2>4. /\ Arrives(mainQueue', "notify", authUser, authUser)
        /\ Fits(mainQueue', "notify", "token", sdkUser)
        /\ \A u \in Users : \A i \in 1..Len(fetches'[u]) : ~fetches'[u][i].live
    BY <2>2 DEF Arrives, Fits
  <2>5. /\ Arrives(workerQueue', "credential", authUser, sdkUser)
        /\ Fits(workerQueue', "credential", "resume", sdkUser)
    BY <2>2, <2>3 DEF Arrives, Changes, Fits
  <2>6. QED
    BY <2>1, <2>4, <2>5 DEF UsersArrive, TokensFit
<1>12. CASE \/ TokenExpires \/ OnStreamStart \/ OnWriteStreamHandshakeComplete
            \/ OnWriteStreamMutationResult \/ OnStreamError \/ HandleWriteError
            \/ BackoffElapsed \/ IdleTimeout \/ Commit \/ UNCHANGED vars
  <2>1. UNCHANGED <<authUser, fetches, mainQueue, currentUser, workerQueue, sdkUser>>
    BY <1>12 DEF TokenExpires, OnStreamStart, OnWriteStreamHandshakeComplete,
              OnWriteStreamMutationResult, OnStreamError, HandleWriteError,
              BackoffElapsed, IdleTimeout, Commit, StreamEvent, vars, authVars,
              queueVars, providerVars, localVars
  <2>2. QED
    BY <1>1, <2>1
<1>13. QED
  BY <1>3, <1>4, <1>5, <1>6, <1>7, <1>8, <1>9, <1>10, <1>11, <1>12 DEF Next

-----------------------------------------------------------------------------
\* Whose batches, whose token.

(* What is stored keeps its writer, and only WriteMutations stores.        *)
LEMMA WriterStep ==
  ASSUME StreamTypeOK, WireFits, QueuesAreOwn, [Next]_vars
  PROVE  /\ \A b \in Stored : writer'[b] = writer[b]
         /\ QueuesAreOwn'
<1>1. CASE WriteMutations
  <2>1. PICK n : n = Len(writer')
    OBVIOUS
  <2>2. /\ Len(writer) \in Nat /\ n = Len(writer) + 1
        /\ \A b \in 1..Len(writer) : writer'[b] = writer[b]
        /\ writer'[n] = sdkUser
    BY <1>1, <2>1, Appended DEF WriteMutations, StreamTypeOK
  <2>3. queues' = [queues EXCEPT ![sdkUser] = @ \cup {n}]
    BY <1>1, <2>1 DEF WriteMutations
  <2>4. ASSUME NEW u \in Users, NEW b \in queues'[u]
        PROVE  writer'[b] = u
    <3>1. CASE b \in queues[u]
      BY <2>2, <3>1 DEF QueuesAreOwn, StreamTypeOK, Stored
    <3>2. CASE b \notin queues[u]
      BY <2>2, <2>3, <2>4, <3>2 DEF StreamTypeOK
    <3>3. QED
      BY <3>1, <3>2
  <2>5. QED
    BY <2>2, <2>4 DEF QueuesAreOwn, Stored
<1>2. CASE OnWriteStreamMutationResult \/ HandleWriteError
  <2>1. UNCHANGED writer
    BY <1>2 DEF OnWriteStreamMutationResult, HandleWriteError
  <2>2. \A u \in Users : queues'[u] \subseteq queues[u]
    BY <1>2 DEF OnWriteStreamMutationResult, HandleWriteError, StreamTypeOK
  <2>3. QED
    BY <2>1, <2>2 DEF QueuesAreOwn
<1>3. ASSUME UNCHANGED <<writer, queues>>
      PROVE  (\A b \in Stored : writer'[b] = writer[b]) /\ QueuesAreOwn'
  BY <1>3 DEF QueuesAreOwn
<1>4. ASSUME NEW u \in Users, SignIn(u) \/ FetchAccessToken(u) \/ FetchFails(u)
      PROVE  (\A b \in Stored : writer'[b] = writer[b]) /\ QueuesAreOwn'
  BY <1>3, <1>4 DEF SignIn, FetchAccessToken, FetchFails, localVars
<1>5. CASE \/ TokenExpires \/ GetToken \/ OnNotification \/ OnToken \/ AddDocument
           \/ HandleCredentialChange \/ ResumeStartWithCredentials
           \/ OnStreamStart \/ OnWriteStreamHandshakeComplete \/ OnStreamError
           \/ BackoffElapsed \/ IdleTimeout \/ Commit \/ Relaunch \/ UNCHANGED vars
  <2>1. UNCHANGED <<writer, queues>>
    BY <1>5 DEF TokenExpires, GetToken, OnNotification, OnToken, AddDocument,
              HandleCredentialChange, ResumeStartWithCredentials, OnStreamStart,
              OnWriteStreamHandshakeComplete, OnStreamError, BackoffElapsed,
              IdleTimeout, Commit, Relaunch, vars, localVars
  <2>2. QED
    BY <1>3, <2>1
<1>6. QED
  BY <1>1, <1>2, <1>4, <1>5 DEF Next

(* A pipeline that is filled from the sync engine's queue is its user's.   *)
LEMMA FilledIsOwn ==
  ASSUME NEW u, NEW p, NEW Q, NEW s, NEW wire, Fills(p, Q, s, wire),
         pipeline' \in Seq(Stored'), u \in Users,
         \A i \in 1..Len(p) : writer'[p[i]] = u,
         \A b \in Q : writer'[b] = u
  PROVE  \A i \in DOMAIN pipeline' : writer'[pipeline'[i]] = u
<1>1. DOMAIN pipeline' = 1..Len(pipeline')
  BY LenProperties
<1>2. Len(p) \in Nat /\ Len(pipeline') \in Nat
  BY DEF Fills
<1>3. \A i \in 1..Len(pipeline') : i \in 1..Len(p) \/ i \in (Len(p) + 1)..Len(pipeline')
  BY <1>2
<1>4. QED
  BY <1>1, <1>3 DEF Fills

(* The token and the pipeline follow the sync engine's user.               *)
LEMMA OwnStreamStep ==
  ASSUME StreamTypeOK, StreamTypeOK', WireFits, TokensFit, QueuesAreOwn,
         OwnStream, [Next]_vars
  PROVE  OwnStream'
<1>1. /\ \A b \in Stored : writer'[b] = writer[b]
      /\ QueuesAreOwn'
  BY WriterStep
<1>2. /\ Len(pipeline) \in Nat /\ DOMAIN pipeline = 1..Len(pipeline)
      /\ \A i \in 1..Len(pipeline) : pipeline[i] \in Stored /\ writer'[pipeline[i]] = sdkUser
  <2>1. Len(pipeline) \in Nat /\ DOMAIN pipeline = 1..Len(pipeline)
    BY LenProperties DEF StreamTypeOK
  <2>2. \A i \in 1..Len(pipeline) : pipeline[i] \in Stored
    BY ElementOfSeq DEF StreamTypeOK
  <2>3. QED
    BY <1>1, <2>1, <2>2 DEF OwnStream
<1>3. ASSUME token' \in {token, NoToken}, UNCHANGED <<sdkUser, pipeline>>
      PROVE  OwnStream'
  BY <1>2, <1>3 DEF OwnStream
<1>4. ASSUME NEW u \in Users, SignIn(u) \/ FetchAccessToken(u) \/ FetchFails(u)
      PROVE  OwnStream'
  BY <1>3, <1>4 DEF SignIn, FetchAccessToken, FetchFails, localVars, streamVars
<1>5. CASE \/ TokenExpires \/ GetToken \/ OnNotification \/ OnToken \/ AddDocument
           \/ OnStreamStart \/ OnWriteStreamHandshakeComplete \/ OnStreamError
           \/ BackoffElapsed \/ IdleTimeout \/ Commit \/ UNCHANGED vars
  <2>1. token' \in {token, NoToken} /\ UNCHANGED <<sdkUser, pipeline>>
    BY <1>5 DEF TokenExpires, GetToken, OnNotification, OnToken, AddDocument,
              OnStreamStart, OnWriteStreamHandshakeComplete, OnStreamError,
              CloseStream, BackoffElapsed, IdleTimeout, Commit, vars, localVars,
              streamVars
  <2>2. QED
    BY <1>3, <2>1
<1>6. CASE WriteMutations
  <2>1. /\ UNCHANGED <<token, sdkUser>>
        /\ Fills(pipeline, queues'[sdkUser], stream, sent)
    BY <1>6, WriteFills DEF WriteMutations
  <2>2. \A i \in DOMAIN pipeline' : writer'[pipeline'[i]] = sdkUser
    <3>1. \A b \in queues'[sdkUser] : writer'[b] = sdkUser
      BY <1>1, <2>1 DEF QueuesAreOwn, StreamTypeOK
    <3>2. QED
      BY <1>2, <2>1, <3>1, FilledIsOwn DEF StreamTypeOK
  <2>3. QED
    BY <2>1, <2>2 DEF OwnStream
<1>7. CASE HandleCredentialChange
  <2>1. PICK s : Fills(<<>>, queues'[sdkUser'], s, <<>>)
    BY <1>7, CredentialFills
  <2>2. token' = NoToken
    BY <1>7 DEF HandleCredentialChange
  <2>3. \A i \in DOMAIN pipeline' : writer'[pipeline'[i]] = sdkUser'
    <3>1. \A b \in queues'[sdkUser'] : writer'[b] = sdkUser'
      BY <1>1 DEF QueuesAreOwn, StreamTypeOK
    <3>2. Len(<<>>) = 0
      OBVIOUS
    <3>3. \A i \in 1..Len(<<>>) : writer'[<<>>[i]] = sdkUser'
      BY <3>2
    <3>4. QED
      BY <2>1, <3>1, <3>3, FilledIsOwn DEF StreamTypeOK
  <2>4. QED
    BY <2>2, <2>3 DEF OwnStream
<1>8. CASE ResumeStartWithCredentials
  <2>1. UNCHANGED <<sdkUser, pipeline>>
    BY <1>8 DEF ResumeStartWithCredentials, CloseStream, localVars, streamVars
  <2>2. CASE token' \in {token, NoToken}
    BY <1>3, <2>1, <2>2
  <2>3. CASE Head(workerQueue).live /\ token' = Head(workerQueue).user
    <3>1. /\ workerQueue # <<>> /\ Head(workerQueue).what = "resume"
      BY <1>8 DEF ResumeStartWithCredentials, Task
    <3>2. /\ workerQueue \in Seq(Tasks)
          /\ Fits(workerQueue, "credential", "resume", sdkUser)
      BY DEF TokensFit, StreamTypeOK
    <3>3. Head(workerQueue).user = sdkUser
      <4>1. PICK r : r = Tail(workerQueue)
        OBVIOUS
      <4>2. \A what, u : Fits(workerQueue, "credential", what, u) =>
              (Head(workerQueue).what = what /\ Head(workerQueue).live =>
                 Head(workerQueue).user = u)
        BY <3>1, <3>2, <4>1, OtherTaken
      <4>3. QED
        BY <2>3, <3>1, <3>2, <4>2
    <3>4. QED
      BY <1>2, <2>1, <2>3, <3>3 DEF OwnStream
  <2>4. QED
    BY <1>8, <2>2, <2>3 DEF ResumeStartWithCredentials, CloseStream, streamVars
<1>9. CASE OnWriteStreamMutationResult \/ HandleWriteError
  <2>1. /\ pipeline # <<>> /\ UNCHANGED sdkUser /\ token' \in {token, NoToken}
    BY <1>9, WireHasPipeline DEF OnWriteStreamMutationResult, HandleWriteError
  <2>2. PICK s, wire : Fills(Tail(pipeline), queues'[sdkUser], s, wire)
    BY <1>9, SettledFills
  <2>3. \A i \in 1..Len(Tail(pipeline)) : writer'[Tail(pipeline)[i]] = sdkUser
    <3>1. /\ Len(pipeline) \in Nat \ {0} /\ Len(Tail(pipeline)) = Len(pipeline) - 1
          /\ \A i \in 1..Len(Tail(pipeline)) : Tail(pipeline)[i] = pipeline[i + 1]
      BY <2>1, Taken DEF StreamTypeOK
    <3>2. \A i \in 1..Len(Tail(pipeline)) : i + 1 \in 1..Len(pipeline)
      BY <3>1
    <3>3. QED
      BY <1>2, <3>1, <3>2
  <2>4. \A b \in queues'[sdkUser] : writer'[b] = sdkUser
    BY <1>1, <2>1 DEF QueuesAreOwn, StreamTypeOK
  <2>5. \A i \in DOMAIN pipeline' : writer'[pipeline'[i]] = sdkUser
    BY <2>2, <2>3, <2>4, FilledIsOwn DEF StreamTypeOK
  <2>6. QED
    BY <2>1, <2>5 DEF OwnStream
<1>10. CASE Relaunch
  <2>1. pipeline' = <<>> /\ token' = NoToken
    BY <1>10 DEF Relaunch
  <2>2. DOMAIN pipeline' = {}
    BY <2>1
  <2>3. QED
    BY <2>1, <2>2 DEF OwnStream
<1>11. QED
  BY <1>4, <1>5, <1>6, <1>7, <1>8, <1>9, <1>10 DEF Next

(* The server commits what is on the wire, under the stream's token.       *)
LEMMA CommittedStep ==
  ASSUME StreamTypeOK, WireFits, QueuesAreOwn, OwnStream, CommittedAsWriter,
         [Next]_vars
  PROVE  CommittedAsWriter'
<1>1. \A b \in Stored : writer'[b] = writer[b]
  BY WriterStep
<1>2. \A c \in committed : c.batch \in Stored /\ c.as = writer'[c.batch]
  BY <1>1 DEF CommittedAsWriter, StreamTypeOK
<1>3. ASSUME UNCHANGED committed
      PROVE  CommittedAsWriter'
  BY <1>2, <1>3 DEF CommittedAsWriter
<1>4. CASE Commit
  <2>1. /\ committed' = committed \cup {[batch |-> Head(sent), as |-> token]}
        /\ sent # <<>>
    BY <1>4 DEF Commit
  <2>2. /\ handshake /\ token \in Users /\ Len(answers) \in Nat
        /\ stream = "Open" /\ Len(sent) \in Nat \ {0} /\ Head(sent) = sent[1]
        /\ Head(sent) \in Stored
    BY <2>1, WireHasPipeline, Taken DEF StreamTypeOK
  <2>3. /\ Len(answers) + Len(sent) = Len(pipeline)
        /\ sent[1] = pipeline[Len(answers) + 1]
    <3>1. 1 \in 1..Len(sent)
      BY <2>2
    <3>2. QED
      BY <2>2, <3>1 DEF WireFits
  <2>4. Len(answers) + 1 \in DOMAIN pipeline
    BY <2>2, <2>3, LenProperties DEF StreamTypeOK
  <2>5. writer[Head(sent)] = sdkUser
    BY <2>2, <2>3, <2>4 DEF OwnStream
  <2>6. token = sdkUser
    BY <2>2, UsersAssumption DEF OwnStream
  <2>7. QED
    BY <1>1, <1>2, <2>1, <2>2, <2>5, <2>6 DEF CommittedAsWriter
<1>5. ASSUME NEW u \in Users, SignIn(u) \/ FetchAccessToken(u) \/ FetchFails(u)
      PROVE  CommittedAsWriter'
  BY <1>3, <1>5 DEF SignIn, FetchAccessToken, FetchFails, serverVars
<1>6. CASE \/ TokenExpires \/ GetToken \/ OnNotification \/ OnToken \/ AddDocument
           \/ WriteMutations \/ HandleCredentialChange
           \/ ResumeStartWithCredentials \/ OnStreamStart
           \/ OnWriteStreamHandshakeComplete \/ OnWriteStreamMutationResult
           \/ OnStreamError \/ HandleWriteError \/ BackoffElapsed \/ IdleTimeout
           \/ Relaunch \/ UNCHANGED vars
  <2>1. UNCHANGED committed
    BY <1>6 DEF TokenExpires, GetToken, OnNotification, OnToken, AddDocument,
              WriteMutations, HandleCredentialChange, ResumeStartWithCredentials,
              OnStreamStart, OnWriteStreamHandshakeComplete,
              OnWriteStreamMutationResult, OnStreamError, HandleWriteError,
              BackoffElapsed, IdleTimeout, Relaunch, vars, serverVars
  <2>2. QED
    BY <1>3, <2>1
<1>7. QED
  BY <1>4, <1>5, <1>6 DEF Next

-----------------------------------------------------------------------------
\* The theorems.

LEMMA StreamInvInit == Init => StreamInv
<1> SUFFICES ASSUME Init PROVE StreamInv
  OBVIOUS
<1>1. StreamTypeOK
  BY StreamTypeInit
<1>2. /\ authUser = currentUser /\ authUser = sdkUser /\ mainQueue = <<>>
      /\ fetches = [u \in Users |-> <<>>]
      /\ workerQueue = <<Credential(authUser)>>
  BY DEF Init
<1>3. /\ Len(mainQueue) = 0 /\ \A u \in Users : Len(fetches[u]) = 0
      /\ Len(workerQueue) = 1 /\ workerQueue[1] = Credential(authUser)
      /\ Credential(authUser).what = "credential"
      /\ Credential(authUser).user = authUser
  BY <1>2 DEF Credential
<1>4. UsersArrive
  BY <1>2, <1>3 DEF UsersArrive, Arrives, Changes
<1>5. TokensFit
  BY <1>2, <1>3 DEF TokensFit, Fits
<1>6. WireFits
  BY DEF Init, WireFits
<1>7. QueuesAreOwn
  BY DEF Init, QueuesAreOwn
<1>8. OwnStream /\ CommittedAsWriter
  <2>1. token = NoToken /\ committed = {} /\ DOMAIN pipeline = {}
    BY DEF Init
  <2>2. QED
    BY <2>1 DEF OwnStream, CommittedAsWriter
<1>9. QED
  BY <1>1, <1>4, <1>5, <1>6, <1>7, <1>8 DEF StreamInv

LEMMA StreamInvStep == StreamInv /\ [Next]_vars => StreamInv'
<1> SUFFICES ASSUME StreamInv, [Next]_vars PROVE StreamInv'
  OBVIOUS
<1>1. /\ StreamTypeOK /\ UsersArrive /\ TokensFit /\ WireFits /\ QueuesAreOwn
      /\ OwnStream /\ CommittedAsWriter
  BY DEF StreamInv
<1>2. StreamTypeOK'
  BY <1>1, StreamTypeStep
<1>3. UsersArrive' /\ TokensFit'
  BY <1>1, QueuesStep
<1>4. WireFits'
  BY <1>1, <1>2, WireStep
<1>5. QueuesAreOwn'
  BY <1>1, WriterStep
<1>6. OwnStream'
  BY <1>1, <1>2, OwnStreamStep
<1>7. CommittedAsWriter'
  BY <1>1, CommittedStep
<1>8. QED
  BY <1>2, <1>3, <1>4, <1>5, <1>6, <1>7 DEF StreamInv

(* The inductive invariant of the write path.                              *)
THEOREM StreamInvariant == Spec => []StreamInv
BY StreamInvInit, StreamInvStep, PTL DEF Spec

(* Every variable keeps its type; in particular the pipeline never holds   *)
(* more than kMaxPendingWrites batches, and only batches that were stored. *)
THEOREM StreamTypeCorrect == Spec => []StreamTypeOK
<1>1. StreamInv => StreamTypeOK
  BY DEF StreamInv
<1>2. QED
  BY <1>1, StreamInvariant, PTL

(* The stream's token and every batch of the pipeline are the sync         *)
(* engine's user's, whatever sign-ins and token requests overlap.          *)
THEOREM StreamIsOwn == Spec => []OwnStream
<1>1. StreamInv => OwnStream
  BY DEF StreamInv
<1>2. QED
  BY <1>1, StreamInvariant, PTL

(* The server commits a batch only under the account that added it.        *)
THEOREM CommitsAsWriter == Spec => []CommittedAsWriter
<1>1. StreamInv => CommittedAsWriter
  BY DEF StreamInv
<1>2. QED
  BY <1>1, StreamInvariant, PTL

(* On an established stream the answers and the writes on the wire are the *)
(* pipeline, so that an answer is for the batch at its front.              *)
THEOREM WireFollowsPipeline == Spec => []WireIsPipeline
<1>1. ASSUME StreamTypeOK, WireFits
      PROVE  WireIsPipeline
  <2>1. /\ answers \in Seq(Stored) /\ sent \in Seq(Stored)
        /\ pipeline \in Seq(Stored)
    BY <1>1 DEF StreamTypeOK
  <2>2. CASE ~handshake
    <3>1. sent = <<>> /\ answers = <<>>
      BY <1>1, <2>2 DEF WireFits
    <3>2. <<>> \o <<>> = <<>>
      BY <2>1, <3>1, ConcatEmptySeq
    <3>3. QED
      BY <2>2, <3>1, <3>2 DEF WireIsPipeline
  <2>3. CASE handshake
    <3>1. /\ Len(answers) + Len(sent) = Len(pipeline)
          /\ \A i \in 1..Len(answers) : answers[i] = pipeline[i]
          /\ \A i \in 1..Len(sent) : sent[i] = pipeline[Len(answers) + i]
      BY <1>1, <2>3 DEF WireFits
    <3>2. PICK w : w = answers \o sent
      OBVIOUS
    <3>3. /\ w \in Seq(Stored) /\ Len(w) = Len(answers) + Len(sent)
          /\ \A i \in 1..(Len(answers) + Len(sent)) :
               w[i] = IF i <= Len(answers) THEN answers[i]
                      ELSE sent[i - Len(answers)]
      BY <2>1, <3>2, ConcatProperties
    <3>4. Len(answers) \in Nat /\ Len(sent) \in Nat
      BY <2>1, LenProperties
    <3>5. ASSUME NEW i \in 1..Len(w)
          PROVE  w[i] = pipeline[i]
      <4>1. CASE i <= Len(answers)
        BY <3>1, <3>3, <3>4, <4>1
      <4>2. CASE ~(i <= Len(answers))
        <5>1. /\ i - Len(answers) \in 1..Len(sent)
              /\ Len(answers) + (i - Len(answers)) = i
          BY <3>3, <3>4, <4>2
        <5>2. QED
          BY <3>1, <3>3, <4>2, <5>1
      <4>3. QED
        BY <4>1, <4>2
    <3>6. w = pipeline
      BY <2>1, <3>1, <3>3, <3>5, SeqEqual
    <3>7. QED
      BY <2>3, <3>2, <3>6 DEF WireIsPipeline
  <2>4. QED
    BY <2>2, <2>3
<1>2. StreamInv => WireIsPipeline
  BY <1>1 DEF StreamInv
<1>3. QED
  BY <1>2, StreamInvariant, PTL

-----------------------------------------------------------------------------
\* No write is lost.

IsCommitted(b) == \E u \in Users : [batch |-> b, as |-> u] \in committed
AnswersAreCommitted == \A i \in 1..Len(answers) : IsCommitted(answers[i])

(* An answer for the front of the pipeline is for a batch the server has   *)
(* committed.                                                              *)
LEMMA AnswerIsForFront ==
  ASSUME StreamTypeOK, WireFits, AnswersAreCommitted, answers # <<>>
  PROVE  IsCommitted(Head(pipeline))
<1>1. handshake /\ pipeline # <<>>
  BY WireHasPipeline
<1>2. Len(answers) \in Nat \ {0} /\ Head(pipeline) = pipeline[1]
  BY <1>1, Taken DEF StreamTypeOK
<1>3. 1 \in 1..Len(answers)
  BY <1>2
<1>4. answers[1] = pipeline[1]
  BY <1>1, <1>3 DEF WireFits
<1>5. QED
  BY <1>2, <1>3, <1>4 DEF AnswersAreCommitted

(* Without an answer, the first write on the wire is the pipeline's front. *)
LEMMA WireStartsAtFront ==
  ASSUME StreamTypeOK, WireFits, sent # <<>>, answers = <<>>
  PROVE  Head(sent) = Head(pipeline)
<1>1. handshake /\ pipeline # <<>>
  BY WireHasPipeline
<1>2. /\ Len(sent) \in Nat \ {0} /\ Head(sent) = sent[1]
      /\ Head(pipeline) = pipeline[1]
  BY <1>1, Taken DEF StreamTypeOK
<1>3. 1 \in 1..Len(sent) /\ Len(answers) = 0
  BY <1>2
<1>4. sent[1] = pipeline[1]
  BY <1>1, <1>3 DEF WireFits
<1>5. QED
  BY <1>2, <1>4

(* What the server has committed it never takes back, and an answer is     *)
(* only sent for such a batch.                                             *)
LEMMA AnswersStep ==
  ASSUME StreamTypeOK, WireFits, AnswersAreCommitted, [Next]_vars
  PROVE  AnswersAreCommitted' /\ committed \subseteq committed'
<1>1. ASSUME UNCHANGED committed, answers' = answers \/ answers' = <<>>
      PROVE  AnswersAreCommitted' /\ committed \subseteq committed'
  BY <1>1 DEF AnswersAreCommitted, IsCommitted
<1>2. ASSUME NEW u \in Users, SignIn(u) \/ FetchAccessToken(u) \/ FetchFails(u)
      PROVE  AnswersAreCommitted' /\ committed \subseteq committed'
  BY <1>1, <1>2 DEF SignIn, FetchAccessToken, FetchFails, wireVars, serverVars
<1>3. CASE \/ TokenExpires \/ GetToken \/ OnNotification \/ OnToken \/ AddDocument
           \/ WriteMutations \/ HandleCredentialChange
           \/ ResumeStartWithCredentials \/ OnStreamStart
           \/ OnWriteStreamHandshakeComplete \/ OnStreamError \/ HandleWriteError
           \/ BackoffElapsed \/ IdleTimeout \/ Relaunch \/ UNCHANGED vars
  <2>1. UNCHANGED committed /\ (answers' = answers \/ answers' = <<>>)
    BY <1>3 DEF TokenExpires, GetToken, OnNotification, OnToken, AddDocument,
              WriteMutations, HandleCredentialChange, ResumeStartWithCredentials,
              CloseStream, OnStreamStart, OnWriteStreamHandshakeComplete,
              OnStreamError, HandleWriteError, BackoffElapsed, IdleTimeout,
              Relaunch, vars, wireVars, serverVars
  <2>2. QED
    BY <1>1, <2>1
<1>4. CASE OnWriteStreamMutationResult
  <2>1. /\ answers # <<>> /\ answers' = Tail(answers) /\ UNCHANGED committed
    BY <1>4 DEF OnWriteStreamMutationResult, serverVars
  <2>2. /\ Len(answers) \in Nat \ {0} /\ Len(answers') = Len(answers) - 1
        /\ \A i \in 1..Len(answers') : answers'[i] = answers[i + 1]
    BY <2>1, Taken DEF StreamTypeOK
  <2>3. \A i \in 1..Len(answers') : i + 1 \in 1..Len(answers)
    BY <2>2
  <2>4. QED
    BY <2>1, <2>2, <2>3 DEF AnswersAreCommitted, IsCommitted
<1>5. CASE Commit
  <2>1. /\ sent # <<>> /\ answers' = Append(answers, Head(sent))
        /\ committed' = committed \cup {[batch |-> Head(sent), as |-> token]}
    BY <1>5 DEF Commit
  <2>2. token \in Users /\ Head(sent) \in Stored
    BY <2>1, WireHasPipeline, Taken DEF StreamTypeOK
  <2>3. /\ Len(answers) \in Nat /\ Len(answers') = Len(answers) + 1
        /\ \A i \in 1..Len(answers) : answers'[i] = answers[i]
        /\ answers'[Len(answers) + 1] = Head(sent)
    BY <2>1, <2>2, Appended DEF StreamTypeOK
  <2>4. \A i \in 1..Len(answers') : i \in 1..Len(answers) \/ i = Len(answers) + 1
    BY <2>3
  <2>5. QED
    BY <2>1, <2>2, <2>3, <2>4 DEF AnswersAreCommitted, IsCommitted
<1>6. QED
  BY <1>2, <1>3, <1>4, <1>5 DEF Next

(* A batch enters its writer's queue when it is stored and leaves it when  *)
(* the answer, or the refusal, of the server arrives.                      *)
LEMMA StoredStep ==
  ASSUME StreamTypeOK, WireFits, QueuesAreOwn, AnswersAreCommitted,
         StoredUntilSettled, [Next]_vars, QueuesAreOwn', StreamTypeOK'
  PROVE  StoredUntilSettled'
<1>0. /\ committed \subseteq committed'
      /\ \A b \in Stored : writer'[b] = writer[b] /\ writer[b] \in Users
      /\ Len(writer) \in Nat
  <2>1. \A b \in Stored : writer[b] \in Users
    BY ElementOfSeq DEF Stored, StreamTypeOK
  <2>2. QED
    BY <2>1, AnswersStep, WriterStep, LenProperties DEF StreamTypeOK
<1>1. ASSUME UNCHANGED writer, refused \subseteq refused',
             \A b \in Stored : \A u \in Users :
               b \in queues[u] /\ b \notin queues'[u] => Settled(b)',
             \A b \in Stored : b \in acked' => b \in acked \/ IsCommitted(b)
      PROVE  StoredUntilSettled'
  <2> SUFFICES ASSUME NEW b \in Stored
               PROVE  /\ \A u \in Users : b \in queues'[u] => u = writer[b]
                      /\ b \notin queues'[writer[b]] => Settled(b)'
                      /\ b \in acked' => IsCommitted(b)'
    BY <1>1 DEF StoredUntilSettled, Stored, IsCommitted
  <2>1. \A u \in Users : b \in queues'[u] => u = writer[b]
    BY <1>1 DEF QueuesAreOwn
  <2>2. ASSUME b \notin queues'[writer[b]]
        PROVE  Settled(b)'
    <3>1. CASE b \in queues[writer[b]]
      BY <1>0, <1>1, <2>2, <3>1
    <3>2. CASE b \notin queues[writer[b]]
      BY <1>0, <1>1, <3>2 DEF StoredUntilSettled, Settled
    <3>3. QED
      BY <3>1, <3>2
  <2>3. ASSUME b \in acked'
        PROVE  IsCommitted(b)'
    BY <1>0, <1>1, <2>3 DEF StoredUntilSettled, IsCommitted
  <2>4. QED
    BY <2>1, <2>2, <2>3
<1>2. ASSUME UNCHANGED <<writer, queues, acked>>, refused \subseteq refused'
      PROVE  StoredUntilSettled'
  BY <1>1, <1>2
<1>3. ASSUME NEW u \in Users, SignIn(u) \/ FetchAccessToken(u) \/ FetchFails(u)
      PROVE  StoredUntilSettled'
  BY <1>2, <1>3 DEF SignIn, FetchAccessToken, FetchFails, localVars, serverVars
<1>4. CASE \/ TokenExpires \/ GetToken \/ OnNotification \/ OnToken \/ AddDocument
           \/ HandleCredentialChange \/ ResumeStartWithCredentials
           \/ OnStreamStart \/ OnWriteStreamHandshakeComplete \/ OnStreamError
           \/ BackoffElapsed \/ IdleTimeout \/ Commit \/ Relaunch \/ UNCHANGED vars
  <2>1. UNCHANGED <<writer, queues, acked>> /\ UNCHANGED refused
    BY <1>4 DEF TokenExpires, GetToken, OnNotification, OnToken, AddDocument,
              HandleCredentialChange, ResumeStartWithCredentials, OnStreamStart,
              OnWriteStreamHandshakeComplete, OnStreamError, BackoffElapsed,
              IdleTimeout, Commit, Relaunch, vars, localVars, serverVars
  <2>2. QED
    BY <1>2, <2>1
<1>5. CASE WriteMutations
  <2>1. PICK n : n = Len(writer')
    OBVIOUS
  <2>2. /\ n = Len(writer) + 1 /\ writer'[n] = sdkUser
        /\ UNCHANGED <<acked, committed, refused>>
        /\ queues' = [queues EXCEPT ![sdkUser] = @ \cup {n}]
    BY <1>5, <2>1, Appended DEF WriteMutations, StreamTypeOK, serverVars
  <2>3. /\ Stored' = Stored \cup {n} /\ n \notin Stored /\ sdkUser \in Users
    <3>1. PICK m \in Nat : m = Len(writer)
      BY <1>0
    <3>2. Stored = 1..m /\ Stored' = 1..(m + 1) /\ n = m + 1
      BY <2>1, <2>2, <3>1 DEF Stored
    <3>3. 1..(m + 1) = 1..m \cup {m + 1} /\ m + 1 \notin 1..m
      BY <3>1
    <3>4. QED
      BY <3>2, <3>3 DEF StreamTypeOK
  <2>4. \A u \in Users : queues[u] \subseteq queues'[u]
    BY <2>2, <2>3 DEF StreamTypeOK
  <2>5. ASSUME NEW b \in Stored'
        PROVE  \A u \in Users : b \in queues'[u] => u = writer'[b]
    BY DEF QueuesAreOwn
  <2>6. ASSUME NEW b \in Stored', b \notin queues'[writer'[b]]
        PROVE  Settled(b)'
    <3>1. b # n
      BY <2>2, <2>3, <2>6 DEF StreamTypeOK
    <3>2. b \in Stored /\ b \notin queues[writer[b]]
      BY <1>0, <2>3, <2>4, <2>6, <3>1
    <3>3. QED
      BY <2>2, <3>2 DEF StoredUntilSettled, Settled
  <2>7. ASSUME NEW b \in Stored', b \in acked'
        PROVE  \E u \in Users : [batch |-> b, as |-> u] \in committed'
    BY <2>2, <2>7 DEF StoredUntilSettled, StreamTypeOK
  <2>8. QED
    BY <2>5, <2>6, <2>7 DEF StoredUntilSettled
<1>6. CASE OnWriteStreamMutationResult
  <2>1. /\ answers # <<>> /\ acked' = acked \cup {Head(pipeline)}
        /\ queues' = [queues EXCEPT ![sdkUser] = @ \ {Head(pipeline)}]
        /\ UNCHANGED <<writer, committed, refused>>
    BY <1>6 DEF OnWriteStreamMutationResult, serverVars
  <2>2. IsCommitted(Head(pipeline))
    BY <2>1, AnswerIsForFront
  <2>3. ASSUME NEW b \in Stored, NEW u \in Users,
               b \in queues[u], b \notin queues'[u]
        PROVE  Settled(b)'
    <3>1. b = Head(pipeline)
      BY <2>1, <2>3 DEF StreamTypeOK
    <3>2. QED
      BY <2>1, <2>2, <3>1 DEF Settled, IsCommitted
  <2>4. QED
    BY <1>1, <2>1, <2>2, <2>3
<1>7. CASE HandleWriteError
  <2>1. /\ sent # <<>> /\ answers = <<>>
        /\ refused' = refused \cup {Head(sent)}
        /\ queues' = [queues EXCEPT ![sdkUser] = @ \ {Head(pipeline)}]
        /\ UNCHANGED <<writer, acked>>
    BY <1>7 DEF HandleWriteError
  <2>2. Head(sent) = Head(pipeline)
    BY <2>1, WireStartsAtFront
  <2>3. ASSUME NEW b \in Stored, NEW u \in Users,
               b \in queues[u], b \notin queues'[u]
        PROVE  Settled(b)'
    <3>1. b = Head(pipeline)
      BY <2>1, <2>3 DEF StreamTypeOK
    <3>2. QED
      BY <2>1, <2>2, <3>1 DEF Settled
  <2>4. QED
    BY <1>1, <2>1, <2>3
<1>8. QED
  BY <1>3, <1>4, <1>5, <1>6, <1>7 DEF Next

-----------------------------------------------------------------------------
\* The pipeline is the front of the mutation queue.

InOrder(f) == \A i, j \in 1..Len(f) : i < j => f[i] < f[j]

(* p is the front of the queue Q: in order, and nothing is passed over.    *)
Front(p, Q) ==
  /\ InOrder(p)
  /\ \A i \in 1..Len(p) : p[i] \in Q
  /\ \A b \in Q : (\E i \in 1..Len(p) : p[i] = b) \/ b > LastOf(p)

(* It holds as much of Q as it can.                                        *)
Full(p, Q) == Len(p) = MaxPending \/ \A b \in Q : b <= LastOf(p)

(* After a start, the pipeline is empty until the first change of user.    *)
Fresh ==
  pipeline = <<>> /\ workerQueue # <<>> /\ Head(workerQueue).what = "credential"

PipeInv ==
  /\ Front(pipeline, queues[sdkUser])
  /\ Full(pipeline, queues[sdkUser]) \/ Fresh

LEMMA LeastNumber ==
  ASSUME NEW T \in SUBSET Nat, T # {}
  PROVE  \E m \in T : \A k \in T : m <= k
<1> DEFINE R == {p \in Nat \X Nat : p[1] < p[2]}
<1>1. IsWellFoundedOn(R, Nat)
  BY NatLessThanWellFounded DEF OpToRel
<1>2. \A x, y \in Nat : x < y => <<x, y>> \in R
  OBVIOUS
<1> HIDE DEF R
<1>3. PICK m \in T : \A k \in T : ~(<<k, m>> \in R)
  BY <1>1, WFMin
<1>4. m \in Nat /\ \A k \in T : k \in Nat /\ ~(k < m)
  BY <1>2, <1>3
<1>5. QED
  BY <1>4

(* A sequence in which every entry is above the one before is in order.    *)
LEMMA Ascending ==
  ASSUME NEW n \in Nat, NEW f \in Seq(1..n),
         \A i \in 2..Len(f) : f[i - 1] < f[i]
  PROVE  InOrder(f)
<1>1. Len(f) \in Nat /\ \A i \in 1..Len(f) : f[i] \in 1..n
  BY LenProperties, ElementOfSeq
<1>2. SUFFICES ASSUME NEW i \in 1..Len(f), NEW j \in 1..Len(f), i < j
               PROVE  f[i] < f[j]
  BY DEF InOrder
<1> DEFINE T == {k \in 1..Len(f) : i < k /\ ~(f[i] < f[k])}
<1>3. T \subseteq Nat
  BY <1>1
<1>4. CASE T # {}
  <2>1. PICK m \in T : \A k \in T : m <= k
    BY <1>3, <1>4, LeastNumber
  <2>2. /\ m \in 2..Len(f) /\ m - 1 \in 1..Len(f) /\ i < m /\ ~(f[i] < f[m])
        /\ ~(m <= m - 1)
    BY <1>1, <2>1
  <2>3. f[m - 1] < f[m]
    BY <2>2
  <2>4. m - 1 \notin T
    BY <2>1, <2>2
  <2>5. i = m - 1 \/ f[i] < f[m - 1]
    BY <2>2, <2>4
  <2>6. QED
    BY <1>1, <2>2, <2>3, <2>5
<1>5. CASE T = {}
  BY <1>2, <1>5
<1>6. QED
  BY <1>4, <1>5

(* LastOf is the greatest entry of a sequence in order, and that of a      *)
(* prefix is the entry before its end.                                     *)
LEMMA LastIsGreatest ==
  ASSUME NEW n \in Nat, NEW f \in Seq(1..n), InOrder(f), NEW k \in 1..Len(f)
  PROVE  f[k] <= LastOf(f)
<1>1. Len(f) \in Nat \ {0} /\ f # <<>> /\ \A i \in 1..Len(f) : f[i] \in 1..n
  <2>1. Len(f) \in Nat /\ \A i \in 1..Len(f) : f[i] \in 1..n
    BY LenProperties, ElementOfSeq
  <2>2. Len(f) # 0
    BY <2>1
  <2>3. QED
    BY <2>1, <2>2
<1>2. LastOf(f) = f[Len(f)] /\ Len(f) \in 1..Len(f)
  BY <1>1 DEF LastOf
<1>3. k = Len(f) \/ k < Len(f)
  BY <1>1
<1>4. QED
  BY <1>1, <1>2, <1>3 DEF InOrder

LEMMA LastOfPrefix ==
  ASSUME NEW n \in Nat, NEW f \in Seq(1..n), NEW i \in 1..Len(f)
  PROVE  LastOf(SubSeq(f, 1, i - 1)) = IF i = 1 THEN 0 ELSE f[i - 1]
<1>1. Len(f) \in Nat /\ \A k \in 1..Len(f) : f[k] \in 1..n
  BY LenProperties, ElementOfSeq
<1>2. PICK m \in Nat : m = i - 1 /\ m < Len(f)
  BY <1>1
<1>3. PICK g : g = SubSeq(f, 1, m)
  OBVIOUS
<1>4. \A k \in 1..m : f[k] \in 1..n
  BY <1>1, <1>2
<1>5. /\ g \in Seq(1..n)
      /\ Len(g) = IF 1 <= m THEN m - 1 + 1 ELSE 0
      /\ \A k \in 1..(m - 1 + 1) : g[k] = f[1 + k - 1]
  BY <1>2, <1>3, <1>4, SubSeqProperties
<1>6. Len(g) = m
  BY <1>2, <1>5
<1>7. CASE m = 0
  <2>1. g = <<>>
    BY <1>5, <1>6, <1>7, EmptySeq
  <2>2. QED
    BY <1>2, <1>3, <1>7, <2>1 DEF LastOf
<1>8. CASE m # 0
  <2>1. g # <<>>
    BY <1>6, <1>8
  <2>2. m \in 1..(m - 1 + 1) /\ 1 + m - 1 = m
    BY <1>8
  <2>3. g[m] = f[m]
    BY <1>5, <2>2
  <2>4. LastOf(g) = f[m]
    BY <1>6, <2>1, <2>3 DEF LastOf
  <2>5. QED
    BY <1>2, <1>3, <1>8, <2>4
<1>9. QED
  BY <1>7, <1>8

(* The loop of FillWritePipeline passes over no batch and goes on while it *)
(* can.                                                                    *)
LEMMA FilledIsFront ==
  ASSUME NEW n \in Nat, NEW p \in Seq(1..n), Len(p) <= MaxPending,
         NEW Q \in SUBSET (1..n), NEW f \in Pipelines, IsFilled(f, p, Q),
         Front(p, Q)
  PROVE  Front(f, Q) /\ Full(f, Q)
<1>1. PICK new : Extends(f, p, Q, n, new)
  BY FilledPipeline
<1>2. /\ f \in Seq(1..n) /\ Len(f) \in Nat /\ Len(f) <= MaxPending
      /\ Len(p) \in Nat /\ Len(p) <= Len(f)
      /\ \A i \in 1..Len(p) : f[i] = p[i]
      /\ \A i \in (Len(p) + 1)..Len(f) : f[i] \in Q
  BY <1>1 DEF Extends
<1>3. \A i \in 1..Len(f) : f[i] \in 1..n
  BY <1>2, ElementOfSeq
<1>4. \A i \in 1..Len(f) : i \in 1..Len(p) \/ i \in (Len(p) + 1)..Len(f)
  BY <1>2
<1>5. \A i \in (Len(p) + 1)..Len(f) :
        /\ f[i] > LastOf(SubSeq(f, 1, i - 1))
        /\ \A b \in Q : b > LastOf(SubSeq(f, 1, i - 1)) => f[i] <= b
  BY DEF IsFilled
<1>6. \A i \in 1..Len(f) :
        LastOf(SubSeq(f, 1, i - 1)) = IF i = 1 THEN 0 ELSE f[i - 1]
  BY <1>2, LastOfPrefix
<1>7. InOrder(f)
  <2>1. ASSUME NEW i \in 2..Len(f)
        PROVE  f[i - 1] < f[i]
    <3>1. i \in 1..Len(f) /\ i - 1 \in 1..Len(f) /\ i # 1
      BY <1>2
    <3>2. CASE i \in 1..Len(p)
      <4>1. i - 1 \in 1..Len(p) /\ i - 1 < i
        BY <1>2, <3>2
      <4>2. QED
        BY <1>2, <3>2, <4>1 DEF Front, InOrder
    <3>3. CASE i \in (Len(p) + 1)..Len(f)
      BY <1>3, <1>5, <1>6, <3>1, <3>3
    <3>4. QED
      BY <1>4, <3>1, <3>2, <3>3
  <2>2. QED
    BY <1>2, <2>1, Ascending
<1>8. \A i \in 1..Len(f) : f[i] \in Q
  BY <1>2, <1>4 DEF Front
<1>9. ASSUME NEW b \in Q, \A i \in 1..Len(f) : f[i] # b
      PROVE  b > LastOf(f)
  <2>1. b \in 1..n /\ \A i \in 1..Len(p) : p[i] # b
    <3>1. \A i \in 1..Len(p) : i \in 1..Len(f)
      BY <1>2
    <3>2. QED
      BY <1>2, <1>9, <3>1
  <2>2. b > LastOf(p)
    BY <2>1 DEF Front
  <2> DEFINE T == {i \in 1..Len(f) : b < f[i]}
  <2>3. CASE T # {}
    <3>1. T \subseteq Nat
      BY <1>2
    <3>2. PICK m \in T : \A k \in T : m <= k
      BY <2>3, <3>1, LeastNumber
    <3>3. m \in 1..Len(f) /\ b < f[m]
      BY <3>2
    <3>4. CASE m \in 1..Len(p)
      <4>1. p[m] <= LastOf(p) /\ p[m] = f[m]
        BY <1>2, <3>4, LastIsGreatest DEF Front
      <4>2. LastOf(p) \in 0..n
        <5>1. \A i \in 1..Len(p) : p[i] \in 1..n
          BY ElementOfSeq
        <5>2. Len(p) \in 1..Len(p)
          BY <1>2, <3>4
        <5>3. QED
          BY <5>1, <5>2 DEF LastOf
      <4>3. QED
        BY <1>3, <2>1, <2>2, <3>3, <4>1, <4>2
    <3>5. CASE m \in (Len(p) + 1)..Len(f) /\ m = 1
      <4>1. LastOf(SubSeq(f, 1, m - 1)) = 0
        BY <1>6, <3>3, <3>5
      <4>2. f[m] <= b
        BY <1>5, <2>1, <3>5, <4>1
      <4>3. QED
        BY <1>3, <2>1, <3>3, <4>2
    <3>6. CASE m \in (Len(p) + 1)..Len(f) /\ m # 1
      <4>1. LastOf(SubSeq(f, 1, m - 1)) = f[m - 1]
        BY <1>6, <3>3, <3>6
      <4>2. m - 1 \in 1..Len(f) /\ ~(m <= m - 1)
        BY <1>2, <3>3, <3>6
      <4>3. f[m - 1] < b
        BY <1>3, <1>9, <2>1, <3>2, <4>2
      <4>4. f[m] <= b
        BY <1>5, <2>1, <3>6, <4>1, <4>3
      <4>5. QED
        BY <1>3, <2>1, <3>3, <4>4
    <3>7. QED
      BY <1>4, <3>3, <3>4, <3>5, <3>6
  <2>4. CASE T = {}
    <3>1. CASE f = <<>>
      BY <2>1, <3>1 DEF LastOf
    <3>2. CASE f # <<>>
      <4>1. LastOf(f) = f[Len(f)] /\ Len(f) \in 1..Len(f)
        BY <1>2, <3>2, EmptySeq DEF LastOf
      <4>2. f[Len(f)] # b /\ ~(b < f[Len(f)])
        BY <1>9, <2>4, <4>1
      <4>3. QED
        BY <1>3, <2>1, <4>1, <4>2
    <3>3. QED
      BY <3>1, <3>2
  <2>5. QED
    BY <2>3, <2>4
<1>10. Full(f, Q)
  <2>1. CanAddToWritePipeline(f) => \A b \in Q : b <= LastOf(f)
    BY DEF IsFilled
  <2>2. QED
    BY <1>2, <2>1, WriteBounds DEF Full, CanAddToWritePipeline
<1>11. QED
  BY <1>7, <1>8, <1>9, <1>10 DEF Front

LEMMA FillKeepsFront ==
  ASSUME NEW n \in Nat, NEW p \in Seq(1..n), Len(p) <= MaxPending,
         NEW Q \in SUBSET (1..n), NEW s, NEW wire, NEW requests,
         FillWritePipeline(p, Q, s, wire, requests), Front(p, Q)
  PROVE  Front(pipeline', Q) /\ Full(pipeline', Q)
<1>1. PICK f \in Pipelines : IsFilled(f, p, Q) /\ pipeline' = f
  BY DEF FillWritePipeline
<1>2. IsFilled(f, p, Q)
  BY <1>1
<1>3. Front(f, Q) /\ Full(f, Q)
  BY <1>2, FilledIsFront
<1>4. QED
  BY <1>1, <1>3

LEMMA EmptyIsFront ==
  ASSUME NEW n \in Nat, NEW Q \in SUBSET (1..n)
  PROVE  Front(<<>>, Q)
<1>1. Len(<<>>) = 0 /\ LastOf(<<>>) = 0 /\ \A b \in Q : b > 0
  BY DEF LastOf
<1>2. QED
  BY <1>1 DEF Front, InOrder

(* A batch that is stored goes behind all others.                          *)
LEMMA StoredIsLast ==
  ASSUME NEW n \in Nat, NEW p \in Seq(1..n), NEW Q, Front(p, Q)
  PROVE  Front(p, Q \cup {n + 1})
<1>1. Len(p) \in Nat /\ \A i \in 1..Len(p) : p[i] \in 1..n
  BY LenProperties, ElementOfSeq
<1>2. n + 1 > LastOf(p)
  <2>1. CASE p = <<>>
    BY <2>1 DEF LastOf
  <2>2. CASE p # <<>>
    <3>1. Len(p) \in 1..Len(p) /\ LastOf(p) = p[Len(p)]
      BY <1>1, <2>2, EmptySeq DEF LastOf
    <3>2. QED
      BY <1>1, <3>1
  <2>3. QED
    BY <2>1, <2>2
<1>3. QED
  BY <1>2 DEF Front

(* The batch at the front leaves the pipeline and the queue together.      *)
LEMMA FrontLeaves ==
  ASSUME NEW n \in Nat, NEW p \in Seq(1..n), p # <<>>, NEW Q \in SUBSET (1..n),
         Front(p, Q)
  PROVE  Front(Tail(p), Q \ {Head(p)})
<1> DEFINE t == Tail(p)
<1>1. /\ t \in Seq(1..n) /\ Len(p) \in Nat \ {0} /\ Len(t) = Len(p) - 1
      /\ Head(p) = p[1]
      /\ \A i \in 1..Len(t) : t[i] = p[i + 1]
  BY Taken
<1> HIDE DEF t
<1>2. \A i \in 1..Len(p) : p[i] \in 1..n
  BY ElementOfSeq
<1>3. \A i \in 1..Len(t) : i + 1 \in 1..Len(p) /\ 1 < i + 1 /\ 1 \in 1..Len(p)
  BY <1>1
<1>4. InOrder(t)
  <2>1. \A i, j \in 1..Len(t) : i < j => i + 1 < j + 1
    BY <1>1
  <2>2. QED
    BY <1>1, <1>3, <2>1 DEF Front, InOrder
<1>5. \A i \in 1..Len(t) : t[i] \in Q \ {Head(p)}
  <2>1. ASSUME NEW i \in 1..Len(t)
        PROVE  p[i + 1] \in Q /\ p[1] < p[i + 1]
    BY <1>3 DEF Front, InOrder
  <2>2. \A i \in 1..Len(t) : p[1] # p[i + 1]
    BY <1>2, <1>3, <2>1
  <2>3. QED
    BY <1>1, <2>1, <2>2
<1>6. ASSUME NEW b \in Q \ {Head(p)}, \A i \in 1..Len(t) : t[i] # b
      PROVE  b > LastOf(t)
  <2>1. \A i \in 1..Len(p) : p[i] # b
    <3>1. ASSUME NEW i \in 1..Len(p), i # 1
          PROVE  p[i] # b
      <4>1. i - 1 \in 1..Len(t) /\ (i - 1) + 1 = i
        BY <1>1, <3>1
      <4>2. QED
        BY <1>1, <1>6, <4>1
    <3>2. QED
      BY <1>1, <1>6, <3>1
  <2>2. b > LastOf(p)
    BY <1>6, <2>1 DEF Front
  <2>3. LastOf(p) = p[Len(p)] /\ b \in 1..n
    BY DEF LastOf
  <2>4. CASE t = <<>>
    BY <2>3, <2>4 DEF LastOf
  <2>5. CASE t # <<>>
    <3>1. Len(t) \in 1..Len(t)
      BY <1>1, <2>5, EmptySeq
    <3>2. LastOf(t) = p[Len(p)]
      BY <1>1, <2>5, <3>1 DEF LastOf
    <3>3. QED
      BY <2>2, <2>3, <3>2
  <2>6. QED
    BY <2>4, <2>5
<1>7. Front(t, Q \ {Head(p)})
  BY <1>4, <1>5, <1>6 DEF Front
<1>8. QED
  BY <1>7 DEF t

(* Every step keeps the pipeline the front of the current user's queue.    *)
LEMMA PipeStep ==
  ASSUME StreamTypeOK, StreamTypeOK', WireFits, PipeInv, [Next]_vars
  PROVE  PipeInv'
<1>1. PICK n \in Nat : n = Len(writer)
  BY LenProperties DEF StreamTypeOK
<1>2. /\ Stored = 1..n /\ pipeline \in Seq(1..n) /\ Len(pipeline) <= MaxPending
      /\ queues \in [Users -> SUBSET (1..n)] /\ sdkUser \in Users /\ sdkUser' \in Users
  BY <1>1 DEF Stored, StreamTypeOK
<1>3. ASSUME UNCHANGED <<pipeline, queues, sdkUser>>, Fresh => Fresh'
      PROVE  PipeInv'
  BY <1>3 DEF PipeInv
<1>4. ASSUME UNCHANGED pipeline, UNCHANGED workerQueue
      PROVE  Fresh => Fresh'
  BY <1>4 DEF Fresh
<1>5. ASSUME UNCHANGED pipeline,
             \E e \in Tasks : workerQueue' = Append(workerQueue, e)
      PROVE  Fresh => Fresh'
  <2>1. PICK e \in Tasks : workerQueue' = Append(workerQueue, e)
    BY <1>5
  <2>2. SUFFICES ASSUME Fresh PROVE Fresh'
    OBVIOUS
  <2>3. /\ Len(workerQueue) \in Nat \ {0} /\ Head(workerQueue) = workerQueue[1]
    BY <2>2, Taken DEF Fresh, StreamTypeOK
  <2>4. /\ Len(workerQueue') = Len(workerQueue) + 1
        /\ \A i \in 1..Len(workerQueue) : workerQueue'[i] = workerQueue[i]
    BY <2>1, Appended DEF StreamTypeOK
  <2>5. workerQueue' # <<>> /\ workerQueue'[1] = workerQueue[1]
    BY <2>3, <2>4
  <2>6. Head(workerQueue') = workerQueue'[1]
    BY <2>5, Taken DEF StreamTypeOK
  <2>7. QED
    BY <1>5, <2>2, <2>3, <2>5, <2>6 DEF Fresh
<1>6. ASSUME NEW u \in Users, SignIn(u) \/ FetchAccessToken(u) \/ FetchFails(u)
      PROVE  PipeInv'
  <2>1. UNCHANGED <<pipeline, queues, sdkUser, workerQueue>>
    BY <1>6 DEF SignIn, FetchAccessToken, FetchFails, localVars, streamVars
  <2>2. QED
    BY <1>3, <1>4, <2>1
<1>7. CASE \/ TokenExpires \/ GetToken \/ OnStreamStart
           \/ OnWriteStreamHandshakeComplete \/ OnStreamError \/ BackoffElapsed
           \/ IdleTimeout \/ Commit \/ UNCHANGED vars
  <2>1. UNCHANGED <<pipeline, queues, sdkUser, workerQueue>>
    BY <1>7 DEF TokenExpires, GetToken, OnStreamStart,
              OnWriteStreamHandshakeComplete, OnStreamError, CloseStream,
              BackoffElapsed, IdleTimeout, Commit, StreamEvent, vars, localVars,
              streamVars, queueVars
  <2>2. QED
    BY <1>3, <1>4, <2>1
<1>8. CASE OnNotification
  <2>1. /\ UNCHANGED <<pipeline, queues, sdkUser>>
        /\ workerQueue' = Append(workerQueue, Credential(currentUser'))
    BY <1>8 DEF OnNotification, localVars, streamVars
  <2>2. Credential(currentUser') \in Tasks
    BY DEF Credential, Tasks, StreamTypeOK
  <2>3. QED
    BY <1>3, <1>5, <2>1, <2>2
<1>9. CASE OnToken
  <2> DEFINE t == Head(mainQueue)
             e == [what |-> "resume", user |-> t.user, ok |-> t.ok /\ t.same,
                   live |-> t.live]
  <2>1. /\ UNCHANGED <<pipeline, queues, sdkUser>>
        /\ mainQueue # <<>> /\ workerQueue' = Append(workerQueue, e)
    BY <1>9 DEF OnToken, localVars, streamVars
  <2>2. t \in Callbacks
    BY <2>1, Taken DEF StreamTypeOK
  <2>3. e \in Tasks
    BY <2>2 DEF Tasks, Callbacks
  <2> HIDE DEF e
  <2>4. QED
    BY <1>3, <1>5, <2>1, <2>3
<1>10. CASE AddDocument
  <2>1. /\ UNCHANGED <<pipeline, queues, sdkUser>>
        /\ workerQueue' = Append(workerQueue, WriteTask)
    BY <1>10 DEF AddDocument, localVars, streamVars
  <2>2. WriteTask \in Tasks
    BY UsersAssumption DEF WriteTask, Tasks
  <2>3. QED
    BY <1>3, <1>5, <2>1, <2>2
<1>11. CASE ResumeStartWithCredentials
  <2>1. /\ UNCHANGED <<pipeline, queues, sdkUser>> /\ ~Fresh
    BY <1>11 DEF ResumeStartWithCredentials, CloseStream, Task, Fresh, localVars,
                 streamVars
  <2>2. QED
    BY <1>3, <2>1
<1>12. CASE WriteMutations
  <2>1. /\ Len(writer') = n + 1 /\ sdkUser' = sdkUser
        /\ queues' = [queues EXCEPT ![sdkUser] = @ \cup {n + 1}]
        /\ FillWritePipeline(pipeline, queues'[sdkUser], stream, sent, authQueue)
    BY <1>1, <1>2, <1>12, Appended DEF WriteMutations, StreamTypeOK
  <2>2. /\ queues'[sdkUser] = queues[sdkUser] \cup {n + 1}
        /\ queues'[sdkUser] \in SUBSET (1..(n + 1)) /\ n + 1 \in Nat
        /\ pipeline \in Seq(1..(n + 1))
    <3>1. 1..n \subseteq 1..(n + 1) /\ n + 1 \in 1..(n + 1)
      OBVIOUS
    <3>2. pipeline \in Seq(1..(n + 1))
      BY <1>2, <3>1, SeqMonotonic
    <3>3. QED
      BY <1>2, <2>1, <3>1, <3>2
  <2>3. Front(pipeline, queues'[sdkUser])
    BY <1>2, <2>2, StoredIsLast DEF PipeInv
  <2>4. Front(pipeline', queues'[sdkUser]) /\ Full(pipeline', queues'[sdkUser])
    BY <1>2, <2>1, <2>2, <2>3, FillKeepsFront
  <2>5. QED
    BY <2>1, <2>4 DEF PipeInv
<1>13. CASE HandleCredentialChange
  <2>1. /\ UNCHANGED queues
        /\ \E s, r : FillWritePipeline(<<>>, queues[sdkUser'], s, <<>>, r)
    BY <1>13 DEF HandleCredentialChange
  <2>2. PICK s, r : FillWritePipeline(<<>>, queues[sdkUser'], s, <<>>, r)
    BY <2>1
  <2>3. /\ <<>> \in Seq(1..n) /\ Len(<<>>) <= MaxPending
        /\ queues[sdkUser'] \in SUBSET (1..n)
    BY <1>2, EmptySeq, WriteBounds
  <2>4. Front(<<>>, queues[sdkUser'])
    BY <2>3, EmptyIsFront
  <2>5. Front(pipeline', queues[sdkUser']) /\ Full(pipeline', queues[sdkUser'])
    BY <2>2, <2>3, <2>4, FillKeepsFront
  <2>6. QED
    BY <2>1, <2>5 DEF PipeInv
<1>14. CASE OnWriteStreamMutationResult \/ HandleWriteError
  <2>1. /\ pipeline # <<>> /\ UNCHANGED sdkUser
        /\ queues' = [queues EXCEPT ![sdkUser] = @ \ {Head(pipeline)}]
    BY <1>14, WireHasPipeline DEF OnWriteStreamMutationResult, HandleWriteError
  <2>2. \E s, w, r :
          FillWritePipeline(Tail(pipeline), queues'[sdkUser], s, w, r)
    BY <1>14 DEF OnWriteStreamMutationResult, HandleWriteError
  <2>3. PICK s, w, r : FillWritePipeline(Tail(pipeline), queues'[sdkUser], s, w, r)
    BY <2>2
  <2>4. /\ queues'[sdkUser] = queues[sdkUser] \ {Head(pipeline)}
        /\ queues'[sdkUser] \in SUBSET (1..n) /\ queues[sdkUser] \in SUBSET (1..n)
    BY <1>2, <2>1
  <2>5. Tail(pipeline) \in Seq(1..n) /\ Len(Tail(pipeline)) <= MaxPending
    <3>1. /\ Tail(pipeline) \in Seq(1..n) /\ Len(pipeline) \in Nat
          /\ Len(Tail(pipeline)) = Len(pipeline) - 1
      BY <1>2, <2>1, Taken
    <3>2. QED
      BY <1>2, <3>1, WriteBounds
  <2>6. Front(Tail(pipeline), queues'[sdkUser])
    BY <1>2, <2>1, <2>4, FrontLeaves DEF PipeInv
  <2>7. Front(pipeline', queues'[sdkUser]) /\ Full(pipeline', queues'[sdkUser])
    BY <2>3, <2>4, <2>5, <2>6, FillKeepsFront
  <2>8. QED
    BY <2>1, <2>7 DEF PipeInv
<1>15. CASE Relaunch
  <2>1. /\ pipeline' = <<>> /\ UNCHANGED <<queues, sdkUser>>
        /\ workerQueue' = <<Credential(authUser)>>
    BY <1>15 DEF Relaunch, localVars
  <2>2. Front(<<>>, queues[sdkUser])
    BY <1>2, EmptyIsFront
  <2>3. Fresh'
    BY <2>1 DEF Fresh, Credential
  <2>4. QED
    BY <2>1, <2>2, <2>3 DEF PipeInv
<1>16. QED
  BY <1>6, <1>7, <1>8, <1>9, <1>10, <1>11, <1>12, <1>13, <1>14, <1>15 DEF Next

-----------------------------------------------------------------------------
\* The order of the commits.

(* What was stored before a batch of the pipeline, and is not settled, is  *)
(* in front of it.                                                         *)
LEMMA EarlierIsInFront ==
  ASSUME StreamTypeOK, OwnStream, StoredUntilSettled, PipeInv,
         NEW k \in 1..Len(pipeline), NEW b \in Stored, b < pipeline[k],
         writer[b] = writer[pipeline[k]], ~Settled(b)
  PROVE  \E i \in 1..Len(pipeline) : i < k /\ pipeline[i] = b
<1>1. PICK n \in Nat : n = Len(writer)
  BY LenProperties DEF StreamTypeOK
<1>2. Stored = 1..n /\ pipeline \in Seq(1..n) /\ Len(pipeline) \in Nat
  BY <1>1, LenProperties DEF Stored, StreamTypeOK
<1>3. \A i \in 1..Len(pipeline) : pipeline[i] \in 1..n
  BY <1>2, ElementOfSeq
<1>4. writer[b] = sdkUser
  BY <1>2, LenProperties DEF OwnStream
<1>5. b \in queues[sdkUser]
  BY <1>4 DEF StoredUntilSettled
<1>6. ~(b > LastOf(pipeline))
  <2>1. pipeline[k] <= LastOf(pipeline)
    BY <1>2, LastIsGreatest DEF PipeInv, Front
  <2>2. LastOf(pipeline) \in 1..n
    <3>1. Len(pipeline) \in 1..Len(pipeline) /\ pipeline # <<>>
      BY <1>2
    <3>2. QED
      BY <1>3, <3>1 DEF LastOf
  <2>3. QED
    BY <1>2, <1>3, <2>1, <2>2
<1>7. PICK i \in 1..Len(pipeline) : pipeline[i] = b
  BY <1>5, <1>6 DEF PipeInv, Front
<1>8. ~(k < i)
  <2>1. k < i => pipeline[k] < pipeline[i]
    BY DEF PipeInv, Front, InOrder
  <2>2. QED
    BY <1>3, <1>7, <2>1
<1>9. QED
  BY <1>2, <1>3, <1>7, <1>8

LEMMA OrderStep ==
  ASSUME StreamTypeOK, WireFits, QueuesAreOwn, OwnStream, AnswersAreCommitted,
         StoredUntilSettled, PipeInv, CommitsInOrder, [Next]_vars
  PROVE  CommitsInOrder'
<1>1. ASSUME UNCHANGED <<writer, committed, refused>>
      PROVE  CommitsInOrder'
  BY <1>1 DEF CommitsInOrder, Stored, Settled
<1>2. ASSUME NEW u \in Users, SignIn(u) \/ FetchAccessToken(u) \/ FetchFails(u)
      PROVE  CommitsInOrder'
  BY <1>1, <1>2 DEF SignIn, FetchAccessToken, FetchFails, localVars, serverVars
<1>3. CASE \/ TokenExpires \/ GetToken \/ OnNotification \/ OnToken \/ AddDocument
           \/ HandleCredentialChange \/ ResumeStartWithCredentials
           \/ OnStreamStart \/ OnWriteStreamHandshakeComplete
           \/ OnWriteStreamMutationResult \/ OnStreamError
           \/ BackoffElapsed \/ IdleTimeout \/ Relaunch \/ UNCHANGED vars
  <2>1. UNCHANGED <<writer, committed, refused>>
    BY <1>3 DEF TokenExpires, GetToken, OnNotification, OnToken, AddDocument,
              HandleCredentialChange, ResumeStartWithCredentials, OnStreamStart,
              OnWriteStreamHandshakeComplete, OnWriteStreamMutationResult,
              OnStreamError, BackoffElapsed, IdleTimeout, Relaunch, vars,
              localVars, serverVars
  <2>2. QED
    BY <1>1, <2>1
<1>4. CASE WriteMutations
  <2>1. PICK n \in Nat : n = Len(writer)
    BY LenProperties DEF StreamTypeOK
  <2>2. /\ Len(writer') = n + 1
        /\ \A b \in 1..n : writer'[b] = writer[b]
        /\ UNCHANGED <<committed, refused>>
    BY <1>4, <2>1, Appended DEF WriteMutations, StreamTypeOK, serverVars
  <2>3. Stored = 1..n /\ Stored' = 1..(n + 1)
    BY <2>1, <2>2 DEF Stored
  <2>4. \A b : Settled(b) => b \in 1..n
    BY <2>3 DEF Settled, StreamTypeOK
  <2>5. ASSUME NEW b \in 1..(n + 1), NEW c \in 1..(n + 1),
               b < c, writer'[b] = writer'[c], Settled(c)
        PROVE  Settled(b)
    <3>1. b \in 1..n /\ c \in 1..n
      BY <2>4, <2>5
    <3>2. QED
      BY <2>2, <2>3, <2>5, <3>1 DEF CommitsInOrder
  <2>6. QED
    BY <2>2, <2>3, <2>5 DEF CommitsInOrder, Settled
<1>5. ASSUME NEW k \in 1..Len(pipeline),
             UNCHANGED writer, committed \subseteq committed',
             refused \subseteq refused',
             \A c \in Stored : Settled(c)' => Settled(c) \/ c = pipeline[k],
             \A i \in 1..Len(pipeline) : i < k => Settled(pipeline[i])
      PROVE  CommitsInOrder'
  <2>1. Stored' = Stored
    BY <1>5 DEF Stored
  <2>2. ASSUME NEW b \in Stored, NEW c \in Stored,
               b < c, writer[b] = writer[c], Settled(c)', ~Settled(b)
        PROVE  FALSE
    <3>1. CASE Settled(c)
      BY <2>2, <3>1 DEF CommitsInOrder
    <3>2. CASE c = pipeline[k]
      <4>1. PICK i \in 1..Len(pipeline) : i < k /\ pipeline[i] = b
        BY <2>2, <3>2, EarlierIsInFront
      <4>2. QED
        BY <1>5, <2>2, <4>1
    <3>3. QED
      BY <1>5, <2>2, <3>1, <3>2
  <2>3. \A b : Settled(b) => Settled(b)'
    BY <1>5 DEF Settled
  <2>4. QED
    BY <1>5, <2>1, <2>2, <2>3 DEF CommitsInOrder
<1>6. CASE Commit
  <2>1. /\ sent # <<>> /\ UNCHANGED writer /\ UNCHANGED refused
        /\ committed' = committed \cup {[batch |-> Head(sent), as |-> token]}
    BY <1>6 DEF Commit, localVars
  <2>2. /\ handshake /\ Len(answers) \in Nat /\ Len(pipeline) \in Nat
        /\ Len(sent) \in Nat \ {0} /\ Head(sent) = sent[1]
    BY <2>1, WireHasPipeline, Taken DEF StreamTypeOK
  <2>3. PICK k : k = Len(answers) + 1
    OBVIOUS
  <2>4. k \in 1..Len(pipeline) /\ Head(sent) = pipeline[k]
    <3>1. 1 \in 1..Len(sent) /\ Len(answers) + Len(sent) = Len(pipeline)
      BY <2>2 DEF WireFits
    <3>2. sent[1] = pipeline[Len(answers) + 1]
      BY <2>2, <3>1 DEF WireFits
    <3>3. QED
      BY <2>2, <2>3, <3>1, <3>2
  <2>5. ASSUME NEW i \in 1..Len(pipeline), i < k
        PROVE  Settled(pipeline[i])
    <3>1. i \in 1..Len(answers)
      BY <2>2, <2>3, <2>5
    <3>2. answers[i] = pipeline[i] /\ IsCommitted(answers[i])
      BY <2>2, <3>1 DEF WireFits, AnswersAreCommitted
    <3>3. QED
      BY <3>2 DEF Settled, IsCommitted
  <2>6. \A c \in Stored : Settled(c)' => Settled(c) \/ c = pipeline[k]
    BY <2>1, <2>4 DEF Settled
  <2>7. QED
    BY <1>5, <2>1, <2>4, <2>5, <2>6
<1>7. CASE HandleWriteError
  <2>1. /\ sent # <<>> /\ answers = <<>> /\ UNCHANGED writer
        /\ UNCHANGED committed /\ refused' = refused \cup {Head(sent)}
    BY <1>7 DEF HandleWriteError
  <2>2. /\ pipeline # <<>> /\ Head(sent) = Head(pipeline)
    BY <2>1, WireHasPipeline, WireStartsAtFront
  <2>3. Len(pipeline) \in Nat \ {0} /\ Head(pipeline) = pipeline[1]
    BY <2>2, Taken DEF StreamTypeOK
  <2>4. /\ 1 \in 1..Len(pipeline)
        /\ \A i \in 1..Len(pipeline) : ~(i < 1)
    BY <2>3
  <2>5. \A c \in Stored : Settled(c)' => Settled(c) \/ c = pipeline[1]
    BY <2>1, <2>2, <2>3 DEF Settled
  <2>6. QED
    BY <1>5, <2>1, <2>4, <2>5
<1>8. QED
  BY <1>2, <1>3, <1>4, <1>6, <1>7 DEF Next

OrderInv ==
  /\ StreamInv /\ AnswersAreCommitted /\ StoredUntilSettled
  /\ PipeInv /\ CommitsInOrder

(* The inductive invariant of what the pipeline holds and what becomes of  *)
(* it.                                                                     *)
THEOREM OrderInvariant == Spec => []OrderInv
<1>1. Init => OrderInv
  <2> SUFFICES ASSUME Init PROVE OrderInv
    OBVIOUS
  <2>1. Len(answers) = 0 /\ Len(writer) = 0
    BY DEF Init
  <2>2. AnswersAreCommitted /\ StoredUntilSettled /\ CommitsInOrder
    BY <2>1 DEF AnswersAreCommitted, StoredUntilSettled, CommitsInOrder, Stored
  <2>3. PipeInv
    <3>1. pipeline = <<>> /\ queues[sdkUser] = {} /\ Fresh
      BY DEF Init, Fresh, Credential
    <3>2. Front(<<>>, {})
      BY EmptyIsFront
    <3>3. QED
      BY <3>1, <3>2 DEF PipeInv
  <2>4. QED
    BY <2>2, <2>3, StreamInvInit DEF OrderInv
<1>2. OrderInv /\ [Next]_vars => OrderInv'
  <2> SUFFICES ASSUME OrderInv, [Next]_vars PROVE OrderInv'
    OBVIOUS
  <2>1. /\ StreamTypeOK /\ WireFits /\ QueuesAreOwn /\ OwnStream
        /\ AnswersAreCommitted /\ StoredUntilSettled /\ PipeInv /\ CommitsInOrder
    BY DEF OrderInv, StreamInv
  <2>2. StreamInv' /\ StreamTypeOK' /\ QueuesAreOwn'
    <3>1. StreamInv'
      BY StreamInvStep DEF OrderInv
    <3>2. QED
      BY <3>1 DEF StreamInv
  <2>3. AnswersAreCommitted'
    BY <2>1, AnswersStep
  <2>4. StoredUntilSettled'
    BY <2>1, <2>2, StoredStep
  <2>5. PipeInv'
    BY <2>1, <2>2, PipeStep
  <2>6. CommitsInOrder'
    BY <2>1, OrderStep
  <2>7. QED
    BY <2>2, <2>3, <2>4, <2>5, <2>6 DEF OrderInv
<1>3. QED
  BY <1>1, <1>2, PTL DEF Spec

(* No batch is lost: it stays in the queue of the user who added it until  *)
(* the server has committed or refused it, through lost answers, restarts  *)
(* and changes of user, and what the client took for committed is.         *)
THEOREM WritesAreKept == Spec => []StoredUntilSettled
<1>1. OrderInv => StoredUntilSettled
  BY DEF OrderInv
<1>2. QED
  BY <1>1, OrderInvariant, PTL

(* The pipeline is the front of the current user's mutation queue, in      *)
(* order and without gaps, and holds as much of it as it can.              *)
THEOREM PipelineFollowsQueue == Spec => []PipelineIsQueue
<1>1. ASSUME StreamTypeOK, PipeInv
      PROVE  PipelineIsQueue
  <2>1. SUFFICES ASSUME ~Fresh
                 PROVE  /\ \A i, j \in DOMAIN pipeline :
                             i < j => pipeline[i] < pipeline[j]
                        /\ \A i \in DOMAIN pipeline : pipeline[i] \in queues[sdkUser]
                        /\ \A b \in queues[sdkUser] :
                             \/ \E i \in DOMAIN pipeline : pipeline[i] = b
                             \/ Len(pipeline) = MaxPending /\ b > LastOf(pipeline)
    BY DEF PipelineIsQueue, Fresh
  <2>2. DOMAIN pipeline = 1..Len(pipeline)
    BY <1>1, LenProperties DEF StreamTypeOK
  <2>3. Front(pipeline, queues[sdkUser]) /\ Full(pipeline, queues[sdkUser])
    BY <1>1, <2>1 DEF PipeInv
  <2>4. ASSUME NEW b \in queues[sdkUser], b > LastOf(pipeline)
        PROVE  Len(pipeline) = MaxPending
    <3>1. PICK n \in Nat : n = Len(writer)
      BY <1>1, LenProperties DEF StreamTypeOK
    <3>2. /\ b \in 1..n /\ \A i \in 1..Len(pipeline) : pipeline[i] \in 1..n
          /\ Len(pipeline) \in Nat
      BY <1>1, <3>1, ElementOfSeq, LenProperties DEF StreamTypeOK, Stored
    <3>3. LastOf(pipeline) \in 0..n
      <4>1. CASE pipeline = <<>>
        BY <4>1 DEF LastOf
      <4>2. CASE pipeline # <<>>
        <5>1. Len(pipeline) \in 1..Len(pipeline)
          BY <1>1, <3>2, <4>2, EmptySeq DEF StreamTypeOK
        <5>2. QED
          BY <3>2, <4>2, <5>1 DEF LastOf
      <4>3. QED
        BY <4>1, <4>2
    <3>4. ~(b <= LastOf(pipeline))
      BY <2>4, <3>2, <3>3
    <3>5. QED
      BY <2>3, <3>4 DEF Full
  <2>5. QED
    BY <2>2, <2>3, <2>4 DEF Front, InOrder
<1>2. OrderInv => PipelineIsQueue
  BY <1>1 DEF OrderInv, StreamInv
<1>3. QED
  BY <1>2, OrderInvariant, PTL

(* The writes of one user take effect in the order they were added.        *)
THEOREM WritesInOrder == Spec => []CommitsInOrder
<1>1. OrderInv => CommitsInOrder
  BY DEF OrderInv
<1>2. QED
  BY <1>1, OrderInvariant, PTL

-----------------------------------------------------------------------------
\* One token request at a time.

LiveRequests == {r \in Requests : r.live}
LiveTokens == {c \in Callbacks : c.what = "token" /\ c.live}
LiveResumes == {t \in Tasks : t.what = "resume" /\ t.live}

None(q, S) == \A i \in 1..Len(q) : q[i] \notin S
Once(q, S) == \A i, j \in 1..Len(q) : q[i] \in S /\ q[j] \in S => i = j

NoFetch == \A u \in Users : None(fetches[u], LiveRequests)
OneFetch ==
  \E u \in Users :
    /\ Once(fetches[u], LiveRequests)
    /\ \A v \in Users \ {u} : None(fetches[v], LiveRequests)
NoRequest ==
  /\ None(authQueue, LiveRequests) /\ NoFetch
  /\ None(mainQueue, LiveTokens) /\ None(workerQueue, LiveResumes)

(* The request of a stream that is starting is at one of the stations of   *)
(* its way: FIRAuth's queue, a token service, the main queue, the worker   *)
(* queue.                                                                  *)
OneRequest ==
  \/ /\ Once(authQueue, LiveRequests) /\ NoFetch
     /\ None(mainQueue, LiveTokens) /\ None(workerQueue, LiveResumes)
  \/ /\ None(authQueue, LiveRequests) /\ OneFetch
     /\ None(mainQueue, LiveTokens) /\ None(workerQueue, LiveResumes)
  \/ /\ None(authQueue, LiveRequests) /\ NoFetch
     /\ Once(mainQueue, LiveTokens) /\ None(workerQueue, LiveResumes)
  \/ /\ None(authQueue, LiveRequests) /\ NoFetch
     /\ None(mainQueue, LiveTokens) /\ Once(workerQueue, LiveResumes)

Waiting == stream = "Starting" /\ token = NoToken

Stage ==
  /\ idle => stream = "Open" /\ handshake
  /\ token # NoToken => stream \in {"Starting", "Open"}
  /\ pipeline # <<>> => stream \in {"Starting", "Open", "Backoff"}

StageInv == Stage /\ (NoRequest \/ (Waiting /\ OneRequest))

LEMMA Puts ==
  ASSUME NEW T, NEW q \in Seq(T), NEW e \in T, NEW r, r = Append(q, e), NEW S
  PROVE  /\ None(q, S) => Once(q, S) /\ Once(r, S)
         /\ None(q, S) /\ e \notin S => None(r, S)
         /\ Once(q, S) /\ e \notin S => Once(r, S)
<1>1. /\ Len(q) \in Nat /\ Len(r) = Len(q) + 1
      /\ \A i \in 1..Len(q) : r[i] = q[i]
      /\ r[Len(q) + 1] = e
  BY Appended
<1>2. \A i \in 1..Len(r) : i \in 1..Len(q) \/ i = Len(q) + 1
  BY <1>1
<1>3. None(q, S) => Once(q, S) /\ Once(r, S)
  BY <1>1, <1>2 DEF None, Once
<1>4. None(q, S) /\ e \notin S => None(r, S)
  BY <1>1, <1>2 DEF None
<1>5. Once(q, S) /\ e \notin S => Once(r, S)
  BY <1>1, <1>2 DEF Once
<1>6. QED
  BY <1>3, <1>4, <1>5

LEMMA Takes ==
  ASSUME NEW T, NEW q \in Seq(T), q # <<>>, NEW r, r = Tail(q), NEW S
  PROVE  /\ None(q, S) => None(r, S) /\ Head(q) \notin S
         /\ Once(q, S) => Once(r, S)
         /\ Once(q, S) /\ Head(q) \in S => None(r, S)
<1>1. /\ Len(q) \in Nat \ {0} /\ Len(r) = Len(q) - 1 /\ Head(q) = q[1]
      /\ \A i \in 1..Len(r) : r[i] = q[i + 1]
  BY Taken
<1>2. /\ \A i \in 1..Len(r) : i + 1 \in 1..Len(q) /\ i + 1 # 1
      /\ 1 \in 1..Len(q)
      /\ \A i, j \in 1..Len(r) : i + 1 = j + 1 => i = j
  BY <1>1
<1>3. None(q, S) => None(r, S) /\ Head(q) \notin S
  BY <1>1, <1>2 DEF None
<1>4. Once(q, S) => Once(r, S)
  BY <1>1, <1>2 DEF Once
<1>5. Once(q, S) /\ Head(q) \in S => None(r, S)
  BY <1>1, <1>2 DEF Once, None
<1>6. QED
  BY <1>3, <1>4, <1>5

LEMMA NoneIsOnce == \A q, S : None(q, S) => Once(q, S)
BY DEF None, Once

(* A new token does not stop the requests of a stream, closing it does.    *)
LEMMA MarkedLive ==
  /\ \A q \in Seq(Requests) :
       /\ None(q, LiveRequests) => None(TokenChanged(q), LiveRequests)
       /\ Once(q, LiveRequests) => Once(TokenChanged(q), LiveRequests)
       /\ None(StreamClosed(q), LiveRequests)
  /\ \A q \in Seq(Callbacks) :
       /\ None(q, LiveTokens) => None(TokenChanged(q), LiveTokens)
       /\ Once(q, LiveTokens) => Once(TokenChanged(q), LiveTokens)
       /\ None(StreamClosed(q), LiveTokens)
  /\ \A q \in Seq(Tasks) : None(StreamClosed(q), LiveResumes)
<1>1. ASSUME NEW q \in Seq(Requests)
      PROVE  /\ None(q, LiveRequests) => None(TokenChanged(q), LiveRequests)
             /\ Once(q, LiveRequests) => Once(TokenChanged(q), LiveRequests)
             /\ None(StreamClosed(q), LiveRequests)
  <2>1. /\ Len(TokenChanged(q)) = Len(q) /\ Len(StreamClosed(q)) = Len(q)
        /\ \A i \in 1..Len(q) : TokenChanged(q)[i].live = q[i].live
        /\ \A i \in 1..Len(q) : ~StreamClosed(q)[i].live
    BY MarkedRequests
  <2>2. \A i \in 1..Len(q) : q[i] \in Requests
    BY ElementOfSeq
  <2>3. \A i \in 1..Len(q) :
          /\ TokenChanged(q)[i] \in LiveRequests => q[i] \in LiveRequests
          /\ StreamClosed(q)[i] \notin LiveRequests
    BY <2>1, <2>2 DEF LiveRequests
  <2>4. QED
    BY <2>1, <2>3 DEF None, Once
<1>2. ASSUME NEW q \in Seq(Callbacks)
      PROVE  /\ None(q, LiveTokens) => None(TokenChanged(q), LiveTokens)
             /\ Once(q, LiveTokens) => Once(TokenChanged(q), LiveTokens)
             /\ None(StreamClosed(q), LiveTokens)
  <2>1. /\ Len(TokenChanged(q)) = Len(q) /\ Len(StreamClosed(q)) = Len(q)
        /\ \A i \in 1..Len(q) :
             /\ TokenChanged(q)[i].what = q[i].what
             /\ TokenChanged(q)[i].live = q[i].live
             /\ ~StreamClosed(q)[i].live
    BY MarkedCallbacks
  <2>2. \A i \in 1..Len(q) : q[i] \in Callbacks
    BY ElementOfSeq
  <2>3. \A i \in 1..Len(q) :
          /\ TokenChanged(q)[i] \in LiveTokens => q[i] \in LiveTokens
          /\ StreamClosed(q)[i] \notin LiveTokens
    BY <2>1, <2>2 DEF LiveTokens
  <2>4. QED
    BY <2>1, <2>3 DEF None, Once
<1>3. ASSUME NEW q \in Seq(Tasks)
      PROVE  None(StreamClosed(q), LiveResumes)
  <2>1. /\ Len(StreamClosed(q)) = Len(q)
        /\ \A i \in 1..Len(q) : ~StreamClosed(q)[i].live
    BY MarkedTasks
  <2>2. QED
    BY <2>1 DEF None, LiveResumes
<1>4. QED
  BY <1>1, <1>2, <1>3

(* FillWritePipeline starts a stream, or leaves it in its state.           *)
Starts(s, requests) ==
  /\ idle' => s = "Open" /\ handshake
  /\ \/ /\ stream' = s /\ authQueue' = requests
        /\ pipeline' # <<>> => s \notin {"Initial", "Error"}
     \/ s = "Error" /\ stream' = "Backoff" /\ authQueue' = requests
     \/ /\ s = "Initial" /\ stream' = "Starting"
        /\ authQueue' = Append(requests, Request(forceRefresh))

LEMMA FillStarts ==
  ASSUME NEW p, NEW Q, NEW s, NEW wire, NEW requests,
         FillWritePipeline(p, Q, s, wire, requests)
  PROVE  Starts(s, requests)
<1>1. PICK f \in Pipelines :
        /\ pipeline' = f
        /\ IF s = "Open" /\ handshake
           THEN /\ sent' = wire \o SubSeq(f, Len(p) + 1, Len(f))
                /\ idle' = (f = <<>> \/ (idle /\ f = p))
           ELSE sent' = wire /\ idle' = FALSE
        /\ IF s \in {"Initial", "Error"} /\ f # <<>> THEN Start(s, requests)
           ELSE stream' = s /\ authQueue' = requests /\ UNCHANGED forceRefresh
  BY DEF FillWritePipeline
<1>2. idle' => s = "Open" /\ handshake
  <2>1. CASE s = "Open" /\ handshake
    BY <2>1
  <2>2. CASE ~(s = "Open" /\ handshake)
    <3>1. idle' = FALSE
      BY <1>1, <2>2
    <3>2. QED
      BY <3>1
  <2>3. QED
    BY <2>1, <2>2
<1>3. CASE s \in {"Initial", "Error"} /\ f # <<>>
  <2>1. Start(s, requests)
    BY <1>1, <1>3
  <2>2. QED
    BY <1>2, <1>3, <2>1 DEF Start, Starts
<1>4. CASE ~(s \in {"Initial", "Error"} /\ f # <<>>)
  <2>1. stream' = s /\ authQueue' = requests /\ pipeline' = f
    BY <1>1, <1>4
  <2>2. QED
    BY <1>2, <1>4, <2>1 DEF Starts
<1>5. QED
  BY <1>3, <1>4

(* When a stream is asked for, no other request is on its way.             *)
LEMMA StartRequests ==
  ASSUME NEW s, NEW requests \in Seq(Requests), None(requests, LiveRequests),
         forceRefresh \in BOOLEAN, Starts(s, requests)
  PROVE  /\ s # "Initial" => None(authQueue', LiveRequests)
         /\ Once(authQueue', LiveRequests)
         /\ None(authQueue', LiveRequests) \/ stream' = "Starting"
<1>1. Request(forceRefresh) \in Requests
  BY DEF Request, Requests
<1>2. PICK e : e = Request(forceRefresh)
  OBVIOUS
<1>3. \A r : r = Append(requests, e) => Once(r, LiveRequests)
  BY <1>1, <1>2, Puts
<1>4. Once(requests, LiveRequests)
  BY NoneIsOnce
<1>5. QED
  BY <1>2, <1>3, <1>4 DEF Starts

(* A token that a stream waits for arrives at a starting stream.           *)
LEMMA ResumesWaiting ==
  ASSUME StreamTypeOK, StageInv, workerQueue # <<>>,
         Head(workerQueue) \in LiveResumes
  PROVE  /\ Waiting /\ None(authQueue, LiveRequests) /\ NoFetch
         /\ None(mainQueue, LiveTokens) /\ None(Tail(workerQueue), LiveResumes)
<1>1. workerQueue \in Seq(Tasks)
  BY DEF StreamTypeOK
<1>2. PICK r : r = Tail(workerQueue)
  OBVIOUS
<1>3. /\ ~None(workerQueue, LiveResumes)
      /\ Once(workerQueue, LiveResumes) => None(r, LiveResumes)
  BY <1>1, <1>2, Takes
<1>4. QED
  BY <1>2, <1>3 DEF StageInv, NoRequest, OneRequest

LEMMA StageStep ==
  ASSUME StreamTypeOK, StreamTypeOK', WireFits, StageInv, [Next]_vars
  PROVE  Stage'
<1>0. Stage /\ stream \in Stages
  BY DEF StageInv, StreamTypeOK
<1>1. ASSUME UNCHANGED streamVars
      PROVE  Stage'
  BY <1>0, <1>1 DEF Stage, streamVars
<1>2. ASSUME NEW u \in Users, SignIn(u) \/ FetchAccessToken(u) \/ FetchFails(u)
      PROVE  Stage'
  BY <1>1, <1>2 DEF SignIn, FetchAccessToken, FetchFails
<1>3. CASE \/ TokenExpires \/ GetToken \/ OnNotification \/ OnToken \/ AddDocument
           \/ Commit \/ UNCHANGED vars
  <2>1. UNCHANGED streamVars
    BY <1>3 DEF TokenExpires, GetToken, OnNotification, OnToken, AddDocument,
              Commit, vars
  <2>2. QED
    BY <1>1, <2>1
<1>4. CASE OnStreamStart \/ OnWriteStreamHandshakeComplete \/ Relaunch
  BY <1>0, <1>4 DEF OnStreamStart, OnWriteStreamHandshakeComplete, Relaunch, Stage
<1>5. CASE BackoffElapsed
  BY <1>0, <1>5 DEF BackoffElapsed, Start, Stage
<1>6. CASE IdleTimeout
  BY <1>0, <1>6 DEF IdleTimeout, Stage, WireFits
<1>7. ASSUME CloseStream
      PROVE  Stage'
  BY <1>7 DEF CloseStream, Stage
<1>8. CASE OnStreamError
  BY <1>7, <1>8 DEF OnStreamError
<1>9. CASE ResumeStartWithCredentials
  <2>1. CASE CloseStream
    BY <1>7, <2>1
  <2>2. CASE UNCHANGED streamVars
    BY <1>1, <2>2
  <2>3. CASE /\ Head(workerQueue).live
             /\ UNCHANGED <<pipeline, stream, handshake, idle>>
    <3>1. workerQueue # <<>> /\ Head(workerQueue) \in LiveResumes
      BY <1>9, <2>3, Taken
         DEF ResumeStartWithCredentials, Task, LiveResumes, StreamTypeOK
    <3>2. stream = "Starting"
      BY <3>1, ResumesWaiting DEF Waiting
    <3>3. QED
      BY <1>0, <2>3, <3>2 DEF Stage
  <2>4. QED
    BY <1>9, <2>1, <2>2, <2>3 DEF ResumeStartWithCredentials
<1>10. CASE WriteMutations \/ OnWriteStreamMutationResult
  <2>1. /\ UNCHANGED <<handshake, token>>
        /\ \E p, Q : FillWritePipeline(p, Q, stream, sent, authQueue)
    BY <1>10 DEF WriteMutations, OnWriteStreamMutationResult
  <2>2. Starts(stream, authQueue)
    BY <2>1, FillStarts
  <2>3. QED
    BY <1>0, <2>1, <2>2 DEF Starts, Stage, Stages
<1>11. CASE HandleWriteError \/ HandleCredentialChange
  <2>1. /\ token' = NoToken
        /\ \E p, Q, s, r :
             s \in {"Initial", "Error"} /\ FillWritePipeline(p, Q, s, <<>>, r)
    BY <1>11 DEF HandleWriteError, HandleCredentialChange
  <2>2. PICK p, Q, s, r :
          s \in {"Initial", "Error"} /\ FillWritePipeline(p, Q, s, <<>>, r)
    BY <2>1
  <2>3. Starts(s, r)
    BY <2>2, FillStarts
  <2>4. QED
    BY <2>1, <2>2, <2>3 DEF Starts, Stage
<1>12. QED
  BY <1>2, <1>3, <1>4, <1>5, <1>6, <1>8, <1>9, <1>10, <1>11 DEF Next

(* The request moves from one station to the next, and none is added while *)
(* one is on its way.                                                      *)
LEMMA RequestStep ==
  ASSUME StreamTypeOK, StreamTypeOK', WireFits, StageInv, [Next]_vars
  PROVE  NoRequest' \/ (Waiting' /\ OneRequest')
<1> DEFINE Result == NoRequest' \/ (Waiting' /\ OneRequest')
<1> USE UsersAssumption
<1>0. /\ Stage /\ (NoRequest \/ (Waiting /\ OneRequest))
      /\ authQueue \in Seq(Requests) /\ mainQueue \in Seq(Callbacks)
      /\ workerQueue \in Seq(Tasks) /\ stream \in Stages
      /\ \A u \in Users : fetches[u] \in Seq(Requests)
      /\ fetches \in [Users -> Seq(Requests)] /\ forceRefresh \in BOOLEAN
  BY DEF StageInv, StreamTypeOK
<1>1. ASSUME UNCHANGED <<authQueue, fetches, mainQueue, workerQueue>>,
             Waiting => Waiting' \/ NoRequest
      PROVE  Result
  BY <1>0, <1>1 DEF NoRequest, OneRequest, NoFetch, OneFetch
<1>2. token # NoToken \/ stream # "Starting" => NoRequest
  BY <1>0 DEF Waiting
<1>3. ASSUME NEW u \in Users, SignIn(u)
      PROVE  Result
  <2>1. /\ mainQueue' = Append(mainQueue, Notification(u))
        /\ UNCHANGED <<authQueue, fetches, workerQueue, stream, token>>
    BY <1>3 DEF SignIn, streamVars
  <2>2. Notification(u) \in Callbacks /\ Notification(u) \notin LiveTokens
    BY DEF Notification, Callbacks, LiveTokens
  <2>3. /\ None(mainQueue, LiveTokens) => None(mainQueue', LiveTokens)
        /\ Once(mainQueue, LiveTokens) => Once(mainQueue', LiveTokens)
    BY <1>0, <2>1, <2>2, Puts
  <2>4. QED
    BY <1>0, <2>1, <2>3 DEF NoRequest, OneRequest, NoFetch, OneFetch, Waiting
<1>4. ASSUME NEW u \in Users, FetchAccessToken(u) \/ FetchFails(u)
      PROVE  Result
  <2>1. /\ fetches[u] # <<>> /\ fetches' = [fetches EXCEPT ![u] = Tail(@)]
        /\ UNCHANGED <<authQueue, workerQueue, stream, token>>
    BY <1>4 DEF FetchAccessToken, FetchFails, streamVars
  <2>2. PICK q \in Seq(Callbacks), ok \in BOOLEAN :
          /\ mainQueue' = Append(q, TokenCallback(Head(fetches[u]), u, ok))
          /\ \/ q = mainQueue
             \/ \E w \in Users : q = Append(mainQueue, Notification(w))
    BY <1>4, FetchPosts
  <2>3. /\ None(mainQueue, LiveTokens) => None(q, LiveTokens)
        /\ Once(mainQueue, LiveTokens) => Once(q, LiveTokens)
    <3>1. CASE q = mainQueue
      BY <3>1
    <3>2. ASSUME NEW w \in Users, q = Append(mainQueue, Notification(w))
          PROVE  /\ None(mainQueue, LiveTokens) => None(q, LiveTokens)
                 /\ Once(mainQueue, LiveTokens) => Once(q, LiveTokens)
      <4>1. Notification(w) \in Callbacks /\ Notification(w) \notin LiveTokens
        BY DEF Notification, Callbacks, LiveTokens
      <4>2. QED
        BY <1>0, <3>2, <4>1, Puts
    <3>3. QED
      BY <2>2, <3>1, <3>2
  <2>4. PICK h, e : h = Head(fetches[u]) /\ e = TokenCallback(h, u, ok)
    OBVIOUS
  <2>5. /\ h \in Requests /\ e \in Callbacks
        /\ e \in LiveTokens <=> h \in LiveRequests
    <3>1. h \in Requests
      BY <1>0, <2>1, <2>4, Taken
    <3>2. QED
      BY <2>4, <3>1 DEF TokenCallback, Callbacks, Requests, LiveTokens, LiveRequests
  <2>6. /\ None(q, LiveTokens) => Once(mainQueue', LiveTokens)
        /\ None(q, LiveTokens) /\ e \notin LiveTokens => None(mainQueue', LiveTokens)
        /\ Once(q, LiveTokens) /\ e \notin LiveTokens => Once(mainQueue', LiveTokens)
    <3>1. mainQueue' = Append(q, e)
      BY <2>2, <2>4
    <3>2. e \in Callbacks
      BY <2>5
    <3>3. QED
      BY <3>1, <3>2, Puts
  <2>7. fetches'[u] = Tail(fetches[u]) /\ \A v \in Users \ {u} : fetches'[v] = fetches[v]
    BY <1>0, <2>1
  <2>8. /\ None(fetches[u], LiveRequests) =>
             None(fetches'[u], LiveRequests) /\ h \notin LiveRequests
        /\ Once(fetches[u], LiveRequests) => Once(fetches'[u], LiveRequests)
        /\ Once(fetches[u], LiveRequests) /\ h \in LiveRequests =>
             None(fetches'[u], LiveRequests)
    BY <1>0, <2>1, <2>4, <2>7, Takes
  <2>9. NoFetch => NoFetch' /\ h \notin LiveRequests
    BY <2>7, <2>8 DEF NoFetch
  <2>10. OneFetch /\ h \notin LiveRequests => OneFetch'
    <3>1. SUFFICES ASSUME NEW v \in Users, Once(fetches[v], LiveRequests),
                          \A w \in Users \ {v} : None(fetches[w], LiveRequests)
                   PROVE  /\ Once(fetches'[v], LiveRequests)
                          /\ \A w \in Users \ {v} : None(fetches'[w], LiveRequests)
      BY DEF OneFetch
    <3>2. \A w \in Users : None(fetches[w], LiveRequests) => None(fetches'[w], LiveRequests)
      BY <2>7, <2>8
    <3>3. QED
      BY <2>7, <2>8, <3>1, <3>2
  <2>11. OneFetch /\ h \in LiveRequests => NoFetch'
    <3>1. SUFFICES ASSUME NEW v \in Users, Once(fetches[v], LiveRequests),
                          \A w \in Users \ {v} : None(fetches[w], LiveRequests),
                          h \in LiveRequests
                   PROVE  \A w \in Users : None(fetches'[w], LiveRequests)
      BY DEF OneFetch, NoFetch
    <3>2. v = u
      BY <2>8, <3>1
    <3>3. QED
      BY <2>7, <2>8, <3>1, <3>2
  <2>12. QED
    BY <1>0, <2>1, <2>3, <2>5, <2>6, <2>9, <2>10, <2>11
       DEF NoRequest, OneRequest, Waiting
<1>5. CASE GetToken
  <2>1. PICK r : r = Head(authQueue)
    OBVIOUS
  <2>2. /\ authQueue # <<>> /\ authQueue' = Tail(authQueue)
        /\ UNCHANGED <<workerQueue, stream, token>>
    BY <1>5 DEF GetToken, streamVars
  <2>3. /\ r \in Requests
        /\ None(authQueue, LiveRequests) =>
             None(authQueue', LiveRequests) /\ r \notin LiveRequests
        /\ Once(authQueue, LiveRequests) => Once(authQueue', LiveRequests)
        /\ Once(authQueue, LiveRequests) /\ r \in LiveRequests =>
             None(authQueue', LiveRequests)
    BY <1>0, <2>1, <2>2, Takes, Taken
  <2>4. CASE authUser = Nobody
    <3>1. PICK e : e = TokenCallback(r, Nobody, TRUE)
      OBVIOUS
    <3>2. mainQueue' = Append(mainQueue, e) /\ UNCHANGED fetches
      BY <1>5, <2>1, <2>4, <3>1 DEF GetToken
    <3>3. e \in Callbacks /\ (e \in LiveTokens <=> r \in LiveRequests)
      BY <2>3, <3>1 DEF TokenCallback, Callbacks, Requests, LiveTokens, LiveRequests
    <3>4. /\ None(mainQueue, LiveTokens) => Once(mainQueue', LiveTokens)
          /\ None(mainQueue, LiveTokens) /\ e \notin LiveTokens =>
               None(mainQueue', LiveTokens)
          /\ Once(mainQueue, LiveTokens) /\ e \notin LiveTokens =>
               Once(mainQueue', LiveTokens)
      BY <1>0, <3>2, <3>3, Puts
    <3>5. (NoFetch => NoFetch') /\ (OneFetch => OneFetch')
      BY <3>2 DEF NoFetch, OneFetch
    <3>6. QED
      BY <1>0, <2>2, <2>3, <3>3, <3>4, <3>5 DEF NoRequest, OneRequest, Waiting
  <2>5. CASE authUser # Nobody
    <3>1. /\ fetches' = [fetches EXCEPT ![authUser] = Append(@, r)]
          /\ UNCHANGED mainQueue
      BY <1>5, <2>1, <2>5 DEF GetToken
    <3>2. PICK a \in Users : a = authUser
      BY DEF StreamTypeOK
    <3>3. /\ fetches'[a] = Append(fetches[a], r)
          /\ \A v \in Users \ {a} : fetches'[v] = fetches[v]
      BY <1>0, <3>1, <3>2
    <3>4. /\ None(fetches[a], LiveRequests) => Once(fetches'[a], LiveRequests)
          /\ None(fetches[a], LiveRequests) /\ r \notin LiveRequests =>
               None(fetches'[a], LiveRequests)
          /\ Once(fetches[a], LiveRequests) /\ r \notin LiveRequests =>
               Once(fetches'[a], LiveRequests)
      BY <1>0, <2>3, <3>3, Puts
    <3>5. NoFetch => OneFetch'
      BY <3>3, <3>4 DEF NoFetch, OneFetch
    <3>6. NoFetch /\ r \notin LiveRequests => NoFetch'
      BY <3>3, <3>4 DEF NoFetch
    <3>7. OneFetch /\ r \notin LiveRequests => OneFetch'
      <4>1. SUFFICES ASSUME NEW v \in Users, Once(fetches[v], LiveRequests),
                            \A w \in Users \ {v} : None(fetches[w], LiveRequests),
                            r \notin LiveRequests
                     PROVE  /\ Once(fetches'[v], LiveRequests)
                            /\ \A w \in Users \ {v} : None(fetches'[w], LiveRequests)
        BY DEF OneFetch
      <4>2. \A w \in Users : None(fetches[w], LiveRequests) => None(fetches'[w], LiveRequests)
        BY <3>3, <3>4, <4>1
      <4>3. Once(fetches'[v], LiveRequests)
        BY <3>3, <3>4, <4>1
      <4>4. QED
        BY <4>1, <4>2, <4>3
    <3>8. QED
      BY <1>0, <2>2, <2>3, <3>1, <3>5, <3>6, <3>7 DEF NoRequest, OneRequest, Waiting
  <2>6. QED
    BY <2>4, <2>5
<1>6. CASE OnNotification
  <2>1. /\ mainQueue # <<>> /\ mainQueue' = TokenChanged(Tail(mainQueue))
        /\ authQueue' = TokenChanged(authQueue)
        /\ fetches' = [u \in Users |-> TokenChanged(fetches[u])]
        /\ workerQueue' = Append(workerQueue, Credential(currentUser'))
        /\ UNCHANGED <<stream, token>>
    BY <1>6 DEF OnNotification, streamVars
  <2>2. /\ None(mainQueue, LiveTokens) => None(mainQueue', LiveTokens)
        /\ Once(mainQueue, LiveTokens) => Once(mainQueue', LiveTokens)
    <3>1. PICK t : t = Tail(mainQueue)
      OBVIOUS
    <3>2. /\ None(mainQueue, LiveTokens) => None(t, LiveTokens)
          /\ Once(mainQueue, LiveTokens) => Once(t, LiveTokens)
          /\ t \in Seq(Callbacks)
      BY <1>0, <2>1, <3>1, Takes, Taken
    <3>3. QED
      BY <2>1, <3>1, <3>2, MarkedLive
  <2>3. /\ None(authQueue, LiveRequests) => None(authQueue', LiveRequests)
        /\ Once(authQueue, LiveRequests) => Once(authQueue', LiveRequests)
        /\ \A u \in Users :
             /\ None(fetches[u], LiveRequests) => None(fetches'[u], LiveRequests)
             /\ Once(fetches[u], LiveRequests) => Once(fetches'[u], LiveRequests)
    BY <1>0, <2>1, MarkedLive
  <2>4. /\ None(workerQueue, LiveResumes) => None(workerQueue', LiveResumes)
        /\ Once(workerQueue, LiveResumes) => Once(workerQueue', LiveResumes)
    <3>1. /\ Credential(currentUser') \in Tasks
          /\ Credential(currentUser') \notin LiveResumes
      BY DEF Credential, Tasks, LiveResumes, StreamTypeOK
    <3>2. QED
      BY <1>0, <2>1, <3>1, Puts
  <2>5. (NoFetch => NoFetch') /\ (OneFetch => OneFetch')
    BY <2>3 DEF NoFetch, OneFetch
  <2>6. QED
    BY <1>0, <2>1, <2>2, <2>3, <2>4, <2>5 DEF NoRequest, OneRequest, Waiting
<1>7. CASE OnToken
  <2>1. PICK t : t = Head(mainQueue)
    OBVIOUS
  <2>2. PICK e : e = [what |-> "resume", user |-> t.user, ok |-> t.ok /\ t.same,
                      live |-> t.live]
    OBVIOUS
  <2>3. /\ mainQueue # <<>> /\ t.what = "token" /\ mainQueue' = Tail(mainQueue)
        /\ workerQueue' = Append(workerQueue, e)
        /\ UNCHANGED <<authQueue, fetches, stream, token>>
    BY <1>7, <2>1, <2>2 DEF OnToken, authVars, streamVars
  <2>4. t \in Callbacks
    BY <1>0, <2>1, <2>3, Taken
  <2>5. e \in Tasks /\ (e \in LiveResumes <=> t \in LiveTokens)
    BY <2>2, <2>3, <2>4 DEF Tasks, Callbacks, LiveResumes, LiveTokens
  <2>6. /\ None(mainQueue, LiveTokens) =>
             None(mainQueue', LiveTokens) /\ t \notin LiveTokens
        /\ Once(mainQueue, LiveTokens) => Once(mainQueue', LiveTokens)
        /\ Once(mainQueue, LiveTokens) /\ t \in LiveTokens =>
             None(mainQueue', LiveTokens)
    BY <1>0, <2>1, <2>3, Takes
  <2>7. /\ None(workerQueue, LiveResumes) => Once(workerQueue', LiveResumes)
        /\ None(workerQueue, LiveResumes) /\ e \notin LiveResumes =>
             None(workerQueue', LiveResumes)
        /\ Once(workerQueue, LiveResumes) /\ e \notin LiveResumes =>
             Once(workerQueue', LiveResumes)
    BY <1>0, <2>3, <2>5, Puts
  <2>8. (NoFetch => NoFetch') /\ (OneFetch => OneFetch')
    BY <2>3 DEF NoFetch, OneFetch
  <2>9. QED
    BY <1>0, <2>3, <2>5, <2>6, <2>7, <2>8 DEF NoRequest, OneRequest, Waiting
<1>8. CASE AddDocument
  <2>1. /\ workerQueue' = Append(workerQueue, WriteTask)
        /\ UNCHANGED <<authQueue, fetches, mainQueue, stream, token>>
    BY <1>8 DEF AddDocument, authVars, streamVars
  <2>2. WriteTask \in Tasks /\ WriteTask \notin LiveResumes
    BY DEF WriteTask, Tasks, LiveResumes
  <2>3. /\ None(workerQueue, LiveResumes) => None(workerQueue', LiveResumes)
        /\ Once(workerQueue, LiveResumes) => Once(workerQueue', LiveResumes)
    BY <1>0, <2>1, <2>2, Puts
  <2>4. QED
    BY <1>0, <2>1, <2>3 DEF NoRequest, OneRequest, NoFetch, OneFetch, Waiting
<1>9. CASE ResumeStartWithCredentials
  <2>1. /\ workerQueue # <<>> /\ Head(workerQueue).what = "resume"
        /\ workerQueue' = Tail(workerQueue)
        /\ UNCHANGED <<authQueue, fetches, mainQueue>>
    BY <1>9 DEF ResumeStartWithCredentials, Task, authVars
  <2>2. Head(workerQueue) \in Tasks
    BY <1>0, <2>1, Taken
  <2>3. CASE Head(workerQueue).live
    <3>1. Head(workerQueue) \in LiveResumes
      BY <2>1, <2>2, <2>3 DEF LiveResumes
    <3>2. /\ None(authQueue, LiveRequests) /\ NoFetch
          /\ None(mainQueue, LiveTokens) /\ None(Tail(workerQueue), LiveResumes)
      BY <2>1, <3>1, ResumesWaiting
    <3>3. QED
      BY <2>1, <3>2 DEF NoRequest, NoFetch
  <2>4. CASE ~Head(workerQueue).live
    <3>1. UNCHANGED <<stream, token>>
      BY <1>9, <2>4 DEF ResumeStartWithCredentials, streamVars
    <3>2. /\ None(workerQueue, LiveResumes) => None(workerQueue', LiveResumes)
          /\ Once(workerQueue, LiveResumes) => Once(workerQueue', LiveResumes)
      BY <1>0, <2>1, Takes
    <3>3. QED
      BY <1>0, <2>1, <3>1, <3>2 DEF NoRequest, OneRequest, NoFetch, OneFetch, Waiting
  <2>5. QED
    BY <2>3, <2>4
<1>10. CASE WriteMutations
  <2>1. /\ workerQueue # <<>> /\ workerQueue' = Tail(workerQueue)
        /\ UNCHANGED <<fetches, mainQueue, token>>
        /\ FillWritePipeline(pipeline, queues'[sdkUser], stream, sent, authQueue)
    BY <1>10 DEF WriteMutations, Task, authVars
  <2>2. Starts(stream, authQueue)
    BY <2>1, FillStarts
  <2>3. /\ None(workerQueue, LiveResumes) => None(workerQueue', LiveResumes)
        /\ Once(workerQueue, LiveResumes) => Once(workerQueue', LiveResumes)
    BY <1>0, <2>1, Takes
  <2>4. (NoFetch => NoFetch') /\ (OneFetch => OneFetch')
    BY <2>1 DEF NoFetch, OneFetch
  <2>5. CASE stream = "Initial"
    <3>1. NoRequest /\ token = NoToken
      BY <1>0, <1>2, <2>5 DEF Stage
    <3>2. /\ Once(authQueue', LiveRequests)
          /\ None(authQueue', LiveRequests) \/ stream' = "Starting"
      BY <1>0, <2>2, <3>1, StartRequests DEF NoRequest
    <3>3. QED
      BY <2>1, <2>3, <2>4, <3>1, <3>2 DEF NoRequest, OneRequest, Waiting
  <2>6. CASE stream # "Initial"
    <3>1. authQueue' = authQueue /\ (stream = "Starting" => stream' = "Starting")
      BY <2>2, <2>6 DEF Starts
    <3>2. QED
      BY <1>0, <2>1, <2>3, <2>4, <3>1 DEF NoRequest, OneRequest, Waiting
  <2>7. QED
    BY <2>5, <2>6
<1>11. CASE HandleCredentialChange
  <2>1. /\ workerQueue # <<>> /\ workerQueue' = StreamClosed(Tail(workerQueue))
        /\ mainQueue' = StreamClosed(mainQueue)
        /\ fetches' = [u \in Users |-> StreamClosed(fetches[u])]
        /\ token' = NoToken
        /\ \E Q, s : FillWritePipeline(<<>>, Q, s, <<>>, StreamClosed(authQueue))
    BY <1>11 DEF HandleCredentialChange, Task
  <2>2. PICK s : Starts(s, StreamClosed(authQueue))
    BY <2>1, FillStarts
  <2>3. /\ None(StreamClosed(authQueue), LiveRequests)
        /\ StreamClosed(authQueue) \in Seq(Requests)
    BY <1>0, MarkedLive, MarkedRequests
  <2>4. /\ Once(authQueue', LiveRequests)
        /\ None(authQueue', LiveRequests) \/ stream' = "Starting"
    BY <1>0, <2>2, <2>3, StartRequests
  <2>5. None(mainQueue', LiveTokens) /\ None(workerQueue', LiveResumes) /\ NoFetch'
    <3>1. Tail(workerQueue) \in Seq(Tasks)
      BY <1>0, <2>1, Taken
    <3>2. QED
      BY <1>0, <2>1, <3>1, MarkedLive DEF NoFetch
  <2>6. QED
    BY <2>1, <2>4, <2>5 DEF NoRequest, OneRequest, Waiting
<1>12. CASE HandleWriteError \/ BackoffElapsed
  <2>1. /\ UNCHANGED <<fetches, mainQueue, workerQueue>> /\ token' = NoToken
        /\ NoRequest
    <3>1. CASE HandleWriteError
      <4>1. token # NoToken
        BY <3>1, WireHasPipeline DEF HandleWriteError
      <4>2. QED
        BY <1>2, <3>1, <4>1 DEF HandleWriteError, StreamEvent, authVars
    <3>2. CASE BackoffElapsed
      BY <1>0, <1>2, <3>2 DEF BackoffElapsed, StreamEvent, authVars, Stage
    <3>3. QED
      BY <1>12, <3>1, <3>2
  <2>2. Starts("Initial", authQueue) \/ BackoffElapsed
    BY <1>12, FillStarts DEF HandleWriteError
  <2>3. \/ stream' = "Starting" /\ authQueue' = Append(authQueue, Request(forceRefresh))
        \/ authQueue' = authQueue
    BY <2>2 DEF Starts, BackoffElapsed, Start
  <2>4. /\ Once(authQueue', LiveRequests)
        /\ None(authQueue', LiveRequests) \/ stream' = "Starting"
    <3>1. PICK e : e = Request(forceRefresh)
      OBVIOUS
    <3>2. e \in Requests
      BY <1>0, <3>1 DEF Request, Requests
    <3>3. None(authQueue, LiveRequests)
      BY <2>1 DEF NoRequest
    <3>4. \A r : r = Append(authQueue, e) => Once(r, LiveRequests)
      BY <1>0, <3>2, <3>3, Puts
    <3>5. QED
      BY <2>3, <3>1, <3>3, <3>4, NoneIsOnce
  <2>5. NoFetch' /\ None(mainQueue', LiveTokens) /\ None(workerQueue', LiveResumes)
    BY <2>1 DEF NoRequest, NoFetch
  <2>6. QED
    BY <2>1, <2>4, <2>5 DEF NoRequest, OneRequest, Waiting
<1>13. CASE OnWriteStreamMutationResult
  <2>1. /\ UNCHANGED <<fetches, mainQueue, workerQueue>> /\ stream = "Open"
        /\ \E p, Q : FillWritePipeline(p, Q, stream, sent, authQueue)
    BY <1>13, WireHasPipeline DEF OnWriteStreamMutationResult, StreamEvent, authVars
  <2>2. Starts(stream, authQueue)
    BY <2>1, FillStarts
  <2>3. UNCHANGED authQueue /\ NoRequest
    BY <1>2, <2>1, <2>2 DEF Starts
  <2>4. QED
    BY <1>1, <2>1, <2>3
<1>14. CASE OnStreamStart \/ OnStreamError \/ OnWriteStreamHandshakeComplete
            \/ IdleTimeout
  <2>1. UNCHANGED <<authQueue, fetches, mainQueue, workerQueue>> /\ NoRequest
    BY <1>0, <1>2, <1>14 DEF OnStreamStart, OnStreamError,
       OnWriteStreamHandshakeComplete, IdleTimeout, StreamEvent, authVars, Stage
  <2>2. QED
    BY <1>1, <2>1
<1>15. CASE TokenExpires \/ Commit \/ UNCHANGED vars
  <2>1. UNCHANGED <<authQueue, fetches, mainQueue, workerQueue, stream, token>>
    BY <1>15 DEF TokenExpires, Commit, StreamEvent, vars, authVars, queueVars,
                 streamVars
  <2>2. QED
    BY <1>1, <2>1 DEF Waiting
<1>16. CASE Relaunch
  <2>1. /\ authQueue' = <<>> /\ mainQueue' = <<>>
        /\ fetches' = [u \in Users |-> <<>>]
        /\ workerQueue' = <<Credential(authUser)>>
    BY <1>16 DEF Relaunch
  <2>2. /\ Len(authQueue') = 0 /\ Len(mainQueue') = 0
        /\ \A u \in Users : Len(fetches'[u]) = 0
        /\ Len(workerQueue') = 1 /\ workerQueue'[1] = Credential(authUser)
    BY <2>1
  <2>3. Credential(authUser) \notin LiveResumes
    BY DEF Credential, LiveResumes
  <2>4. QED
    BY <2>2, <2>3 DEF NoRequest, NoFetch, None
<1>17. QED
  BY <1>3, <1>4, <1>5, <1>6, <1>7, <1>8, <1>9, <1>10, <1>11, <1>12, <1>13, <1>14,
     <1>15, <1>16 DEF Next

(* The assertions of stream.cc and remote_store.cc hold: a token that a    *)
(* stream waits for reaches it while it is starting and has none, an idle  *)
(* stream has no work, and one that is needed is started.                  *)
THEOREM WritePathAssertsHold == Spec => []WritePathAsserts
<1>1. Init => StageInv
  <2> SUFFICES ASSUME Init PROVE StageInv
    OBVIOUS
  <2>1. /\ Len(authQueue) = 0 /\ Len(mainQueue) = 0
        /\ \A u \in Users : Len(fetches[u]) = 0
        /\ Len(workerQueue) = 1 /\ workerQueue[1] = Credential(authUser)
    BY DEF Init
  <2>2. Credential(authUser) \notin LiveResumes
    BY DEF Credential, LiveResumes
  <2>3. NoRequest
    BY <2>1, <2>2 DEF NoRequest, NoFetch, None
  <2>4. Stage
    BY DEF Init, Stage
  <2>5. QED
    BY <2>3, <2>4 DEF StageInv
<1>2. StreamInv /\ StreamInv' /\ StageInv /\ [Next]_vars => StageInv'
  <2> SUFFICES ASSUME StreamInv, StreamInv', StageInv, [Next]_vars
               PROVE  StageInv'
    OBVIOUS
  <2>1. StreamTypeOK /\ StreamTypeOK' /\ WireFits
    BY DEF StreamInv
  <2>2. Stage'
    BY <2>1, StageStep
  <2>3. NoRequest' \/ (Waiting' /\ OneRequest')
    BY <2>1, RequestStep
  <2>4. QED
    BY <2>2, <2>3 DEF StageInv
<1>3. StreamInv /\ StageInv => WritePathAsserts
  <2> SUFFICES ASSUME StreamInv, StageInv PROVE WritePathAsserts
    OBVIOUS
  <2>1. StreamTypeOK /\ WireFits /\ Stage
    BY DEF StreamInv, StageInv
  <2>2. ASSUME NEW i \in DOMAIN workerQueue,
               workerQueue[i].what = "resume", workerQueue[i].live
        PROVE  stream = "Starting" /\ token = NoToken
    <3>1. i \in 1..Len(workerQueue) /\ workerQueue[i] \in Tasks
      BY <2>1, LenProperties, ElementOfSeq DEF StreamTypeOK
    <3>2. ~None(workerQueue, LiveResumes)
      BY <2>2, <3>1 DEF None, LiveResumes
    <3>3. QED
      BY <3>2 DEF StageInv, NoRequest, Waiting
  <2>3. QED
    BY <2>1, <2>2 DEF WireFits, Stage, WritePathAsserts
<1>4. QED
  BY <1>1, <1>2, <1>3, StreamInvariant, PTL DEF Spec

-----------------------------------------------------------------------------
\* The writes on the worker queue.

(* A queue has finitely many writes.                                       *)
LEMMA WritesCounted ==
  ASSUME NEW q, Len(q) \in Nat
  PROVE  IsFiniteSet(WriteIndices(q)) /\ Writes(q) \in Nat
<1>1. IsFiniteSet(1..Len(q))
  BY FS_Interval
<1>2. WriteIndices(q) \in SUBSET (1..Len(q))
  BY DEF WriteIndices
<1>3. IsFiniteSet(WriteIndices(q))
  BY <1>1, <1>2, FS_Subset
<1>4. QED
  BY <1>3, FS_CardinalityType DEF Writes

(* An appended task is one write more, or none.                            *)
LEMMA WritesAppended ==
  ASSUME NEW q \in Seq(Tasks), NEW t \in Tasks
  PROVE  Writes(Append(q, t)) = IF t.what = "write" THEN Writes(q) + 1
                                ELSE Writes(q)
<1>1. PICK r : r = Append(q, t)
  OBVIOUS
<1>2. PICK n \in Nat : n = Len(q)
  BY LenProperties
<1>3. /\ Len(r) = n + 1 /\ r[n + 1] = t
      /\ \A i \in 1..n : r[i] = q[i]
  BY <1>1, <1>2, Appended
<1>4. IsFiniteSet(WriteIndices(q)) /\ Writes(q) \in Nat
  BY <1>2, WritesCounted
<1>5. CASE t.what = "write"
  <2>1. WriteIndices(r) = WriteIndices(q) \cup {n + 1}
    BY <1>2, <1>3, <1>5 DEF WriteIndices
  <2>2. n + 1 \notin WriteIndices(q)
    BY <1>2 DEF WriteIndices
  <2>3. Cardinality(WriteIndices(q) \cup {n + 1})
          = Cardinality(WriteIndices(q)) + 1
    BY <1>4, <2>2, FS_AddElement
  <2>4. QED
    BY <1>1, <1>5, <2>1, <2>3 DEF Writes
<1>6. CASE t.what # "write"
  <2>1. WriteIndices(r) = WriteIndices(q)
    BY <1>2, <1>3, <1>6 DEF WriteIndices
  <2>2. QED
    BY <1>1, <1>6, <2>1 DEF Writes
<1>7. QED
  BY <1>5, <1>6

(* The task at the head is one write, or none.                             *)
LEMMA WritesTaken ==
  ASSUME NEW q \in Seq(Tasks), q # <<>>
  PROVE  Writes(q) = IF Head(q).what = "write" THEN Writes(Tail(q)) + 1
                     ELSE Writes(Tail(q))
<1>1. PICK r : r = Tail(q)
  OBVIOUS
<1>2. PICK n \in Nat : n = Len(r)
  BY <1>1, Taken, LenProperties
<1>3. /\ Len(q) = n + 1 /\ Head(q) = q[1]
      /\ \A i \in 1..n : r[i] = q[i + 1]
  <2>1. /\ Len(q) \in Nat \ {0} /\ Len(r) = Len(q) - 1 /\ Head(q) = q[1]
        /\ \A i \in 1..(Len(q) - 1) : r[i] = q[i + 1]
    BY <1>1, Taken
  <2>2. QED
    BY <1>2, <2>1
<1>4. IsFiniteSet(WriteIndices(r)) /\ Writes(r) \in Nat
  BY <1>2, WritesCounted
<1>5. IsFiniteSet(WriteIndices(q))
  BY <1>3, WritesCounted
<1>6. PICK S : S = WriteIndices(q) \ {1}
  OBVIOUS
<1>7. \A j : j \in S <=> j \in 2..(n + 1) /\ q[j].what = "write"
  BY <1>3, <1>6 DEF WriteIndices
<1>8. \A i : i \in WriteIndices(r) <=> i \in 1..n /\ q[i + 1].what = "write"
  BY <1>2, <1>3 DEF WriteIndices
<1>9. ExistsBijection(WriteIndices(r), S)
  <2>1. PICK f : f = [i \in WriteIndices(r) |-> i + 1]
    OBVIOUS
  <2>2. f \in [WriteIndices(r) -> S]
    <3>1. ASSUME NEW i \in WriteIndices(r)
          PROVE  i + 1 \in S
      BY <1>7, <1>8
    <3>2. QED
      BY <2>1, <3>1
  <2>3. \A a, b \in WriteIndices(r) : f[a] = f[b] => a = b
    BY <1>8, <2>1
  <2>4. ASSUME NEW j \in S
        PROVE  \E i \in WriteIndices(r) : f[i] = j
    <3>1. j - 1 \in 1..n /\ j - 1 + 1 = j
      BY <1>7
    <3>2. j - 1 \in WriteIndices(r)
      BY <1>7, <1>8, <3>1
    <3>3. QED
      BY <2>1, <3>1, <3>2
  <2>5. f \in Bijection(WriteIndices(r), S)
    BY <2>2, <2>3, <2>4 DEF Bijection, Injection, Surjection, IsInjective
  <2>6. QED
    BY <2>5 DEF ExistsBijection
<1>10. IsFiniteSet(S) /\ Cardinality(S) = Writes(r)
  BY <1>4, <1>9, FS_Bijection DEF Writes
<1>11. CASE Head(q).what = "write"
  <2>1. WriteIndices(q) = S \cup {1} /\ 1 \notin S
    BY <1>3, <1>6, <1>11 DEF WriteIndices
  <2>2. Cardinality(S \cup {1}) = Cardinality(S) + 1
    BY <1>10, <2>1, FS_AddElement
  <2>3. QED
    BY <1>1, <1>10, <1>11, <2>1, <2>2 DEF Writes
<1>12. CASE Head(q).what # "write"
  <2>1. WriteIndices(q) = S
    BY <1>3, <1>6, <1>12 DEF WriteIndices
  <2>2. QED
    BY <1>1, <1>10, <1>12, <2>1 DEF Writes
<1>13. QED
  BY <1>11, <1>12

(* Closing the stream leaves the writes on the queue.                      *)
LEMMA WritesMarked ==
  ASSUME NEW q \in Seq(Tasks)
  PROVE  Writes(StreamClosed(q)) = Writes(q)
<1>1. /\ Len(StreamClosed(q)) = Len(q)
      /\ \A i \in 1..Len(q) : StreamClosed(q)[i].what = q[i].what
  BY MarkedTasks
<1>2. WriteIndices(StreamClosed(q)) = WriteIndices(q)
  BY <1>1 DEF WriteIndices
<1>3. QED
  BY <1>2 DEF Writes

-----------------------------------------------------------------------------
\* Batches and documents.

(* Documents are stored in the order in which they were added, each before *)
(* those that still wait on the worker queue.                              *)
DocumentsInTurn ==
  /\ document \in Seq(Batches) /\ Len(document) = Len(writer)
  /\ \A i, j \in Stored : i < j => document[i] < document[j]
  /\ Unstored \in Nat /\ Unstored <= added
  /\ \A i \in Stored : document[i] <= added - Unstored

HistoryInv == OrderInv /\ DocumentsInTurn

(* Each batch is for a document of its own.                                *)
LEMMA DocumentsDiffer ==
  ASSUME StreamTypeOK, DocumentsInTurn
  PROVE  /\ \A i \in Stored : document[i] \in Batches
         /\ \A i, j \in Stored : document[i] = document[j] => i = j
<1>1. PICK n \in Nat : n = Len(writer)
  BY LenProperties DEF StreamTypeOK
<1>2. Stored = 1..n
  BY <1>1 DEF Stored
<1>3. \A i \in Stored : document[i] \in Batches
  BY <1>1, <1>2, ElementOfSeq DEF DocumentsInTurn
<1>4. ASSUME NEW i \in Stored, NEW j \in Stored, document[i] = document[j]
      PROVE  i = j
  <2>1. document[i] \in Nat
    BY <1>3, WriteBounds DEF Batches
  <2>2. ~(i < j)
    BY <1>4, <2>1 DEF DocumentsInTurn
  <2>3. ~(j < i)
    BY <1>4, <2>1 DEF DocumentsInTurn
  <2>4. i \in Nat /\ j \in Nat
    BY <1>2
  <2>5. QED
    BY <2>2, <2>3, <2>4
<1>5. QED
  BY <1>3, <1>4

(* The steps that take no write from the worker queue and put none on it.  *)
LEMMA QuietKeepsWrites ==
  ASSUME StreamTypeOK, StreamTypeOK',
         \/ \E u \in Users : SignIn(u) \/ FetchAccessToken(u) \/ FetchFails(u)
         \/ TokenExpires \/ GetToken \/ OnNotification \/ OnToken
         \/ HandleCredentialChange \/ ResumeStartWithCredentials
         \/ OnStreamStart \/ OnWriteStreamHandshakeComplete
         \/ OnWriteStreamMutationResult \/ OnStreamError \/ HandleWriteError
         \/ BackoffElapsed \/ IdleTimeout \/ Commit
  PROVE  Unstored' = Unstored /\ added' = added /\ writer' = writer
<1>1. ASSUME UNCHANGED workerQueue
      PROVE  Unstored' = Unstored
  BY <1>1 DEF Unstored
<1>2. CASE \E u \in Users : SignIn(u) \/ FetchAccessToken(u) \/ FetchFails(u)
  <2>1. UNCHANGED <<workerQueue, added, writer>>
    BY <1>2 DEF SignIn, FetchAccessToken, FetchFails, localVars, boundVars
  <2>2. QED
    BY <1>1, <2>1
<1>3. CASE TokenExpires \/ GetToken
  <2>1. UNCHANGED <<workerQueue, added, writer>>
    BY <1>3 DEF TokenExpires, GetToken, queueVars, localVars, boundVars
  <2>2. QED
    BY <1>1, <2>1
<1>4. CASE \/ OnStreamStart \/ OnWriteStreamHandshakeComplete
           \/ OnWriteStreamMutationResult \/ OnStreamError \/ HandleWriteError
           \/ BackoffElapsed \/ IdleTimeout \/ Commit
  <2>1. UNCHANGED <<workerQueue, added, writer>>
    BY <1>4 DEF OnStreamStart, OnWriteStreamHandshakeComplete,
              OnWriteStreamMutationResult, OnStreamError, HandleWriteError,
              BackoffElapsed, IdleTimeout, Commit, StreamEvent, localVars,
              boundVars
  <2>2. QED
    BY <1>1, <2>1
<1>5. CASE OnNotification
  <2>1. /\ workerQueue' = Append(workerQueue, Credential(currentUser'))
        /\ UNCHANGED <<added, writer>>
    BY <1>5 DEF OnNotification, localVars, boundVars
  <2>2. /\ Credential(currentUser') \in Tasks
        /\ Credential(currentUser').what # "write"
    BY DEF Credential, Tasks, StreamTypeOK
  <2>3. QED
    BY <2>1, <2>2, WritesAppended DEF Unstored, StreamTypeOK
<1>6. CASE OnToken
  <2>1. PICK t : t = Head(mainQueue)
    OBVIOUS
  <2>2. PICK r : r = [what |-> "resume", user |-> t.user, ok |-> t.ok /\ t.same,
                      live |-> t.live]
    OBVIOUS
  <2>3. /\ workerQueue' = Append(workerQueue, r) /\ mainQueue # <<>>
        /\ UNCHANGED <<added, writer>>
    BY <1>6, <2>1, <2>2 DEF OnToken, localVars, boundVars
  <2>4. t \in Callbacks
    BY <2>1, <2>3, Taken DEF StreamTypeOK
  <2>5. r \in Tasks /\ r.what # "write"
    BY <2>2, <2>4 DEF Tasks, Callbacks
  <2>6. QED
    BY <2>3, <2>5, WritesAppended DEF Unstored, StreamTypeOK
<1>7. CASE ResumeStartWithCredentials
  <2>1. /\ workerQueue # <<>> /\ Head(workerQueue).what = "resume"
        /\ workerQueue' = Tail(workerQueue) /\ UNCHANGED <<added, writer>>
    BY <1>7 DEF ResumeStartWithCredentials, Task, localVars, boundVars
  <2>2. QED
    BY <2>1, WritesTaken DEF Unstored, StreamTypeOK
<1>8. CASE HandleCredentialChange
  <2>1. /\ workerQueue # <<>> /\ Head(workerQueue).what = "credential"
        /\ workerQueue' = StreamClosed(Tail(workerQueue))
        /\ UNCHANGED <<added, writer>>
    BY <1>8 DEF HandleCredentialChange, Task, boundVars
  <2>2. Tail(workerQueue) \in Seq(Tasks)
    BY <2>1, Taken DEF StreamTypeOK
  <2>3. Writes(workerQueue') = Writes(Tail(workerQueue))
    BY <2>1, <2>2, WritesMarked
  <2>4. QED
    BY <2>1, <2>3, WritesTaken DEF Unstored, StreamTypeOK
<1>9. QED
  BY <1>2, <1>3, <1>4, <1>5, <1>6, <1>7, <1>8

(* The steps that do not concern the batches.                              *)
LEMMA QuietKeepsBatches ==
  ASSUME \/ \E u \in Users : SignIn(u) \/ FetchAccessToken(u) \/ FetchFails(u)
         \/ TokenExpires \/ GetToken \/ OnNotification \/ OnToken
         \/ ResumeStartWithCredentials
         \/ OnStreamStart \/ OnWriteStreamHandshakeComplete
         \/ OnStreamError \/ BackoffElapsed \/ IdleTimeout \/ Commit
  PROVE  UNCHANGED localVars
BY DEF SignIn, FetchAccessToken, FetchFails, TokenExpires, GetToken,
     OnNotification, OnToken, ResumeStartWithCredentials, OnStreamStart,
     OnWriteStreamHandshakeComplete, OnStreamError, BackoffElapsed,
     IdleTimeout, Commit

(* addDocument puts one write on the queue, WriteMutations takes one, and  *)
(* a restart leaves none.                                                  *)
LEMMA AddDocumentWaits ==
  ASSUME StreamTypeOK, AddDocument
  PROVE  /\ Unstored \in Nat /\ Unstored' = Unstored + 1
         /\ added < MaxWrites /\ added' = added + 1 /\ UNCHANGED localVars
<1>1. /\ workerQueue' = Append(workerQueue, WriteTask)
      /\ added < MaxWrites /\ added' = added + 1 /\ UNCHANGED localVars
  BY DEF AddDocument
<1>2. WriteTask \in Tasks /\ WriteTask.what = "write"
  BY UsersAssumption DEF WriteTask, Tasks
<1>3. workerQueue \in Seq(Tasks) /\ Len(workerQueue) \in Nat
  BY LenProperties DEF StreamTypeOK
<1>4. QED
  BY <1>1, <1>2, <1>3, WritesAppended, WritesCounted DEF Unstored

LEMMA WriteMutationsTakes ==
  ASSUME StreamTypeOK, StreamTypeOK', WriteMutations
  PROVE  /\ Unstored' \in Nat /\ Unstored = Unstored' + 1 /\ added' = added
         /\ sdkUser' = sdkUser /\ acked' = acked
         /\ writer' = Append(writer, sdkUser)
         /\ queues' = [queues EXCEPT ![sdkUser] = @ \cup {Len(writer')}]
<1>1. /\ workerQueue # <<>> /\ Head(workerQueue).what = "write"
      /\ workerQueue' = Tail(workerQueue) /\ added' = added
      /\ sdkUser' = sdkUser /\ acked' = acked
      /\ writer' = Append(writer, sdkUser)
      /\ queues' = [queues EXCEPT ![sdkUser] = @ \cup {Len(writer')}]
  BY DEF WriteMutations, Task, boundVars
<1>2. workerQueue \in Seq(Tasks) /\ Len(workerQueue') \in Nat
  BY LenProperties DEF StreamTypeOK
<1>3. QED
  BY <1>1, <1>2, WritesTaken, WritesCounted DEF Unstored

LEMMA RelaunchLoses ==
  ASSUME StreamTypeOK, Relaunch
  PROVE  Unstored' = 0 /\ added' = added /\ UNCHANGED localVars
<1>1. /\ workerQueue' = <<Credential(authUser)>> /\ added' = added
      /\ UNCHANGED localVars
  BY DEF Relaunch
<1>2. PICK q : q = <<Credential(authUser)>>
  OBVIOUS
<1>3. Len(q) = 1 /\ q[1].what # "write"
  BY <1>2 DEF Credential
<1>4. WriteIndices(q) = {}
  BY <1>3 DEF WriteIndices
<1>5. Writes(q) = 0
  BY <1>4, FS_EmptySet DEF Writes
<1>6. QED
  BY <1>1, <1>2, <1>5 DEF Unstored

-----------------------------------------------------------------------------
\* The invariant.

(* Recording allows only steps of WriteStream.                             *)
LEMMA HistoryIsNext == [HistoryNext]_historyVars => [Next]_vars
BY DEF HistoryNext, RecordStored, RecordHidden, RecordRefused, RecordLost,
     RecordNothing, Next, historyVars

LEMMA DocumentsInit == HistoryInit => DocumentsInTurn
<1> SUFFICES ASSUME HistoryInit PROVE DocumentsInTurn
  OBVIOUS
<1>1. /\ document = <<>> /\ writer = <<>> /\ added = 0
      /\ workerQueue = <<Credential(authUser)>>
  BY DEF HistoryInit, Init
<1>2. Len(workerQueue) = 1 /\ workerQueue[1].what # "write"
  BY <1>1 DEF Credential
<1>3. WriteIndices(workerQueue) = {}
  BY <1>2 DEF WriteIndices
<1>4. Unstored = 0
  BY <1>3, FS_EmptySet DEF Unstored, Writes
<1>5. document \in Seq(Batches) /\ Len(document) = 0 /\ Stored = {}
  BY <1>1 DEF Stored
<1>6. QED
  BY <1>1, <1>4, <1>5 DEF DocumentsInTurn

LEMMA DocumentsStep ==
  ASSUME StreamTypeOK, StreamTypeOK', DocumentsInTurn,
         [HistoryNext]_historyVars
  PROVE  DocumentsInTurn'
<1>1. ASSUME Unstored' = Unstored, UNCHANGED <<added, writer, document>>
      PROVE  DocumentsInTurn'
  BY <1>1 DEF DocumentsInTurn, Stored
<1>2. CASE UNCHANGED historyVars
  <2>1. UNCHANGED <<workerQueue, added, writer, document>>
    BY <1>2 DEF historyVars, history, vars, queueVars, boundVars, localVars
  <2>2. QED
    BY <1>1, <2>1 DEF Unstored
<1>3. CASE RecordStored
  <2>1. /\ WriteMutations /\ document' = Append(document, added - Unstored + 1)
    BY <1>3 DEF RecordStored
  <2>2. PICK k \in Nat : k = Unstored'
    BY <2>1, WriteMutationsTakes
  <2>3. /\ Unstored = k + 1 /\ added' = added
        /\ writer' = Append(writer, sdkUser)
    BY <2>1, <2>2, WriteMutationsTakes
  <2>4. PICK n \in Nat : n = Len(writer)
    BY LenProperties DEF StreamTypeOK
  <2>5. Len(writer') = n + 1
    BY <2>3, <2>4, Appended DEF StreamTypeOK
  <2>6. PICK d : d = added - Unstored + 1
    OBVIOUS
  <2>7. /\ added \in Nat /\ added <= MaxWrites /\ MaxWrites \in Nat
        /\ k + 1 <= added
    BY <2>3, WriteBounds DEF StreamTypeOK, DocumentsInTurn
  <2>8. /\ d = added - k /\ d \in Batches /\ d \in Nat
        /\ d - 1 = added - Unstored
    BY <2>3, <2>6, <2>7 DEF Batches
  <2>9. /\ document' \in Seq(Batches) /\ Len(document') = n + 1
        /\ \A i \in 1..n : document'[i] = document[i]
        /\ document'[n + 1] = d
    <3>1. document \in Seq(Batches) /\ Len(document) = n
      BY <2>4 DEF DocumentsInTurn
    <3>2. QED
      BY <2>1, <2>6, <2>8, <3>1, Appended
  <2>10. \A i \in 1..n : document[i] <= d - 1 /\ document[i] \in Nat
    <3>1. \A i \in 1..n : document[i] <= d - 1
      BY <2>4, <2>8 DEF DocumentsInTurn, Stored
    <3>2. QED
      BY <2>4, <3>1, DocumentsDiffer DEF Batches, Stored
  <2>11. Stored = 1..n /\ Stored' = 1..(n + 1)
    BY <2>4, <2>5 DEF Stored
  <2>12. ASSUME NEW i \in 1..(n + 1), NEW j \in 1..(n + 1), i < j
         PROVE  document'[i] < document'[j]
    <3>1. i \in 1..n
      BY <2>12
    <3>2. CASE j \in 1..n
      BY <2>9, <2>11, <2>12, <3>1, <3>2 DEF DocumentsInTurn
    <3>3. CASE j = n + 1
      BY <2>8, <2>9, <2>10, <3>1, <3>3
    <3>4. QED
      BY <3>2, <3>3
  <2>13. ASSUME NEW i \in 1..(n + 1)
         PROVE  document'[i] <= added - k
    <3>1. CASE i \in 1..n
      BY <2>8, <2>9, <2>10, <3>1
    <3>2. CASE i = n + 1
      BY <2>8, <2>9, <3>2
    <3>3. QED
      BY <3>1, <3>2
  <2>14. k <= added
    BY <2>7
  <2>15. QED
    BY <2>2, <2>3, <2>5, <2>9, <2>11, <2>12, <2>13, <2>14 DEF DocumentsInTurn
<1>4. CASE RecordLost
  <2>1. /\ Unstored' = 0 /\ added' = added /\ writer' = writer
        /\ document' = document
    BY <1>4, RelaunchLoses DEF RecordLost, localVars
  <2>2. ASSUME NEW i \in Stored
        PROVE  document[i] <= added - 0
    <3>1. document[i] \in Batches
      BY DocumentsDiffer
    <3>2. document[i] <= added - Unstored /\ Unstored \in Nat
      BY DEF DocumentsInTurn
    <3>3. document[i] \in Nat
      BY <3>1, WriteBounds DEF Batches
    <3>4. added \in Nat
      BY DEF StreamTypeOK
    <3>5. QED
      BY <3>2, <3>3, <3>4
  <2>3. added \in Nat
    BY DEF StreamTypeOK
  <2>4. QED
    BY <2>1, <2>2, <2>3 DEF DocumentsInTurn, Stored
<1>5. CASE RecordNothing /\ AddDocument
  <2>1. /\ Unstored \in Nat /\ Unstored' = Unstored + 1 /\ added' = added + 1
        /\ writer' = writer /\ document' = document
    BY <1>5, AddDocumentWaits DEF RecordNothing, localVars, history
  <2>2. added \in Nat /\ Unstored <= added
    BY DEF StreamTypeOK, DocumentsInTurn
  <2>3. added' - Unstored' = added - Unstored
    BY <2>1, <2>2
  <2>4. Unstored' \in Nat /\ Unstored' <= added'
    BY <2>1, <2>2
  <2>5. QED
    BY <2>1, <2>3, <2>4 DEF DocumentsInTurn, Stored
<1>6. CASE RecordHidden \/ RecordRefused \/ (RecordNothing /\ ~AddDocument)
  <2>1. Unstored' = Unstored /\ added' = added /\ writer' = writer
    BY <1>6, QuietKeepsWrites DEF RecordHidden, RecordRefused, RecordNothing
  <2>2. document' = document
    BY <1>6 DEF RecordHidden, RecordRefused, RecordNothing, history
  <2>3. QED
    BY <1>1, <2>1, <2>2
<1>7. QED
  BY <1>2, <1>3, <1>4, <1>5, <1>6 DEF HistoryNext

(* A batch is stored for a document of its own, in the order in which the  *)
(* documents were added.                                                   *)
THEOREM HistoryInvariant == HistorySpec => []HistoryInv
<1>1. HistorySpec => Spec
  <2>1. HistoryInit => Init
    BY DEF HistoryInit
  <2>2. QED
    BY <2>1, HistoryIsNext, PTL DEF HistorySpec, Spec
<1>2. HistorySpec => []OrderInv
  BY <1>1, OrderInvariant, PTL
<1>3. OrderInv => StreamTypeOK
  BY DEF OrderInv, StreamInv
<1>4. /\ StreamTypeOK /\ StreamTypeOK' /\ DocumentsInTurn
      /\ [HistoryNext]_historyVars
      => DocumentsInTurn'
  BY DocumentsStep
<1>5. HistorySpec => []DocumentsInTurn
  BY <1>2, <1>3, <1>4, DocumentsInit, PTL DEF HistorySpec
<1>6. HistoryInv <=> OrderInv /\ DocumentsInTurn
  BY DEF HistoryInv
<1>7. QED
  BY <1>2, <1>5, <1>6, PTL

-----------------------------------------------------------------------------
\* The steps of EventStore.

(* What EventStore sees: the documents that wait for the worker, those in  *)
(* the mutation queues, and those the client took for committed.           *)
LEMMA NothingSeen ==
  ASSUME Unstored' = Unstored, UNCHANGED <<added, localVars, history>>
  PROVE  UNCHANGED Store!storeVars
<1>1. StoreRequests' = StoreRequests
  BY DEF StoreRequests
<1>2. UNCHANGED <<sdkUser, queues, acked, document, withdrawn>>
  BY DEF localVars, history
<1>3. /\ DocumentsOf(acked)' = DocumentsOf(acked) /\ Pending' = Pending
      /\ Parked' = Parked
  BY <1>2 DEF DocumentsOf, Pending, Parked
<1>4. QED
  BY <1>1, <1>2, <1>3 DEF Store!storeVars

(* Each step of the write path is, seen from the app, one of the store's.  *)
LEMMA AddDocumentSeen ==
  ASSUME StreamTypeOK, DocumentsInTurn, AddDocument, UNCHANGED history
  PROVE  Store!AddDocument
<1>1. PICK k \in Nat : k = Unstored
  BY DEF DocumentsInTurn
<1>2. /\ Unstored' = k + 1 /\ added < MaxWrites /\ added' = added + 1
      /\ UNCHANGED localVars
  BY <1>1, AddDocumentWaits
<1>3. added \in Nat /\ MaxWrites \in Nat
  BY WriteBounds DEF StreamTypeOK
<1>4. /\ DocumentsOf(acked)' = DocumentsOf(acked) /\ Pending' = Pending
      /\ Parked' = Parked
  BY <1>2 DEF DocumentsOf, Pending, Parked, localVars, history
<1>5. StoreRequests' = Append(StoreRequests, [op |-> "write", doc |-> added + 1])
  <2>1. PICK q : q = [i \in 1..k |-> [op |-> "write", doc |-> added - k + i]]
    OBVIOUS
  <2>2. PICK r : r = [i \in 1..(k + 1) |->
                        [op |-> "write", doc |-> added + 1 - (k + 1) + i]]
    OBVIOUS
  <2>3. StoreRequests = q /\ StoreRequests' = r
    <3>1. StoreRequests = q
      BY <1>1, <2>1 DEF StoreRequests
    <3>2. added' = added + 1 /\ Unstored' = k + 1
      BY <1>2
    <3>3. StoreRequests' = r
      BY <1>3, <2>2, <3>2 DEF StoreRequests
    <3>4. QED
      BY <3>1, <3>3
  <2>4. Len(q) = k /\ \A i \in 1..k : q[i] = [op |-> "write", doc |-> added - k + i]
    BY <2>1
  <2>6. PICK e : e = [op |-> "write", doc |-> added + 1]
    OBVIOUS
  <2>7. PICK S : S = {q[i] : i \in 1..k} \cup {e} \cup {r[i] : i \in 1..(k + 1)}
    OBVIOUS
  <2>8. q \in Seq(S) /\ e \in S /\ r \in Seq(S)
    BY <2>1, <2>2, <2>7
  <2>9. Len(r) = k + 1
    BY <2>2
  <2>10. PICK a : a = Append(q, e)
    OBVIOUS
  <2>11. /\ a \in Seq(S) /\ Len(a) = k + 1
         /\ \A i \in 1..k : a[i] = q[i]
         /\ a[k + 1] = e
    BY <2>4, <2>8, <2>10, Appended
  <2>12. ASSUME NEW i \in 1..(k + 1)
         PROVE  a[i] = r[i]
    <3>1. r[i] = [op |-> "write", doc |-> added - k + i]
      <4>1. added + 1 - (k + 1) + i = added - k + i
        BY <1>3
      <4>2. QED
        BY <2>2, <4>1
    <3>2. CASE i \in 1..k
      BY <2>4, <2>11, <3>1, <3>2
    <3>3. CASE i = k + 1
      <4>1. added - k + i = added + 1
        BY <1>3, <3>3
      <4>2. QED
        BY <2>6, <2>11, <3>1, <3>3, <4>1
    <3>4. QED
      BY <3>2, <3>3
  <2>13. a = r
    BY <2>8, <2>9, <2>11, <2>12, SeqEqual
  <2>14. QED
    BY <2>3, <2>6, <2>10, <2>13
<1>6. added + 1 <= MaxWrites /\ added' + 1 = (added + 1) + 1
  BY <1>2, <1>3
<1>7. withdrawn' = withdrawn
  BY DEF history
<1>8. QED
  BY <1>2, <1>4, <1>5, <1>6, <1>7 DEF Store!AddDocument

LEMMA WriteMutationsSeen ==
  ASSUME StreamTypeOK, StreamTypeOK', DocumentsInTurn, RecordStored
  PROVE  Store!ProcessWrite
<1>1. /\ WriteMutations /\ document' = Append(document, added - Unstored + 1)
      /\ withdrawn' = withdrawn
  BY DEF RecordStored
<1>2. PICK k \in Nat : k = Unstored'
  BY <1>1, WriteMutationsTakes
<1>3. /\ Unstored = k + 1 /\ added' = added /\ sdkUser' = sdkUser
      /\ acked' = acked /\ writer' = Append(writer, sdkUser)
      /\ queues' = [queues EXCEPT ![sdkUser] = @ \cup {Len(writer')}]
  BY <1>1, <1>2, WriteMutationsTakes
<1>4. PICK n \in Nat : n = Len(writer)
  BY LenProperties DEF StreamTypeOK
<1>5. Len(writer') = n + 1
  BY <1>3, <1>4, Appended DEF StreamTypeOK
<1>6. PICK d : d = added - Unstored + 1
  OBVIOUS
<1>7. added \in Nat /\ added <= MaxWrites /\ MaxWrites \in Nat /\ k + 1 <= added
  BY <1>3, WriteBounds DEF StreamTypeOK, DocumentsInTurn
<1>8. d = added - k /\ d \in Batches
  BY <1>3, <1>6, <1>7 DEF Batches
<1>9. /\ \A i \in 1..n : document'[i] = document[i]
      /\ document'[n + 1] = d
  <2>1. document \in Seq(Batches) /\ Len(document) = n
    BY <1>4 DEF DocumentsInTurn
  <2>2. QED
    BY <1>1, <1>6, <1>8, <2>1, Appended
<1>10. ASSUME NEW Q \in SUBSET (1..n)
       PROVE  {document'[b] : b \in Q} = DocumentsOf(Q)
  BY <1>9 DEF DocumentsOf
<1>11. Stored = 1..n
  BY <1>4 DEF Stored
<1>12. DocumentsOf(acked)' = DocumentsOf(acked)
  BY <1>3, <1>10, <1>11 DEF DocumentsOf, StreamTypeOK
<1>13. \A u \in Users : queues[u] \in SUBSET (1..n)
  BY <1>11 DEF StreamTypeOK
<1>14. sdkUser \in Users /\ queues'[sdkUser] = queues[sdkUser] \cup {n + 1}
       /\ \A u \in Users \ {sdkUser} : queues'[u] = queues[u]
  BY <1>3, <1>5 DEF StreamTypeOK
<1>15. Pending' = Pending \cup {d}
  <2>1. Pending' = {document'[b] : b \in queues[sdkUser] \cup {n + 1}}
    BY <1>3, <1>14 DEF Pending, DocumentsOf
  <2>2. Pending' = {document'[b] : b \in queues[sdkUser]} \cup {document'[n + 1]}
    BY <2>1
  <2>3. QED
    BY <1>9, <1>10, <1>13, <1>14, <2>2 DEF Pending
<1>16. Parked' = Parked
  <2>1. PICK Q : Q = UNION {queues[u] : u \in Users \ {sdkUser}}
    OBVIOUS
  <2>2. Q = UNION {queues'[u] : u \in Users \ {sdkUser}}
    BY <1>14, <2>1
  <2>3. Q \in SUBSET (1..n)
    BY <1>13, <2>1
  <2>4. Parked' = {document'[b] : b \in Q}
    BY <1>3, <2>2 DEF Parked, DocumentsOf
  <2>5. QED
    BY <1>10, <2>1, <2>3, <2>4 DEF Parked
<1>17. /\ StoreRequests # <<>> /\ StoreRequests' = Tail(StoreRequests)
       /\ Head(StoreRequests) = [op |-> "write", doc |-> d]
  <2>1. PICK q : q = [i \in 1..(k + 1) |->
                        [op |-> "write", doc |-> added - (k + 1) + i]]
    OBVIOUS
  <2>2. PICK r : r = [i \in 1..k |-> [op |-> "write", doc |-> added - k + i]]
    OBVIOUS
  <2>3. StoreRequests = q /\ StoreRequests' = r
    BY <1>2, <1>3, <2>1, <2>2 DEF StoreRequests
  <2>4. PICK S : S = {q[i] : i \in 1..(k + 1)} \cup {r[i] : i \in 1..k}
    OBVIOUS
  <2>5. q \in Seq(S) /\ r \in Seq(S) /\ Len(q) = k + 1 /\ Len(r) = k
    BY <2>1, <2>2, <2>4
  <2>6. q # <<>>
    BY <2>5
  <2>7. PICK t : t = Tail(q)
    OBVIOUS
  <2>8. /\ t \in Seq(S) /\ Len(t) = k /\ Head(q) = q[1]
        /\ \A i \in 1..k : t[i] = q[i + 1]
    <3>1. /\ t \in Seq(S) /\ Len(t) = Len(q) - 1 /\ Head(q) = q[1]
          /\ \A i \in 1..Len(t) : t[i] = q[i + 1]
      BY <2>5, <2>6, <2>7, Taken
    <3>2. Len(t) = k
      BY <2>5, <3>1
    <3>3. QED
      BY <3>1, <3>2
  <2>9. ASSUME NEW i \in 1..k
        PROVE  t[i] = r[i]
    <3>1. added - (k + 1) + (i + 1) = added - k + i /\ i + 1 \in 1..(k + 1)
      BY <1>7
    <3>2. q[i + 1] = [op |-> "write", doc |-> added - (k + 1) + (i + 1)]
      BY <2>1, <3>1
    <3>3. QED
      BY <2>2, <2>8, <3>1, <3>2
  <2>10. t = r
    BY <2>5, <2>8, <2>9, SeqEqual
  <2>11. added - (k + 1) + 1 = d /\ 1 \in 1..(k + 1)
    BY <1>7, <1>8
  <2>12. q[1] = [op |-> "write", doc |-> d]
    BY <2>1, <2>11
  <2>13. QED
    BY <2>3, <2>6, <2>7, <2>8, <2>10, <2>12
<1>18. PICK e : e = Head(StoreRequests)
  OBVIOUS
<1>19. e.op = "write" /\ e.doc = d
  BY <1>17, <1>18
<1>20. added' + 1 = added + 1
  BY <1>3
<1>21. QED
  BY <1>1, <1>12, <1>15, <1>16, <1>17, <1>18, <1>19, <1>20
     DEF Store!ProcessWrite

(* No batch is in the queues of two users.                                 *)
LEMMA QueuesApart ==
  ASSUME StreamTypeOK, QueuesAreOwn, DocumentsInTurn, NEW u \in Users
  PROVE  /\ DocumentsOf(queues[u]) \subseteq DocumentsOf(UNION {queues[v] : v \in Users})
         /\ DocumentsOf(UNION {queues[v] : v \in Users \ {u}})
              = DocumentsOf(UNION {queues[v] : v \in Users})
                  \ DocumentsOf(queues[u])
<1>1. \A v \in Users : queues[v] \in SUBSET Stored
  BY DEF StreamTypeOK
<1>2. ASSUME NEW d \in DocumentsOf(UNION {queues[v] : v \in Users \ {u}})
      PROVE  d \notin DocumentsOf(queues[u])
  <2>1. PICK v \in Users \ {u} : \E b \in queues[v] : d = document[b]
    BY <1>2 DEF DocumentsOf
  <2>2. PICK b \in queues[v] : d = document[b]
    BY <2>1
  <2>3. ASSUME NEW c \in queues[u], d = document[c]
        PROVE  FALSE
    <3>1. b \in Stored /\ c \in Stored
      BY <1>1, <2>1
    <3>2. b = c
      BY <2>2, <2>3, <3>1, DocumentsDiffer
    <3>3. writer[b] = v /\ writer[c] = u
      BY <2>1 DEF QueuesAreOwn
    <3>4. QED
      BY <2>1, <3>2, <3>3
  <2>4. QED
    BY <2>3 DEF DocumentsOf
<1>3. ASSUME NEW d \in DocumentsOf(UNION {queues[v] : v \in Users}),
             d \notin DocumentsOf(queues[u])
      PROVE  d \in DocumentsOf(UNION {queues[v] : v \in Users \ {u}})
  BY <1>3 DEF DocumentsOf
<1>4. DocumentsOf(UNION {queues[v] : v \in Users \ {u}})
        \subseteq DocumentsOf(UNION {queues[v] : v \in Users})
  BY DEF DocumentsOf
<1>5. DocumentsOf(queues[u]) \subseteq DocumentsOf(UNION {queues[v] : v \in Users})
  BY DEF DocumentsOf
<1>6. QED
  BY <1>2, <1>3, <1>4, <1>5

LEMMA CredentialChangeSeen ==
  ASSUME StreamTypeOK, StreamTypeOK', QueuesAreOwn, DocumentsInTurn, RecordHidden
  PROVE  Store!SwitchUser
<1>1. /\ HandleCredentialChange /\ document' = document
      /\ withdrawn' = withdrawn \cup (Pending \ DocumentsOf(queues[sdkUser']))
  BY DEF RecordHidden
<1>2. Unstored' = Unstored /\ added' = added
  BY <1>1, QuietKeepsWrites
<1>3. UNCHANGED <<queues, acked>>
  BY <1>1 DEF HandleCredentialChange
<1>4. sdkUser \in Users /\ sdkUser' \in Users
  BY DEF StreamTypeOK
<1>5. PICK u \in Users : u = sdkUser'
  BY <1>4
<1>6. PICK all : all = DocumentsOf(UNION {queues[v] : v \in Users})
  OBVIOUS
<1>7. Pending \subseteq all /\ Parked = all \ Pending
  BY <1>4, <1>6, QueuesApart DEF Pending, Parked
<1>8. PICK P : P = DocumentsOf(queues[u])
  OBVIOUS
<1>9. /\ P \subseteq all
      /\ DocumentsOf(UNION {queues[v] : v \in Users \ {u}}) = all \ P
  BY <1>6, <1>8, QueuesApart
<1>10. Pending' = P
  BY <1>1, <1>3, <1>5, <1>8 DEF Pending, DocumentsOf
<1>11. Parked' = all \ P
  <2>1. Parked' = DocumentsOf(UNION {queues[v] : v \in Users \ {u}})
    BY <1>1, <1>3, <1>5 DEF Parked, DocumentsOf
  <2>2. QED
    BY <1>9, <2>1
<1>12. withdrawn' = withdrawn \cup (Pending \ P)
  BY <1>1, <1>5, <1>8
<1>13. StoreRequests' = StoreRequests /\ added' + 1 = added + 1
  BY <1>2 DEF StoreRequests
<1>14. DocumentsOf(acked)' = DocumentsOf(acked)
  BY <1>1, <1>3 DEF DocumentsOf
<1>15. all = Pending \cup Parked /\ P \in SUBSET (Pending \cup Parked)
  BY <1>7, <1>9
<1>16. Parked' = (Pending \cup Parked) \ P
  BY <1>11, <1>15
<1>17. QED
  BY <1>10, <1>12, <1>13, <1>14, <1>15, <1>16 DEF Store!SwitchUser

(* The batch that is answered or refused is one of the current user's.     *)
LEMMA FrontIsPending ==
  ASSUME StreamTypeOK, WireFits, PipeInv, sent # <<>> \/ answers # <<>>
  PROVE  Head(pipeline) \in queues[sdkUser]
<1>1. pipeline # <<>>
  BY WireHasPipeline
<1>2. Len(pipeline) \in Nat \ {0} /\ Head(pipeline) = pipeline[1]
  BY <1>1, Taken DEF StreamTypeOK
<1>3. 1 \in 1..Len(pipeline)
  BY <1>2
<1>4. QED
  BY <1>2, <1>3 DEF PipeInv, Front

(* When it leaves the queue, its document leaves what is pending.          *)
LEMMA BatchLeaves ==
  ASSUME StreamTypeOK, DocumentsInTurn, UNCHANGED <<sdkUser, document>>,
         NEW b \in queues[sdkUser],
         queues' = [queues EXCEPT ![sdkUser] = @ \ {b}]
  PROVE  /\ document[b] \in Batches /\ document[b] \in Pending
         /\ Pending' = Pending \ {document[b]} /\ Parked' = Parked
<1>1. sdkUser \in Users /\ queues[sdkUser] \in SUBSET Stored
  BY DEF StreamTypeOK
<1>2. document[b] \in Batches
  BY <1>1, DocumentsDiffer
<1>3. document[b] \in Pending
  BY DEF Pending, DocumentsOf
<1>4. /\ queues'[sdkUser] = queues[sdkUser] \ {b}
      /\ \A u \in Users \ {sdkUser} : queues'[u] = queues[u]
  BY <1>1 DEF StreamTypeOK
<1>5. \A c \in queues[sdkUser] : document[c] = document[b] => c = b
  BY <1>1, DocumentsDiffer
<1>6. Pending' = Pending \ {document[b]}
  <2>1. Pending' = {document[c] : c \in queues[sdkUser] \ {b}}
    BY <1>4 DEF Pending, DocumentsOf
  <2>2. QED
    BY <1>5, <2>1 DEF Pending, DocumentsOf
<1>7. Parked' = Parked
  <2>1. {queues'[u] : u \in Users \ {sdkUser}} = {queues[u] : u \in Users \ {sdkUser}}
    BY <1>4
  <2>2. QED
    BY <2>1 DEF Parked, DocumentsOf
<1>8. QED
  BY <1>2, <1>3, <1>6, <1>7

LEMMA MutationResultSeen ==
  ASSUME StreamTypeOK, StreamTypeOK', WireFits, PipeInv, DocumentsInTurn,
         OnWriteStreamMutationResult, UNCHANGED history
  PROVE  \E d \in Batches : Store!Acknowledge(d)
<1>1. PICK b : b = Head(pipeline)
  OBVIOUS
<1>2. /\ answers # <<>> /\ sdkUser' = sdkUser /\ acked' = acked \cup {b}
      /\ queues' = [queues EXCEPT ![sdkUser] = @ \ {b}]
  BY <1>1 DEF OnWriteStreamMutationResult
<1>3. b \in queues[sdkUser]
  BY <1>1, <1>2, FrontIsPending
<1>4. UNCHANGED <<document, withdrawn>>
  BY DEF history
<1>5. /\ document[b] \in Batches /\ document[b] \in Pending
      /\ Pending' = Pending \ {document[b]} /\ Parked' = Parked
  BY <1>2, <1>3, <1>4, BatchLeaves
<1>6. DocumentsOf(acked)' = DocumentsOf(acked) \cup {document[b]}
  BY <1>2, <1>4 DEF DocumentsOf
<1>7. Unstored' = Unstored /\ added' = added
  BY QuietKeepsWrites
<1>8. StoreRequests' = StoreRequests /\ added' + 1 = added + 1
  BY <1>7 DEF StoreRequests
<1>9. Store!Acknowledge(document[b])
  BY <1>4, <1>5, <1>6, <1>8 DEF Store!Acknowledge
<1>10. QED
  BY <1>5, <1>9

LEMMA WriteErrorSeen ==
  ASSUME StreamTypeOK, StreamTypeOK', WireFits, PipeInv, DocumentsInTurn,
         RecordRefused
  PROVE  \E d \in Batches : Store!Reject(d)
<1>1. /\ HandleWriteError /\ document' = document
      /\ withdrawn' = withdrawn \cup {document[Head(sent)]}
  BY DEF RecordRefused
<1>2. PICK b : b = Head(pipeline)
  OBVIOUS
<1>3. /\ sent # <<>> /\ answers = <<>> /\ UNCHANGED <<sdkUser, acked>>
      /\ queues' = [queues EXCEPT ![sdkUser] = @ \ {b}]
  BY <1>1, <1>2 DEF HandleWriteError
<1>4. b \in queues[sdkUser] /\ Head(sent) = b
  BY <1>2, <1>3, FrontIsPending, WireStartsAtFront
<1>5. /\ document[b] \in Batches /\ document[b] \in Pending
      /\ Pending' = Pending \ {document[b]} /\ Parked' = Parked
  BY <1>1, <1>3, <1>4, BatchLeaves
<1>6. DocumentsOf(acked)' = DocumentsOf(acked)
  BY <1>1, <1>3 DEF DocumentsOf
<1>7. Unstored' = Unstored /\ added' = added
  BY <1>1, QuietKeepsWrites
<1>8. StoreRequests' = StoreRequests /\ added' + 1 = added + 1
  BY <1>7 DEF StoreRequests
<1>9. withdrawn' = withdrawn \cup {document[b]}
  BY <1>1, <1>4
<1>10. Store!Reject(document[b])
  BY <1>5, <1>6, <1>8, <1>9 DEF Store!Reject
<1>11. QED
  BY <1>5, <1>10

LEMMA RelaunchSeen ==
  ASSUME StreamTypeOK, DocumentsInTurn, RecordLost
  PROVE  Store!Relaunch
<1>1. /\ Relaunch /\ document' = document
      /\ withdrawn' = withdrawn \cup ((added - Unstored + 1)..added)
  BY DEF RecordLost
<1>2. Unstored' = 0 /\ added' = added /\ UNCHANGED localVars
  BY <1>1, RelaunchLoses
<1>3. PICK k \in Nat : k = Unstored
  BY DEF DocumentsInTurn
<1>4. added \in Nat /\ k <= added
  BY <1>3 DEF StreamTypeOK, DocumentsInTurn
<1>5. /\ DocumentsOf(acked)' = DocumentsOf(acked) /\ Pending' = Pending
      /\ Parked' = Parked
  BY <1>1, <1>2 DEF DocumentsOf, Pending, Parked, localVars
<1>6. StoreRequests' = <<>>
  <2>1. StoreRequests' = [i \in 1..0 |-> [op |-> "write", doc |-> added - 0 + i]]
    BY <1>2 DEF StoreRequests
  <2>2. PICK q : q = StoreRequests'
    OBVIOUS
  <2>3. Len(q) = 0 /\ q \in Seq(Nat)
    BY <2>1, <2>2
  <2>4. QED
    BY <2>2, <2>3, EmptySeq
<1>7. Store!QueuedWrites = (added - k + 1)..added
  <2>1. PICK q : q = [i \in 1..k |-> [op |-> "write", doc |-> added - k + i]]
    OBVIOUS
  <2>2. StoreRequests = q
    BY <1>3, <2>1 DEF StoreRequests
  <2>3. Len(q) = k /\ \A i \in 1..k : q[i].op = "write" /\ q[i].doc = added - k + i
    BY <2>1
  <2>4. Store!QueuedWrites = {q[i].doc : i \in {j \in 1..Len(q) : q[j].op = "write"}}
    BY <2>2 DEF Store!QueuedWrites
  <2>5. Store!QueuedWrites = {added - k + i : i \in 1..k}
    BY <2>3, <2>4
  <2>6. ASSUME NEW d \in (added - k + 1)..added
        PROVE  d \in {added - k + i : i \in 1..k}
    <3>1. d - (added - k) \in 1..k /\ added - k + (d - (added - k)) = d
      BY <1>4
    <3>2. QED
      BY <3>1
  <2>7. \A i \in 1..k : added - k + i \in (added - k + 1)..added
    BY <1>4
  <2>8. QED
    BY <2>5, <2>6, <2>7
<1>8. withdrawn' = withdrawn \cup Store!QueuedWrites /\ added' + 1 = added + 1
  BY <1>1, <1>2, <1>3, <1>7
<1>9. QED
  BY <1>5, <1>6, <1>8 DEF Store!Relaunch

(* The write path implements EventStore: a document that was added waits   *)
(* for the worker in its turn, is then in the mutation queue of one user,  *)
(* and leaves it for the cache or by a refusal; only a change of user      *)
(* hides it, and only the end of the process loses it.                     *)
THEOREM WritePathImplementsEventStore == HistorySpec => WritesImplementEventStore
<1>1. HistoryInit => Store!StoreInit
  <2> SUFFICES ASSUME HistoryInit PROVE Store!StoreInit
    OBVIOUS
  <2>1. /\ sdkUser \in Users /\ queues = [u \in Users |-> {}] /\ acked = {}
        /\ withdrawn = {} /\ added = 0
    BY DEF HistoryInit, Init
  <2>2. DocumentsOf(acked) = {} /\ Pending = {}
    BY <2>1 DEF DocumentsOf, Pending
  <2>3. UNION {queues[u] : u \in Users \ {sdkUser}} = {}
    BY <2>1
  <2>4. Parked = {}
    BY <2>3 DEF DocumentsOf, Parked
  <2>5. StoreRequests = <<>>
    <3>1. workerQueue = <<Credential(authUser)>>
      BY DEF HistoryInit, Init
    <3>2. Len(workerQueue) = 1 /\ workerQueue[1].what # "write"
      BY <3>1 DEF Credential
    <3>3. WriteIndices(workerQueue) = {}
      BY <3>2 DEF WriteIndices
    <3>4. Unstored = 0
      BY <3>3, FS_EmptySet DEF Unstored, Writes
    <3>5. PICK q : q = StoreRequests
      OBVIOUS
    <3>6. q = [i \in 1..0 |-> [op |-> "write", doc |-> added - 0 + i]]
      BY <3>4, <3>5 DEF StoreRequests
    <3>7. q \in Seq(Nat) /\ Len(q) = 0
      BY <3>6
    <3>8. QED
      BY <3>5, <3>7, EmptySeq
  <2>6. QED
    BY <2>1, <2>2, <2>4, <2>5 DEF Store!StoreInit
<1>2. ASSUME HistoryInv, StreamTypeOK', [HistoryNext]_historyVars
      PROVE  [Store!StoreNext]_Store!storeVars
  <2>1. /\ StreamTypeOK /\ WireFits /\ QueuesAreOwn /\ PipeInv /\ DocumentsInTurn
    BY <1>2 DEF HistoryInv, OrderInv, StreamInv
  <2>2. CASE UNCHANGED historyVars
    <3>1. UNCHANGED <<workerQueue, added, localVars, history>>
      BY <2>2 DEF historyVars, vars, queueVars, boundVars
    <3>2. Unstored' = Unstored
      BY <3>1 DEF Unstored
    <3>3. QED
      BY <3>1, <3>2, NothingSeen
  <2>3. CASE RecordStored
    <3>1. Store!ProcessWrite
      BY <1>2, <2>1, <2>3, WriteMutationsSeen
    <3>2. QED
      BY <3>1 DEF Store!StoreNext, Store!StoreStep
  <2>4. CASE RecordHidden
    <3>1. Store!SwitchUser
      BY <1>2, <2>1, <2>4, CredentialChangeSeen
    <3>2. QED
      BY <3>1 DEF Store!StoreNext, Store!StoreStep
  <2>5. CASE RecordRefused
    <3>1. \E d \in Batches : Store!Reject(d)
      BY <1>2, <2>1, <2>5, WriteErrorSeen
    <3>2. QED
      BY <3>1 DEF Store!StoreNext, Store!StoreStep, Store!MyDocs, Batches
  <2>6. CASE RecordLost
    <3>1. Store!Relaunch
      BY <2>1, <2>6, RelaunchSeen
    <3>2. QED
      BY <3>1 DEF Store!StoreNext
  <2>7. CASE RecordNothing
    <3>1. UNCHANGED history
      BY <2>7 DEF RecordNothing
    <3>2. CASE AddDocument
      <4>1. Store!AddDocument
        BY <2>1, <3>1, <3>2, AddDocumentSeen
      <4>2. QED
        BY <4>1 DEF Store!StoreNext
    <3>3. CASE OnWriteStreamMutationResult
      <4>1. \E d \in Batches : Store!Acknowledge(d)
        BY <1>2, <2>1, <3>1, <3>3, MutationResultSeen
      <4>2. QED
        BY <4>1 DEF Store!StoreNext, Store!StoreStep, Store!MyDocs, Batches
    <3>4. CASE ~AddDocument /\ ~OnWriteStreamMutationResult
      <4>1. Unstored' = Unstored /\ added' = added
        BY <1>2, <2>1, <2>7, <3>4, QuietKeepsWrites DEF RecordNothing
      <4>2. UNCHANGED localVars
        BY <2>7, <3>4, QuietKeepsBatches DEF RecordNothing
      <4>3. QED
        BY <3>1, <4>1, <4>2, NothingSeen
    <3>5. QED
      BY <3>2, <3>3, <3>4
  <2>8. QED
    BY <1>2, <2>2, <2>3, <2>4, <2>5, <2>6, <2>7 DEF HistoryNext
<1>3. HistoryInv => StreamTypeOK
  BY DEF HistoryInv, OrderInv, StreamInv
<1>4. QED
  BY <1>1, <1>2, <1>3, HistoryInvariant, PTL
     DEF HistorySpec, WritesImplementEventStore, Store!StoreSpec
=============================================================================
