-------------------------- MODULE EventStoreProofs --------------------------
(***************************************************************************)
(* Theorems about EventStore, for every number of reads, writes and        *)
(* documents: type correctness, reads are answered in order and at most    *)
(* once, a read returns the writes that preceded it, and results grow.     *)
(***************************************************************************)
EXTENDS EventStore, SequenceTheorems, TLAPS

(* A step that answers `reads` with `docs` (or with an error): the main    *)
(* queue gets one answer for each, in their order, behind what it holds.   *)
Raised(reads, docs) ==
  /\ answers' \in Seq(Answer)
  /\ Len(answers') = Len(answers) + Len(reads)
  /\ \A k \in 1..Len(answers') :
       \/ k \in 1..Len(answers) /\ answers'[k] = answers[k]
       \/ /\ k - Len(answers) \in 1..Len(reads)
          /\ answers'[k].read = reads[k - Len(answers)]
          /\ answers'[k].ok => answers'[k].docs = docs

(* What Raise and RaiseError append to the main queue.                     *)
LEMMA RaiseProperties ==
  ASSUME NEW reads \in Seq(Read), NEW docs \in SUBSET Docs,
         NEW new \in {Raise(reads, docs), RaiseError(reads)}
  PROVE  /\ new \in Seq(Answer)
         /\ Len(new) = Len(reads)
         /\ \A i \in 1..Len(reads) :
              new[i].read = reads[i] /\ (new[i].ok => new[i].docs = docs)
<1>1. Len(reads) \in Nat /\ \A i \in 1..Len(reads) : reads[i] \in Read
  BY ElementOfSeq, LenProperties
<1>2. new \in [1..Len(reads) -> Answer]
  <2>1. Raise(reads, docs) \in [1..Len(reads) -> Answer]
    BY <1>1 DEF Raise, Answer
  <2>2. RaiseError(reads) \in [1..Len(reads) -> Answer]
    BY <1>1 DEF RaiseError, Answer
  <2>3. QED
    BY <2>1, <2>2
<1>3. new \in Seq(Answer) /\ Len(new) = Len(reads)
  <2>1. new \in Seq(Answer)
    BY <1>1, <1>2, SeqDef
  <2>2. QED
    BY <1>1, <1>2, <2>1, LenProperties
<1>4. \A i \in 1..Len(reads) :
        new[i].read = reads[i] /\ (new[i].ok => new[i].docs = docs)
  BY <1>1 DEF Raise, RaiseError
<1>5. QED
  BY <1>3, <1>4

LEMMA RaiseStep ==
  ASSUME answers \in Seq(Answer),
         NEW reads \in Seq(Read), NEW docs \in SUBSET Docs,
         \/ answers' = answers \o Raise(reads, docs)
         \/ answers' = answers \o RaiseError(reads)
  PROVE  Raised(reads, docs)
<1>1. PICK new \in {Raise(reads, docs), RaiseError(reads)} :
        answers' = answers \o new
  OBVIOUS
<1>2. /\ new \in Seq(Answer) /\ Len(new) = Len(reads)
      /\ \A i \in 1..Len(reads) :
            new[i].read = reads[i] /\ (new[i].ok => new[i].docs = docs)
  BY RaiseProperties
<1>3. /\ answers' \in Seq(Answer)
      /\ Len(answers') = Len(answers) + Len(new)
      /\ \A k \in 1..Len(answers) + Len(new) :
           answers'[k] = IF k <= Len(answers) THEN answers[k]
                                              ELSE new[k - Len(answers)]
  <2>1. /\ answers \o new \in Seq(Answer)
        /\ Len(answers \o new) = Len(answers) + Len(new)
        /\ \A k \in 1..Len(answers) + Len(new) :
             (answers \o new)[k] = IF k <= Len(answers)
                                   THEN answers[k] ELSE new[k - Len(answers)]
    <3>1. answers \in Seq(Answer) /\ new \in Seq(Answer)
      BY <1>2
    <3>2. QED
      BY <3>1, ConcatProperties
  <2>2. QED
    BY <1>1, <2>1
<1>4. Len(answers) \in Nat /\ Len(reads) \in Nat
  BY LenProperties
<1>5. ASSUME NEW k \in 1..Len(answers')
      PROVE  \/ k \in 1..Len(answers) /\ answers'[k] = answers[k]
             \/ /\ k - Len(answers) \in 1..Len(reads)
                /\ answers'[k].read = reads[k - Len(answers)]
                /\ answers'[k].ok => answers'[k].docs = docs
  <2>1. CASE k <= Len(answers)
    BY <1>2, <1>3, <1>4, <2>1
  <2>2. CASE ~(k <= Len(answers))
    <3>1. /\ k - Len(answers) \in 1..Len(reads)
          /\ answers'[k] = new[k - Len(answers)]
      BY <1>2, <1>3, <1>4, <2>2
    <3>2. QED
      BY <1>2, <3>1
  <2>3. QED
    BY <2>1, <2>2
<1>6. QED
  BY <1>2, <1>3, <1>5 DEF Raised

(* Type correctness: the queues hold reads and writes within the bounds.   *)
LEMMA StoreTypeInit == StoreInit => StoreTypeOK
BY BoundsAssumption DEF StoreInit, StoreTypeOK, Docs

LEMMA StoreTypeStep == StoreTypeOK /\ [StoreNext]_storeVars => StoreTypeOK'
<1> SUFFICES ASSUME StoreTypeOK, [StoreNext]_storeVars
             PROVE  StoreTypeOK'
  OBVIOUS
<1> USE BoundsAssumption DEF StoreTypeOK
<1>1. ASSUME NEW c \in Completions, GetDocuments(c)
      PROVE  StoreTypeOK'
  <2>1. [op |-> "read", id |-> nextRead, seen |-> nextWrite - 1,
         completion |-> c] \in Read
    BY <1>1 DEF GetDocuments, Read
  <2>2. requests' \in Seq(Read \cup Write)
    BY <1>1, <2>1, AppendProperties DEF GetDocuments
  <2>3. QED
    BY <1>1, <2>2 DEF GetDocuments
<1>2. CASE AddDocument
  <2>1. [op |-> "write", doc |-> nextWrite] \in Write
    BY <1>2 DEF AddDocument, Write, MyDocs
  <2>2. requests' \in Seq(Read \cup Write)
    BY <1>2, <2>1, AppendProperties DEF AddDocument
  <2>3. QED
    BY <1>2, <2>2 DEF AddDocument
<1>3. CASE ProcessRead
  <2>1. Head(requests) \in Read /\ Tail(requests) \in Seq(Read \cup Write)
    BY <1>3, HeadTailProperties DEF ProcessRead, Read, Write
  <2>2. Append(waiting, Head(requests)) \in Seq(Read)
    BY <2>1, AppendProperties
  <2>3. answers' \in Seq(Answer) /\ waiting' \in Seq(Read)
    <3>1. LocalView \in SUBSET Docs
      BY DEF LocalView, Docs
    <3>2. CASE UNCHANGED answers
      BY <1>3, <2>2, <3>2, EmptySeq DEF ProcessRead
    <3>3. CASE answers' = answers \o Raise(Append(waiting, Head(requests)),
                                           LocalView)
      BY <1>3, <2>2, <3>1, <3>3, RaiseStep, EmptySeq DEF ProcessRead, Raised
    <3>4. QED
      BY <1>3, <3>2, <3>3 DEF ProcessRead
  <2>4. QED
    BY <1>3, <2>1, <2>3 DEF ProcessRead
<1>4. CASE ProcessWrite
  <2>1. Head(requests) \in Write /\ Tail(requests) \in Seq(Read \cup Write)
    BY <1>4, HeadTailProperties DEF ProcessWrite, Read, Write
  <2>2. QED
    BY <1>4, <2>1 DEF ProcessWrite, Write
<1>5. CASE Learn
  <2>1. PICK D \in SUBSET (OtherDocs \cup pending \cup parked \cup withdrawn) :
          /\ known' = known \cup D
          /\ \/ UNCHANGED <<waiting, answers>>
             \/ /\ waiting' = <<>>
                /\ answers' = answers \o Raise(waiting, known' \cup pending)
    BY <1>5 DEF Learn
  <2>2. known' \in SUBSET Docs /\ known' \cup pending \in SUBSET Docs
    BY <2>1 DEF Docs
  <2>3. answers' \in Seq(Answer) /\ waiting' \in Seq(Read)
    BY <2>1, <2>2, RaiseStep, EmptySeq DEF Raised
  <2>4. QED
    BY <1>5, <2>2, <2>3 DEF Learn
<1>6. CASE AnswerFromCache
  <2>1. LocalView \in SUBSET Docs
    BY DEF LocalView, Docs
  <2>2. answers' \in Seq(Answer)
    BY <1>6, <2>1, RaiseStep DEF AnswerFromCache, Raised
  <2>3. QED
    BY <1>6, <2>2, EmptySeq DEF AnswerFromCache
<1>7. CASE FailReads
  <2>1. answers' \in Seq(Answer)
    BY <1>7, RaiseStep DEF FailReads, Raised
  <2>2. QED
    BY <1>7, <2>1, EmptySeq DEF FailReads
<1>8. ASSUME NEW d \in MyDocs, Acknowledge(d) \/ Reject(d)
      PROVE  StoreTypeOK'
  BY <1>8 DEF Acknowledge, Reject, Docs
<1>9. CASE SwitchUser
  BY <1>9 DEF SwitchUser, Docs
<1>10. CASE Deliver
  BY <1>10, HeadTailProperties DEF Deliver
<1>11. CASE Relaunch
  <2>1. QueuedWrites \in SUBSET MyDocs
    <3>1. \A i \in 1..Len(requests) : requests[i] \in Read \cup Write
      BY ElementOfSeq
    <3>2. QED
      BY <3>1 DEF QueuedWrites, Read, Write
  <2>2. QED
    BY <1>11, <2>1, EmptySeq DEF Relaunch, Docs
<1>12. CASE UNCHANGED storeVars
  BY <1>12 DEF storeVars
<1>13. ASSUME NEW d \in Docs, Forget(d)
       PROVE  StoreTypeOK'
  <2>1. known' \cup pending \in SUBSET Docs
    BY <1>13 DEF Forget, Docs
  <2>2. answers' \in Seq(Answer) /\ waiting' \in Seq(Read)
    BY <1>13, <2>1, RaiseStep, EmptySeq DEF Forget, Raised
  <2>3. QED
    BY <1>13, <2>2 DEF Forget
<1>14. QED
  BY <1>1, <1>2, <1>3, <1>4, <1>5, <1>6, <1>7, <1>8, <1>9, <1>10, <1>11,
     <1>12, <1>13 DEF StoreNext, StoreStep

(* The store's variables keep their types, for all bounds and documents.   *)
THEOREM StoreTypeCorrect == StoreSpec => []StoreTypeOK
BY StoreTypeInit, StoreTypeStep, PTL DEF StoreSpec

-----------------------------------------------------------------------------
(* The inductive invariant of ReadsInOrder: ids are taken from a counter,  *)
(* so every id in flight lies below the next one.                          *)
IdsIssued ==
  /\ \A i \in 1..Len(answers) : answers[i].read.id < nextRead
  /\ \A i \in 1..Len(waiting) : waiting[i].id < nextRead
  /\ \A i \in 1..Len(requests) :
       requests[i].op = "read" => requests[i].id < nextRead

OrderInv == StoreTypeOK /\ ReadsInOrder /\ IdsIssued

(* Reads in the order of their ids, all later than what was answered.      *)
Follow(reads) ==
  /\ \A i, j \in 1..Len(reads) : i < j => reads[i].id < reads[j].id
  /\ \A i \in 1..Len(answers), j \in 1..Len(reads) :
       answers[i].read.id < reads[j].id
  /\ \A j \in 1..Len(reads) : reads[j].id < nextRead

(* Queued reads are in order and come after the reads already taken.       *)
QueueFollows(queue, reads) ==
  /\ \A i, j \in 1..Len(queue) :
       i < j /\ queue[i].op = "read" /\ queue[j].op = "read" =>
         queue[i].id < queue[j].id
  /\ \A j \in 1..Len(queue) : queue[j].op = "read" =>
       /\ queue[j].id < nextRead
       /\ \A i \in 1..Len(answers) : answers[i].read.id < queue[j].id
       /\ \A i \in 1..Len(reads) : reads[i].id < queue[j].id

(* Ids are numbers.                                                        *)
LEMMA IdsAreNumbers ==
  ASSUME StoreTypeOK
  PROVE  /\ \A i \in 1..Len(answers) : answers[i].read.id \in Nat
         /\ \A i \in 1..Len(waiting) : waiting[i].id \in Nat
         /\ \A i \in 1..Len(requests) :
              requests[i].op = "read" => requests[i].id \in Nat
         /\ nextRead \in Nat
<1>1. /\ \A i \in 1..Len(answers) : answers[i] \in Answer
      /\ \A i \in 1..Len(waiting) : waiting[i] \in Read
      /\ \A i \in 1..Len(requests) : requests[i] \in Read \cup Write
  BY ElementOfSeq DEF StoreTypeOK
<1>2. \A i \in 1..Len(answers) : answers[i].read.id \in Nat
  BY <1>1, BoundsAssumption DEF Answer, Read
<1>3. \A i \in 1..Len(waiting) : waiting[i].id \in Nat
  BY <1>1, BoundsAssumption DEF Read
<1>4. \A i \in 1..Len(requests) :
        requests[i].op = "read" => requests[i].id \in Nat
  BY <1>1, BoundsAssumption DEF Read, Write
<1>5. nextRead \in Nat
  BY BoundsAssumption DEF StoreTypeOK
<1>6. QED
  BY <1>2, <1>3, <1>4, <1>5

(* Order is kept where ordered reads stay waiting in front of the queue.   *)
LEMMA OrderKept ==
  ASSUME UNCHANGED <<answers, nextRead>>, IdsIssued, ReadsInOrder,
         Follow(waiting'), QueueFollows(requests', waiting')
  PROVE  ReadsInOrder' /\ IdsIssued'
BY DEF IdsIssued, ReadsInOrder, Follow, QueueFollows

(* Order is kept where ordered reads are answered.                         *)
LEMMA OrderRaised ==
  ASSUME StoreTypeOK, ReadsInOrder, IdsIssued,
         NEW reads \in Seq(Read), NEW docs,
         Raised(reads, docs), waiting' = <<>>, UNCHANGED nextRead,
         Follow(reads), QueueFollows(requests', reads)
  PROVE  ReadsInOrder' /\ IdsIssued'
<1>1. Len(answers) \in Nat /\ Len(answers') \in Nat /\ Len(reads) \in Nat
  BY LenProperties DEF StoreTypeOK, Raised
<1>2. ASSUME NEW k \in 1..Len(answers')
      PROVE  \/ k \in 1..Len(answers) /\ answers'[k].read = answers[k].read
             \/ /\ k - Len(answers) \in 1..Len(reads)
                /\ answers'[k].read = reads[k - Len(answers)]
  BY DEF Raised
<1>3. ASSUME NEW i \in 1..Len(answers'), NEW j \in 1..Len(answers'), i < j
      PROVE  answers'[i].read.id < answers'[j].read.id
  <2>1. CASE j \in 1..Len(answers)
    <3>1. i \in 1..Len(answers)
      BY <1>1, <1>3, <2>1
    <3>2. /\ answers'[i].read = answers[i].read
          /\ answers'[j].read = answers[j].read
      BY <1>1, <1>2, <2>1, <3>1
    <3>3. QED
      BY <1>3, <2>1, <3>1, <3>2 DEF ReadsInOrder
  <2>2. CASE i \in 1..Len(answers) /\ j \notin 1..Len(answers)
    <3>1. /\ answers'[i].read = answers[i].read
          /\ j - Len(answers) \in 1..Len(reads)
          /\ answers'[j].read = reads[j - Len(answers)]
      BY <1>1, <1>2, <2>2
    <3>2. QED
      BY <2>2, <3>1 DEF Follow
  <2>3. CASE i \notin 1..Len(answers) /\ j \notin 1..Len(answers)
    <3>1. /\ i - Len(answers) \in 1..Len(reads)
          /\ answers'[i].read = reads[i - Len(answers)]
          /\ j - Len(answers) \in 1..Len(reads)
          /\ answers'[j].read = reads[j - Len(answers)]
      BY <1>2, <2>3
    <3>2. i - Len(answers) < j - Len(answers)
      BY <1>1, <1>3
    <3>3. QED
      BY <3>1, <3>2 DEF Follow
  <2>4. QED
    BY <2>1, <2>2, <2>3
<1>4. \A k \in 1..Len(answers') : answers'[k].read.id < nextRead'
  BY <1>2 DEF Follow, IdsIssued
<1>5. ASSUME NEW j \in 1..Len(requests'), requests'[j].op = "read",
             NEW k \in 1..Len(answers')
      PROVE  answers'[k].read.id < requests'[j].id
  BY <1>2, <1>5 DEF QueueFollows
<1>6. 1..Len(waiting') = {}
  BY EmptySeq
<1>7. ReadsInOrder'
  BY <1>3, <1>5, <1>6 DEF ReadsInOrder, QueueFollows
<1>8. QED
  BY <1>4, <1>6, <1>7 DEF IdsIssued, QueueFollows

(* The reads still waiting, and the queue behind them, are in order.       *)
LEMMA WaitingFollow ==
  ASSUME ReadsInOrder, IdsIssued
  PROVE  Follow(waiting) /\ QueueFollows(requests, waiting)
BY DEF ReadsInOrder, IdsIssued, Follow, QueueFollows

(* Taking the oldest request off the queue keeps the order.                *)
LEMMA TailFollows ==
  ASSUME StoreTypeOK, requests # <<>>, NEW reads,
         QueueFollows(requests, reads)
  PROVE  QueueFollows(Tail(requests), reads)
<1>1. /\ Len(Tail(requests)) = Len(requests) - 1 /\ Len(requests) \in Nat
      /\ \A i \in 1..Len(Tail(requests)) : Tail(requests)[i] = requests[i + 1]
  BY HeadTailProperties, LenProperties DEF StoreTypeOK
<1>2. \A i \in 1..Len(Tail(requests)) : i + 1 \in 1..Len(requests)
  BY <1>1
<1>3. QED
  BY <1>1, <1>2 DEF QueueFollows

(* So does handing a read from the head of the queue to the waiting ones.  *)
LEMMA TakenFollow ==
  ASSUME StoreTypeOK, ReadsInOrder, IdsIssued,
         requests # <<>>, Head(requests).op = "read",
         NEW reads, reads = Append(waiting, Head(requests))
  PROVE  /\ reads \in Seq(Read)
         /\ Follow(reads) /\ QueueFollows(Tail(requests), reads)
<1>1. Head(requests) \in Read /\ Head(requests) = requests[1]
      /\ Len(requests) \in Nat \ {0}
  BY HeadTailProperties, EmptySeq DEF StoreTypeOK, Read, Write
<1>2. /\ reads \in Seq(Read) /\ Len(reads) = Len(waiting) + 1
      /\ Len(waiting) \in Nat
      /\ \A i \in 1..Len(waiting) : reads[i] = waiting[i]
      /\ reads[Len(waiting) + 1] = Head(requests)
  BY <1>1, AppendProperties, LenProperties DEF StoreTypeOK
<1>3. Follow(waiting) /\ QueueFollows(requests, waiting)
  BY WaitingFollow
<1>4. ASSUME NEW i \in 1..Len(reads)
      PROVE  i \in 1..Len(waiting) \/ i = Len(waiting) + 1
  BY <1>2
<1>5. Follow(reads)
  BY <1>1, <1>2, <1>3, <1>4 DEF Follow, QueueFollows
<1>6. QueueFollows(requests, waiting) /\ QueueFollows(Tail(requests), waiting)
  BY <1>3, TailFollows
<1>7. ASSUME NEW j \in 1..Len(Tail(requests)), Tail(requests)[j].op = "read"
      PROVE  Head(requests).id < Tail(requests)[j].id
  <2>1. j + 1 \in 1..Len(requests) /\ Tail(requests)[j] = requests[j + 1]
        /\ 1 < j + 1
    BY <1>1, HeadTailProperties DEF StoreTypeOK
  <2>2. QED
    BY <1>1, <1>3, <1>7, <2>1 DEF QueueFollows
<1>8. QED
  BY <1>2, <1>4, <1>5, <1>6, <1>7 DEF QueueFollows

LEMMA OrderInit == StoreInit => ReadsInOrder /\ IdsIssued
<1>1. Len(<<>>) = 0 /\ 1..0 = {}
  BY EmptySeq
<1>2. QED
  BY <1>1 DEF StoreInit, ReadsInOrder, IdsIssued

LEMMA OrderStep ==
  OrderInv /\ [StoreNext]_storeVars => ReadsInOrder' /\ IdsIssued'
<1> SUFFICES ASSUME StoreTypeOK, ReadsInOrder, IdsIssued,
                    [StoreNext]_storeVars
             PROVE  ReadsInOrder' /\ IdsIssued'
  BY DEF OrderInv
<1>a. Follow(waiting) /\ QueueFollows(requests, waiting)
  BY WaitingFollow
<1>1. ASSUME NEW c \in Completions, GetDocuments(c)
      PROVE  ReadsInOrder' /\ IdsIssued'
  <2> DEFINE new == [op |-> "read", id |-> nextRead, seen |-> nextWrite - 1,
                     completion |-> c]
  <2>1. new \in Read /\ requests \in Seq(Read \cup Write)
    BY <1>1, BoundsAssumption DEF GetDocuments, Read, StoreTypeOK
  <2>2. /\ Len(requests') = Len(requests) + 1 /\ Len(requests) \in Nat
        /\ \A i \in 1..Len(requests) : requests'[i] = requests[i]
        /\ requests'[Len(requests) + 1] = new
    BY <1>1, <2>1, AppendProperties, LenProperties DEF GetDocuments
  <2> HIDE DEF new
  <2>3. /\ \A i \in 1..Len(requests') :
             i \in 1..Len(requests) \/ requests'[i].id = nextRead
        /\ \A i, j \in 1..Len(requests') : i < j => i \in 1..Len(requests)
    BY <2>2 DEF new
  <2>4. nextRead \in Nat /\ nextRead' = nextRead + 1
        /\ UNCHANGED <<waiting, answers>>
    BY <1>1, BoundsAssumption DEF GetDocuments, StoreTypeOK
  <2>5. IdsIssued'
    BY <2>2, <2>3, <2>4, IdsAreNumbers DEF IdsIssued
  <2>6. ReadsInOrder'
    BY <2>2, <2>3, <2>4 DEF IdsIssued, ReadsInOrder
  <2>7. QED
    BY <2>5, <2>6
<1>2. CASE AddDocument
  <2>1. [op |-> "write", doc |-> nextWrite] \in Write
        /\ requests \in Seq(Read \cup Write)
    BY <1>2 DEF AddDocument, Write, MyDocs, StoreTypeOK
  <2>2. /\ Len(requests') = Len(requests) + 1 /\ Len(requests) \in Nat
        /\ \A i \in 1..Len(requests) : requests'[i] = requests[i]
        /\ requests'[Len(requests) + 1].op = "write"
    BY <1>2, <2>1, AppendProperties, LenProperties DEF AddDocument
  <2>3. \A i \in 1..Len(requests') :
          requests'[i].op = "read" => i \in 1..Len(requests)
    BY <2>2
  <2>4. UNCHANGED <<answers, waiting, nextRead>>
    BY <1>2 DEF AddDocument
  <2>5. Follow(waiting') /\ QueueFollows(requests', waiting')
    BY <1>a, <2>2, <2>3, <2>4 DEF Follow, QueueFollows
  <2>6. QED
    BY <2>4, <2>5, OrderKept
<1>3. CASE ProcessRead
  <2> DEFINE reads == Append(waiting, Head(requests))
  <2>1. /\ reads \in Seq(Read)
        /\ Follow(reads) /\ QueueFollows(Tail(requests), reads)
    BY <1>3, TakenFollow DEF ProcessRead
  <2>2. CASE waiting' = reads /\ UNCHANGED answers
    BY <1>3, <2>1, <2>2, OrderKept DEF ProcessRead
  <2>3. CASE waiting' = <<>> /\ answers' = answers \o Raise(reads, LocalView)
    <3>1. Raised(reads, LocalView)
      BY <2>1, <2>3, RaiseStep DEF StoreTypeOK, LocalView, Docs
    <3>2. QED
      BY <1>3, <2>1, <2>3, <3>1, OrderRaised DEF ProcessRead
  <2>4. QED
    BY <1>3, <2>2, <2>3 DEF ProcessRead
<1>4. CASE ProcessWrite
  BY <1>4, <1>a, TailFollows, OrderKept DEF ProcessWrite
<1>5. ASSUME NEW docs \in SUBSET Docs,
             \/ answers' = answers \o Raise(waiting, docs)
             \/ answers' = answers \o RaiseError(waiting),
             waiting' = <<>>, UNCHANGED <<requests, nextRead>>
      PROVE  ReadsInOrder' /\ IdsIssued'
  <2>1. Raised(waiting, docs)
    BY <1>5, RaiseStep DEF StoreTypeOK
  <2>2. QED
    BY <1>5, <1>a, <2>1, OrderRaised DEF StoreTypeOK
<1>6. ASSUME UNCHANGED <<requests, waiting, answers, nextRead>>
      PROVE  ReadsInOrder' /\ IdsIssued'
  BY <1>6, <1>a, OrderKept
<1>7. CASE Learn
  <2>1. PICK D \in SUBSET (OtherDocs \cup pending \cup parked \cup withdrawn) :
          /\ known' = known \cup D
          /\ \/ UNCHANGED <<waiting, answers>>
             \/ /\ waiting' = <<>>
                /\ answers' = answers \o Raise(waiting, known' \cup pending)
          /\ UNCHANGED <<requests, nextRead>>
    BY <1>7 DEF Learn
  <2>2. known' \cup pending \in SUBSET Docs
    BY <2>1 DEF StoreTypeOK, Docs
  <2>3. QED
    BY <1>5, <1>6, <2>1, <2>2
<1>8. CASE AnswerFromCache
  <2>1. LocalView \in SUBSET Docs
    BY DEF StoreTypeOK, LocalView, Docs
  <2>2. QED
    BY <1>5, <1>8, <2>1 DEF AnswerFromCache
<1>9. CASE FailReads
  BY <1>5, <1>9 DEF FailReads
<1>10. ASSUME NEW d \in MyDocs, Acknowledge(d) \/ Reject(d)
       PROVE  ReadsInOrder' /\ IdsIssued'
  BY <1>6, <1>10 DEF Acknowledge, Reject
<1>11. CASE SwitchUser
  BY <1>6, <1>11 DEF SwitchUser
<1>12. CASE Deliver
  <2>1. /\ Len(answers') = Len(answers) - 1 /\ Len(answers) \in Nat
        /\ \A i \in 1..Len(answers') : answers'[i] = answers[i + 1]
    BY <1>12, HeadTailProperties, LenProperties DEF Deliver, StoreTypeOK
  <2>2. \A i \in 1..Len(answers') :
          i + 1 \in 1..Len(answers) /\ answers'[i].read = answers[i + 1].read
    BY <2>1
  <2>3. UNCHANGED <<requests, waiting, nextRead>>
    BY <1>12 DEF Deliver
  <2>4. \A i, j \in 1..Len(answers') :
          i < j => answers'[i].read.id < answers'[j].read.id
    <3>1. \A i, j \in 1..Len(answers') : i < j => i + 1 < j + 1
      BY <2>1
    <3>2. QED
      BY <2>2, <3>1 DEF ReadsInOrder
  <2>5. IdsIssued'
    BY <2>2, <2>3 DEF IdsIssued
  <2>6. QED
    BY <2>2, <2>3, <2>4, <2>5 DEF ReadsInOrder
<1>13. CASE Relaunch
  <2>1. Len(<<>>) = 0 /\ 1..0 = {}
    BY EmptySeq
  <2>2. QED
    BY <1>13, <2>1 DEF Relaunch, ReadsInOrder, IdsIssued
<1>14. CASE UNCHANGED storeVars
  BY <1>6, <1>14 DEF storeVars
<1>15. ASSUME NEW d \in Docs, Forget(d)
       PROVE  ReadsInOrder' /\ IdsIssued'
  <2>1. known' \cup pending \in SUBSET Docs
    BY <1>15 DEF Forget, StoreTypeOK, Docs
  <2>2. QED
    BY <1>5, <1>6, <1>15, <2>1 DEF Forget
<1>16. QED
  BY <1>1, <1>2, <1>3, <1>4, <1>7, <1>8, <1>9, <1>10, <1>11, <1>12, <1>13,
     <1>14, <1>15 DEF StoreNext, StoreStep

(* Reads are answered in the order they were issued, each at most once,    *)
(* whatever the store and the app do in between.                           *)
THEOREM ReadsAnsweredInOrder == StoreSpec => []ReadsInOrder
<1>1. StoreInit => OrderInv
  BY StoreTypeInit, OrderInit DEF OrderInv
<1>2. OrderInv /\ [StoreNext]_storeVars => OrderInv'
  BY StoreTypeStep, OrderStep DEF OrderInv
<1>3. OrderInv => ReadsInOrder
  BY DEF OrderInv
<1>4. QED
  BY <1>1, <1>2, <1>3, PTL DEF StoreSpec
-----------------------------------------------------------------------------
(***************************************************************************)
(* A getDocuments returns what the phone added before it, and a later      *)
(* result never lacks what an earlier one held.                            *)
(*                                                                         *)
(* The argument: a document is on the worker queue until the worker stores *)
(* it, and from then on in the cache, in the mutation queue or withdrawn.  *)
(* The worker queue is first-in first-out, so a read is processed after    *)
(* the writes issued before it, and what it waits for can only grow.       *)
(***************************************************************************)

Kept == known \cup pending \cup withdrawn

(* The document d is queued in front of request j.                         *)
QueuedBefore(d, j) ==
  \E i \in 1..Len(requests) :
     i < j /\ requests[i].op = "write" /\ requests[i].doc = d

WaitingSeesKept ==
  \A i \in 1..Len(waiting) : 1..waiting[i].seen \subseteq Kept

QueueInOrder ==
  \A j \in 1..Len(requests) : requests[j].op = "read" =>
     \A d \in 1..requests[j].seen : d \in Kept \/ QueuedBefore(d, j)

NothingLost ==
  \A d \in 1..(nextWrite - 1) :
     d \in Kept \/ QueuedBefore(d, Len(requests) + 1)

SeenInv == WaitingSeesKept /\ QueueInOrder /\ NothingLost /\ ReadYourWrites

LEMMA SeenInit == StoreInit => SeenInv
<1>1. Len(<<>>) = 0 /\ 1..0 = {}
  BY EmptySeq
<1>2. QED
  BY <1>1 DEF StoreInit, SeenInv, WaitingSeesKept, QueueInOrder, NothingLost,
              ReadYourWrites

(* No step but a read or write taken from the queue touches the first      *)
(* three parts, as long as nothing that was kept is lost.                  *)
LEMMA KeptStep ==
  ASSUME SeenInv, Kept \subseteq Kept',
         UNCHANGED <<requests, waiting, nextWrite>>
  PROVE  WaitingSeesKept' /\ QueueInOrder' /\ NothingLost'
<1>1. \A d, j : QueuedBefore(d, j) => QueuedBefore(d, j)'
  BY DEF QueuedBefore
<1>2. WaitingSeesKept'
  BY DEF SeenInv, WaitingSeesKept
<1>3. QueueInOrder'
  BY <1>1 DEF SeenInv, QueueInOrder
<1>4. NothingLost'
  BY <1>1 DEF SeenInv, NothingLost
<1>5. QED
  BY <1>2, <1>3, <1>4

(* Answers that stay keep their documents; withdrawn only grows.           *)
LEMMA AnswersStay ==
  ASSUME ReadYourWrites, withdrawn \subseteq withdrawn', UNCHANGED answers
  PROVE  ReadYourWrites'
BY DEF ReadYourWrites

(* A read that sees only kept documents is answered with all of them.      *)
LEMMA RaisedSees ==
  ASSUME ReadYourWrites, withdrawn \subseteq withdrawn',
         NEW reads, NEW docs, Raised(reads, docs),
         \A i \in 1..Len(reads) : 1..reads[i].seen \subseteq docs \cup withdrawn'
  PROVE  ReadYourWrites'
<1> SUFFICES ASSUME NEW k \in 1..Len(answers'), answers'[k].ok
             PROVE  1..answers'[k].read.seen \subseteq
                       answers'[k].docs \cup withdrawn'
  BY DEF ReadYourWrites
<1>1. CASE k \in 1..Len(answers) /\ answers'[k] = answers[k]
  BY <1>1 DEF ReadYourWrites
<1>2. CASE /\ k - Len(answers) \in 1..Len(reads)
           /\ answers'[k].read = reads[k - Len(answers)]
           /\ answers'[k].ok => answers'[k].docs = docs
  BY <1>2
<1>3. QED
  BY <1>1, <1>2 DEF Raised

(* When the oldest request is taken, what was queued before the others is  *)
(* kept or still queued before them.                                       *)
LEMMA TakenKeepsQueue ==
  ASSUME StoreTypeOK, SeenInv, requests # <<>>, requests' = Tail(requests),
         Kept \subseteq Kept', UNCHANGED nextWrite,
         Head(requests).op = "write" => Head(requests).doc \in Kept'
  PROVE  QueueInOrder' /\ NothingLost'
<1>1. /\ Len(requests) \in Nat \ {0} /\ Len(requests') = Len(requests) - 1
      /\ Head(requests) = requests[1]
      /\ \A i \in 1..Len(requests') : requests'[i] = requests[i + 1]
  BY HeadTailProperties, EmptySeq DEF StoreTypeOK
<1>2. ASSUME NEW j \in 1..Len(requests) + 1, NEW d,
             d \in Kept \/ QueuedBefore(d, j)
      PROVE  d \in Kept' \/ QueuedBefore(d, j - 1)'
  <2>1. CASE d \in Kept
    BY <2>1
  <2>2. ASSUME NEW i \in 1..Len(requests), i < j,
               requests[i].op = "write", requests[i].doc = d
        PROVE  d \in Kept' \/ QueuedBefore(d, j - 1)'
    <3>1. CASE i = 1
      BY <1>1, <2>2, <3>1
    <3>2. CASE i # 1
      <4>1. i - 1 \in 1..Len(requests') /\ i - 1 < j - 1 /\ (i - 1) + 1 = i
        BY <1>1, <2>2, <3>2
      <4>2. requests'[i - 1] = requests[i]
        BY <1>1, <4>1
      <4>3. QED
        BY <2>2, <4>1, <4>2 DEF QueuedBefore
    <3>3. QED
      BY <3>1, <3>2
  <2>3. QED
    BY <1>2, <2>1, <2>2 DEF QueuedBefore
<1>3. ASSUME NEW j \in 1..Len(requests'), requests'[j].op = "read",
             NEW d \in 1..requests'[j].seen
      PROVE  d \in Kept' \/ QueuedBefore(d, j)'
  <2>1. j + 1 \in 1..Len(requests) /\ requests'[j] = requests[j + 1]
        /\ (j + 1) - 1 = j /\ j + 1 \in 1..Len(requests) + 1
    BY <1>1
  <2>2. d \in Kept \/ QueuedBefore(d, j + 1)
    BY <1>3, <2>1 DEF SeenInv, QueueInOrder
  <2>3. QED
    BY <1>2, <2>1, <2>2
<1>4. ASSUME NEW d \in 1..(nextWrite' - 1)
      PROVE  d \in Kept' \/ QueuedBefore(d, Len(requests) + 1)'
  <2>1. PICK n \in Nat : n = Len(requests)
    BY <1>1
  <2>2. d \in Kept \/ QueuedBefore(d, n + 1)
    BY <1>4, <2>1 DEF SeenInv, NothingLost
  <2>3. d \in Kept' \/ QueuedBefore(d, (n + 1) - 1)'
    BY <1>2, <2>1, <2>2
  <2>4. (n + 1) - 1 = Len(requests') + 1
    BY <1>1, <2>1
  <2>5. QED
    BY <2>3, <2>4 DEF QueuedBefore
<1>5. QueueInOrder'
  BY <1>3 DEF QueueInOrder
<1>6. NothingLost'
  BY <1>1, <1>4 DEF NothingLost
<1>7. QED
  BY <1>5, <1>6

LEMMA SeenStep ==
  StoreTypeOK /\ SeenInv /\ [StoreNext]_storeVars => SeenInv'
<1> SUFFICES ASSUME StoreTypeOK, SeenInv, [StoreNext]_storeVars
             PROVE  SeenInv'
  OBVIOUS
<1>1. ASSUME NEW c \in Completions, GetDocuments(c)
      PROVE  SeenInv'
  <2> DEFINE new == [op |-> "read", id |-> nextRead, seen |-> nextWrite - 1,
                     completion |-> c]
  <2>1. new \in Read /\ requests \in Seq(Read \cup Write)
    BY <1>1, BoundsAssumption DEF GetDocuments, Read, StoreTypeOK
  <2>2. /\ Len(requests') = Len(requests) + 1 /\ Len(requests) \in Nat
        /\ \A i \in 1..Len(requests) : requests'[i] = requests[i]
        /\ requests'[Len(requests) + 1] = new
    BY <1>1, <2>1, AppendProperties, LenProperties DEF GetDocuments
  <2>3. /\ UNCHANGED <<waiting, answers, known, pending, withdrawn, nextWrite>>
        /\ new.seen = nextWrite - 1
    BY <1>1 DEF GetDocuments
  <2> HIDE DEF new
  <2>4. PICK n \in Nat : n = Len(requests)
    BY <2>2
  <2>5. \A d : \A j \in 1..(n + 1) : QueuedBefore(d, j) => QueuedBefore(d, j)'
    BY <2>2, <2>4 DEF QueuedBefore
  <2>6. \A d \in 1..(nextWrite - 1) : d \in Kept' \/ QueuedBefore(d, n + 1)'
    BY <2>3, <2>4, <2>5 DEF SeenInv, NothingLost, Kept
  <2>7. NothingLost'
    BY <2>2, <2>3, <2>4, <2>6 DEF NothingLost, QueuedBefore
  <2>8. ASSUME NEW j \in 1..Len(requests'), requests'[j].op = "read",
               NEW d \in 1..requests'[j].seen
        PROVE  d \in Kept' \/ QueuedBefore(d, j)'
    <3>1. CASE j \in 1..n
      <4>1. requests'[j] = requests[j] /\ j \in 1..Len(requests)
        BY <2>2, <2>4, <3>1
      <4>2. d \in Kept \/ QueuedBefore(d, j)
        BY <2>8, <4>1 DEF SeenInv, QueueInOrder
      <4>3. QED
        BY <2>3, <2>5, <3>1, <4>2 DEF Kept
    <3>2. CASE j = n + 1
      BY <2>2, <2>3, <2>4, <2>6, <2>8, <3>2
    <3>3. QED
      BY <2>2, <2>4, <3>1, <3>2
  <2>9. WaitingSeesKept' /\ ReadYourWrites'
    BY <2>3 DEF SeenInv, WaitingSeesKept, ReadYourWrites, Kept
  <2>10. QED
    BY <2>7, <2>8, <2>9 DEF SeenInv, QueueInOrder
<1>2. CASE AddDocument
  <2> DEFINE new == [op |-> "write", doc |-> nextWrite]
  <2>1. new \in Write /\ requests \in Seq(Read \cup Write)
    BY <1>2 DEF AddDocument, Write, MyDocs, StoreTypeOK
  <2>2. /\ Len(requests') = Len(requests) + 1 /\ Len(requests) \in Nat
        /\ \A i \in 1..Len(requests) : requests'[i] = requests[i]
        /\ requests'[Len(requests) + 1] = new
    BY <1>2, <2>1, AppendProperties, LenProperties DEF AddDocument
  <2>3. /\ UNCHANGED <<waiting, answers, known, pending, withdrawn>>
        /\ nextWrite' = nextWrite + 1 /\ nextWrite \in Nat
        /\ new.op = "write" /\ new.doc = nextWrite
    BY <1>2, BoundsAssumption DEF AddDocument, StoreTypeOK
  <2> HIDE DEF new
  <2>4. PICK n \in Nat, w \in Nat : n = Len(requests) /\ w = nextWrite
    BY <2>2, <2>3
  <2>5. \A d : \A j \in 1..(n + 1) :
          QueuedBefore(d, j) => QueuedBefore(d, j)' /\ QueuedBefore(d, n + 2)'
    BY <2>2, <2>4 DEF QueuedBefore
  <2>6. QueuedBefore(w, n + 2)'
    BY <2>2, <2>3, <2>4 DEF QueuedBefore
  <2>7. ASSUME NEW d \in 1..w
        PROVE  d \in Kept' \/ QueuedBefore(d, n + 2)'
    <3>1. CASE d = w
      BY <2>6, <3>1
    <3>2. CASE d # w
      <4>1. d \in Kept \/ QueuedBefore(d, n + 1)
        BY <2>3, <2>4, <3>2 DEF SeenInv, NothingLost
      <4>2. QED
        BY <2>3, <2>5, <4>1 DEF Kept
    <3>3. QED
      BY <3>1, <3>2
  <2>8. NothingLost'
    <3>1. nextWrite' - 1 = w /\ Len(requests') + 1 = n + 2
      BY <2>2, <2>3, <2>4
    <3>2. QED
      BY <2>7, <3>1 DEF NothingLost
  <2>9. ASSUME NEW j \in 1..Len(requests'), requests'[j].op = "read",
               NEW d \in 1..requests'[j].seen
        PROVE  d \in Kept' \/ QueuedBefore(d, j)'
    <3>1. j \in 1..n /\ requests'[j] = requests[j]
      BY <2>2, <2>3, <2>4, <2>9
    <3>2. d \in Kept \/ QueuedBefore(d, j)
      BY <2>4, <2>9, <3>1 DEF SeenInv, QueueInOrder
    <3>3. QED
      BY <2>3, <2>5, <3>1, <3>2 DEF Kept
  <2>10. WaitingSeesKept' /\ ReadYourWrites'
    BY <2>3 DEF SeenInv, WaitingSeesKept, ReadYourWrites, Kept
  <2>11. QED
    BY <2>8, <2>9, <2>10 DEF SeenInv, QueueInOrder
<1>3. CASE ProcessRead
  <2> DEFINE reads == Append(waiting, Head(requests))
  <2>1. /\ requests # <<>> /\ requests' = Tail(requests)
        /\ UNCHANGED <<known, pending, withdrawn, nextWrite>>
        /\ Head(requests).op = "read"
    BY <1>3 DEF ProcessRead
  <2>2. QueueInOrder' /\ NothingLost'
    BY <2>1, TakenKeepsQueue DEF Kept
  <2>3. /\ Head(requests) \in Read /\ Head(requests) = requests[1]
        /\ Len(requests) \in Nat \ {0}
    BY <2>1, HeadTailProperties, EmptySeq DEF StoreTypeOK, Read, Write
  <2>4. 1..Head(requests).seen \subseteq Kept
    <3>1. \A d : ~QueuedBefore(d, 1)
      BY <2>3 DEF QueuedBefore
    <3>2. QED
      BY <2>1, <2>3, <3>1 DEF SeenInv, QueueInOrder
  <2>5. /\ reads \in Seq(Read) /\ Len(reads) = Len(waiting) + 1
        /\ Len(waiting) \in Nat
        /\ \A i \in 1..Len(waiting) : reads[i] = waiting[i]
        /\ reads[Len(waiting) + 1] = Head(requests)
    BY <2>3, AppendProperties, LenProperties DEF StoreTypeOK
  <2>6. \A i \in 1..Len(reads) : 1..reads[i].seen \subseteq Kept
    BY <2>4, <2>5 DEF SeenInv, WaitingSeesKept
  <2>7. CASE waiting' = reads /\ UNCHANGED answers
    BY <2>1, <2>2, <2>6, <2>7, AnswersStay
    DEF SeenInv, WaitingSeesKept, Kept
  <2>8. CASE waiting' = <<>> /\ answers' = answers \o Raise(reads, LocalView)
    <3>1. Raised(reads, LocalView)
      BY <2>5, <2>8, RaiseStep DEF StoreTypeOK, LocalView, Docs
    <3>2. \A i \in 1..Len(reads) :
            1..reads[i].seen \subseteq LocalView \cup withdrawn'
      BY <2>1, <2>6 DEF Kept, LocalView
    <3>3. ReadYourWrites'
      BY <2>1, <3>1, <3>2, RaisedSees DEF SeenInv
    <3>4. WaitingSeesKept'
      BY <2>8, EmptySeq DEF WaitingSeesKept
    <3>5. QED
      BY <2>2, <3>3, <3>4 DEF SeenInv
  <2>9. QED
    BY <1>3, <2>7, <2>8 DEF ProcessRead
<1>4. CASE ProcessWrite
  <2>1. /\ requests # <<>> /\ requests' = Tail(requests)
        /\ UNCHANGED <<waiting, answers, known, withdrawn, nextWrite>>
        /\ pending' = pending \cup {Head(requests).doc}
    BY <1>4 DEF ProcessWrite
  <2>2. QueueInOrder' /\ NothingLost'
    BY <2>1, TakenKeepsQueue DEF Kept
  <2>3. WaitingSeesKept' /\ ReadYourWrites'
    BY <2>1 DEF SeenInv, WaitingSeesKept, ReadYourWrites, Kept
  <2>4. QED
    BY <2>2, <2>3 DEF SeenInv
<1>5. ASSUME NEW docs \in SUBSET Docs, Kept \subseteq docs \cup withdrawn',
             \/ answers' = answers \o Raise(waiting, docs)
             \/ answers' = answers \o RaiseError(waiting),
             waiting' = <<>>, Kept \subseteq Kept',
             withdrawn \subseteq withdrawn', UNCHANGED <<requests, nextWrite>>
      PROVE  SeenInv'
  <2>1. Raised(waiting, docs)
    BY <1>5, RaiseStep DEF StoreTypeOK
  <2>2. ReadYourWrites'
    BY <1>5, <2>1, RaisedSees DEF SeenInv, WaitingSeesKept
  <2>3. WaitingSeesKept'
    BY <1>5, EmptySeq DEF WaitingSeesKept
  <2>4. \A d, j : QueuedBefore(d, j) => QueuedBefore(d, j)'
    BY <1>5 DEF QueuedBefore
  <2>5. QueueInOrder'
    BY <1>5, <2>4 DEF SeenInv, QueueInOrder
  <2>6. NothingLost'
    BY <1>5, <2>4 DEF SeenInv, NothingLost
  <2>7. QED
    BY <2>2, <2>3, <2>5, <2>6 DEF SeenInv
<1>6. ASSUME Kept \subseteq Kept', withdrawn \subseteq withdrawn',
             UNCHANGED <<requests, waiting, answers, nextWrite>>
      PROVE  SeenInv'
  BY <1>6, KeptStep, AnswersStay DEF SeenInv
<1>7. CASE Learn
  <2>1. PICK D \in SUBSET (OtherDocs \cup pending \cup parked \cup withdrawn) :
          /\ known' = known \cup D
          /\ \/ UNCHANGED <<waiting, answers>>
             \/ /\ waiting' = <<>>
                /\ answers' = answers \o Raise(waiting, known' \cup pending)
          /\ UNCHANGED <<requests, pending, nextWrite, withdrawn>>
    BY <1>7 DEF Learn
  <2>2. /\ known' \cup pending \in SUBSET Docs
        /\ Kept \subseteq (known' \cup pending) \cup withdrawn
        /\ Kept \subseteq Kept'
    BY <2>1 DEF StoreTypeOK, Docs, Kept
  <2>3. QED
    BY <1>5, <1>6, <2>1, <2>2
<1>8. CASE AnswerFromCache
  <2>1. LocalView \in SUBSET Docs /\ Kept \subseteq LocalView \cup withdrawn
    BY DEF StoreTypeOK, LocalView, Docs, Kept
  <2>2. QED
    BY <1>5, <1>8, <2>1 DEF AnswerFromCache, Kept
<1>9. CASE FailReads
  <2>1. LocalView \in SUBSET Docs /\ Kept \subseteq LocalView \cup withdrawn
    BY DEF StoreTypeOK, LocalView, Docs, Kept
  <2>2. QED
    BY <1>5, <1>9, <2>1 DEF FailReads, Kept
<1>10. ASSUME NEW d \in MyDocs, Acknowledge(d) \/ Reject(d)
       PROVE  SeenInv'
  BY <1>6, <1>10 DEF Acknowledge, Reject, Kept
<1>11. CASE SwitchUser
  BY <1>6, <1>11 DEF SwitchUser, Kept
<1>12. CASE Deliver
  <2>1. /\ Len(answers') = Len(answers) - 1 /\ Len(answers) \in Nat
        /\ \A i \in 1..Len(answers') : answers'[i] = answers[i + 1]
    BY <1>12, HeadTailProperties, LenProperties DEF Deliver, StoreTypeOK
  <2>2. \A i \in 1..Len(answers') : i + 1 \in 1..Len(answers)
    BY <2>1
  <2>3. UNCHANGED <<requests, waiting, known, pending, withdrawn, nextWrite>>
    BY <1>12 DEF Deliver
  <2>4. ReadYourWrites'
    BY <2>1, <2>2, <2>3 DEF SeenInv, ReadYourWrites
  <2>5. QED
    BY <2>3, <2>4, KeptStep DEF SeenInv, Kept
<1>13. CASE Relaunch
  <2>1. Len(<<>>) = 0 /\ 1..0 = {}
    BY EmptySeq
  <2>2. /\ requests' = <<>> /\ waiting' = <<>> /\ answers' = <<>>
        /\ withdrawn' = withdrawn \cup QueuedWrites
        /\ UNCHANGED <<known, pending, nextWrite>>
    BY <1>13 DEF Relaunch
  <2>3. \A d, j : QueuedBefore(d, j) => d \in QueuedWrites
    BY DEF QueuedBefore, QueuedWrites
  <2>4. NothingLost'
    BY <2>2, <2>3 DEF SeenInv, NothingLost, Kept
  <2>5. QED
    BY <2>1, <2>2, <2>4
    DEF SeenInv, WaitingSeesKept, QueueInOrder, ReadYourWrites
<1>14. CASE UNCHANGED storeVars
  BY <1>6, <1>14 DEF storeVars, Kept
<1>15. ASSUME NEW d \in Docs, Forget(d)
       PROVE  SeenInv'
  <2>1. /\ known' \cup pending \in SUBSET Docs
        /\ Kept \subseteq (known' \cup pending) \cup withdrawn'
        /\ Kept \subseteq Kept' /\ withdrawn \subseteq withdrawn'
        /\ UNCHANGED <<requests, nextWrite>>
    BY <1>15 DEF Forget, StoreTypeOK, Docs, Kept
  <2>2. QED
    BY <1>5, <1>6, <1>15, <2>1 DEF Forget
<1>16. QED
  BY <1>1, <1>2, <1>3, <1>4, <1>7, <1>8, <1>9, <1>10, <1>11, <1>12, <1>13,
     <1>14, <1>15 DEF StoreNext, StoreStep

(* Every getDocuments returns the documents this phone added before it,    *)
(* except rejected, lost or hidden ones, for any number of reads, writes   *)
(* and documents.                                                          *)
THEOREM ReadsSeeWrites == StoreSpec => []ReadYourWrites
<1>1. StoreInit => StoreTypeOK /\ SeenInv
  BY StoreTypeInit, SeenInit
<1>2. StoreTypeOK /\ SeenInv /\ [StoreNext]_storeVars
        => (StoreTypeOK /\ SeenInv)'
  BY StoreTypeStep, SeenStep
<1>3. SeenInv => ReadYourWrites
  BY DEF SeenInv
<1>4. QED
  BY <1>1, <1>2, <1>3, PTL DEF StoreSpec

-----------------------------------------------------------------------------
(* The inductive invariant of ResultsGrow: what a result on the main queue *)
(* holds is still known to the store, or withdrawn.                        *)
AnswersKept ==
  \A i \in 1..Len(answers) : answers[i].ok => answers[i].docs \subseteq Kept

GrowInv == AnswersKept /\ ResultsGrow

(* Results that are put on the queue hold all that earlier results hold.   *)
LEMMA RaisedGrows ==
  ASSUME GrowInv, NEW reads, NEW docs, Raised(reads, docs),
         Kept \subseteq docs \cup withdrawn', Kept \subseteq Kept',
         docs \subseteq Kept', withdrawn \subseteq withdrawn'
  PROVE  GrowInv'
<1>1. ASSUME NEW k \in 1..Len(answers')
      PROVE  \/ k \in 1..Len(answers) /\ answers'[k] = answers[k]
             \/ /\ k \notin 1..Len(answers)
                /\ answers'[k].ok => answers'[k].docs = docs
  BY DEF Raised
<1>2. ASSUME NEW k \in 1..Len(answers'), answers'[k].ok
      PROVE  answers'[k].docs \subseteq Kept'
  BY <1>1, <1>2 DEF GrowInv, AnswersKept
<1>3. ASSUME NEW i \in 1..Len(answers'), NEW j \in 1..Len(answers'), i < j,
             answers'[i].ok, answers'[j].ok
      PROVE  answers'[i].docs \subseteq answers'[j].docs \cup withdrawn'
  <2>1. CASE j \in 1..Len(answers) /\ answers'[j] = answers[j]
    <3>1. i \in 1..Len(answers)
      BY <1>3, <2>1 DEF Raised
    <3>2. answers'[i] = answers[i]
      BY <1>1, <3>1
    <3>3. QED
      BY <1>3, <2>1, <3>1, <3>2 DEF GrowInv, ResultsGrow
  <2>2. CASE answers'[j].docs = docs
    BY <1>1, <1>3, <2>2 DEF GrowInv, AnswersKept
  <2>3. QED
    BY <1>1, <1>3, <2>1, <2>2
<1>4. QED
  BY <1>2, <1>3 DEF GrowInv, AnswersKept, ResultsGrow

LEMMA GrowStep ==
  StoreTypeOK /\ GrowInv /\ [StoreNext]_storeVars => GrowInv'
<1> SUFFICES ASSUME StoreTypeOK, GrowInv, [StoreNext]_storeVars
             PROVE  GrowInv'
  OBVIOUS
<1>a. ASSUME UNCHANGED answers, Kept \subseteq Kept', withdrawn \subseteq withdrawn'
      PROVE  GrowInv'
  BY <1>a DEF GrowInv, AnswersKept, ResultsGrow
<1>b. ASSUME NEW reads \in Seq(Read), NEW docs \in SUBSET Docs,
             \/ answers' = answers \o Raise(reads, docs)
             \/ answers' = answers \o RaiseError(reads),
             Kept \subseteq docs \cup withdrawn', docs \subseteq Kept',
             withdrawn \subseteq withdrawn'
      PROVE  GrowInv'
  <2>1. Raised(reads, docs)
    BY <1>b, RaiseStep DEF StoreTypeOK
  <2>2. Kept \subseteq Kept'
    BY <1>b DEF Kept
  <2>3. QED
    BY <1>b, <2>1, <2>2, RaisedGrows
<1>c. /\ LocalView \in SUBSET Docs /\ LocalView \subseteq Kept
      /\ Kept \subseteq LocalView \cup withdrawn
  BY DEF StoreTypeOK, LocalView, Docs, Kept
<1>1. ASSUME NEW c \in Completions, GetDocuments(c)
      PROVE  GrowInv'
  BY <1>1, <1>a DEF GetDocuments, Kept
<1>2. CASE AddDocument
  BY <1>2, <1>a DEF AddDocument, Kept
<1>3. CASE ProcessRead
  <2> DEFINE reads == Append(waiting, Head(requests))
  <2>1. UNCHANGED <<known, pending, withdrawn>>
    BY <1>3 DEF ProcessRead
  <2>2. CASE UNCHANGED answers
    BY <1>a, <2>1, <2>2 DEF Kept
  <2>3. CASE answers' = answers \o Raise(reads, LocalView)
    <3>1. Head(requests) \in Read \cup Write /\ Head(requests).op = "read"
      BY <1>3, HeadTailProperties DEF ProcessRead, StoreTypeOK
    <3>2. reads \in Seq(Read)
      BY <3>1, AppendProperties DEF StoreTypeOK, Read, Write
    <3>3. LocalView \subseteq Kept'
      BY <1>c, <2>1 DEF Kept
    <3>4. QED
      BY <1>b, <1>c, <2>1, <2>3, <3>2, <3>3
  <2>4. QED
    BY <1>3, <2>2, <2>3 DEF ProcessRead
<1>4. CASE ProcessWrite
  BY <1>4, <1>a DEF ProcessWrite, Kept
<1>5. CASE Learn
  <2>1. PICK D \in SUBSET (OtherDocs \cup pending \cup parked \cup withdrawn) :
          /\ known' = known \cup D
          /\ \/ UNCHANGED <<waiting, answers>>
             \/ answers' = answers \o Raise(waiting, known' \cup pending)
          /\ UNCHANGED <<pending, withdrawn>>
    BY <1>5 DEF Learn
  <2>2. /\ known' \cup pending \in SUBSET Docs
        /\ known' \cup pending \subseteq Kept'
        /\ Kept \subseteq (known' \cup pending) \cup withdrawn
        /\ Kept \subseteq Kept'
    BY <2>1 DEF StoreTypeOK, Docs, Kept
  <2>3. CASE UNCHANGED answers
    BY <1>a, <2>1, <2>2, <2>3
  <2>4. CASE answers' = answers \o Raise(waiting, known' \cup pending)
    BY <1>b, <2>1, <2>2, <2>4 DEF StoreTypeOK
  <2>5. QED
    BY <2>1, <2>3, <2>4
<1>6. CASE AnswerFromCache
  <2>1. UNCHANGED <<known, pending, withdrawn>>
    BY <1>6 DEF AnswerFromCache
  <2>2. LocalView \subseteq Kept'
    BY <1>c, <2>1 DEF Kept
  <2>3. QED
    BY <1>6, <1>b, <1>c, <2>1, <2>2 DEF AnswerFromCache, StoreTypeOK
<1>7. CASE FailReads
  <2>1. UNCHANGED <<known, pending, withdrawn>>
    BY <1>7 DEF FailReads
  <2>2. LocalView \subseteq Kept'
    BY <1>c, <2>1 DEF Kept
  <2>3. QED
    BY <1>7, <1>b, <1>c, <2>1, <2>2 DEF FailReads, StoreTypeOK
<1>8. ASSUME NEW d \in MyDocs, Acknowledge(d) \/ Reject(d)
      PROVE  GrowInv'
  BY <1>8, <1>a DEF Acknowledge, Reject, Kept
<1>9. CASE SwitchUser
  BY <1>9, <1>a DEF SwitchUser, Kept
<1>10. CASE Deliver
  <2>1. /\ Len(answers') = Len(answers) - 1 /\ Len(answers) \in Nat
        /\ \A i \in 1..Len(answers') : answers'[i] = answers[i + 1]
    BY <1>10, HeadTailProperties, LenProperties DEF Deliver, StoreTypeOK
  <2>2. \A i \in 1..Len(answers') : i + 1 \in 1..Len(answers)
    BY <2>1
  <2>3. UNCHANGED <<known, pending, withdrawn>>
    BY <1>10 DEF Deliver
  <2>4. AnswersKept'
    BY <2>1, <2>2, <2>3 DEF GrowInv, AnswersKept, Kept
  <2>5. ResultsGrow'
    BY <2>1, <2>2, <2>3 DEF GrowInv, ResultsGrow
  <2>6. QED
    BY <2>4, <2>5 DEF GrowInv
<1>11. CASE Relaunch
  <2>1. Len(answers') = 0 /\ 1..0 = {}
    BY <1>11, EmptySeq DEF Relaunch
  <2>2. QED
    BY <2>1 DEF GrowInv, AnswersKept, ResultsGrow
<1>12. CASE UNCHANGED storeVars
  BY <1>12, <1>a DEF storeVars, Kept
<1>13. ASSUME NEW d \in Docs, Forget(d)
       PROVE  GrowInv'
  <2>1. /\ known' \cup pending \in SUBSET Docs
        /\ known' \cup pending \subseteq Kept'
        /\ Kept \subseteq (known' \cup pending) \cup withdrawn'
        /\ Kept \subseteq Kept' /\ withdrawn \subseteq withdrawn'
    BY <1>13 DEF Forget, StoreTypeOK, Docs, Kept
  <2>2. CASE UNCHANGED answers
    BY <1>a, <2>1, <2>2
  <2>3. CASE answers' = answers \o Raise(waiting, known' \cup pending)
    BY <1>b, <2>1, <2>3 DEF StoreTypeOK
  <2>4. QED
    BY <1>13, <2>2, <2>3 DEF Forget
<1>14. QED
  BY <1>1, <1>2, <1>3, <1>4, <1>5, <1>6, <1>7, <1>8, <1>9, <1>10, <1>11, <1>12,
     <1>13 DEF StoreNext, StoreStep

(* Of two results on the main queue the later one contains the earlier, up *)
(* to withdrawn documents: applying completions in order never takes the   *)
(* list back (MapViewController.swift:31, 50, EventTableViewController     *)
(* .swift:82 assign the result whole).                                     *)
THEOREM ResultsOnlyGrow == StoreSpec => []ResultsGrow
<1>1. StoreInit => StoreTypeOK /\ GrowInv
  <2>1. StoreInit => Len(answers) = 0 /\ 1..0 = {}
    BY EmptySeq DEF StoreInit
  <2>2. QED
    BY <2>1, StoreTypeInit DEF GrowInv, AnswersKept, ResultsGrow
<1>2. StoreTypeOK /\ GrowInv /\ [StoreNext]_storeVars => (StoreTypeOK /\ GrowInv)'
  BY StoreTypeStep, GrowStep
<1>3. GrowInv => ResultsGrow
  BY DEF GrowInv
<1>4. QED
  BY <1>1, <1>2, <1>3, PTL DEF StoreSpec
=============================================================================
