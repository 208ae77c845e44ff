----------------------------- MODULE EventStore -----------------------------
(***************************************************************************)
(* What DataHandler.swift may rely on: the contract of                     *)
(* db.collection("events"), the Firestore client seen from the main queue. *)
(* When a waiting read is answered is the client's choice: its streams,    *)
(* views and online state are behind that choice.                          *)
(*                                                                         *)
(* getDocuments and addDocument only enqueue on the client's serial worker *)
(* queue (`requests`).  A read that the worker has taken waits for the     *)
(* server or for the client to go offline (`waiting`); then its result is  *)
(* put on the main queue (`answers`), where the completion runs later.     *)
(*                                                                         *)
(* Documents are numbers, their order being the order of document keys in  *)
(* a query result.  The n-th addDocument of this phone creates document n; *)
(* OtherDocs are the events of other phones.  The app never deletes a      *)
(* document (DataHandler.deleteEvent has no caller).                       *)
(***************************************************************************)
EXTENDS Naturals, Sequences

CONSTANTS MaxReads,     \* bound: how often getDocuments is called
          MaxWrites,    \* bound: how often addDocument is called
          OtherDocs,    \* documents written by other phones
          Completions   \* the closures passed to readEvents

ASSUME BoundsAssumption == MaxReads \in Nat /\ MaxWrites \in Nat
ASSUME OtherDocsAssumption ==
  OtherDocs \subseteq Nat /\ OtherDocs \cap (1..MaxWrites) = {}

VARIABLES
  requests,    \* tasks on the worker queue, oldest first
  waiting,     \* reads with a listener that has not raised its event
  answers,     \* events on the main queue, oldest first
  known,       \* documents in the remote document cache
  pending,     \* this user's documents in the mutation queue
  parked,      \* documents in the mutation queues of other users
  nextRead,    \* number of the next getDocuments
  nextWrite,   \* number of the next addDocument
  withdrawn    \* history: documents once rejected, lost, hidden or refused

storeVars == <<requests, waiting, answers, known, pending, parked,
               nextRead, nextWrite, withdrawn>>

MyDocs == 1..MaxWrites
Docs == MyDocs \cup OtherDocs

\* seen is history: how many addDocument calls preceded this getDocuments.
Read == [op: {"read"}, id: 1..MaxReads, seen: 0..MaxWrites,
         completion: Completions]
Write == [op: {"write"}, doc: MyDocs]
Answer == [read: Read, ok: BOOLEAN, docs: SUBSET Docs]

\* Fault: queries read the document cache without the mutations.
LocalViewCacheOnly == known

(* The result of the events query on the local store: the cached documents *)
(* with the mutations of the current user laid over them.                  *)
LocalView == known \cup pending

\* Fault: waiting listeners are answered newest first.
RaiseNewestFirst(reads, docs) ==
  [i \in 1..Len(reads) |->
     [read |-> reads[Len(reads) + 1 - i], ok |-> TRUE, docs |-> docs]]

Raise(reads, docs) ==
  [i \in 1..Len(reads) |-> [read |-> reads[i], ok |-> TRUE, docs |-> docs]]

RaiseError(reads) ==
  [i \in 1..Len(reads) |-> [read |-> reads[i], ok |-> FALSE, docs |-> {}]]

-----------------------------------------------------------------------------
StoreInit ==
  /\ requests = <<>> /\ waiting = <<>> /\ answers = <<>>
  /\ known \in SUBSET OtherDocs
  /\ pending = {} /\ parked = {}
  /\ nextRead = 1 /\ nextWrite = 1
  /\ withdrawn = {}

(* Query::GetDocuments: the listener is registered on the worker queue.    *)
GetDocuments(c) ==
  /\ nextRead <= MaxReads
  /\ nextRead' = nextRead + 1
  /\ requests' = Append(requests, [op |-> "read", id |-> nextRead,
                                   seen |-> nextWrite - 1, completion |-> c])
  /\ UNCHANGED <<waiting, answers, known, pending, parked, nextWrite,
                 withdrawn>>

(* CollectionReference::AddDocument: a fresh key, the write is enqueued.   *)
AddDocument ==
  /\ nextWrite <= MaxWrites
  /\ nextWrite' = nextWrite + 1
  /\ requests' = Append(requests, [op |-> "write", doc |-> nextWrite])
  /\ UNCHANGED <<waiting, answers, known, pending, parked, nextRead,
                 withdrawn>>

(* The worker adds a listener; a view in sync or a client offline answers  *)
(* it at once.                                                             *)
ProcessRead ==
  /\ requests # <<>> /\ Head(requests).op = "read"
  /\ requests' = Tail(requests)
  /\ LET reads == Append(waiting, Head(requests)) IN
       \/ waiting' = reads /\ UNCHANGED answers
       \/ waiting' = <<>> /\ answers' = answers \o Raise(reads, LocalView)
  /\ UNCHANGED <<known, pending, parked, nextRead, nextWrite, withdrawn>>

(* The worker stores a write: from here on it survives a restart.          *)
ProcessWrite ==
  /\ requests # <<>> /\ Head(requests).op = "write"
  /\ requests' = Tail(requests)
  /\ pending' = pending \cup {Head(requests).doc}
  /\ UNCHANGED <<waiting, answers, known, parked, nextRead, nextWrite,
                 withdrawn>>

\* Fault: a snapshot of the server replaces the whole document cache.
LearnReplacing ==
  \E D \in SUBSET (OtherDocs \cup pending \cup parked \cup withdrawn) :
    /\ known' = D
    /\ \/ UNCHANGED <<waiting, answers>>
       \/ /\ waiting' = <<>>
          /\ answers' = answers \o Raise(waiting, known' \cup pending)
    /\ UNCHANGED <<requests, pending, parked, nextRead, nextWrite, withdrawn>>

(* The server sends documents (its own or committed ones of this phone).   *)
(* All waiting reads are answered together, or none.                       *)
Learn ==
  \E D \in SUBSET (OtherDocs \cup pending \cup parked \cup withdrawn) :
    /\ known' = known \cup D
    /\ \/ UNCHANGED <<waiting, answers>>
       \/ /\ waiting' = <<>>
          /\ answers' = answers \o Raise(waiting, known' \cup pending)
    /\ UNCHANGED <<requests, pending, parked, nextRead, nextWrite, withdrawn>>

(* The server refuses a cached document that it left out of the query: the *)
(* document is removed from the cache.                                     *)
Forget(d) ==
  /\ d \in known
  /\ known' = known \ {d}
  /\ withdrawn' = withdrawn \cup {d}
  /\ \/ UNCHANGED <<waiting, answers>>
     \/ /\ waiting' = <<>>
        /\ answers' = answers \o Raise(waiting, known' \cup pending)
  /\ UNCHANGED <<requests, pending, parked, nextRead, nextWrite>>

(* The client goes offline: waiting reads are answered from the cache.     *)
AnswerFromCache ==
  /\ waiting # <<>>
  /\ waiting' = <<>>
  /\ answers' = answers \o Raise(waiting, LocalView)
  /\ UNCHANGED <<requests, known, pending, parked, nextRead, nextWrite,
                 withdrawn>>

(* The server rejects the query: every listener gets the error.            *)
FailReads ==
  /\ waiting # <<>>
  /\ waiting' = <<>>
  /\ answers' = answers \o RaiseError(waiting)
  /\ UNCHANGED <<requests, known, pending, parked, nextRead, nextWrite,
                 withdrawn>>

\* Fault: the acknowledged batch is removed and its document not cached.
AcknowledgeUncached(d) ==
  /\ d \in pending
  /\ pending' = pending \ {d}
  /\ UNCHANGED <<requests, waiting, answers, known, parked, nextRead, nextWrite,
                 withdrawn>>

(* The server acknowledges, or rejects, a write.                           *)
Acknowledge(d) ==
  /\ d \in pending
  /\ pending' = pending \ {d}
  /\ known' = known \cup {d}
  /\ UNCHANGED <<requests, waiting, answers, parked, nextRead, nextWrite,
                 withdrawn>>

Reject(d) ==
  /\ d \in pending
  /\ pending' = pending \ {d}
  /\ withdrawn' = withdrawn \cup {d}
  /\ UNCHANGED <<requests, waiting, answers, known, parked, nextRead,
                 nextWrite>>

(* Another user is signed in (or none): the mutation queue is swapped.     *)
SwitchUser ==
  \E P \in SUBSET (pending \cup parked) :
    /\ pending' = P
    /\ parked' = (pending \cup parked) \ P
    /\ withdrawn' = withdrawn \cup (pending \ P)
    /\ UNCHANGED <<requests, waiting, answers, known, nextRead, nextWrite>>

(* The main queue runs the completion of the oldest event.                 *)
Deliver ==
  /\ answers # <<>>
  /\ answers' = Tail(answers)
  /\ UNCHANGED <<requests, waiting, known, pending, parked, nextRead,
                 nextWrite, withdrawn>>

QueuedWrites == {requests[i].doc : i \in {j \in 1..Len(requests) :
                                            requests[j].op = "write"}}

(* The app is killed and started again: queues in memory are gone, the     *)
(* cache and the mutation queues are on disk.                              *)
Relaunch ==
  /\ requests' = <<>> /\ waiting' = <<>> /\ answers' = <<>>
  /\ withdrawn' = withdrawn \cup QueuedWrites
  /\ UNCHANGED <<known, pending, parked, nextRead, nextWrite>>

(* What the client and the server do on their own.                         *)
StoreStep ==
  \/ ProcessRead \/ ProcessWrite
  \/ Learn \/ AnswerFromCache \/ FailReads
  \/ \E d \in Docs : Forget(d)
  \/ \E d \in MyDocs : Acknowledge(d) \/ Reject(d)
  \/ SwitchUser

StoreNext ==
  \/ \E c \in Completions : GetDocuments(c)
  \/ AddDocument \/ StoreStep \/ Deliver \/ Relaunch

StoreSpec == StoreInit /\ [][StoreNext]_storeVars

-----------------------------------------------------------------------------
StoreTypeOK ==
  /\ requests \in Seq(Read \cup Write)
  /\ waiting \in Seq(Read)
  /\ answers \in Seq(Answer)
  /\ known \in SUBSET Docs
  /\ pending \in SUBSET MyDocs /\ parked \in SUBSET MyDocs
  /\ nextRead \in 1..(MaxReads + 1) /\ nextWrite \in 1..(MaxWrites + 1)
  /\ withdrawn \in SUBSET Docs

(* Reads are answered in the order in which they were issued, each at most *)
(* once: getDocuments results are never applied out of order.              *)
ReadsInOrder ==
  /\ \A i, j \in 1..Len(answers) :
        i < j => answers[i].read.id < answers[j].read.id
  /\ \A i, j \in 1..Len(waiting) : i < j => waiting[i].id < waiting[j].id
  /\ \A i, j \in 1..Len(requests) :
        i < j /\ requests[i].op = "read" /\ requests[j].op = "read" =>
          requests[i].id < requests[j].id
  /\ \A i \in 1..Len(answers), j \in 1..Len(waiting) :
        answers[i].read.id < waiting[j].id
  /\ \A j \in 1..Len(requests) : requests[j].op = "read" =>
        /\ \A i \in 1..Len(answers) : answers[i].read.id < requests[j].id
        /\ \A i \in 1..Len(waiting) : waiting[i].id < requests[j].id

(* Read your writes: the result of a getDocuments contains every document  *)
(* this phone added before issuing it, unless that document was rejected,  *)
(* lost with the process, or hidden by a change of user.                   *)
ReadYourWrites ==
  \A i \in 1..Len(answers) :
     answers[i].ok => 1..answers[i].read.seen \subseteq
                        answers[i].docs \cup withdrawn

(* Results only grow: of two results on the main queue the later one       *)
(* contains the earlier, up to withdrawn documents.                        *)
ResultsGrow ==
  \A i, j \in 1..Len(answers) :
     i < j /\ answers[i].ok /\ answers[j].ok =>
        answers[i].docs \subseteq answers[j].docs \cup withdrawn
=============================================================================
