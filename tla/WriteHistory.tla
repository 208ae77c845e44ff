---------------------------- MODULE WriteHistory -----------------------------
(***************************************************************************)
(* WriteStream as EventStore describes it.  The app numbers the documents  *)
(* it adds, the client the batches it stores; the two differ once a write  *)
(* was lost with the process.  Two history variables relate them; they     *)
(* record steps of WriteStream and allow each of them.                     *)
(***************************************************************************)
EXTENDS WriteStream, FiniteSets

VARIABLES
  document,    \* history: the document of each stored batch
  withdrawn    \* history: as in EventStore

history == <<document, withdrawn>>
historyVars == <<vars, history>>

WriteIndices(q) == {i \in 1..Len(q) : q[i].what = "write"}
Writes(q) == Cardinality(WriteIndices(q))
Unstored == Writes(workerQueue)

DocumentsOf(Q) == {document[b] : b \in Q}
Pending == DocumentsOf(queues[sdkUser])
Parked == DocumentsOf(UNION {queues[u] : u \in Users \ {sdkUser}})

\* The worker takes the writes in the order of the addDocument calls.
StoreRequests ==
  [i \in 1..Unstored |-> [op |-> "write", doc |-> added - Unstored + i]]

Store == INSTANCE EventStore WITH
  MaxReads <- 0, OtherDocs <- {}, Completions <- {},
  requests <- StoreRequests, waiting <- <<>>, answers <- <<>>,
  known <- DocumentsOf(acked), pending <- Pending, parked <- Parked,
  nextRead <- 1, nextWrite <- added + 1

-----------------------------------------------------------------------------
HistoryInit == Init /\ document = <<>> /\ withdrawn = {}

\* A batch is stored for the oldest document that waits for it.
RecordStored ==
  /\ WriteMutations
  /\ document' = Append(document, added - Unstored + 1)
  /\ UNCHANGED withdrawn

\* The batches of the previous user are hidden.
RecordHidden ==
  /\ HandleCredentialChange
  /\ withdrawn' = withdrawn \cup (Pending \ DocumentsOf(queues[sdkUser']))
  /\ UNCHANGED document

\* The server has refused a batch.
RecordRefused ==
  /\ HandleWriteError
  /\ withdrawn' = withdrawn \cup {document[Head(sent)]}
  /\ UNCHANGED document

\* What the worker has not stored is lost with the process.
RecordLost ==
  /\ Relaunch
  /\ withdrawn' = withdrawn \cup ((added - Unstored + 1)..added)
  /\ UNCHANGED document

\* All other steps lose nothing.
RecordNothing ==
  /\ \/ \E u \in Users : SignIn(u) \/ FetchAccessToken(u) \/ FetchFails(u)
     \/ TokenExpires \/ GetToken
     \/ OnNotification \/ OnToken \/ AddDocument \/ ResumeStartWithCredentials
     \/ OnStreamStart \/ OnWriteStreamHandshakeComplete
     \/ OnWriteStreamMutationResult \/ OnStreamError
     \/ BackoffElapsed \/ IdleTimeout \/ Commit
  /\ UNCHANGED history

HistoryNext ==
  RecordStored \/ RecordHidden \/ RecordRefused \/ RecordLost \/ RecordNothing

HistorySpec == HistoryInit /\ [][HistoryNext]_historyVars
FairHistorySpec == HistorySpec /\ Fairness

-----------------------------------------------------------------------------
(* The write path implements EventStore: a document that was added waits   *)
(* on the worker queue in its turn, is then in one user's mutation queue,  *)
(* and leaves it for the cache or by a refusal; nothing else loses it, but *)
(* a change of user (hidden) and the end of the process (not yet stored).  *)
WritesImplementEventStore == Store!StoreSpec
=============================================================================
