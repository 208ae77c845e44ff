----------------------------- MODULE Firestore ------------------------------
(***************************************************************************)
(* The read path of the Firestore client that DataHandler.swift calls, as  *)
(* its serial worker queue runs it: event manager, sync engine, local      *)
(* store, remote store, watch stream and online state tracker, for the one *)
(* query of the app (all of "events").  It implements EventStore.          *)
(*                                                                         *)
(* A task of the worker queue is one action.  Callbacks of the stream, of  *)
(* its timers and of the credentials come between any two tasks.  How      *)
(* messages of the watch stream add up to a snapshot is left out, and how  *)
(* mutations reach the server is WriteStream's: here the server sends any  *)
(* consistent snapshot, and acknowledges or rejects any mutation of the    *)
(* current user.                                                           *)
(***************************************************************************)
EXTENDS Naturals, Sequences, FiniteSets

CONSTANTS MaxReads, MaxWrites, OtherDocs, Completions,  \* as in EventStore
          Users,        \* whose mutation queues there are; one is "nobody"
          MaxSwitches   \* bound: changes of credentials

ASSUME FirestoreAssumption ==
  /\ MaxReads \in Nat /\ MaxWrites \in Nat /\ MaxSwitches \in Nat
  /\ OtherDocs \subseteq Nat /\ OtherDocs \cap (1..MaxWrites) = {}

VARIABLES
  workerQueue,    \* tasks of FirestoreClient, oldest first
  mainQueue,      \* events for the listeners on the user executor
  muted,          \* reads whose AsyncEventListener is muted
  listeners,      \* of the query in the EventManager, in order
  view,           \* SyncEngine's view of the query
  synced,         \* keys of its target: View's and the query cache's
  limboTargets,   \* documents with a limbo listen
  remoteDocs,     \* the remote document cache
  committed,      \* those of it that hold committed mutations
  mutations,      \* the documents in each user's mutation queue
  sdkUser,        \* SyncEngine's current user
  stream,         \* state of the watch stream
  idle,           \* its idle timer runs
  tracker,        \* OnlineStateTracker
  orphaned,       \* history: this attempt lost its last listen
  shown,          \* the server's: what it has sent for the query
  nextRead, nextWrite, withdrawn,   \* as in EventStore
  switches        \* number of credential changes so far

callVars == <<nextRead, nextWrite, switches>>
engineVars == <<listeners, view, limboTargets, mainQueue>>
storeVars == <<synced, shown, remoteDocs, committed, mutations, sdkUser,
               withdrawn>>
streamVars == <<stream, idle, tracker, orphaned>>
vars == <<workerQueue, muted, callVars, engineVars, storeVars, streamVars>>

MyDocs == 1..MaxWrites
Docs == MyDocs \cup OtherDocs

\* Bound: later events of one listener are muted all alike; two stand for more.
EventsPerRead == 2

\* The entries of s at the indices I, in their order.
Entries(s, I) ==
  [k \in 1..Cardinality(I) |->
     s[CHOOSE i \in I : Cardinality({j \in I : j <= i}) = k]]

LocalView == remoteDocs \cup mutations[sdkUser]

NoView == [open |-> FALSE, docs |-> {}, local |-> {}, current |-> FALSE,
           limbo |-> {}]
FreshView == [NoView EXCEPT !.open = TRUE, !.docs = LocalView,
                            !.local = mutations[sdkUser]]

\* SyncState::Synced: the snapshot is not from the cache.
IsSynced(v) == v.current /\ v.limbo = {}

-----------------------------------------------------------------------------
\* The online state tracker (kMaxWatchStreamFailures = 1).

Unknown == [state |-> "Unknown", failures |-> 0, timer |-> FALSE]
Online == [Unknown EXCEPT !.state = "Online"]

\* Fault: the failures counted before are kept.
UpdateKeepingFailures(state) ==
  [state |-> state, failures |-> tracker.failures, timer |-> FALSE]

UpdateState(state) == [state |-> state, failures |-> 0, timer |-> FALSE]

StreamStarted(t) ==
  IF t.failures = 0 THEN [t EXCEPT !.state = "Unknown", !.timer = TRUE] ELSE t

StreamFailed(t) ==
  IF t.state = "Online" THEN [t EXCEPT !.state = "Unknown"]
  ELSE [state |-> "Offline", failures |-> 1, timer |-> FALSE]

-----------------------------------------------------------------------------
\* Events and views.

Event(read, ok, docs) == [read |-> read, ok |-> ok, docs |-> docs]

\* The events for the listener of this read that the main queue holds.
EventsOf(read) == {j \in 1..Len(mainQueue) : mainQueue[j].read = read}

\* One event for each of these listeners, in their order, onto the main queue.
Post(ls, ok, docs) ==
  LET due == Entries(ls, {i \in 1..Len(ls) :
               Cardinality(EventsOf(ls[i].read)) < EventsPerRead})
  IN  mainQueue \o [i \in 1..Len(due) |-> Event(due[i].read, ok, docs)]

AllRaised == [i \in 1..Len(listeners) |-> [listeners[i] EXCEPT !.raised = TRUE]]
Unraised ==
  Entries(listeners, {i \in 1..Len(listeners) : ~listeners[i].raised})
Raised == Entries(listeners, {i \in 1..Len(listeners) : listeners[i].raised})
ListenersBut(id) ==
  Entries(listeners, {i \in 1..Len(listeners) : listeners[i].read.id # id})

(* QueryListener::ShouldRaiseInitialEvent, waiting for sync when online.   *)
ShouldRaiseInitialEvent(v) == IsSynced(v) \/ tracker.state = "Offline"

(* EventManager::OnViewSnapshots with the snapshot of v, if it is one.     *)
EmitSnapshot(v) ==
  IF v.docs = view.docs /\ v.local = view.local /\ IsSynced(v) = IsSynced(view)
  THEN UNCHANGED <<listeners, mainQueue>>
  ELSE IF ShouldRaiseInitialEvent(v)
  THEN listeners' = AllRaised /\ mainQueue' = Post(listeners, TRUE, v.docs)
  ELSE UNCHANGED listeners /\ mainQueue' = Post(Raised, TRUE, v.docs)

(* Of the changed documents, those that still have local mutations for the *)
(* view: an acknowledged write counts as local until Watch confirms it.    *)
StillLocal(d) == d \in mutations'[sdkUser'] \/ d \in view.local \cap committed'

(* View::ApplyChanges for the documents `changed`, in a target that is     *)
(* current or not; the sync engine listens to documents new in limbo.      *)
ApplyChanges(changed, current) ==
  LET docs == (view.docs \ changed)
                \cup (changed \cap (remoteDocs' \cup mutations'[sdkUser']))
      local == {d \in docs : IF d \in changed THEN StillLocal(d)
                                              ELSE d \in view.local}
      limbo == IF current THEN docs \ (synced' \cup local) ELSE view.limbo
      v == [open |-> TRUE, docs |-> docs, local |-> local,
            current |-> current, limbo |-> limbo]
  IN  IF ~view.open THEN UNCHANGED engineVars
      ELSE /\ view' = v
           /\ EmitSnapshot(v)
           /\ limboTargets' = (limboTargets \ (view.limbo \ limbo))
                                \cup (limbo \ view.limbo)

\* Fault: a listener that waits is not told.
GoOfflineSilently ==
  view' = [view EXCEPT !.current = FALSE] /\ UNCHANGED <<listeners, mainQueue>>

(* SyncEngine::HandleOnlineStateChange(Offline): the view is no longer     *)
(* current, and then the waiting listeners raise what they have.           *)
GoOffline ==
  /\ view' = [view EXCEPT !.current = FALSE]
  /\ listeners' = AllRaised
  /\ mainQueue' = Post(IF IsSynced(view) THEN listeners ELSE Unraised,
                       TRUE, view.docs)

-----------------------------------------------------------------------------
\* Calls from the main queue.

GetDocuments(c) ==
  /\ nextRead <= MaxReads
  /\ nextRead' = nextRead + 1
  /\ workerQueue' = Append(workerQueue,
       [op |-> "read", id |-> nextRead, seen |-> nextWrite - 1,
        completion |-> c])
  /\ UNCHANGED <<nextWrite, switches, muted, engineVars, storeVars, streamVars>>

AddDocument ==
  /\ nextWrite <= MaxWrites
  /\ nextWrite' = nextWrite + 1
  /\ workerQueue' = Append(workerQueue, [op |-> "write", doc |-> nextWrite])
  /\ UNCHANGED <<nextRead, switches, muted, engineVars, storeVars, streamVars>>

(* The credentials provider: another user, none, or the same with a new    *)
(* token.                                                                  *)
CredentialChange(u) ==
  /\ switches < MaxSwitches
  /\ switches' = switches + 1
  /\ workerQueue' = Append(workerQueue, [op |-> "credential", user |-> u])
  /\ UNCHANGED <<nextRead, nextWrite, muted, engineVars, storeVars, streamVars>>

\* Fault: the listener is removed but not muted.
DeliverUnmuted ==
  /\ mainQueue # <<>>
  /\ mainQueue' = Tail(mainQueue)
  /\ LET e == Head(mainQueue) IN
       IF e.ok
       THEN workerQueue' = Append(workerQueue,
                                  [op |-> "unlisten", id |-> e.read.id])
       ELSE UNCHANGED workerQueue
  /\ UNCHANGED <<muted, callVars, listeners, view, limboTargets, storeVars,
                 streamVars>>

(* The main queue runs the oldest event.  ListenOnce removes its listener  *)
(* before it passes the first one on, so that later ones are dropped.      *)
Deliver ==
  /\ mainQueue # <<>>
  /\ mainQueue' = Tail(mainQueue)
  /\ LET e == Head(mainQueue) IN
       IF e.ok /\ e.read.id \notin muted
       THEN /\ muted' = muted \cup {e.read.id}
            /\ workerQueue' = Append(workerQueue,
                                     [op |-> "unlisten", id |-> e.read.id])
       ELSE UNCHANGED <<muted, workerQueue>>
  /\ UNCHANGED <<callVars, listeners, view, limboTargets, storeVars, streamVars>>

-----------------------------------------------------------------------------
\* Tasks of the worker queue.

Task(op) == workerQueue # <<>> /\ Head(workerQueue).op = op
              /\ workerQueue' = Tail(workerQueue)

StartWatchStream(t) ==
  /\ stream' = IF stream = "Error" THEN "Backoff" ELSE "Starting"
  /\ tracker' = StreamStarted(t)
  /\ orphaned' = FALSE
  /\ UNCHANGED idle

(* EventManager::AddQueryListener, and SyncEngine::Listen for the first.   *)
AddQueryListener ==
  /\ Task("read")
  /\ LET read == Head(workerQueue)
         v == IF view.open THEN view ELSE FreshView
         listener == [read |-> read, raised |-> ShouldRaiseInitialEvent(v)]
     IN  /\ view' = v
         /\ listeners' = Append(listeners, listener)
         /\ mainQueue' = IF listener.raised
                         THEN Post(<<listener>>, TRUE, v.docs) ELSE mainQueue
  /\ IF ~view.open /\ stream \in {"Initial", "Error"}
     THEN StartWatchStream(tracker)
     ELSE /\ idle' = (idle /\ view.open)
          /\ UNCHANGED <<stream, tracker, orphaned>>
  /\ UNCHANGED <<muted, callVars, limboTargets, storeVars>>

\* Fault: the listens to limbo documents are left behind.
RemoveKeepingLimbo ==
  /\ Task("unlisten")
  /\ LET left == ListenersBut(Head(workerQueue).id) IN
       /\ listeners' = left
       /\ view' = IF left = <<>> THEN NoView ELSE view
  /\ UNCHANGED <<muted, callVars, mainQueue, storeVars, limboTargets, stream,
                 idle, tracker, orphaned>>

(* RemoteStore::StopListening, of the last listens: an open stream becomes *)
(* idle, and without one the online state is Unknown again.                *)
StopListening ==
  IF stream = "Open" THEN idle' = TRUE /\ UNCHANGED <<tracker, orphaned>>
  ELSE tracker' = UpdateState("Unknown") /\ orphaned' = TRUE /\ UNCHANGED idle

(* EventManager::RemoveQueryListener: with the last listener the view and  *)
(* all listens go.                                                         *)
RemoveQueryListener ==
  /\ Task("unlisten")
  /\ LET left == ListenersBut(Head(workerQueue).id) IN
       /\ listeners' = left
       /\ IF left = <<>> /\ view.open
          THEN view' = NoView /\ limboTargets' = {} /\ StopListening
          ELSE UNCHANGED <<view, limboTargets, idle, tracker, orphaned>>
  /\ UNCHANGED <<muted, callVars, mainQueue, storeVars, stream>>

(* SyncEngine::WriteMutations: the batch is stored, then the view changes. *)
WriteMutations ==
  /\ Task("write")
  /\ LET d == Head(workerQueue).doc IN
       /\ mutations' = [mutations EXCEPT ![sdkUser] = @ \cup {d}]
       /\ UNCHANGED <<synced, shown, remoteDocs, committed, sdkUser, withdrawn>>
       /\ ApplyChanges({d}, view.current)
  /\ UNCHANGED <<muted, callVars, streamVars>>

(* FirestoreClient::Initialize, the first task of a process.               *)
Initialize ==
  /\ Task("initialize")
  /\ sdkUser' = Head(workerQueue).user
  /\ withdrawn' = withdrawn \cup (mutations[sdkUser] \ mutations[sdkUser'])
  /\ UNCHANGED <<synced, shown, remoteDocs, committed, mutations, muted, callVars,
                 engineVars, streamVars>>

\* Fault: the documents of the previous user's batches are not looked at.
ChangedByUserNewOnly(u) == mutations[u]

(* LocalStore::HandleUserChange: the documents in the old and new batches. *)
ChangedByUser(u) ==
  IF u = sdkUser THEN {} ELSE mutations[sdkUser] \cup mutations[u]

(* SyncEngine::HandleCredentialChange: the mutation queue is swapped, then *)
(* the streams are stopped and started again.                              *)
HandleCredentialChange ==
  /\ Task("credential")
  /\ LET u == Head(workerQueue).user IN
       /\ sdkUser' = u
       /\ withdrawn' = withdrawn \cup (mutations[sdkUser] \ mutations[u])
       /\ UNCHANGED <<synced, shown, remoteDocs, committed, mutations>>
       /\ ApplyChanges(ChangedByUser(u), view.current)
  /\ idle' = FALSE
  /\ orphaned' = FALSE
  /\ IF view.open
     THEN /\ stream' = IF stream = "Error" THEN "Backoff" ELSE "Starting"
          /\ tracker' = StreamStarted(UpdateState("Unknown"))
     ELSE /\ stream' = IF stream = "Error" THEN "Error" ELSE "Initial"
          /\ tracker' = UpdateState("Unknown")
  /\ UNCHANGED <<muted, callVars>>

-----------------------------------------------------------------------------
\* The watch stream and its timers.

StreamStep == UNCHANGED <<workerQueue, muted, callVars>>

(* The token came and the stream is open: listens are sent.                *)
OnWatchStreamOpen ==
  /\ stream = "Starting" /\ stream' = "Open"
  /\ StreamStep /\ UNCHANGED <<idle, tracker, orphaned, engineVars, storeVars>>

(* The stream fails (or there is no token): as long as something is        *)
(* listened to it is started again, after a delay.                         *)
OnWatchStreamClose ==
  /\ stream \in {"Starting", "Open"}
  /\ idle' = FALSE /\ orphaned' = FALSE
  /\ IF view.open
     THEN /\ stream' = "Backoff"
          /\ tracker' = StreamStarted(StreamFailed(tracker))
          /\ IF tracker'.state = "Offline" /\ tracker.state # "Offline"
             THEN GoOffline ELSE UNCHANGED <<listeners, view, mainQueue>>
     ELSE /\ stream' = "Error"
          /\ tracker' = UpdateState("Unknown")
          /\ UNCHANGED <<listeners, view, mainQueue>>
  /\ StreamStep /\ UNCHANGED <<limboTargets, storeVars>>

BackoffElapsed ==
  /\ stream = "Backoff" /\ stream' = "Starting"
  /\ StreamStep /\ UNCHANGED <<idle, tracker, orphaned, engineVars, storeVars>>

(* kOnlineStateTimeout: the server did not answer in ten seconds.          *)
OnlineStateTimeout ==
  /\ tracker.timer
  /\ tracker' = [tracker EXCEPT !.timer = FALSE, !.state = "Offline"]
  /\ GoOffline
  /\ StreamStep /\ UNCHANGED <<stream, idle, orphaned, limboTargets, storeVars>>

IdleTimeout ==
  /\ idle /\ stream = "Open"
  /\ stream' = "Initial" /\ idle' = FALSE /\ orphaned' = FALSE
  /\ tracker' = UpdateState("Unknown")
  /\ StreamStep /\ UNCHANGED <<engineVars, storeVars>>

(* Every message of the server makes the client online.                    *)
WatchMessage ==
  /\ stream = "Open"
  /\ tracker' = UpdateState("Online") /\ orphaned' = FALSE
  /\ StreamStep /\ UNCHANGED <<stream, idle>>

(* A message without a snapshot.                                           *)
OnWatchStreamChange == WatchMessage /\ UNCHANGED <<engineVars, storeVars>>

(* A snapshot: the target's documents are S, and it is current or not.     *)
(* Each document of S is new, confirmed, or known as it is.  The server    *)
(* deletes nothing: when current, it has sent all that it sent before.     *)
ApplyRemoteEvent(S, current) ==
  /\ view.open
  /\ current => shown \subseteq S
  /\ WatchMessage
  /\ synced' = S /\ shown' = shown \cup S
  /\ remoteDocs' = remoteDocs \cup S
  /\ committed' = committed \ S
  /\ UNCHANGED <<mutations, sdkUser, withdrawn>>
  /\ ApplyChanges((S \ remoteDocs) \cup (S \cap committed), current)

\* Fault: the sync engine keeps the view of the rejected query.
HandleRejectedKeepingView ==
  /\ view.open /\ stream = "Open"
  /\ mainQueue' = Post(listeners, FALSE, {}) /\ listeners' = <<>>
  /\ WatchMessage /\ UNCHANGED <<view, limboTargets, storeVars>>

(* The query's target is rejected: each listener gets the error, and the   *)
(* event manager and the sync engine forget the query and its limbo        *)
(* documents (of the listens, only these mark the stream idle).            *)
HandleRejectedListen ==
  /\ view.open /\ stream = "Open"
  /\ tracker' = UpdateState("Online") /\ orphaned' = FALSE
  /\ idle' = (limboTargets # {})
  /\ mainQueue' = Post(listeners, FALSE, {})
  /\ listeners' = <<>> /\ view' = NoView /\ limboTargets' = {}
  /\ StreamStep /\ UNCHANGED <<stream, storeVars>>

\* Fault: the document still counts as one with committed mutations.
HandleRejectedLimboCommitted(d) ==
  /\ d \in limboTargets
  /\ WatchMessage
  /\ remoteDocs' = remoteDocs \ {d}
  /\ withdrawn' = withdrawn \cup {d}
  /\ limboTargets' = limboTargets \ {d}
  /\ UNCHANGED <<synced, shown, mutations, sdkUser, committed, listeners, view,
                 mainQueue>>

(* The listen to a limbo document is rejected: it counts as deleted and is *)
(* removed from the cache.                                                 *)
HandleRejectedLimbo(d) ==
  /\ d \in limboTargets
  /\ WatchMessage
  /\ remoteDocs' = remoteDocs \ {d}
  /\ committed' = committed \ {d}
  /\ withdrawn' = withdrawn \cup {d}
  /\ UNCHANGED <<synced, shown, mutations, sdkUser>>
  /\ LET docs == view.docs \ ({d} \ mutations[sdkUser])
         v == [view EXCEPT !.docs = docs, !.local = @ \cap docs,
                           !.limbo = IF view.current THEN @ \ {d} ELSE @]
     IN  view' = v /\ EmitSnapshot(v) /\ limboTargets' = limboTargets \ {d}

-----------------------------------------------------------------------------
\* Answers to writes (WriteStream has the pipeline behind them).

(* SyncEngine::HandleSuccessfulWrite: the document goes into the cache as  *)
(* committed, unless Watch has sent it before the acknowledgement.         *)
HandleSuccessfulWrite(d) ==
  /\ d \in mutations[sdkUser]
  /\ mutations' = [mutations EXCEPT ![sdkUser] = @ \ {d}]
  /\ remoteDocs' = remoteDocs \cup {d}
  /\ committed' = committed \cup ({d} \ remoteDocs)
  /\ UNCHANGED <<synced, shown, sdkUser, withdrawn>>
  /\ ApplyChanges({d}, view.current)
  /\ StreamStep /\ UNCHANGED streamVars

(* SyncEngine::HandleRejectedWrite: the batch is dropped.                  *)
HandleRejectedWrite(d) ==
  /\ d \in mutations[sdkUser]
  /\ mutations' = [mutations EXCEPT ![sdkUser] = @ \ {d}]
  /\ withdrawn' = withdrawn \cup {d}
  /\ UNCHANGED <<synced, shown, remoteDocs, committed, sdkUser>>
  /\ ApplyChanges({d}, view.current)
  /\ StreamStep /\ UNCHANGED streamVars

-----------------------------------------------------------------------------
QueuedWrites == {workerQueue[i].doc : i \in {j \in 1..Len(workerQueue) :
                                               workerQueue[j].op = "write"}}

(* The process ends and is started again; what is on disk stays.           *)
Relaunch(u) ==
  /\ workerQueue' = <<[op |-> "initialize", user |-> u]>>
  /\ mainQueue' = <<>> /\ muted' = {} /\ listeners' = <<>>
  /\ view' = NoView /\ limboTargets' = {}
  /\ stream' = "Initial" /\ idle' = FALSE /\ orphaned' = FALSE
  /\ tracker' = Unknown
  /\ withdrawn' = withdrawn \cup QueuedWrites
  /\ UNCHANGED <<callVars, synced, shown, remoteDocs, committed, mutations, sdkUser>>

Init ==
  /\ sdkUser \in Users
  /\ workerQueue = <<[op |-> "initialize", user |-> sdkUser]>>
  /\ mainQueue = <<>> /\ muted = {} /\ listeners = <<>>
  /\ view = NoView /\ limboTargets = {}
  /\ remoteDocs \in SUBSET OtherDocs /\ synced = remoteDocs
  /\ shown = {}
  /\ committed = {} /\ withdrawn = {}
  /\ mutations = [u \in Users |-> {}]
  /\ stream = "Initial" /\ idle = FALSE /\ orphaned = FALSE
  /\ tracker = Unknown
  /\ nextRead = 1 /\ nextWrite = 1 /\ switches = 0

WorkerStep ==
  \/ Initialize \/ AddQueryListener \/ RemoveQueryListener
  \/ WriteMutations \/ HandleCredentialChange

\* What the server may send: its own documents and this phone's, once sent.
Sendable == OtherDocs \cup remoteDocs \cup withdrawn
              \cup UNION {mutations[u] : u \in Users}

(* The server's whole answer: it confirms all that the cache holds.        *)
CatchUp == ApplyRemoteEvent(remoteDocs \cup shown, TRUE)

Next ==
  \/ \E c \in Completions : GetDocuments(c)
  \/ AddDocument \/ Deliver
  \/ \E u \in Users : CredentialChange(u) \/ Relaunch(u)
  \/ WorkerStep
  \/ OnWatchStreamOpen \/ OnWatchStreamClose \/ BackoffElapsed
  \/ OnlineStateTimeout \/ IdleTimeout \/ OnWatchStreamChange
  \/ \E S \in SUBSET Sendable, current \in BOOLEAN : ApplyRemoteEvent(S, current)
  \/ HandleRejectedListen
  \/ \E d \in Docs : HandleRejectedLimbo(d)
  \/ \E d \in MyDocs : HandleSuccessfulWrite(d) \/ HandleRejectedWrite(d)

Spec == Init /\ [][Next]_vars

(***************************************************************************)
(* Fairness.  The worker queue, the main queue and the timers run, a token *)
(* comes or its request fails.  Of the backend: an attempt ends in the     *)
(* server's answer or in an error, and where time and again the server has *)
(* begun to talk, it answers in the end.                                   *)
(***************************************************************************)
ClientFairness ==
  /\ WF_vars(WorkerStep) /\ WF_vars(Deliver)
  /\ WF_vars(OnWatchStreamOpen) /\ WF_vars(BackoffElapsed)
  /\ WF_vars(OnlineStateTimeout) /\ WF_vars(IdleTimeout)

BackendFairness ==
  /\ WF_vars(CatchUp \/ OnWatchStreamClose)
  /\ SF_vars(tracker.state = "Online" /\ CatchUp)

FairSpec == Spec /\ ClientFairness /\ BackendFairness

\* The backend may never answer and never fail.
SilentSpec == Spec /\ ClientFairness

-----------------------------------------------------------------------------
\* The client as EventStore describes it.

\* Oldest event of a listener that is not muted: later ones will be dropped.
IsFirst(i) ==
  /\ mainQueue[i].read.id \notin muted
  /\ \A j \in 1..(i - 1) : mainQueue[j].read # mainQueue[i].read

StoreRequests ==
  Entries(workerQueue, {i \in 1..Len(workerQueue) :
                          workerQueue[i].op \in {"read", "write"}})
WaitingReads == [i \in 1..Len(Unraised) |-> Unraised[i].read]
FirstEvents == Entries(mainQueue, {i \in 1..Len(mainQueue) : IsFirst(i)})
Parked == UNION {mutations[u] : u \in Users \ {sdkUser}}

Store == INSTANCE EventStore WITH
  requests <- StoreRequests, waiting <- WaitingReads, answers <- FirstEvents,
  known <- remoteDocs, pending <- mutations[sdkUser], parked <- Parked

(* The client implements EventStore: what the app may rely on is what the  *)
(* listeners, views, limbo documents, online states and streams provide.   *)
ImplementsEventStore == Store!StoreSpec

-----------------------------------------------------------------------------
(* Types; documents with committed mutations are in the cache.             *)
TypeOK ==
  /\ workerQueue \in Seq(Store!Read \cup Store!Write
                          \cup [op: {"unlisten"}, id: 1..MaxReads]
                          \cup [op: {"initialize", "credential"}, user: Users])
  /\ mainQueue \in Seq(Store!Answer) /\ muted \in SUBSET (1..MaxReads)
  /\ listeners \in Seq([read: Store!Read, raised: BOOLEAN])
  /\ view \in [open: BOOLEAN, docs: SUBSET Docs, local: SUBSET MyDocs,
               current: BOOLEAN, limbo: SUBSET Docs]
  /\ synced \cup shown \cup remoteDocs \cup limboTargets \subseteq Docs
  /\ committed \subseteq remoteDocs
  /\ mutations \in [Users -> SUBSET MyDocs] /\ sdkUser \in Users
  /\ stream \in {"Initial", "Starting", "Open", "Error", "Backoff"}
  /\ idle \in BOOLEAN /\ orphaned \in BOOLEAN
  /\ tracker \in [state: {"Unknown", "Online", "Offline"}, failures: 0..1,
                  timer: BOOLEAN]
  /\ nextRead \in 1..(MaxReads + 1) /\ nextWrite \in 1..(MaxWrites + 1)
  /\ withdrawn \in SUBSET Docs /\ switches \in 0..MaxSwitches

(* The view, changed event by event, shows exactly what a query of the     *)
(* local store would (View::ComputeDocumentChanges, HandleUserChange).     *)
ViewIsLocalView == view.open => view.docs = LocalView

(* Limbo documents of a current view are being looked up, no listen of one *)
(* outlives the view: a view can always become synced.                     *)
LimboIsWatched ==
  /\ view.current => limboTargets = view.limbo
  /\ limboTargets \subseteq view.limbo

(* A view is in the sync engine as long as the event manager has listeners *)
(* for the query (asserted in sync_engine.cc:92, 136), a waiting listener  *)
(* has a view that is not synced, and offline none waits.                  *)
ListenersHaveView ==
  /\ view.open <=> listeners # <<>>
  /\ Unraised # <<>> => ~IsSynced(view) /\ tracker.state # "Offline"

(* What the tracker and the stream assert (online_state_tracker.cc:62, 68, *)
(* 88, remote_store.cc:214): the timer runs only while the state is        *)
(* unknown and no failure was counted, never when a stream is started, and *)
(* an idle stream is not needed.                                           *)
TimerFitsState ==
  /\ tracker.timer => tracker.state = "Unknown" /\ tracker.failures = 0
  /\ tracker.state = "Online" => tracker.failures = 0
  /\ stream \in {"Initial", "Error"} => ~tracker.timer /\ ~view.open
  /\ idle => stream = "Open" /\ ~view.open

(* The listeners, views, timers and streams of the read path fit together  *)
(* whenever the client's assertions compare them.                          *)
ReadPathAsserts == ListenersHaveView /\ TimerFitsState

(* A read that waits while the online state is unknown has the ten-second  *)
(* timer, unless its stream was begun for reads that are gone.             *)
WaitsAreTimed ==
  Unraised # <<>> /\ tracker.state = "Unknown" => tracker.timer \/ orphaned

(* Every getDocuments ends: its completion runs, or the process ends.      *)
Pending(r) ==
  \/ \E i \in 1..Len(workerQueue) :
       workerQueue[i].op = "read" /\ workerQueue[i].id = r
  \/ \E i \in 1..Len(Unraised) : Unraised[i].read.id = r
  \/ \E i \in 1..Len(FirstEvents) : FirstEvents[i].read.id = r

ReadsEnd == \A r \in 1..MaxReads : Pending(r) ~> ~Pending(r)

(* online_state_tracker.cc:44: "If the timeout is reached, we transition   *)
(* to Offline rather than waiting indefinitely."                           *)
OnlineStateSettles ==
  view.open /\ tracker.state = "Unknown" ~>
    ~view.open \/ tracker.state # "Unknown"
=============================================================================
