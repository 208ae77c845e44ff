----------------------------- MODULE WriteStream ------------------------------
(***************************************************************************)
(* How the events Mappy adds reach the server: the mutation queue of each  *)
(* user, RemoteStore's write pipeline, the write stream with its token,    *)
(* and the way a change of user takes from FIRAuth's work queue over the   *)
(* main queue to Firestore's worker queue.                                 *)
(*                                                                         *)
(* A token request notes the provider's token counter and the stream's     *)
(* close count and is dropped when either has moved on.  The two are only  *)
(* compared for equality, so each request carries a flag for each: `same`  *)
(* (the counter) and `live` (the close count).                             *)
(*                                                                         *)
(* Batches are numbered in the order in which they are stored; `writer` is *)
(* the user in whose queue each was stored.  The server is external: it    *)
(* takes the writes of a stream in order, commits or refuses each, and     *)
(* answers in order.  What the mutations say, and the stream token, which  *)
(* the client only stores, are left out.                                   *)
(***************************************************************************)
EXTENDS Naturals, Sequences

CONSTANTS Users,        \* those who sign in, and Nobody
          Nobody,
          MaxWrites,    \* bound: how often addDocument is called
          MaxPending,   \* kMaxPendingWrites
          MaxEvents     \* bound: sign-ins, sign-outs, expiries, restarts

NoToken == "none"

ASSUME UsersAssumption == Nobody \in Users /\ NoToken \notin Users
ASSUME WriteBounds == MaxWrites \in Nat /\ MaxPending \in Nat \ {0} /\ MaxEvents \in Nat

VARIABLES
  authUser,      \* FIRAuth's current user
  expired,       \* users whose access token is no longer valid
  authQueue,     \* getToken requests on FIRAuth's work queue
  fetches,       \* those that wait for the token service of a user
  mainQueue,     \* notifications and token callbacks
  currentUser,   \* FirebaseCredentialsProvider: user of the last notification
  forceRefresh,  \* ... the next request asks for a new token
  workerQueue,   \* tasks of Firestore's worker queue
  sdkUser,       \* SyncEngine's current user
  queues,        \* each user's mutation queue: batches by their id
  pipeline,      \* RemoteStore's write pipeline
  stream,        \* state of the write stream
  handshake,     \* the server has answered the handshake
  token,         \* user whose token the gRPC stream carries, if there is one
  idle,          \* the stream's idle timer runs
  sent,          \* batches on the wire the server has not taken
  answers,       \* answers on the wire the client has not read
  committed,     \* the server's: batches, each with the user who committed it
  refused,       \* the server's: batches refused for good
  acked,         \* history: batches the client took for committed
  writer,        \* history: who stored each batch
  added,         \* number of addDocument calls
  events         \* number of sign-ins, sign-outs, expiries and restarts

authVars == <<authUser, expired, fetches>>
queueVars == <<authQueue, mainQueue, workerQueue>>
providerVars == <<currentUser, forceRefresh>>
localVars == <<sdkUser, queues, writer, acked>>
streamVars == <<pipeline, stream, handshake, token, idle>>
wireVars == <<sent, answers>>
serverVars == <<committed, refused>>
boundVars == <<added, events>>
vars == <<authVars, queueVars, providerVars, localVars, streamVars, wireVars,
          serverVars, boundVars>>

Batches == 1..MaxWrites
Pipelines == UNION {[1..n -> Batches] : n \in 0..MaxWrites}
Settled(b) == b \in refused \/ \E u \in Users : [batch |-> b, as |-> u] \in committed

\* What waits for a token: `forced` asks for a new one.
Request(forced) == [forced |-> forced, same |-> TRUE, live |-> TRUE]

Notification(u) ==
  [what |-> "notify", user |-> u, ok |-> TRUE, same |-> TRUE, live |-> TRUE]
TokenCallback(r, u, ok) ==
  [what |-> "token", user |-> u, ok |-> ok, same |-> r.same, live |-> r.live]

Credential(u) == [what |-> "credential", user |-> u, ok |-> TRUE, live |-> TRUE]
WriteTask == [what |-> "write", user |-> Nobody, ok |-> TRUE, live |-> TRUE]

\* The token counter, or the close count, moves on past these requests.
TokenChanged(q) == [i \in DOMAIN q |-> [q[i] EXCEPT !.same = FALSE]]
StreamClosed(q) == [i \in DOMAIN q |-> [q[i] EXCEPT !.live = FALSE]]

-----------------------------------------------------------------------------
\* FIRAuth.

(* Another user signs in, or out, or the current one gets a new token      *)
(* (updateCurrentUser, scheduleAutoTokenRefresh): the token changed, so    *)
(* possiblyPostAuthStateChangeNotification posts to the main queue.        *)
SignIn(u) ==
  /\ events < MaxEvents /\ events' = events + 1
  /\ u # Nobody \/ authUser # Nobody
  /\ authUser' = u /\ expired' = expired \ {u}
  /\ mainQueue' = Append(mainQueue, Notification(u))
  /\ UNCHANGED <<fetches, authQueue, workerQueue, providerVars, localVars,
                 streamVars, wireVars, serverVars, added>>

TokenExpires ==
  /\ events < MaxEvents /\ events' = events + 1
  /\ authUser # Nobody /\ expired' = expired \cup {authUser}
  /\ UNCHANGED <<authUser, fetches, queueVars, providerVars, localVars,
                 streamVars, wireVars, serverVars, added>>

(* getTokenForcingRefresh on the work queue: without a user there is no    *)
(* token; otherwise the user's token service is asked.                     *)
GetToken ==
  /\ authQueue # <<>> /\ authQueue' = Tail(authQueue)
  /\ LET r == Head(authQueue) IN
       IF authUser = Nobody
       THEN /\ mainQueue' = Append(mainQueue, TokenCallback(r, Nobody, TRUE))
            /\ UNCHANGED fetches
       ELSE /\ fetches' = [fetches EXCEPT ![authUser] = Append(@, r)]
            /\ UNCHANGED mainQueue
  /\ UNCHANGED <<authUser, expired, workerQueue, providerVars, localVars,
                 streamVars, wireVars, serverVars, boundVars>>

(* The token service of u, one request at a time: a valid token is given   *)
(* out; a new one of the current user is first posted to the main queue.   *)
FetchAccessToken(u) ==
  /\ fetches[u] # <<>> /\ fetches' = [fetches EXCEPT ![u] = Tail(@)]
  /\ LET r == Head(fetches[u])
         updated == r.forced \/ u \in expired
     IN  /\ expired' = expired \ {u}
         /\ mainQueue' = (IF updated /\ u = authUser
                          THEN Append(mainQueue, Notification(u))
                          ELSE mainQueue) \o <<TokenCallback(r, u, TRUE)>>
  /\ UNCHANGED <<authUser, authQueue, workerQueue, providerVars, localVars,
                 streamVars, wireVars, serverVars, boundVars>>

(* The request for a new token fails; if the user's session is over, the   *)
(* user is signed out by force.                                            *)
FetchFails(u) ==
  /\ fetches[u] # <<>> /\ fetches' = [fetches EXCEPT ![u] = Tail(@)]
  /\ LET r == Head(fetches[u]) IN
       /\ r.forced \/ u \in expired
       /\ \/ /\ UNCHANGED authUser
             /\ mainQueue' = Append(mainQueue, TokenCallback(r, u, FALSE))
          \/ /\ u = authUser /\ authUser' = Nobody
             /\ mainQueue' = mainQueue \o
                  <<Notification(Nobody), TokenCallback(r, u, FALSE)>>
  /\ UNCHANGED <<expired, authQueue, workerQueue, providerVars, localVars,
                 streamVars, wireVars, serverVars, boundVars>>

-----------------------------------------------------------------------------
\* The main queue.

(* FirebaseCredentialsProvider's observer: the user and the token counter  *)
(* change together, and the worker is told.                                *)
OnNotification ==
  /\ mainQueue # <<>> /\ Head(mainQueue).what = "notify"
  /\ currentUser' = Head(mainQueue).user
  /\ mainQueue' = TokenChanged(Tail(mainQueue))
  /\ authQueue' = TokenChanged(authQueue)
  /\ fetches' = [u \in Users |-> TokenChanged(fetches[u])]
  /\ workerQueue' = Append(workerQueue, Credential(currentUser'))
  /\ UNCHANGED <<authUser, expired, forceRefresh, localVars, streamVars,
                 wireVars, serverVars, boundVars>>

(* The callback of GetToken: the token, or an error, or the request is     *)
(* aborted because the token has changed since.                            *)
OnToken ==
  /\ mainQueue # <<>> /\ Head(mainQueue).what = "token"
  /\ mainQueue' = Tail(mainQueue)
  /\ LET t == Head(mainQueue) IN
       workerQueue' = Append(workerQueue,
         [what |-> "resume", user |-> t.user, ok |-> t.ok /\ t.same,
          live |-> t.live])
  /\ UNCHANGED <<authVars, authQueue, providerVars, localVars, streamVars,
                 wireVars, serverVars, boundVars>>

AddDocument ==
  /\ added < MaxWrites /\ added' = added + 1
  /\ workerQueue' = Append(workerQueue, WriteTask)
  /\ UNCHANGED <<authVars, authQueue, mainQueue, providerVars, localVars,
                 streamVars, wireVars, serverVars, events>>

-----------------------------------------------------------------------------
\* The pipeline and the stream.

LastOf(p) == IF p = <<>> THEN 0 ELSE p[Len(p)]

\* Fault: off by one, the pipeline takes one batch too many.
CanAddOneMore(p) == Len(p) <= MaxPending

CanAddToWritePipeline(p) == Len(p) < MaxPending

\* Fault: a batch that is refused later may be passed over.
IsFilledWithGaps(f, p, Q) ==
  /\ Len(p) <= Len(f) /\ SubSeq(f, 1, Len(p)) = p
  /\ \A i \in (Len(p) + 1)..Len(f) :
        LET before == SubSeq(f, 1, i - 1) IN
        CanAddToWritePipeline(before) /\ f[i] \in Q /\ f[i] > LastOf(before)
  /\ CanAddToWritePipeline(f) => \A b \in Q : b <= LastOf(f)

(* What FillWritePipeline's loop makes of the pipeline p and the mutation  *)
(* queue Q: it adds the next batch after the last (GetNextMutationBatch)   *)
(* while it can.                                                           *)
IsFilled(f, p, Q) ==
  /\ Len(p) <= Len(f) /\ SubSeq(f, 1, Len(p)) = p
  /\ \A i \in (Len(p) + 1)..Len(f) :
        LET before == SubSeq(f, 1, i - 1) IN
        /\ CanAddToWritePipeline(before) /\ f[i] \in Q /\ f[i] > LastOf(before)
        /\ \A b \in Q : b > LastOf(before) => f[i] <= b
  /\ CanAddToWritePipeline(f) => \A b \in Q : b <= LastOf(f)

(* Stream::Start: a token is asked for, after an error following a delay.  *)
Start(s, requests) ==
  IF s = "Error"
  THEN stream' = "Backoff" /\ authQueue' = requests /\ UNCHANGED forceRefresh
  ELSE /\ stream' = "Starting"
       /\ authQueue' = Append(requests, Request(forceRefresh))
       /\ forceRefresh' = FALSE

\* Fault: the stream is not started for what is in the pipeline.
FillWithoutStart(p, Q, s, wire, requests) ==
  \E f \in Pipelines :
    /\ IsFilled(f, p, Q) /\ pipeline' = f
    /\ IF s = "Open" /\ handshake
       THEN /\ sent' = wire \o SubSeq(f, Len(p) + 1, Len(f))
            /\ idle' = (f = <<>> \/ (idle /\ f = p))
       ELSE sent' = wire /\ idle' = FALSE
    /\ stream' = s /\ authQueue' = requests /\ UNCHANGED forceRefresh

\* Fault: batches are written before the handshake is complete, too.
FillBeforeHandshake(p, Q, s, wire, requests) ==
  \E f \in Pipelines :
    /\ IsFilled(f, p, Q) /\ pipeline' = f
    /\ IF s = "Open"
       THEN /\ sent' = wire \o SubSeq(f, Len(p) + 1, Len(f))
            /\ idle' = (f = <<>> \/ (idle /\ f = p))
       ELSE sent' = wire /\ idle' = FALSE
    /\ IF s \in {"Initial", "Error"} /\ f # <<>> THEN Start(s, requests)
       ELSE stream' = s /\ authQueue' = requests /\ UNCHANGED forceRefresh

(* FillWritePipeline, with a stream in state s, `wire` on its wire and     *)
(* `requests` on FIRAuth's queue: what is added to an established stream   *)
(* is sent, an open one without work is marked idle, a missing one started.*)
FillWritePipeline(p, Q, s, wire, requests) ==
  \E f \in Pipelines :
    /\ IsFilled(f, p, Q) /\ pipeline' = f
    /\ IF s = "Open" /\ handshake
       THEN /\ sent' = wire \o SubSeq(f, Len(p) + 1, Len(f))
            /\ idle' = (f = <<>> \/ (idle /\ f = p))
       ELSE sent' = wire /\ idle' = FALSE
    /\ IF s \in {"Initial", "Error"} /\ f # <<>> THEN Start(s, requests)
       ELSE stream' = s /\ authQueue' = requests /\ UNCHANGED forceRefresh

-----------------------------------------------------------------------------
\* Tasks of the worker queue.

Task(what) == workerQueue # <<>> /\ Head(workerQueue).what = what

\* Fault: stored for the user the provider knows of, the switch pending.
WriteMutationsForCurrentUser ==
  /\ Task("write") /\ workerQueue' = Tail(workerQueue)
  /\ writer' = Append(writer, sdkUser)
  /\ queues' = [queues EXCEPT ![currentUser] = @ \cup {Len(writer')}]
  /\ FillWritePipeline(pipeline, queues'[sdkUser], stream, sent, authQueue)
  /\ UNCHANGED <<authVars, mainQueue, currentUser, sdkUser, acked, handshake,
                 token, answers, serverVars, boundVars>>

(* SyncEngine::WriteMutations: stored in the queue of the current user.    *)
WriteMutations ==
  /\ Task("write") /\ workerQueue' = Tail(workerQueue)
  /\ writer' = Append(writer, sdkUser)
  /\ queues' = [queues EXCEPT ![sdkUser] = @ \cup {Len(writer')}]
  /\ FillWritePipeline(pipeline, queues'[sdkUser], stream, sent, authQueue)
  /\ UNCHANGED <<authVars, mainQueue, currentUser, sdkUser, acked, handshake,
                 token, answers, serverVars, boundVars>>

\* Fault: the pipeline of the previous user is kept.
HandleCredentialChangeKeeping ==
  /\ Task("credential") /\ sdkUser' = Head(workerQueue).user
  /\ workerQueue' = StreamClosed(Tail(workerQueue))
  /\ mainQueue' = StreamClosed(mainQueue)
  /\ fetches' = [u \in Users |-> StreamClosed(fetches[u])]
  /\ handshake' = FALSE /\ token' = NoToken /\ answers' = <<>>
  /\ FillWritePipeline(pipeline, queues[sdkUser'],
                       IF stream = "Error" THEN "Error" ELSE "Initial", <<>>,
                       StreamClosed(authQueue))
  /\ UNCHANGED <<authUser, expired, currentUser, queues, writer, acked,
                 serverVars, boundVars>>

(* SyncEngine::HandleCredentialChange: the mutation queue is swapped, the  *)
(* stream stopped, the pipeline cleared and filled again.  It is also how  *)
(* FirestoreClient::Initialize starts.                                     *)
HandleCredentialChange ==
  /\ Task("credential") /\ sdkUser' = Head(workerQueue).user
  /\ workerQueue' = StreamClosed(Tail(workerQueue))
  /\ mainQueue' = StreamClosed(mainQueue)
  /\ fetches' = [u \in Users |-> StreamClosed(fetches[u])]
  /\ handshake' = FALSE /\ token' = NoToken /\ answers' = <<>>
  /\ FillWritePipeline(<<>>, queues[sdkUser'],
                       IF stream = "Error" THEN "Error" ELSE "Initial", <<>>,
                       StreamClosed(authQueue))
  /\ UNCHANGED <<authUser, expired, currentUser, queues, writer, acked,
                 serverVars, boundVars>>

(* Stream::Close with an error that is not about a write, and              *)
(* OnWriteStreamClose: what is in the pipeline goes over the next stream.  *)
CloseStream ==
  /\ handshake' = FALSE /\ token' = NoToken /\ idle' = FALSE
  /\ sent' = <<>> /\ answers' = <<>>
  /\ stream' = IF pipeline = <<>> THEN "Error" ELSE "Backoff"
  /\ UNCHANGED pipeline

\* Fault: the close count is not compared.
ResumeStartUnchecked ==
  /\ Task("resume") /\ workerQueue' = Tail(workerQueue)
  /\ IF Head(workerQueue).ok
     THEN /\ token' = Head(workerQueue).user
          /\ UNCHANGED <<pipeline, stream, handshake, idle, wireVars>>
     ELSE CloseStream
  /\ UNCHANGED <<authVars, authQueue, mainQueue, providerVars, localVars,
                 serverVars, boundVars>>

(* ResumeStartWithCredentials, unless the stream was closed meanwhile.     *)
ResumeStartWithCredentials ==
  /\ Task("resume") /\ workerQueue' = Tail(workerQueue)
  /\ LET t == Head(workerQueue) IN
       \/ ~t.live /\ UNCHANGED <<streamVars, wireVars>>
       \/ /\ t.live /\ t.ok /\ token' = t.user
          /\ UNCHANGED <<pipeline, stream, handshake, idle, wireVars>>
       \/ t.live /\ ~t.ok /\ CloseStream
  /\ UNCHANGED <<authVars, authQueue, mainQueue, providerVars, localVars,
                 serverVars, boundVars>>

-----------------------------------------------------------------------------
\* Callbacks of the gRPC stream and of the timers, on the worker queue.

StreamEvent == UNCHANGED <<authVars, mainQueue, workerQueue, currentUser,
                           boundVars>>

OnStreamStart ==
  /\ stream = "Starting" /\ token # NoToken /\ stream' = "Open"
  /\ StreamEvent
  /\ UNCHANGED <<authQueue, forceRefresh, localVars, pipeline, handshake, token,
                 idle, wireVars, serverVars>>

(* The first answer of the server: the whole pipeline is sent.             *)
OnWriteStreamHandshakeComplete ==
  /\ stream = "Open" /\ ~handshake /\ handshake' = TRUE
  /\ sent' = sent \o pipeline
  /\ StreamEvent
  /\ UNCHANGED <<authQueue, forceRefresh, localVars, pipeline, stream, token,
                 idle, answers, serverVars>>

\* Fault: the last batch of the pipeline is taken for the acknowledged one.
OnMutationResultLast ==
  /\ answers # <<>> /\ answers' = Tail(answers)
  /\ LET b == LastOf(pipeline) IN
       /\ acked' = acked \cup {b}
       /\ queues' = [queues EXCEPT ![sdkUser] = @ \ {b}]
       /\ FillWritePipeline(SubSeq(pipeline, 1, Len(pipeline) - 1),
                            queues'[sdkUser], stream, sent, authQueue)
  /\ StreamEvent
  /\ UNCHANGED <<sdkUser, writer, handshake, token, serverVars>>

(* OnWriteStreamMutationResult: an answer is for the front of the pipeline.*)
OnWriteStreamMutationResult ==
  /\ answers # <<>> /\ answers' = Tail(answers)
  /\ LET b == Head(pipeline) IN
       /\ acked' = acked \cup {b}
       /\ queues' = [queues EXCEPT ![sdkUser] = @ \ {b}]
       /\ FillWritePipeline(Tail(pipeline), queues'[sdkUser], stream, sent,
                            authQueue)
  /\ StreamEvent
  /\ UNCHANGED <<sdkUser, writer, handshake, token, serverVars>>

(* The stream fails, or the server ends it; with Unauthenticated the next  *)
(* request asks for a new token (InvalidateToken).                         *)
OnStreamError ==
  /\ token # NoToken /\ CloseStream
  /\ forceRefresh' \in {forceRefresh, TRUE}
  /\ StreamEvent
  /\ UNCHANGED <<authQueue, localVars, serverVars>>

(* The server refuses the batch at the front for good: HandleWriteError    *)
(* drops it and starts the stream again without delay.                     *)
HandleWriteError ==
  /\ sent # <<>> /\ answers = <<>>
  /\ refused' = refused \cup {Head(sent)}
  /\ handshake' = FALSE /\ token' = NoToken
  /\ queues' = [queues EXCEPT ![sdkUser] = @ \ {Head(pipeline)}]
  /\ FillWritePipeline(Tail(pipeline), queues'[sdkUser], "Initial", <<>>,
                       authQueue)
  /\ StreamEvent
  /\ UNCHANGED <<sdkUser, writer, acked, answers, committed>>

BackoffElapsed ==
  /\ stream = "Backoff" /\ Start("Initial", authQueue)
  /\ StreamEvent
  /\ UNCHANGED <<localVars, pipeline, handshake, token, idle, wireVars,
                 serverVars>>

IdleTimeout ==
  /\ idle /\ idle' = FALSE
  /\ stream' = "Initial" /\ handshake' = FALSE /\ token' = NoToken
  /\ StreamEvent
  /\ UNCHANGED <<authQueue, forceRefresh, localVars, pipeline, wireVars,
                 serverVars>>

(* The server commits the next write of the stream, under its token.       *)
Commit ==
  /\ sent # <<>> /\ sent' = Tail(sent)
  /\ answers' = Append(answers, Head(sent))
  /\ committed' = committed \cup {[batch |-> Head(sent), as |-> token]}
  /\ StreamEvent
  /\ UNCHANGED <<authQueue, forceRefresh, localVars, streamVars, refused>>

(* The process ends and is started again: FIRAuth's user is in the         *)
(* keychain, the mutation queues are on disk.                              *)
Relaunch ==
  /\ events < MaxEvents /\ events' = events + 1
  /\ authQueue' = <<>> /\ mainQueue' = <<>>
  /\ fetches' = [u \in Users |-> <<>>]
  /\ currentUser' = authUser /\ forceRefresh' = FALSE
  /\ workerQueue' = <<Credential(authUser)>>
  /\ pipeline' = <<>> /\ stream' = "Initial" /\ handshake' = FALSE
  /\ token' = NoToken /\ idle' = FALSE /\ sent' = <<>> /\ answers' = <<>>
  /\ UNCHANGED <<authUser, expired, localVars, serverVars, added>>

Init ==
  /\ authUser \in Users /\ currentUser = authUser /\ sdkUser = authUser
  /\ expired \in SUBSET {authUser} /\ Nobody \notin expired
  /\ authQueue = <<>> /\ mainQueue = <<>>
  /\ fetches = [u \in Users |-> <<>>]
  /\ forceRefresh = FALSE
  /\ workerQueue = <<Credential(authUser)>>
  /\ queues = [u \in Users |-> {}] /\ writer = <<>> /\ acked = {}
  /\ pipeline = <<>> /\ stream = "Initial" /\ handshake = FALSE
  /\ token = NoToken /\ idle = FALSE /\ sent = <<>> /\ answers = <<>>
  /\ committed = {} /\ refused = {}
  /\ added = 0 /\ events = 0

Next ==
  \/ \E u \in Users : SignIn(u) \/ FetchAccessToken(u) \/ FetchFails(u)
  \/ TokenExpires \/ GetToken
  \/ OnNotification \/ OnToken \/ AddDocument
  \/ WriteMutations \/ HandleCredentialChange \/ ResumeStartWithCredentials
  \/ OnStreamStart \/ OnWriteStreamHandshakeComplete
  \/ OnWriteStreamMutationResult \/ OnStreamError \/ HandleWriteError
  \/ BackoffElapsed \/ IdleTimeout \/ Commit \/ Relaunch

Spec == Init /\ [][Next]_vars

(***************************************************************************)
(* Fairness.  The three queues and the timers run.  Of the network: a      *)
(* connection is made or fails, and no step of a conversation fails every  *)
(* time it is tried.                                                       *)
(***************************************************************************)
Fairness ==
  /\ WF_vars(GetToken) /\ WF_vars(OnNotification \/ OnToken)
  /\ WF_vars(WriteMutations \/ HandleCredentialChange \/ ResumeStartWithCredentials)
  /\ WF_vars(BackoffElapsed)
  /\ \A u \in Users : SF_vars(FetchAccessToken(u))
  /\ SF_vars(OnStreamStart) /\ SF_vars(OnWriteStreamHandshakeComplete)
  /\ SF_vars(Commit \/ HandleWriteError) /\ SF_vars(OnWriteStreamMutationResult)

FairSpec == Spec /\ Fairness

-----------------------------------------------------------------------------
\* Properties.

Stages == {"Initial", "Starting", "Open", "Error", "Backoff"}
Requests == [forced: BOOLEAN, same: BOOLEAN, live: BOOLEAN]
Callbacks == [what: {"notify", "token"}, user: Users, ok: BOOLEAN,
              same: BOOLEAN, live: BOOLEAN]
Tasks == [what: {"credential", "resume", "write"}, user: Users, ok: BOOLEAN,
          live: BOOLEAN]
Stored == 1..Len(writer)

StreamTypeOK ==
  /\ authUser \in Users /\ expired \in SUBSET Users
  /\ authQueue \in Seq(Requests) /\ fetches \in [Users -> Seq(Requests)]
  /\ mainQueue \in Seq(Callbacks) /\ workerQueue \in Seq(Tasks)
  /\ currentUser \in Users /\ forceRefresh \in BOOLEAN /\ sdkUser \in Users
  /\ writer \in Seq(Users)
  /\ queues \in [Users -> SUBSET Stored]
  /\ pipeline \in Seq(Stored) /\ Len(pipeline) <= MaxPending
  /\ stream \in Stages /\ handshake \in BOOLEAN /\ idle \in BOOLEAN
  /\ token \in Users \cup {NoToken}
  /\ sent \in Seq(Stored) /\ answers \in Seq(Stored)
  /\ committed \in SUBSET [batch: Stored, as: Users]
  /\ refused \in SUBSET Stored /\ acked \in SUBSET Stored
  /\ added \in 0..MaxWrites /\ events \in 0..MaxEvents

(* However sign-ins, sign-outs and token requests overlap with the stream, *)
(* the server commits a batch only under the account in whose mutation     *)
(* queue it was stored.                                                    *)
CommittedAsWriter == \A c \in committed : c.as = writer[c.batch]

(* What goes over the wire belongs to the sync engine's user: the stream's *)
(* token and every batch of the pipeline.                                  *)
OwnStream ==
  /\ token \in {NoToken, sdkUser}
  /\ \A i \in DOMAIN pipeline : writer[pipeline[i]] = sdkUser

(* The pipeline is the front of the current user's mutation queue: no      *)
(* batch is skipped, none is in it twice, and it is as full as it can be.  *)
PipelineIsQueue ==
  workerQueue = <<>> \/ Head(workerQueue).what # "credential" =>
    /\ \A i, j \in DOMAIN pipeline : i < j => pipeline[i] < pipeline[j]
    /\ \A i \in DOMAIN pipeline : pipeline[i] \in queues[sdkUser]
    /\ \A b \in queues[sdkUser] :
         \/ \E i \in DOMAIN pipeline : pipeline[i] = b
         \/ Len(pipeline) = MaxPending /\ b > LastOf(pipeline)

(* On an established stream, the answers not yet read and the writes not   *)
(* yet taken are the pipeline: an answer is for the batch at its front.    *)
WireIsPipeline ==
  answers \o sent = IF handshake THEN pipeline ELSE <<>>

(* A batch leaves its writer's queue when the server has committed or      *)
(* refused it and not before, none is lost or moves to another queue, and  *)
(* what the client took for committed the server has committed.            *)
StoredUntilSettled ==
  \A b \in Stored :
    /\ \A u \in Users : b \in queues[u] => u = writer[b]
    /\ b \notin queues[writer[b]] => Settled(b)
    /\ b \in acked => \E u \in Users : [batch |-> b, as |-> u] \in committed

(* The writes of one user take effect in the order in which they were      *)
(* added.                                                                  *)
CommitsInOrder ==
  \A b, c \in Stored :
    b < c /\ writer[b] = writer[c] /\ Settled(c) => Settled(b)

(* Asserted in stream.cc:129, 188 and remote_store.cc:433: a token reaches *)
(* a stream that is starting, and an idle stream has no work; a stream     *)
(* that is needed is started.                                              *)
WritePathAsserts ==
  /\ idle => stream = "Open" /\ handshake /\ pipeline = <<>>
  /\ stream = "Open" => token # NoToken
  /\ token # NoToken => stream \in {"Starting", "Open"}
  /\ handshake => stream = "Open"
  /\ pipeline # <<>> => stream \in {"Starting", "Open", "Backoff"}
  /\ \A i \in DOMAIN workerQueue :
       workerQueue[i].what = "resume" /\ workerQueue[i].live =>
         stream = "Starting" /\ token = NoToken

(* What a signed-in user has added is committed or refused in the end,     *)
(* through failures, lost answers, aborted token requests and restarts.    *)
Waits(b) ==
  b \in Stored /\ sdkUser = writer[b] /\ b \in queues[sdkUser]
WritesSettle == \A b \in Batches : Waits(b) ~> ~Waits(b)
=============================================================================
