# Mappy in TLA+

Specifications, model-checking configurations and proofs for *Mappy by A-Team*, an iOS application
that shows events on a map and in a table, stores them in a Firestore collection and signs its users
in with Firebase Authentication. Everything here is translated from the source under `src/`; paths
without a prefix are under `src/Mappy/Mappy/`.

Mappy is about a thousand lines of Swift, and hardly any of its difficulty is inside one function.
It lies in what happens *between* the functions: completions of reads, sign-ins, reloads and image
fetches that run later, in some order, on state that other screens have changed meanwhile. That is
what the modules model.

## 1. Inventory

| Component | State | Operations | Talks to |
|---|---|---|---|
| Event list and its screens (`EventHandler`, `MapViewController`, `EventTableViewController`, `CreateNewEventViewController`) | `allEvents`, pins of the map view, rows of the table view, refresh control, user location, coordinates given to the create form | enter the tab bar, switch tabs, long touch, create, fetch, refresh, scroll, select a row, log out; completions of reads | event store (asynchronous reads and writes), session (owner of a new event), UIKit and MapKit |
| Event store (`DataHandler` over the vendored Firestore client) | what the app sees of the client: requests, waiting reads, answers, known and pending documents | `addDocument`, `getDocuments`; snapshots, acknowledgements, rejections, change of user, restart | the two paths below |
| Firestore client, read path | worker queue, listeners with *raised* and *muted* flags, view of the query, limbo look-ups, remote document cache, watch stream, online state with its ten-second timer | tasks of the worker queue, callbacks of stream, timers and credentials, restart | server; write path (mutations); `FIRAuth` |
| Firestore client, write path | a mutation queue per user, write pipeline, write stream with handshake, token and idle timer, credentials provider | store, fill, handshake, answer, error, refusal, token request, change of user, restart | server; `FIRAuth`'s work queue and the main queue |
| Session (`UserHandler`, `HomeViewController`, `LogInViewController`, `SignUpViewController`, `SettingsViewController`, and `FIRAuth`/`FIRUser` as used) | `UserHandler.user`, current user, keychain, requests under way, completions on the main queue, screen | sign up, log in, reload, log out, forced sign-out, reset password, back, restart | Firebase's server, the storyboard's segues |
| Home picture (`RestHandler`, `DataHandler.setBackgroundImage`, `HomeViewController`) | one shared `BackgroundImage`, its url, the url on screen | appear, fetch, decode, set, show | picsum.photos, Kingfisher |
| Keyboard avoidance (`CreateNewEventViewController`, `SignUpViewController`) | origin of the view, first responder, keyboard on screen | `keyboardWillShow`, `keyboardWillHide` | UIKit's notifications |
| Event objects (`Event`) | place name | `setLocation` (reverse geocoding), `mapItem` | CLGeocoder |
| Detail screen, table cell, delegates, layout | none that matters | | |
| Vendored pods (gRPC, BoringSSL, leveldb, abseil, nanopb, Kingfisher, ...) | | | |

Threads: the main queue (all of the Swift code but one completion), Firestore's serial worker queue,
`FIRAuth`'s serial work queue, and one `URLSession` thread per picture fetch. The only state of Mappy that
is shared between threads without a queue is the home picture.

What each component must get right:

* **Event list.** An event is listed once; a created event is not lost for good when a read overtakes it;
  results are never applied out of order; pins, rows and list agree, or are known not to; the index and
  unwrapping traps are confined to situations one can name; a refresh ends.
* **Event store.** Reads are answered in order and at most once, see the phone's earlier writes, and grow.
* **Firestore client.** A read waits only while something will end it; the view shows exactly what the local store holds;
  limbo documents are being looked up as long as they matter; every write is settled, in order, under the
  account that added it, and is kept until then.
* **Session.** A user who logged out stays out, also across restarts and late answers; the copy the screens
  read catches up; the tab bar has a user; Home is not shown to a signed-in user; an event has its owner's account
  behind it.
* **Home picture.** What is shown is the sized url of one picture; each completion is called once; a
  picture that came is shown.
* **Keyboard.** The form is where it belongs when the keyboard is hidden, and moves only for one field.

The hazards behind these, each with its line, are listed in `PROJECT.json`.

## 2. Modules

| Module | Models | Checked by | Proved in |
|---|---|---|---|
| `EventStore` | what the app may rely on in `db.collection("events")`: an abstract specification | `event_feed` (under the app), `firestore`, `write_stream` (implemented) | `EventStoreProofs` |
| `EventFeed` (extends `EventStore`; `MCEventFeed`) | the event list, its three editors and readers, navigation, traps, restart | `event_feed`, `refresh_ends`, `load_adds` | `EventFeedProofs` |
| `Firestore` (`MCFirestore`) | the client's read path, refining `EventStore` | `firestore`, `reads_end`, `silent_backend` | `FirestoreProofs` |
| `WriteStream` | the client's write path, with tokens and changes of user | `write_stream` | `WriteStreamProofs` |
| `WriteHistory` (extends `WriteStream`) | the write path seen from the app, refining `EventStore` | `write_stream` | `WriteStreamProofs` |
| `Session` | who is signed in, and the screens from Home to the tab bar and back | `session`, `settings_has_user` | `SessionProofs` |
| `Mappy` (extends `Session`) | the session composed with the notifications Firestore gets of it | `session` | `MappyProofs` |
| `HomeImage` | the shared picture and its threads | `home_image` | `HomeImageProofs` |
| `Places` | the place names of events | `places` | `PlacesProofs` |
| `KeyboardShift` (`MCKeyboardShift`) | making room for the keyboard | `pushed_by_height` | |

How they fit together: `EventFeed` runs over `EventStore`; `Firestore` shows that the client provides it, leaving
open how mutations reach the server; `WriteStream` is that part, and `WriteHistory` shows that what it does to a
mutation is again what `EventStore` says. `Mappy` and `WriteStream` share the way a
change of user takes from `FIRAuth` to the worker queue, seen from the app and from the client.

Operators introduced by a comment `Fault:` are wrong variants of the definition after them (a dropped
guard, a missing call, a swapped order). No specification uses them: they document which mistake each
property notices, and every property has one.

### EventStore

`requests` is the client's serial worker queue, `waiting` the listeners of `getDocuments` that have not
raised their one event, `answers` the events on the main queue. `getDocuments` (`api/query_core.cc`)
only enqueues; the worker adds a listener (`ProcessRead`), which is answered at once when the view is in
sync or the client is offline, and otherwise when a snapshot brings it in sync (`Learn`) or the client goes
offline (`AnswerFromCache`). All listeners of the one query share a view and are raised together
(`core/event_manager.cc`). `LocalView` is the result of a query: the remote document cache with the current
user's mutation queue laid over it. `SwitchUser` swaps that queue, nondeterministically: which documents
belong to which user is left open. `Relaunch` loses the queues in memory and keeps the cache and the mutation
queues. The fields of an event are not told apart. Nobody deletes documents (`deleteEvent` has no caller),
so the server's answers only add. `seen` and `withdrawn` are history.

### Firestore

One action per task of the worker queue: `Initialize`, `AddQueryListener`, `RemoveQueryListener`, `WriteMutations`,
`HandleCredentialChange`. Between any two of them come the callbacks: the watch stream's (`OnWatchStreamOpen`,
`OnWatchStreamClose`, its messages), the timers' (`BackoffElapsed`, `OnlineStateTimeout`, `IdleTimeout`), the write
path's (`HandleSuccessfulWrite`, `HandleRejectedWrite`) and the credentials'. `listeners` are those of the event
manager for the one query of the app, each with the flag of `QueryListener` that says whether its first event was
raised; `muted` are those of `AsyncEventListener`, set on the main queue by the completion of `getDocuments`
(`Deliver`), so that an event posted before is dropped. `view` is `View`'s: the documents shown, those with local
mutations, whether its target is current, and its limbo documents; `limboTargets` are the listens for them.
`tracker` is `OnlineStateTracker` with its failure count and ten-second timer. A message of the watch stream brings
any documents of the server's that are consistent with what it has sent before: how target changes add up to a snapshot
(`watch_change_aggregator`) is left out, as are resume tokens, existence filters and bloom filters.
`orphaned`, `shown` and `withdrawn` are history.

`Store` is the refinement mapping: `requests` are the reads and writes among the worker's tasks, `waiting` the
listeners not raised, `answers` the first events of listeners not muted, `known` the remote document cache,
`pending` the mutation queue of the sync engine's user and `parked` those of the others. `ImplementsEventStore` says
that every step of the client is one of the store's or a stutter.

### WriteStream

`SyncEngine::WriteMutations` stores a batch in the queue of the sync engine's user; `FillWritePipeline` adds the next
batches to the pipeline while it takes them (`kMaxPendingWrites`, here `MaxPending`), sends what it adds if the
handshake is complete and starts the stream if there is none. `IsFilled` says what its loop makes of a pipeline and a
queue; the loop is not modelled step by step. An answer is taken for the batch at the front of the pipeline
(`OnWriteStreamMutationResult`), and so is a refusal (`HandleWriteError`): the stream itself carries no batch ids. A
stream starts with a token request, which goes from the worker to `FIRAuth`'s work queue (`GetToken`), perhaps to the
token service of a user (`fetches`, `FetchAccessToken`, `FetchFails`), over the main queue (`OnToken`) and back to the
worker (`ResumeStartWithCredentials`). A change of user takes the same way (`SignIn`, `OnNotification`,
`HandleCredentialChange`). Of the provider's token counter and the stream's close count only equality is ever asked,
so that each request carries `same` and `live`. The server takes the writes of a stream in order, commits each under
the token of the stream or refuses it. `committed`, `refused` are the server's; `acked` and `writer` are history.

Three simplifications. A restart finds `FIRAuth`'s user in the keychain (an unsaved forced sign-out and a keychain
that cannot be read are `Session`'s subject). A new token that the keychain does not take (`FIRUser.m:982-986`) counts as
a failed request: the request ends with the same error and the user stays, but the code then has the new token in
memory, while the model asks for one again. And the server handles nothing of a stream after the client has closed it,
so that a batch committed by a dying stream and sent again is not modelled, nor that a batch is committed only once
(`committed` is a set): this rests on mutations being idempotent on the server's side, which is
Firestore's promise and not this code's.

### WriteHistory

The app numbers the documents it adds, the client the batches it stores, and the two differ once a write was lost with
the process. `WriteHistory` adds two history variables, `document` (which document each batch is for) and
`withdrawn` (as in `EventStore`); each of its actions is an action of `WriteStream` and what is recorded of it, so that
it allows exactly what `WriteStream` does. `Store` is the refinement mapping: `requests` are the writes on the worker
queue, which are the documents added last (`Unstored` of them), `pending` and `parked` the documents of the mutation
queues, and `known` those the client took for committed. Reads, foreign documents and the server's snapshots are absent
here (`MaxReads` is 0): they are `Firestore`'s part. `WritesImplementEventStore` says that what `Firestore` leaves open
does happen: a document is stored in the queue of the sync engine's user whatever user the provider already knows of,
an answer or a refusal concerns one of that user's documents, a change of user only moves documents between `pending`
and `parked`, and a restart loses exactly those that were not stored.

### EventFeed

An `Event` object is a document and the read that made it: Swift and MapKit compare events by identity, so that
re-reading a document gives an event that is not equal to the pin on the map. The list made of a result
(`EventsOf`) holds one new event for each document of it, in the order of the query, which is that of the keys
(`InKeyOrder`). Completions are
replacements of `allEvents` exactly as written: `Loaded` (the map's first read) adds pins but removes none,
`Fetched` removes the pins of the list it replaces, `Refreshed` (the table) leaves the map alone, and
`reloadData` runs when the refresh *starts*. The read's error path calls no completion (`ReadFailed`).
`session` numbers entries into the tab bar: completions of an earlier one still replace the list of
the singleton, and reach dead views. `rows` records the event each row was last given; the table asks again only
for rows that scroll into view (`CellForRow`), by the count of the last `reloadData`. `trapped` stands for a
Swift runtime trap, after which only a restart is possible. `owner` is whether `UserHandler.user` is there; the
session itself may change it at any time (`OwnerChanges`).

`unpinned`, `stranded`, `rowsStale`, `failedRefresh` and `lastSeen` are history variables. They say which of the
code's known weak spots has happened, so that the properties can claim full agreement everywhere else.

### Session

A `FIRUser` object is the number of the sign-in that made it. Requests (`signIns`, `reloads`) are answered in any
order and run on `FIRAuth`'s work queue; their completions (`callbacks`) run on the main queue in order.
`currentUser` and `keychain` change together with two exceptions: a forced sign-out, where memory follows even if the
disk does not (`updateCurrentUser:byForce:`, history `unsaved`), and a start that cannot read the keychain or the access
group (`FIRAuth.m:394-412`, `getUser:error:`), which only logs it: nobody is signed in, the keychain keeps its user,
and the next sign-in replaces that user (`Relaunch`, history `unread`). A failed ordinary sign-out or a failed save is an error and changes
nothing. `signOutByForceWithUserID:` compares the user ids as objects, so it applies to the very `FIRUser`
that is current. The forced sign-out may come from a reload or, at any time, from Firestore asking for a token
(`TokenExpires`). `createUser` does not reload `UserHandler.user`; `login` and `signOut` do. Log In and Sign Up are
sheets (no `modalPresentationStyle` in `Main.storyboard`), so returning from them does not run Home's
`viewDidAppear`; the tab bar is full screen. The log out button has an action *and* an unwind segue
(`Main.storyboard:563-565`), so it leaves the tabs also when signing out fails. Whether Home
appears when the tab bar was presented over a sheet is left open. `performSegue` on a screen that is not in front does nothing. `form` numbers
presentations of the sheets, so that a late completion finds its own screen gone. `forcedOut` is history: a forced
sign-out sets it, the next sign-in, log out or start clears it, and the completions that show the tabs leave it alone. A new token
that the keychain does not take (`FIRUser.m:982-986`) changes neither user and is left out.

### Mappy

`Session` composed with the notifications that `FirebaseCredentialsProvider` observes (`notices`). They are posted
by the change itself, in front of the completion of the request that made it, and share the main queue with the
completions: each notice carries the number of completions in front of it (`ahead`), and `Completes` lets a completion
run only when no notice is due. Without the notices, every behaviour of `Mappy` is one of `Session`
(`MappyIsSession`). `notified` is the user of the last notification and stands for the owner of the mutation queue
a new event goes into: the worker queue keeps the order of the main queue, which is what `WriteStreamProofs` proves
of it (`UsersArrive`). The create form is not an action: `EventsAreOwners` is a condition on the states in which its
button can be pressed.

### HomeImage

`setBackgroundImage` is three steps, one per access to shared memory: assign the property, read it back for
the new url, read it again for the object to change. The completion reads the url on the fetch's thread and hands
it to the main queue. `overlap` is history: another thread was between those steps. What Swift may do
beyond that with a torn reference is not modelled.

### KeyboardShift

When notifications come is UIKit's part: when the keyboard appears, and whenever its frame changes. `Parts` is 1
for the create form and 2 for the sign-up form, which pushes by half of the height.

### Places

Each `Event` object asks a geocoder of its own for its place when it is read or created (`SetLocation`). `Answer` fills
in the name part by part as `setLocation`'s closure does: the country replaces the name, the other parts are
added to it, and a placemark without a country extends the placeholder. That this never runs two places together rests
on the one lookup per object, which the fault shows.

## 3. What the runs check

| Run | Bounds | What it shows |
|---|---|---|
| `event_feed` | 2 reads, 1 write, 1 foreign document, 2 entries, 2 launches | of the store: `ReadsInOrder`, `ReadYourWrites`, `ResultsGrow`; of the list: `OneRowPerEvent`, `CreatedEventsSurviveReads`, `OtherEventsStay`; of the screens: `PinsMatchList`, `FreshRowsArePrefix`, `TrapsExplained`. Two reads overtake each other and a creation; two entries make a completion reach dead views; two launches keep a write pending across a restart. The theorems remove the bounds |
| `refresh_ends` | 2 reads, 1 write, 2 entries, 1 launch | `RefreshEnds`, with the load of the map before the refresh on the queue |
| `load_adds` | 1 read, 1 write | **violated** `LoadAddsToList`: the comment at `MapViewController.swift:28` says the first read *adds* to the list; it replaces it, and an event created meanwhile disappears until the next read |
| `firestore` | 2 reads, 1 write, 2 users, 1 change of credentials or restart | `ReadPathAsserts`, `LimboIsWatched`, `WaitsAreTimed`, `ViewIsLocalView` and the refinement `ImplementsEventStore`. Two reads are what it takes for a listener to join a view; the write passes through limbo when its user is gone. Users are interchangeable (symmetry) |
| `reads_end` | 2 reads, 1 foreign document | `ReadsEnd`: every `getDocuments` ends by a snapshot, an error or the answer from the cache |
| `silent_backend` | the same, without the backend's fairness | **violated** `OnlineStateSettles`, which `online_state_tracker.cc:44` says: stopping the last listen clears the timer of an attempt that goes on, and the next listen starts none. Nothing is wrong as long as the backend answers or fails |
| `write_stream` | 2 users (one of them nobody), 3 writes, a pipeline of 2, 1 event (sign-in, expiry or restart) | eight properties of the write path, and the refinement `WritesImplementEventStore`. Three writes are one more than the pipeline takes. With 3 users and 2 events (5.5 million states) the invariants hold as well; that instance is too slow to be kept |
| `session` | 3 sign-ins, 2 forms, 2 launches | the six properties of the session and `EventsAreOwners`. Three sign-ins: one current, one late, one new. 7.9 million states |
| `settings_has_user` | 1 sign-in | **violated** `SettingsHasUser`: `settingsViewController.swift:29` unwraps the user by force, and after a sign-up there is none |
| `home_image` | 3 fetches, 4 appearances | url integrity, exactly one completion, and `PictureGetsShown` |
| `places` | 3 objects | `NameIsOfOnePlace`, `ListedArePlaced`: one object is replaced in the list while its lookup is under way, another is created meanwhile |
| `pushed_by_height` | 3 fields, keyboards of heights 4 and 6, 2 notifications | **violated** `PushedByHeight`: the comment at `CreateNewEventViewController.swift:112` |

`CHECK_DEADLOCK FALSE` is set where the system really may stop: the bounds on launches, sign-ins, fetches,
appearances, writes and events are used up, or the process has trapped at its last launch. The read path of `Firestore` never
stops (the server may always send documents) and is checked for deadlock.

Fairness:

* `FairFeedSpec`: the client answers (what `reads_end` shows of it), and the main queue runs completions. Nothing is
  assumed of the user, of other phones or of the server's acknowledgements.
* `FairSpec` of `Firestore`: the worker queue, the main queue and the timers run; of the backend, an attempt ends in
  the server's answer or in an error. `SilentSpec` drops the latter.
* `Fairness` of `WriteStream` (in `FairSpec` and `FairHistorySpec`): queues and timers run (weak fairness); of the network, no step of a conversation fails
  every time it is tried (strong fairness, since an error may disable it each time). Without it a write may be sent for ever.
* `FairImageSpec`: threads run, `URLSession` ends each request, and the main queue is served.

Properties that state what holds *except* after a weak spot name the exception: `TrapsExplained`
says that the only traps are rows of a replaced list and a create form opened before the first location;
`PinsMatchList` holds until a completion that does not know the map has replaced the list;
`RestartResumes` names the two ways in which disk and memory come apart, and allows them only where memory holds nobody;
`TabsAreSignedIn` fails only while the server's end of a session has been followed by no sign-in, log out or start;
`RefreshEnds` excuses a read that ended in an error, whose completion `DataHandler.swift:72` drops: that the control then
spins on is the model's behaviour and not something it refutes; `UrlsFit` and `HomeShowsPicture` excuse interleavings in which
one thread reads or replaces the picture while another is setting it, so they say nothing of that race;
`HomeIsSignedOut` fails only for a sign-in that ended after its form was left or a failed sign-out; `EventsAreOwners`
while a change of user is on its way, or after one that nobody reloads after.

## 4. What is proved

For every value of the constants, from the named assumptions of the modules (bounds are natural numbers, launches
at least one, the pipeline takes something, foreign documents are finitely many and not this phone's, nobody is one
of the users):

* **`EventStoreProofs`.** `StoreTypeCorrect`. `ReadsAnsweredInOrder`: `ReadsInOrder` with
  `IdsIssued`, that every id in flight lies below the next one; reads
  move from `requests` to `waiting` to `answers`, always from the head to the end, and listeners are raised all
  together. `ReadsSeeWrites`: a document is queued in front of every later read until the worker stores it
  (`NothingLost`, `QueueInOrder`), and from then on in the cache, the mutation queue or `withdrawn`
  (`WaitingSeesKept`), which never shrink together; an answer is taken from exactly that.
  `ResultsOnlyGrow`: what a result on the main queue holds is still kept (`AnswersKept`), so a later result
  holds it too. With `ReadsAnsweredInOrder` this is why replacing the list by each result in turn is safe.
* **`EventFeedProofs`.** `FeedUsesStore`: a step of the app is a step of the store or leaves it alone, so the store's
  invariants (`StoreInv`) hold under it. On them rests the list: `EventsListedOnce` and `CreatedEventsStay` with
  `ListedIssued` (what is listed was numbered) and `ListedKept` (what is listed and not withdrawn is known to the
  client or still on its way there, so that the next result has it), and `OthersStayListed` follows. `PinsAgree`,
  `FreshRowsAgree` and `TrapsAreExplained` follow by cases on the completions, with `ScreenInv` (which sheet can be over which tab).
* **`SessionProofs`.** `SessionTypeCorrect` needs `FormNumbered` (a form
  in front has a number), since sign-in requests carry it. `RestartsResume` is inductive by itself; each step changes
  memory and keychain together, or empties memory and records `unsaved` or `unread`. `UserCatchesUpAlways`: each change of the current user posts a
  completion that reads it again, or sets `silent`; a completion that does not read it (`signUp`) leaves the others in
  the queue. `TabsHaveUser` needs more than the screens (`TabsInv`): a completion on
  the main queue that will bring the tabs (`Brings`: it went well, and its form is in front or under the tab bar) has a user or a
  forced sign-out as well. A log out closes the form, and a form opened later has a number that no request under way
  and no queued completion carries (`FormsIssued`), so none of the older requests of either form can bring the tabs back.
  `SignedOutUsersStayOut`: with `SignInsAreNew`, that a sign-in under way has a number that nobody current, saved or
  signed out has, accepting it cannot bring anybody back; a reload saves only the current user.
  `HomeHasNobody`: a sign-in under way, or whose completion is queued, has its form in front or under the tabs, or the
  form was left (`SignInsSeen`); so a user's completion brings the tab bar or there is an excuse (`UsersSettled`).
* **`MappyProofs`.** `EventsHaveOwners`. The last notice is of the current user (`LastNotified`), so that with none
  queued a difference between `user` and `notified` is one that `UserCatchesUp` explains. That nobody who logged out
  is notified of while the tabs are shown takes `Barrier`: the log out's notice is behind only completions whose forms
  are gone, and tabs are entered by a completion of the form in front, which must come after it.
* **`WriteStreamProofs`.** `CommitsAsWriter`, `StreamIsOwn`, `WireFollowsPipeline`, `StreamTypeCorrect` (`StreamInv`).
  A change of user travels from `FIRAuth` over the main queue to the worker (`UsersArrive`), and a token takes the same
  way: a token that a stream still waits for is of the sync engine's user, or a change of user is in front of it
  (`TokensFit`), which closes the stream. What is on the wire is the pipeline (`WireFits`, with `Fills` for
  what filling does), and the pipeline holds batches of the sync engine's user only (`QueuesAreOwn`).
  `PipelineFollowsQueue`, `WritesAreKept`, `WritesInOrder` (`OrderInv`): the pipeline is the front of the user's queue
  (`Front`, `Full`), except that it is empty between a start and the first change of user (`Fresh`); that filling passes
  over no batch is shown with the least number at which it would (`LeastNumber`, from the library's `WFMin`). Answers
  on the wire are of committed batches (`AnswersAreCommitted`), so what leaves a queue is settled, and a batch that
  is committed has only settled ones of its user before it (`EarlierIsInFront`).
  `WritePathAssertsHold`: of the requests that are not dropped there is at most one, at one of the four places of its
  way, and then the stream is starting without a token (`OneRequest`).
  `WritePathImplementsEventStore` rests on `HistoryInvariant`: each batch is for a document of its own, in the order of
  the documents, and before all that still wait on the worker queue (`DocumentsInTurn`). Counting the writes on that
  queue through `Append`, `Tail` and marking (`WritesAppended`, `WritesTaken`, `WritesMarked`) shows that the task at
  its head is for the next document; that no batch is in two users' queues (`QueuesApart`) makes a change of
  user `SwitchUser`; and the front of the pipeline being in the user's queue (`FrontIsPending`) makes an answer
  `Acknowledge` and a refusal `Reject`.
* **`HomeImageProofs`.** `CompletionsCalledOnce`, `UrlsAreSized`, `HomeShowsIt`: unless threads overlapped, at most one
  is setting the picture and it is its own (`OneSetter`), so what is stored and posted last is the picture's url (`LastIsPicture`).
* **`PlacesProofs`.** An object is asked for once (`LookupOnce`) and named from the placeholder by the one answer
  (`NamedByAnswer`); `PartsOfName` is what one placemark makes of the placeholder. Hence `NamesAreOfOnePlace` and
  `ListedAlwaysPlaced`.

* **`FirestoreProofs`.** `FirestoreInvariant`: `FireInv` is inductive; from it follow `FirestoreTypes`,
  `ViewsShowTheStore`, `LimboDocumentsAreWatched`, `ReadPathFits`, `WaitingReadsAreTimed`, and the refinement
  `ClientImplementsEventStore`. The parts of `FireInv`, and what each is for:
  * `ReadsOK`: types, and where each read is. A read that is on the worker queue has no listener and no event, and is
    not muted (`IdsOnce`, `IdsIssued`); a listener is raised exactly when it has an event on the main queue or is muted
    (`RaisedHaveEvents`), so that a later event for it changes no answer; events and listeners with one id are of one
    read, and an error is its last event (`EventsFit`). This turns what the event manager posts into appending answers.
  * `DocsInv`, `WritesInv`: a mutation is in one user's queue; a document that is both pending and cached was sent by the server
    and is not marked committed; a document whose write is not stored yet is nowhere.
  * `ViewInv`: an open view shows `LocalView`, its local documents are the pending and possibly committed ones, and when
    current its limbo is exactly what is neither local nor in the target, and the target has all the server has sent.
    That is stronger than `ViewIsLocalView`, which says nothing of the documents that a step does *not* look at.
  * `LimboInv`: limbo listens are for cached documents of the view; a limbo document without a listen was refused
    and does not come back unless the server sends it.
  * `StreamInv`, `WaitInv`, `InitializeFirst`: the tracker's timer, failures and state fit the stream; views and listeners
    come and go together, and nobody waits for a synced view or offline; `Initialize` runs before there is a view.

  For the refinement, writes, acknowledgements and changes of user must answer nobody, although they emit snapshots:
  `StaysUnsynced` shows that a document in limbo stays there through them. All listeners that wait are raised together
  in every other case (`ToldStore`), with the documents of the store after the step. `Entries`, by which the model
  chooses listeners, events and tasks, is defined by counting; the first part of the module proves what it is on `Append`,
  `Tail` and concatenations.

As `EventStoreProofs` holds for every instance of `EventStore`, `ClientImplementsEventStore` gives its theorems to the
client: its answers come in order, see the phone's writes, and only grow. That last step is instantiation; tlapm 1.4.5
cannot use a theorem through `INSTANCE ... WITH`, so it is not a theorem here.

Only model-checked: all liveness (`RefreshEnds`, `ReadsEnd`, `WritesSettle`, `PictureGetsShown`), which is out of the
prover's reach. `KeyboardShift` has a single run, which refutes a comment.

## 5. Plan

Done: the modules of section 2 with their runs; a theorem for every safety property that a passing run checks; the
refinements of `EventStore` by the read path (`Firestore`) and by the write path (`WriteHistory`), checked and proved.

Left, in this order: read path and write path composed in one module, over one mutation queue; the contract's properties stated and proved directly over the client's variables;
`watch_change_aggregator` (pending responses, existence filters, resume tokens) under the snapshots that `Firestore` takes as
given; a server that still handles the writes of a closed stream.

### Not modelled

Layout, the map's region and location authorisation, date and time pickers, error texts, the detail
screen, application and scene delegates, and the test target (Xcode's empty template) keep no state that the properties
depend on. `deleteEvent`, `setTitle` and `updateCoordinates` have no caller. Of the Firestore client: enabling and
disabling the network, transactions, garbage collection, snapshots-in-sync listeners, bundles and termination are not
called by Mappy; stream tokens are only stored, and the contents of mutations and documents are not told apart. The vendored libraries below
the two Firebase clients (gRPC, BoringSSL, leveldb, abseil, nanopb, utilities) and Kingfisher are not this program's
code; they make up nearly all of the repository's lines.
