----------------------------- MODULE EventFeed ------------------------------
(***************************************************************************)
(* The event list of Mappy and its three editors: EventHandler.allEvents,  *)
(* which MapViewController, EventTableViewController and                   *)
(* CreateNewEventViewController read and overwrite on the main queue, with *)
(* DataHandler's asynchronous reads and writes (EventStore) between them.  *)
(*                                                                         *)
(* An Event object is the document it stands for and the read that made it *)
(* (0: the create form); MKMapView and Swift compare events by identity.   *)
(* Each entry into the tab bar makes new view controllers: `session`       *)
(* numbers them, and completions of an earlier one reach dead views.       *)
(***************************************************************************)
EXTENDS EventStore, SequencesExt

CONSTANTS MaxSessions,   \* bound: entries into the tab bar
          MaxLaunches    \* bound: starts of the process

ASSUME SessionsAssumption ==
  /\ MaxSessions \in Nat /\ MaxLaunches \in Nat \ {0}
  /\ IsFiniteSet(OtherDocs)
  /\ Completions = [what: {"load", "fetch", "refresh"}, session: 1..MaxSessions]

VARIABLES
  allEvents,       \* EventHandler.instance.allEvents
  annotations,     \* the pins of the current map view
  rows,            \* the event shown by each row of the current table
  refreshing,      \* the table's UIRefreshControl is spinning
  newCoordinates,  \* the table has a user location
  tableLoaded,     \* the table's viewDidLoad has run
  place,           \* the screen: Home or one of the tabs
  sheet,           \* what is presented over it
  form,            \* what the create form was given by its presenter
  owner,           \* UserHandler.instance.user?.email is not nil
  session, launch,
  trapped,         \* a Swift runtime trap ended the process
  unpinned,        \* history: the list was replaced without telling the map
  stranded,        \* history: ... while its events were pinned
  rowsStale,       \* history: the list was replaced since reloadData
  failedRefresh,   \* history: a refresh of this table ended in an error
  lastSeen         \* history: `seen` of the last read whose completion ran

screenVars == <<newCoordinates, tableLoaded, place, sheet, form, owner, session,
                launch, trapped>>
historyVars == <<unpinned, stranded, rowsStale, failedRefresh, lastSeen>>
feedVars == <<allEvents, annotations, rows, refreshing, screenVars, historyVars>>
vars == <<storeVars, feedVars>>

Event == [doc: Docs, from: 0..MaxReads]
Tabs == {"Map", "Table", "Settings"}
Listed == {e.doc : e \in ToSet(allEvents)}

NoForm == [mapView |-> FALSE, coordinates |-> FALSE]

\* The one way to list documents in the order of their keys.
InKeyOrder(docs) ==
  {list \in [1..Cardinality(docs) -> docs] :
     \A i, j \in DOMAIN list : i < j => list[i] < list[j]}

\* The lists of Event objects readEvents makes of a query result: one.
EventsOf(answer) ==
  {[i \in DOMAIN list |-> [doc |-> list[i], from |-> answer.read.id]] :
     list \in InKeyOrder(answer.docs)}

InTab(tab) == ~trapped /\ place = tab /\ sheet = "None"

-----------------------------------------------------------------------------
FeedInit ==
  /\ StoreInit
  /\ allEvents = <<>> /\ annotations = {} /\ rows = <<>>
  /\ refreshing = FALSE /\ newCoordinates = FALSE /\ tableLoaded = FALSE
  /\ place = "Home" /\ sheet = "None"
  /\ form = NoForm
  /\ owner = FALSE /\ session = 0 /\ launch = 1 /\ trapped = FALSE
  /\ unpinned = FALSE /\ stranded = FALSE /\ rowsStale = FALSE
  /\ failedRefresh = FALSE /\ lastSeen = 0

(* A segue to the tab bar: MapViewController.viewDidLoad reads the events, *)
(* viewWillAppear pins the ones left over from an earlier session.         *)
EnterTabs ==
  /\ ~trapped /\ place = "Home" /\ session < MaxSessions
  /\ session' = session + 1 /\ place' = "Map" /\ owner' \in BOOLEAN
  /\ GetDocuments([what |-> "load", session |-> session'])
  /\ annotations' = ToSet(allEvents)
  /\ unpinned' = FALSE /\ stranded' = FALSE /\ rowsStale' = FALSE
  /\ failedRefresh' = FALSE
  /\ UNCHANGED <<allEvents, rows, refreshing, newCoordinates, tableLoaded,
                 sheet, form, launch, trapped, lastSeen>>

(* MapViewController.viewWillAppear, each time the tab comes back.         *)
SelectMap ==
  /\ InTab("Table") \/ InTab("Settings")
  /\ place' = "Map"
  /\ annotations' = annotations \cup ToSet(allEvents)
  /\ unpinned' = FALSE
  /\ UNCHANGED <<storeVars, allEvents, rows, refreshing, newCoordinates,
                 tableLoaded, sheet, form, owner, session, launch, trapped,
                 stranded, rowsStale, failedRefresh, lastSeen>>

(* EventTableViewController.viewDidLoad, the first time only.              *)
SelectTable ==
  /\ InTab("Map") \/ InTab("Settings")
  /\ place' = "Table" /\ tableLoaded' = TRUE
  /\ IF tableLoaded THEN UNCHANGED <<rows, rowsStale>>
                    ELSE rows' = allEvents /\ rowsStale' = FALSE
  /\ UNCHANGED <<storeVars, allEvents, annotations, refreshing, newCoordinates,
                 sheet, form, owner, session, launch, trapped, unpinned,
                 stranded, failedRefresh, lastSeen>>

SelectSettings ==
  /\ InTab("Map") \/ InTab("Table")
  /\ place' = "Settings"
  /\ UNCHANGED <<storeVars, allEvents, annotations, rows, refreshing,
                 newCoordinates, tableLoaded, sheet, form, owner, session,
                 launch, trapped, historyVars>>

\* Fault: the button unwinds to the log in screen.
LogOutToLogin ==
  /\ InTab("Settings")
  /\ place' = "Login" /\ owner' = FALSE
  /\ annotations' = {} /\ rows' = <<>> /\ refreshing' = FALSE
  /\ tableLoaded' = FALSE /\ newCoordinates' = FALSE
  /\ UNCHANGED <<storeVars, allEvents, sheet, form, session, launch, trapped,
                 historyVars>>

(* The log out button unwinds to Home, even where signing out fails, and   *)
(* the tab bar goes with its views; allEvents is a singleton and stays.    *)
LogOut ==
  /\ InTab("Settings")
  /\ place' = "Home" /\ owner' \in {FALSE, owner}
  /\ annotations' = {} /\ rows' = <<>> /\ refreshing' = FALSE
  /\ tableLoaded' = FALSE /\ newCoordinates' = FALSE
  /\ UNCHANGED <<storeVars, allEvents, sheet, form, session, launch, trapped,
                 historyVars>>

(* A completion of Session sets UserHandler.user anew.                     *)
OwnerChanges ==
  /\ ~trapped /\ owner' = ~owner
  /\ UNCHANGED <<storeVars, allEvents, annotations, rows, refreshing,
                 newCoordinates, tableLoaded, place, sheet, form, session,
                 launch, trapped, historyVars>>

(* EventTableViewController.locationManager(_:didUpdateLocations:)         *)
DidUpdateLocations ==
  /\ ~trapped /\ tableLoaded /\ newCoordinates' = TRUE
  /\ UNCHANGED <<storeVars, allEvents, annotations, rows, refreshing,
                 tableLoaded, place, sheet, form, owner, session, launch,
                 trapped, historyVars>>

-----------------------------------------------------------------------------
Present(s, f) ==
  /\ sheet' = s /\ form' = f
  /\ UNCHANGED <<storeVars, allEvents, annotations, rows, refreshing,
                 newCoordinates, tableLoaded, place, owner, session, launch,
                 trapped, historyVars>>

Trap ==
  /\ trapped' = TRUE
  /\ UNCHANGED <<storeVars, allEvents, annotations, rows, refreshing,
                 newCoordinates, tableLoaded, place, sheet, form, owner,
                 session, launch, historyVars>>

\* Fault: the long touch does not pass its coordinates on.
LongTouchWithoutCoordinates ==
  InTab("Map") /\ Present("Create", [mapView |-> TRUE, coordinates |-> FALSE])

LongTouchHappened ==
  InTab("Map") /\ Present("Create", [mapView |-> TRUE, coordinates |-> TRUE])

ShowCreateNewEventController ==
  /\ InTab("Table")
  /\ Present("Create", [mapView |-> FALSE, coordinates |-> newCoordinates])

CalloutTapped == InTab("Map") /\ annotations # {} /\ Present("Detail", NoForm)

DismissSheet == ~trapped /\ sheet # "None" /\ Present("None", NoForm)

\* Fault: the new event is inserted at the front of the list.
CreateNewEventInFront ==
  /\ ~trapped /\ sheet = "Create" /\ owner
  /\ form.coordinates
  /\ AddDocument
  /\ allEvents' = <<[doc |-> nextWrite, from |-> 0]>> \o allEvents
  /\ annotations' = IF form.mapView
                    THEN annotations \cup {Last(allEvents')} ELSE annotations
  /\ sheet' = "None" /\ form' = NoForm
  /\ UNCHANGED <<rows, refreshing, newCoordinates, tableLoaded, place,
                 owner, session, launch, trapped, historyVars>>

(* EventHandler.insertNewEvent, and updateMap for the last of the list.    *)
InsertNewEvent == allEvents' = Append(allEvents, [doc |-> nextWrite, from |-> 0])
UpdateMap == annotations' = annotations \cup {Last(allEvents')}

(* createNewEventButtonClicked: write, append, pin the last event of the   *)
(* list, dismiss.  Without an owner the button does nothing; without       *)
(* coordinates the implicit unwrapping traps.                              *)
CreateNewEvent ==
  /\ ~trapped /\ sheet = "Create" /\ owner
  /\ \/ ~form.coordinates /\ Trap
     \/ /\ form.coordinates
        /\ AddDocument
        /\ InsertNewEvent
        /\ IF form.mapView THEN UpdateMap ELSE UNCHANGED annotations
        /\ sheet' = "None" /\ form' = NoForm
        /\ UNCHANGED <<rows, refreshing, newCoordinates, tableLoaded, place,
                       owner, session, launch, trapped, historyVars>>

-----------------------------------------------------------------------------
FetchEventButton ==
  /\ InTab("Map")
  /\ GetDocuments([what |-> "fetch", session |-> session])
  /\ UNCHANGED feedVars

(* refreshTableViewController: reloadData runs at once, not in the         *)
(* completion.  A spinning control does not fire again.                    *)
Refresh ==
  /\ InTab("Table") /\ ~refreshing
  /\ GetDocuments([what |-> "refresh", session |-> session])
  /\ refreshing' = TRUE
  /\ rows' = allEvents /\ rowsStale' = FALSE
  /\ failedRefresh' = FALSE
  /\ UNCHANGED <<allEvents, annotations, screenVars, unpinned, stranded,
                 lastSeen>>

(* readEvents only prints an error: the completion is not called.          *)
ReadFailed ==
  /\ ~trapped /\ answers # <<>> /\ ~Head(answers).ok
  /\ Deliver
  /\ failedRefresh' = (failedRefresh \/ Head(answers).read.completion =
                         [what |-> "refresh", session |-> session])
  /\ UNCHANGED <<allEvents, annotations, rows, refreshing, screenVars,
                 unpinned, stranded, rowsStale, lastSeen>>

\* Fault: the completion appends to the list instead of replacing it.
CompletionAppends(what) ==
  /\ ~trapped /\ answers # <<>> /\ Head(answers).ok
  /\ Head(answers).read.completion.what = what
  /\ Deliver
  /\ \E new \in EventsOf(Head(answers)) : allEvents' = allEvents \o new
  /\ lastSeen' = Head(answers).read.seen
  /\ rowsStale' = TRUE
  /\ UNCHANGED <<rows, screenVars, failedRefresh>>

Completion(what) ==
  /\ ~trapped /\ answers # <<>> /\ Head(answers).ok
  /\ Head(answers).read.completion.what = what
  /\ Deliver
  /\ allEvents' \in EventsOf(Head(answers))
  /\ lastSeen' = Head(answers).read.seen
  /\ rowsStale' = TRUE
  /\ UNCHANGED <<rows, screenVars, failedRefresh>>

OwnViews == place # "Home" /\ Head(answers).read.completion.session = session
Strands == stranded \/ annotations \cap ToSet(allEvents) # {}

(* Completion of the read in MapViewController.viewDidLoad.                *)
Loaded ==
  /\ Completion("load")
  /\ IF OwnViews
     THEN annotations' = annotations \cup ToSet(allEvents') /\ unpinned' = FALSE
     ELSE UNCHANGED annotations /\ unpinned' = TRUE
  /\ stranded' = Strands
  /\ UNCHANGED refreshing

\* Fault: the old annotations are removed after the list was replaced.
FetchedRemovingLate ==
  /\ Completion("fetch")
  /\ IF OwnViews
     THEN /\ annotations' = annotations \cup ToSet(allEvents')
          /\ unpinned' = FALSE /\ UNCHANGED stranded
     ELSE UNCHANGED annotations /\ unpinned' = TRUE /\ stranded' = Strands
  /\ UNCHANGED refreshing

(* Completion of the read in fetchEventButton.                             *)
Fetched ==
  /\ Completion("fetch")
  /\ IF OwnViews
     THEN /\ annotations' = (annotations \ ToSet(allEvents))
                              \cup ToSet(allEvents')
          /\ unpinned' = FALSE /\ UNCHANGED stranded
     ELSE UNCHANGED annotations /\ unpinned' = TRUE /\ stranded' = Strands
  /\ UNCHANGED refreshing

\* Fault: the completion does not call endRefreshing.
RefreshedSpinning ==
  /\ Completion("refresh")
  /\ unpinned' = TRUE /\ stranded' = Strands
  /\ UNCHANGED <<annotations, refreshing>>

(* Completion of the read in refreshTableViewController.                   *)
Refreshed ==
  /\ Completion("refresh")
  /\ refreshing' = (refreshing /\ ~OwnViews)
  /\ unpinned' = TRUE /\ stranded' = Strands
  /\ UNCHANGED annotations

(* tableView(_:cellForRowAt:) as a row scrolls into view.  The table asks  *)
(* for the rows it counted at the last reloadData.                         *)
CellForRow(i) ==
  /\ InTab("Table") /\ i \in 1..Len(rows)
  /\ \/ i > Len(allEvents) /\ Trap
     \/ /\ i <= Len(allEvents)
        /\ rows' = [rows EXCEPT ![i] = allEvents[i]]
        /\ UNCHANGED <<storeVars, allEvents, annotations, refreshing,
                       screenVars, historyVars>>

(* tableView(_:didSelectRowAt:)                                            *)
DidSelectRow(i) ==
  /\ InTab("Table") /\ i \in 1..Len(rows)
  /\ \/ i > Len(allEvents) /\ Trap
     \/ i <= Len(allEvents) /\ Present("Detail", NoForm)

(* The process ends, by a trap or by the system, and is started again.     *)
RelaunchApp ==
  /\ launch < MaxLaunches /\ launch' = launch + 1
  /\ Relaunch
  /\ allEvents' = <<>> /\ annotations' = {} /\ rows' = <<>>
  /\ refreshing' = FALSE /\ newCoordinates' = FALSE /\ tableLoaded' = FALSE
  /\ place' = "Home" /\ sheet' = "None" /\ trapped' = FALSE
  /\ owner' = FALSE
  /\ unpinned' = FALSE /\ stranded' = FALSE /\ rowsStale' = FALSE
  /\ failedRefresh' = FALSE /\ lastSeen' = 0
  /\ form' = NoForm
  /\ UNCHANGED session

StoreWorks == ~trapped /\ StoreStep /\ UNCHANGED feedVars

Navigate == \/ EnterTabs \/ SelectMap \/ SelectTable \/ SelectSettings
            \/ LogOut \/ OwnerChanges \/ DidUpdateLocations
            \/ LongTouchHappened \/ ShowCreateNewEventController
            \/ CalloutTapped \/ DismissSheet

RunCompletion == ReadFailed \/ Loaded \/ Fetched \/ Refreshed

FeedNext ==
  \/ Navigate \/ CreateNewEvent \/ FetchEventButton \/ Refresh
  \/ RunCompletion
  \/ \E i \in 1..(MaxWrites + Cardinality(OtherDocs)) :
        CellForRow(i) \/ DidSelectRow(i)
  \/ StoreWorks \/ RelaunchApp

FeedSpec == FeedInit /\ [][FeedNext]_vars

(* The main queue runs what is on it, and the client answers every read,   *)
(* if need be from the cache after its online-state timeout.               *)
StoreAnswers ==
  /\ ~trapped
  /\ ProcessRead \/ ProcessWrite \/ AnswerFromCache \/ FailReads
  /\ UNCHANGED feedVars

FairFeedSpec == FeedSpec /\ WF_vars(StoreAnswers) /\ WF_vars(RunCompletion)

-----------------------------------------------------------------------------
FeedTypeOK ==
  /\ StoreTypeOK
  /\ allEvents \in Seq(Event) /\ rows \in Seq(Event)
  /\ annotations \in SUBSET Event
  /\ place \in Tabs \cup {"Home"} /\ sheet \in {"None", "Create", "Detail"}
  /\ form \in [mapView: BOOLEAN, coordinates: BOOLEAN]
  /\ session \in 0..MaxSessions /\ launch \in 0..MaxLaunches
  /\ lastSeen \in 0..MaxWrites
  /\ {refreshing, newCoordinates, tableLoaded, owner, trapped, unpinned,
      stranded, rowsStale, failedRefresh} \subseteq BOOLEAN

(* No event is listed twice: a completion replaces the list, so an event   *)
(* appended by the create form and later read back does not show up as two *)
(* rows, however reads and creations overlap.                              *)
OneRowPerEvent ==
  \A i, j \in 1..Len(allEvents) :
     allEvents[i].doc = allEvents[j].doc => i = j

(* An event created before a read was issued is still listed after that    *)
(* read's completion has replaced the list (unless the store withdrew it): *)
(* refreshing cannot lose one's own event.                                 *)
CreatedEventsSurviveReads == 1..lastSeen \subseteq Listed \cup withdrawn

(* Pins and list agree.  As long as only the map's own fetch replaced      *)
(* pinned events, no pin is left over from an earlier list; and on the map *)
(* every listed event has its pin, unless a completion of the table, or of *)
(* an earlier session, replaced the list behind the map.                   *)
PinsMatchList ==
  /\ ~stranded => annotations \subseteq ToSet(allEvents)
  /\ place = "Map" /\ ~unpinned => ToSet(allEvents) \subseteq annotations

(* Until a completion replaces the list, row i of the table shows entry i  *)
(* of the list, so cellForRowAt and didSelectRowAt index the right event.  *)
FreshRowsArePrefix ==
  tableLoaded /\ ~rowsStale => IsPrefix(rows, allEvents)

(* The process traps only where the table kept rows of a list that a       *)
(* completion has replaced, or where the create form was opened from the   *)
(* table before the first location update.                                 *)
TrapsExplained ==
  trapped => \/ rowsStale
             \/ place = "Table" /\ sheet = "Create" /\ ~form.coordinates

(* Within a launch an event of another phone, once listed, stays listed:   *)
(* no completion brings back an older result (a document that the server   *)
(* refuses is withdrawn).                                                  *)
OtherEventsStay ==
  [][launch' = launch => Listed \cap OtherDocs \subseteq Listed' \cup withdrawn]_vars

(* MapViewController.swift:28 says of the first read that it fetches the   *)
(* events "and ads them into the eventhandler.instance.allEvents".         *)
LoadAddsToList ==
  [][/\ answers # <<>> /\ answers' = Tail(answers) /\ launch' = launch
     /\ Head(answers).ok /\ Head(answers).read.completion.what = "load"
     => Listed \subseteq Listed' \cup withdrawn]_vars

(* A refresh ends: its completion stops the control, unless the read       *)
(* failed (readEvents drops the completion then), the process ended, or    *)
(* the table is gone.                                                      *)
RefreshEnds == refreshing ~> (~refreshing \/ failedRefresh \/ trapped)
=============================================================================
