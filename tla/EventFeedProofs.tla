-------------------------- MODULE EventFeedProofs ---------------------------
(***************************************************************************)
(* Theorems about EventFeed, for every number of reads, writes, documents, *)
(* entries into the tab bar and launches.                                  *)
(*                                                                         *)
(* The argument: a step of the screens is a step of the store or leaves it *)
(* alone (FeedStepsStore), so the store's invariants hold of the app.  To  *)
(* the list a step does nothing, appends, replaces or empties (ListSteps); *)
(* with what the store guarantees of the result that replaces it, and with *)
(* ListedKept, that every result on the main queue holds what is listed of *)
(* other phones, the list's properties are inductive.  Pins, rows and      *)
(* traps follow case by case with ScreenInv: which screen can present      *)
(* which form, and that a selected table has been loaded.                  *)
(***************************************************************************)
EXTENDS EventFeed, EventStoreProofs, FiniteSetTheorems

(* What the screens rely on: nothing is presented over Home, and the table *)
(* has been loaded where it is selected; only the table opens the create   *)
(* form without coordinates, or without the map to pin the new event on.   *)
ScreenInv ==
  /\ session \in 0..MaxSessions
  /\ place # "Home" => session \in 1..MaxSessions
  /\ place = "Home" => sheet = "None" /\ ~tableLoaded
  /\ place = "Table" => tableLoaded
  /\ sheet = "Create" => \/ place = "Table"
                         \/ place = "Map" /\ form.mapView /\ form.coordinates

(* The bounds are numbers.                                                 *)
LEMMA Bounds ==
  /\ MaxSessions \in Nat /\ MaxLaunches \in Nat \ {0}
  /\ MaxReads \in Nat /\ MaxWrites \in Nat
<1>1. MaxSessions \in Nat /\ MaxLaunches \in Nat \ {0}
  BY SessionsAssumption
<1>2. QED
  BY <1>1, BoundsAssumption

(* A step of the app is a step of the store it uses.                       *)
LEMMA FeedStepsStore ==
  ASSUME ScreenInv, [FeedNext]_vars
  PROVE  [StoreNext]_storeVars
<1>a. MaxSessions \in Nat
  BY SessionsAssumption
<1>b. \A what \in {"load", "fetch", "refresh"}, n \in 1..MaxSessions :
        [what |-> what, session |-> n] \in Completions
  BY SessionsAssumption
<1>1. CASE EnterTabs
  <2>1. [what |-> "load", session |-> session'] \in Completions
    <3>1. session' = session + 1 /\ session < MaxSessions
      BY <1>1 DEF EnterTabs
    <3>2. session' \in 1..MaxSessions
      BY <1>a, <3>1 DEF ScreenInv
    <3>3. QED
      BY <1>b, <3>2
  <2>2. GetDocuments([what |-> "load", session |-> session'])
    BY <1>1 DEF EnterTabs
  <2>3. QED
    BY <2>1, <2>2 DEF StoreNext
<1>2. CASE FetchEventButton
  <2>1. [what |-> "fetch", session |-> session] \in Completions
    BY <1>b, <1>2 DEF Tabs, FetchEventButton, InTab, ScreenInv
  <2>2. QED
    BY <1>2, <2>1 DEF FetchEventButton, StoreNext
<1>3. CASE Refresh
  <2>1. [what |-> "refresh", session |-> session] \in Completions
    BY <1>b, <1>3 DEF Refresh, InTab, ScreenInv
  <2>2. QED
    BY <1>3, <2>1 DEF Refresh, StoreNext
<1>4. CASE Navigate /\ ~EnterTabs
  <2>1. UNCHANGED storeVars
    BY <1>4 DEF Navigate, SelectMap, SelectTable, SelectSettings, LogOut,
                OwnerChanges, DidUpdateLocations, LongTouchHappened, Present,
                ShowCreateNewEventController, CalloutTapped, DismissSheet
  <2>2. QED
    BY <2>1
<1>5. CASE CreateNewEvent
  BY <1>5 DEF CreateNewEvent, Trap, StoreNext
<1>6. CASE RunCompletion
  BY <1>6 DEF RunCompletion, ReadFailed, Loaded, Fetched, Refreshed,
              Completion, StoreNext
<1>7. ASSUME NEW i, CellForRow(i) \/ DidSelectRow(i)
      PROVE  UNCHANGED storeVars
  BY <1>7 DEF CellForRow, DidSelectRow, Trap, Present
<1>8. CASE StoreWorks
  BY <1>8 DEF StoreWorks, StoreNext
<1>9. CASE RelaunchApp
  BY <1>9 DEF RelaunchApp, StoreNext
<1>10. CASE UNCHANGED vars
  BY <1>10 DEF vars
<1>11. QED
  BY <1>1, <1>2, <1>3, <1>4, <1>5, <1>6, <1>7, <1>8, <1>9, <1>10 DEF FeedNext

(* The list made of a result has an event for each document, and one only. *)
LEMMA EventsOfAnswer ==
  ASSUME NEW a \in Answer, NEW list \in EventsOf(a)
  PROVE  /\ list \in Seq(Event)
         /\ {e.doc : e \in ToSet(list)} = a.docs
         /\ \A i, j \in 1..Len(list) : list[i].doc = list[j].doc => i = j
<1> DEFINE n == Cardinality(a.docs)
<1>1. a.docs \subseteq Docs /\ a.docs \subseteq Nat /\ a.read.id \in 0..MaxReads
  <2>1. a.docs \subseteq Docs /\ a.read \in Read
    BY DEF Answer
  <2>2. a.read.id \in 1..MaxReads
    BY <2>1 DEF Read
  <2>3. Docs \subseteq Nat
    BY OtherDocsAssumption, BoundsAssumption DEF Docs, MyDocs
  <2>4. \A k \in 1..MaxReads : k \in 0..MaxReads
    BY BoundsAssumption
  <2>5. QED
    BY <2>1, <2>2, <2>3, <2>4
<1>2. IsFiniteSet(a.docs) /\ n \in Nat
  <2>1. IsFiniteSet(Docs)
    <3>1. IsFiniteSet(1..MaxWrites)
      <4>1. 1 \in Int /\ MaxWrites \in Int
        BY BoundsAssumption
      <4>2. QED
        BY <4>1, FS_Interval
    <3>2. IsFiniteSet(OtherDocs)
      BY SessionsAssumption
    <3>3. IsFiniteSet((1..MaxWrites) \cup OtherDocs)
      BY <3>1, <3>2, FS_Union
    <3>4. QED
      BY <3>3 DEF Docs, MyDocs
  <2>2. IsFiniteSet(a.docs)
    BY <1>1, <2>1, FS_Subset
  <2>3. Cardinality(a.docs) \in Nat
    BY <2>2, FS_CardinalityType
  <2>4. QED
    BY <2>2, <2>3
<1>3. PICK docs \in [1..n -> a.docs] :
        /\ \A i, j \in 1..n : i < j => docs[i] < docs[j]
        /\ list = [i \in 1..n |-> [doc |-> docs[i], from |-> a.read.id]]
  BY DEF EventsOf, InKeyOrder
<1> HIDE DEF n
<1>4. \A i, j \in 1..n : docs[i] = docs[j] => i = j
  <2> SUFFICES ASSUME NEW i \in 1..n, NEW j \in 1..n, docs[i] = docs[j]
               PROVE  i = j
    OBVIOUS
  <2>1. docs[i] \in Nat /\ docs[j] \in Nat
    BY <1>1, <1>3
  <2>2. QED
    BY <1>2, <1>3, <2>1
<1>5. {docs[i] : i \in 1..n} = a.docs
  <2>1. docs \in Injection(1..n, a.docs)
    BY <1>4 DEF Injection, IsInjective
  <2>2. Cardinality(1..n) = Cardinality(a.docs)
    BY <1>2, FS_Interval DEF n
  <2>3. docs \in Surjection(1..n, a.docs)
    BY <1>2, <2>1, <2>2, FS_Injection
  <2>4. QED
    BY <2>3 DEF Surjection
<1>6. list \in [1..n -> Event]
  BY <1>1, <1>3 DEF Event
<1>7. list \in Seq(Event) /\ Len(list) = n
  <2>1. list \in Seq(Event)
    BY <1>2, <1>6, SeqDef
  <2>2. QED
    BY <1>2, <1>6, <2>1, LenProperties
<1>8. \A i \in 1..n : list[i].doc = docs[i]
  BY <1>3
<1>9. {e.doc : e \in ToSet(list)} = a.docs
  <2>1. ToSet(list) = {list[i] : i \in 1..n}
    BY <1>6 DEF ToSet
  <2>2. {e.doc : e \in ToSet(list)} = {docs[i] : i \in 1..n}
    BY <1>8, <2>1
  <2>3. QED
    BY <1>5, <2>2
<1>10. QED
  BY <1>4, <1>7, <1>8, <1>9

(* The screens' invariant holds at first and is kept by every step.        *)
LEMMA ScreenInit == FeedInit => ScreenInv
<1>1. 0 \in 0..MaxSessions
  BY Bounds
<1>2. QED
  BY <1>1 DEF FeedInit, ScreenInv

LEMMA ScreenStep ==
  ASSUME ScreenInv, [FeedNext]_vars
  PROVE  ScreenInv'
<1> USE DEF ScreenInv, InTab
<1>1. CASE EnterTabs
  <2>1. session' = session + 1 /\ session < MaxSessions
    BY <1>1 DEF EnterTabs
  <2>2. place' = "Map" /\ place = "Home" /\ sheet' = sheet
    BY <1>1 DEF EnterTabs
  <2>3. MaxSessions \in Nat
    BY Bounds
  <2>4. QED
    BY <2>1, <2>2, <2>3
<1>2. CASE SelectMap \/ SelectTable \/ SelectSettings
  BY <1>2 DEF SelectMap, SelectTable, SelectSettings
<1>3. CASE LogOut \/ OwnerChanges \/ DidUpdateLocations
  <2>1. \/ UNCHANGED <<session, place, sheet, form, tableLoaded>>
        \/ UNCHANGED <<session, sheet>> /\ place' = "Home" /\ tableLoaded' = FALSE
              /\ sheet = "None"
    BY <1>3 DEF LogOut, OwnerChanges, DidUpdateLocations
  <2>2. QED
    BY <2>1
<1>4. CASE LongTouchHappened \/ ShowCreateNewEventController
  BY <1>4 DEF LongTouchHappened, ShowCreateNewEventController, Present
<1>5. CASE CalloutTapped \/ DismissSheet
  BY <1>5 DEF CalloutTapped, DismissSheet, Present
<1>6. CASE CreateNewEvent
  <2>1. /\ UNCHANGED <<session, place, tableLoaded>>
        /\ sheet' = "None" \/ UNCHANGED <<sheet, form>>
    BY <1>6 DEF CreateNewEvent, Trap
  <2>2. QED
    BY <2>1
<1>7. CASE FetchEventButton \/ Refresh
  <2>1. UNCHANGED screenVars
    BY <1>7 DEF FetchEventButton, Refresh, feedVars
  <2>2. QED
    BY <2>1 DEF screenVars
<1>8. CASE RunCompletion
  <2>1. UNCHANGED screenVars
    BY <1>8 DEF RunCompletion, ReadFailed, Loaded, Fetched, Refreshed, Completion
  <2>2. QED
    BY <2>1 DEF screenVars
<1>9. ASSUME NEW i, CellForRow(i) \/ DidSelectRow(i)
      PROVE  ScreenInv'
  BY <1>9 DEF CellForRow, DidSelectRow, Trap, Present, screenVars
<1>10. CASE StoreWorks \/ UNCHANGED vars
  BY <1>10 DEF StoreWorks, vars, feedVars, screenVars
<1>11. CASE RelaunchApp
  BY <1>11 DEF RelaunchApp
<1>12. QED
  BY <1>1, <1>2, <1>3, <1>4, <1>5, <1>6, <1>7, <1>8, <1>9, <1>10, <1>11
     DEF FeedNext, Navigate

-----------------------------------------------------------------------------
(* Type correctness, part by part.                                         *)
LEMMA FeedTypeInit == FeedInit => FeedTypeOK
<1> SUFFICES ASSUME FeedInit
             PROVE  FeedTypeOK
  OBVIOUS
<1>1. StoreTypeOK
  BY StoreTypeInit DEF FeedInit
<1>2. /\ session \in 0..MaxSessions /\ launch \in 0..MaxLaunches
      /\ lastSeen \in 0..MaxWrites
  BY Bounds DEF FeedInit
<1>3. allEvents \in Seq(Event) /\ rows \in Seq(Event)
  BY EmptySeq DEF FeedInit
<1>4. /\ place \in Tabs \cup {"Home"} /\ sheet \in {"None", "Create", "Detail"}
      /\ form \in [mapView: BOOLEAN, coordinates: BOOLEAN]
  BY DEF FeedInit, NoForm
<1>5. QED
  BY <1>1, <1>2, <1>3, <1>4 DEF FeedTypeOK, FeedInit

(* The flags are Boolean.                                                  *)
FlagsOK == {refreshing, newCoordinates, tableLoaded, owner, trapped, unpinned,
            stranded, rowsStale, failedRefresh} \subseteq BOOLEAN

LEMMA FlagsStep ==
  ASSUME FlagsOK, [FeedNext]_vars
  PROVE  FlagsOK'
<1> USE DEF FlagsOK
<1>1. CASE EnterTabs
  BY <1>1 DEF EnterTabs
<1>2. CASE SelectMap \/ SelectTable \/ SelectSettings
  BY <1>2 DEF SelectMap, SelectTable, SelectSettings, historyVars
<1>3. CASE LogOut \/ OwnerChanges \/ DidUpdateLocations
  BY <1>3 DEF LogOut, OwnerChanges, DidUpdateLocations, historyVars
<1>4. CASE LongTouchHappened \/ ShowCreateNewEventController
  BY <1>4 DEF LongTouchHappened, ShowCreateNewEventController, Present, historyVars
<1>5. CASE CalloutTapped \/ DismissSheet
  BY <1>5 DEF CalloutTapped, DismissSheet, Present, historyVars
<1>6. CASE CreateNewEvent
  BY <1>6 DEF CreateNewEvent, Trap, historyVars
<1>7. CASE FetchEventButton \/ Refresh
  BY <1>7 DEF FetchEventButton, Refresh, feedVars, screenVars, historyVars
<1>8. CASE RunCompletion
  BY <1>8 DEF RunCompletion, ReadFailed, Loaded, Fetched, Refreshed, Completion,
              screenVars, Strands
<1>9. ASSUME NEW i, CellForRow(i) \/ DidSelectRow(i)
      PROVE  FlagsOK'
  BY <1>9 DEF CellForRow, DidSelectRow, Trap, Present, screenVars, historyVars
<1>10. CASE StoreWorks \/ UNCHANGED vars
  BY <1>10 DEF StoreWorks, vars, feedVars, screenVars, historyVars
<1>11. CASE RelaunchApp
  BY <1>11 DEF RelaunchApp
<1>12. QED
  BY <1>1, <1>2, <1>3, <1>4, <1>5, <1>6, <1>7, <1>8, <1>9, <1>10, <1>11
     DEF FeedNext, Navigate

-----------------------------------------------------------------------------
(* What a step does to the list: nothing; the create form appends to it; a *)
(* completion replaces it; a restart empties it.                           *)
ListUntouched == UNCHANGED <<allEvents, lastSeen, launch>>

Inserts == AddDocument /\ InsertNewEvent /\ UNCHANGED <<lastSeen, launch>>

Replaces ==
  /\ answers # <<>> /\ Head(answers).ok /\ Deliver
  /\ allEvents' \in EventsOf(Head(answers))
  /\ lastSeen' = Head(answers).read.seen
  /\ UNCHANGED launch

Empties ==
  /\ Relaunch
  /\ allEvents' = <<>> /\ lastSeen' = 0 /\ launch' = launch + 1

ListStep == ListUntouched \/ Inserts \/ Replaces \/ Empties

LEMMA ListSteps ==
  ASSUME [FeedNext]_vars
  PROVE  ListStep
<1> USE DEF ListStep, ListUntouched
<1>1. CASE EnterTabs \/ SelectMap \/ SelectTable \/ SelectSettings
  BY <1>1 DEF EnterTabs, SelectMap, SelectTable, SelectSettings, historyVars
<1>2. CASE LogOut \/ OwnerChanges \/ DidUpdateLocations
  BY <1>2 DEF LogOut, OwnerChanges, DidUpdateLocations, historyVars
<1>3. CASE \/ LongTouchHappened \/ ShowCreateNewEventController
           \/ CalloutTapped \/ DismissSheet
  BY <1>3 DEF LongTouchHappened, ShowCreateNewEventController, CalloutTapped,
              DismissSheet, Present, historyVars
<1>4. CASE CreateNewEvent
  BY <1>4 DEF CreateNewEvent, Trap, Inserts, historyVars
<1>5. CASE FetchEventButton \/ Refresh
  BY <1>5 DEF FetchEventButton, Refresh, feedVars, screenVars, historyVars
<1>6. CASE ReadFailed
  BY <1>6 DEF ReadFailed, screenVars
<1>7. CASE Loaded \/ Fetched \/ Refreshed
  BY <1>7 DEF Loaded, Fetched, Refreshed, Completion, screenVars, Replaces
<1>8. ASSUME NEW i, CellForRow(i) \/ DidSelectRow(i)
      PROVE  ListStep
  BY <1>8 DEF CellForRow, DidSelectRow, Trap, Present, screenVars, historyVars
<1>9. CASE StoreWorks \/ UNCHANGED vars
  BY <1>9 DEF StoreWorks, vars, feedVars, screenVars, historyVars
<1>10. CASE RelaunchApp
  BY <1>10 DEF RelaunchApp, Empties
<1>11. QED
  BY <1>1, <1>2, <1>3, <1>4, <1>5, <1>6, <1>7, <1>8, <1>9, <1>10
     DEF FeedNext, Navigate, RunCompletion

(* The event the create form appends.                                      *)
LEMMA NewEvent ==
  ASSUME StoreTypeOK, nextWrite <= MaxWrites
  PROVE  [doc |-> nextWrite, from |-> 0] \in Event /\ nextWrite \in MyDocs
<1>1. nextWrite \in 1..MaxWrites /\ 0 \in 0..MaxReads
  BY Bounds DEF StoreTypeOK
<1>2. QED
  BY <1>1 DEF Event, Docs, MyDocs

(* The head of the main queue, and what is left of it.                     *)
LEMMA HeadOfAnswers ==
  ASSUME StoreTypeOK, answers # <<>>
  PROVE  /\ Head(answers) \in Answer /\ Head(answers) = answers[1]
         /\ 1 \in 1..Len(answers) /\ Len(answers) \in Nat
         /\ Len(Tail(answers)) = Len(answers) - 1
         /\ \A i \in 1..Len(Tail(answers)) : Tail(answers)[i] = answers[i + 1]
BY HeadTailProperties, EmptySeq DEF StoreTypeOK

LEMMA ListTypeStep ==
  ASSUME StoreTypeOK, ListStep,
         allEvents \in Seq(Event), lastSeen \in 0..MaxWrites
  PROVE  allEvents' \in Seq(Event) /\ lastSeen' \in 0..MaxWrites
<1>1. CASE ListUntouched
  BY <1>1 DEF ListUntouched
<1>2. CASE Inserts
  <2>1. /\ allEvents' = Append(allEvents, [doc |-> nextWrite, from |-> 0])
        /\ nextWrite <= MaxWrites /\ lastSeen' = lastSeen
    BY <1>2 DEF Inserts, InsertNewEvent, AddDocument
  <2>2. [doc |-> nextWrite, from |-> 0] \in Event
    BY <2>1, NewEvent
  <2>3. QED
    BY <2>1, <2>2, AppendProperties
<1>3. CASE Replaces
  <2>1. /\ Head(answers) \in Answer
        /\ allEvents' \in EventsOf(Head(answers))
        /\ lastSeen' = Head(answers).read.seen
    BY <1>3, HeadOfAnswers DEF Replaces
  <2>2. Head(answers).read.seen \in 0..MaxWrites
    BY <2>1 DEF Answer, Read
  <2>3. QED
    BY <2>1, <2>2, EventsOfAnswer
<1>4. CASE Empties
  <2>1. 0 \in 0..MaxWrites
    BY Bounds
  <2>2. QED
    BY <1>4, <2>1, EmptySeq DEF Empties
<1>5. QED
  BY <1>1, <1>2, <1>3, <1>4 DEF ListStep

(* The elements of a list of events are events, the last one included.     *)
LEMMA ElementsAreEvents ==
  ASSUME NEW list \in Seq(Event)
  PROVE  /\ ToSet(list) = {list[i] : i \in 1..Len(list)}
         /\ ToSet(list) \subseteq Event
<1>1. ToSet(list) = {list[i] : i \in 1..Len(list)}
  BY LenProperties DEF ToSet
<1>2. \A i \in 1..Len(list) : list[i] \in Event
  BY ElementOfSeq
<1>3. QED
  BY <1>1, <1>2

(* What an insertion does to the list.                                     *)
LEMMA InsertedList ==
  ASSUME StoreTypeOK, allEvents \in Seq(Event), AddDocument, InsertNewEvent,
         NEW e, e = [doc |-> nextWrite, from |-> 0]
  PROVE  /\ e \in Event /\ nextWrite \in MyDocs /\ nextWrite' = nextWrite + 1
         /\ allEvents' \in Seq(Event) /\ Len(allEvents) \in Nat
         /\ Len(allEvents') = Len(allEvents) + 1
         /\ \A i \in 1..Len(allEvents) : allEvents'[i] = allEvents[i]
         /\ allEvents'[Len(allEvents) + 1] = e /\ Last(allEvents') = e
         /\ ToSet(allEvents') = ToSet(allEvents) \cup {e}
<1>1. /\ allEvents' = Append(allEvents, e)
      /\ nextWrite <= MaxWrites /\ nextWrite' = nextWrite + 1
  BY DEF InsertNewEvent, AddDocument
<1>2. e \in Event /\ nextWrite \in MyDocs
  BY <1>1, NewEvent
<1>3. /\ allEvents' \in Seq(Event) /\ Len(allEvents) \in Nat
      /\ Len(allEvents') = Len(allEvents) + 1
      /\ \A i \in 1..Len(allEvents) : allEvents'[i] = allEvents[i]
      /\ allEvents'[Len(allEvents) + 1] = e
  BY <1>1, <1>2, AppendProperties, LenProperties
<1>4. Last(allEvents') = e
  BY <1>3 DEF Last
<1>5. ToSet(allEvents') = ToSet(allEvents) \cup {e}
  <2>1. /\ ToSet(allEvents) = {allEvents[i] : i \in 1..Len(allEvents)}
        /\ ToSet(allEvents') = {allEvents'[i] : i \in 1..Len(allEvents')}
    BY <1>3, ElementsAreEvents
  <2>2. 1..Len(allEvents') = 1..Len(allEvents) \cup {Len(allEvents) + 1}
    BY <1>3
  <2>3. QED
    BY <1>3, <2>1, <2>2
<1>6. QED
  BY <1>1, <1>2, <1>3, <1>4, <1>5

(* Pins come from the list, the old one or the new one.                    *)
LEMMA PinsFromLists ==
  ASSUME [FeedNext]_vars, StoreTypeOK, allEvents \in Seq(Event)
  PROVE  annotations' \subseteq annotations \cup ToSet(allEvents)
                                  \cup ToSet(allEvents')
<1>1. CASE EnterTabs \/ SelectMap \/ SelectTable \/ SelectSettings
  BY <1>1 DEF EnterTabs, SelectMap, SelectTable, SelectSettings
<1>2. CASE LogOut \/ OwnerChanges \/ DidUpdateLocations
  BY <1>2 DEF LogOut, OwnerChanges, DidUpdateLocations
<1>3. CASE \/ LongTouchHappened \/ ShowCreateNewEventController
           \/ CalloutTapped \/ DismissSheet
  BY <1>3 DEF LongTouchHappened, ShowCreateNewEventController, CalloutTapped,
              DismissSheet, Present
<1>4. CASE CreateNewEvent
  <2>1. CASE UNCHANGED annotations
    BY <2>1
  <2>2. CASE AddDocument /\ InsertNewEvent /\ UpdateMap
    <3>1. Last(allEvents') \in ToSet(allEvents')
      BY <2>2, InsertedList
    <3>2. QED
      BY <2>2, <3>1 DEF UpdateMap
  <2>3. QED
    BY <1>4, <2>1, <2>2 DEF CreateNewEvent, Trap
<1>5. CASE FetchEventButton \/ Refresh
  BY <1>5 DEF FetchEventButton, Refresh, feedVars
<1>6. CASE RunCompletion
  BY <1>6 DEF RunCompletion, ReadFailed, Loaded, Fetched, Refreshed
<1>7. ASSUME NEW i, CellForRow(i) \/ DidSelectRow(i)
      PROVE  UNCHANGED annotations
  BY <1>7 DEF CellForRow, DidSelectRow, Trap, Present
<1>8. CASE StoreWorks \/ UNCHANGED vars
  BY <1>8 DEF StoreWorks, vars, feedVars
<1>9. CASE RelaunchApp
  BY <1>9 DEF RelaunchApp
<1>10. QED
  BY <1>1, <1>2, <1>3, <1>4, <1>5, <1>6, <1>7, <1>8, <1>9 DEF FeedNext, Navigate

(* Rows come from the list.                                                *)
LEMMA RowsFromList ==
  ASSUME [FeedNext]_vars, allEvents \in Seq(Event), rows \in Seq(Event)
  PROVE  rows' \in Seq(Event)
<1>1. CASE EnterTabs \/ SelectMap \/ SelectTable \/ SelectSettings
  BY <1>1 DEF EnterTabs, SelectMap, SelectTable, SelectSettings
<1>2. CASE LogOut \/ OwnerChanges \/ DidUpdateLocations
  BY <1>2, EmptySeq DEF LogOut, OwnerChanges, DidUpdateLocations
<1>3. CASE \/ LongTouchHappened \/ ShowCreateNewEventController
           \/ CalloutTapped \/ DismissSheet
  BY <1>3 DEF LongTouchHappened, ShowCreateNewEventController, CalloutTapped,
              DismissSheet, Present
<1>4. CASE CreateNewEvent
  BY <1>4 DEF CreateNewEvent, Trap
<1>5. CASE FetchEventButton \/ Refresh
  BY <1>5 DEF FetchEventButton, Refresh, feedVars
<1>6. CASE RunCompletion
  BY <1>6 DEF RunCompletion, ReadFailed, Loaded, Fetched, Refreshed, Completion
<1>7. ASSUME NEW i, CellForRow(i) \/ DidSelectRow(i)
      PROVE  rows' \in Seq(Event)
  <2>1. CASE UNCHANGED rows
    BY <2>1
  <2>2. CASE /\ i \in 1..Len(rows) /\ i <= Len(allEvents)
             /\ rows' = [rows EXCEPT ![i] = allEvents[i]]
    <3>1. i \in 1..Len(allEvents)
      BY <2>2, LenProperties
    <3>2. allEvents[i] \in Event
      BY <3>1, ElementOfSeq
    <3>3. QED
      BY <2>2, <3>2, ExceptSeq
  <2>3. QED
    BY <1>7, <2>1, <2>2 DEF CellForRow, DidSelectRow, Trap, Present
<1>8. CASE StoreWorks \/ UNCHANGED vars
  BY <1>8 DEF StoreWorks, vars, feedVars
<1>9. CASE RelaunchApp
  BY <1>9, EmptySeq DEF RelaunchApp
<1>10. QED
  BY <1>1, <1>2, <1>3, <1>4, <1>5, <1>6, <1>7, <1>8, <1>9 DEF FeedNext, Navigate

(* The screen, what is over it, and the launch.                            *)
PlacesOK ==
  /\ place \in Tabs \cup {"Home"} /\ sheet \in {"None", "Create", "Detail"}
  /\ form \in [mapView: BOOLEAN, coordinates: BOOLEAN]
  /\ launch \in 0..MaxLaunches

LEMMA PlacesStep ==
  ASSUME [FeedNext]_vars, PlacesOK, FlagsOK
  PROVE  PlacesOK'
<1> USE DEF PlacesOK, Tabs
<1>a. NoForm \in [mapView: BOOLEAN, coordinates: BOOLEAN]
  BY DEF NoForm
<1>b. ASSUME NEW s \in {"None", "Create", "Detail"},
             NEW f \in [mapView: BOOLEAN, coordinates: BOOLEAN], Present(s, f)
      PROVE  PlacesOK'
  BY <1>b DEF Present
<1>1. CASE EnterTabs \/ SelectMap \/ SelectTable \/ SelectSettings
  <2>1. place' \in Tabs /\ UNCHANGED <<sheet, form, launch>>
    BY <1>1 DEF EnterTabs, SelectMap, SelectTable, SelectSettings
  <2>2. QED
    BY <2>1
<1>2. CASE LogOut \/ OwnerChanges \/ DidUpdateLocations
  <2>1. place' \in {place, "Home"} /\ UNCHANGED <<sheet, form, launch>>
    BY <1>2 DEF LogOut, OwnerChanges, DidUpdateLocations
  <2>2. QED
    BY <2>1
<1>3. CASE \/ LongTouchHappened \/ ShowCreateNewEventController
           \/ CalloutTapped \/ DismissSheet
  <2>1. newCoordinates \in BOOLEAN
    BY DEF FlagsOK
  <2>2. /\ [mapView |-> TRUE, coordinates |-> TRUE]
             \in [mapView: BOOLEAN, coordinates: BOOLEAN]
        /\ [mapView |-> FALSE, coordinates |-> newCoordinates]
             \in [mapView: BOOLEAN, coordinates: BOOLEAN]
    BY <2>1
  <2>3. QED
    BY <1>3, <1>a, <1>b, <2>2 DEF LongTouchHappened,
       ShowCreateNewEventController, CalloutTapped, DismissSheet
<1>4. CASE CreateNewEvent
  <2>1. /\ UNCHANGED <<place, launch>>
        /\ \/ sheet' = "None" /\ form' = NoForm
           \/ UNCHANGED <<sheet, form>>
    BY <1>4 DEF CreateNewEvent, Trap
  <2>2. QED
    BY <1>a, <2>1
<1>5. CASE FetchEventButton \/ Refresh
  BY <1>5 DEF FetchEventButton, Refresh, feedVars, screenVars
<1>6. CASE RunCompletion
  BY <1>6 DEF RunCompletion, ReadFailed, Loaded, Fetched, Refreshed, Completion,
              screenVars
<1>7. ASSUME NEW i, CellForRow(i) \/ DidSelectRow(i)
      PROVE  PlacesOK'
  <2>1. Present("Detail", NoForm) \/ UNCHANGED <<place, sheet, form, launch>>
    BY <1>7 DEF CellForRow, DidSelectRow, Trap, screenVars
  <2>2. QED
    BY <1>a, <1>b, <2>1
<1>8. CASE StoreWorks \/ UNCHANGED vars
  BY <1>8 DEF StoreWorks, vars, feedVars, screenVars
<1>9. CASE RelaunchApp
  <2>1. launch' \in 0..MaxLaunches
    BY <1>9, Bounds DEF RelaunchApp
  <2>2. QED
    BY <1>9, <1>a, <2>1 DEF RelaunchApp
<1>10. QED
  BY <1>1, <1>2, <1>3, <1>4, <1>5, <1>6, <1>7, <1>8, <1>9 DEF FeedNext, Navigate

LEMMA FeedTypeStep ==
  ASSUME FeedTypeOK, ScreenInv, [FeedNext]_vars
  PROVE  FeedTypeOK'
<1>1. StoreTypeOK'
  BY FeedStepsStore, StoreTypeStep DEF FeedTypeOK
<1>2. allEvents' \in Seq(Event) /\ lastSeen' \in 0..MaxWrites
  BY ListSteps, ListTypeStep DEF FeedTypeOK
<1>3. annotations' \in SUBSET Event
  <2>1. ToSet(allEvents) \subseteq Event /\ ToSet(allEvents') \subseteq Event
    BY <1>2, ElementsAreEvents DEF FeedTypeOK
  <2>2. QED
    BY <2>1, PinsFromLists DEF FeedTypeOK
<1>4. rows' \in Seq(Event)
  BY RowsFromList DEF FeedTypeOK
<1>5. PlacesOK' /\ FlagsOK'
  BY PlacesStep, FlagsStep DEF FeedTypeOK, PlacesOK, FlagsOK
<1>6. ScreenInv'
  BY ScreenStep
<1>7. QED
  BY <1>1, <1>2, <1>3, <1>4, <1>5, <1>6
     DEF FeedTypeOK, PlacesOK, FlagsOK, ScreenInv

-----------------------------------------------------------------------------
(* What a step of the store does to the results on the main queue: they    *)
(* stay, and one that joins them holds all that is kept, and no more.      *)
AnswersGrow ==
  /\ Kept \subseteq Kept' /\ withdrawn \subseteq withdrawn'
  /\ \A k \in 1..Len(answers') :
       \/ \E i \in 1..Len(answers) : answers'[k] = answers[i]
       \/ answers'[k].ok => /\ answers'[k].docs \subseteq Kept'
                            /\ Kept \subseteq answers'[k].docs \cup withdrawn'

LEMMA StoreStepsGrow ==
  ASSUME StoreTypeOK, [StoreNext]_storeVars
  PROVE  AnswersGrow
<1>a. ASSUME UNCHANGED answers, Kept \subseteq Kept', withdrawn \subseteq withdrawn'
      PROVE  AnswersGrow
  BY <1>a DEF AnswersGrow
<1>b. ASSUME NEW reads \in Seq(Read), NEW docs \in SUBSET Docs,
             \/ answers' = answers \o Raise(reads, docs)
             \/ answers' = answers \o RaiseError(reads),
             Kept \subseteq docs \cup withdrawn', docs \subseteq Kept',
             withdrawn \subseteq withdrawn'
      PROVE  AnswersGrow
  <2>1. Raised(reads, docs)
    BY <1>b, RaiseStep DEF StoreTypeOK
  <2>2. Kept \subseteq Kept'
    BY <1>b DEF Kept
  <2>3. QED
    BY <1>b, <2>1, <2>2 DEF Raised, AnswersGrow
<1>c. /\ LocalView \in SUBSET Docs /\ LocalView \subseteq Kept
      /\ Kept \subseteq LocalView \cup withdrawn
  BY DEF StoreTypeOK, LocalView, Docs, Kept
<1>d. ASSUME \/ UNCHANGED answers
             \/ answers' = answers \o Raise(waiting, known' \cup pending),
             withdrawn \subseteq withdrawn',
             known' \cup pending \in SUBSET Docs,
             known' \cup pending \subseteq Kept',
             Kept \subseteq (known' \cup pending) \cup withdrawn'
      PROVE  AnswersGrow
  <2>1. Kept \subseteq Kept'
    BY <1>d DEF Kept
  <2>2. QED
    BY <1>a, <1>b, <1>d, <2>1 DEF StoreTypeOK
<1>1. ASSUME NEW c \in Completions, GetDocuments(c)
      PROVE  AnswersGrow
  BY <1>1, <1>a DEF GetDocuments, Kept
<1>2. CASE AddDocument
  BY <1>2, <1>a DEF AddDocument, Kept
<1>3. CASE ProcessRead
  <2> DEFINE reads == Append(waiting, Head(requests))
  <2>1. UNCHANGED <<known, pending, withdrawn>>
    BY <1>3 DEF ProcessRead
  <2>2. CASE UNCHANGED answers
    BY <1>a, <2>1, <2>2 DEF Kept
  <2>3. CASE answers' = answers \o Raise(reads, LocalView)
    <3>1. Head(requests) \in Read \cup Write /\ Head(requests).op = "read"
      BY <1>3, HeadTailProperties DEF ProcessRead, StoreTypeOK
    <3>2. reads \in Seq(Read)
      BY <3>1, AppendProperties DEF StoreTypeOK, Read, Write
    <3>3. LocalView \subseteq Kept'
      BY <1>c, <2>1 DEF Kept
    <3>4. QED
      BY <1>b, <1>c, <2>1, <2>3, <3>2, <3>3
  <2>4. QED
    BY <1>3, <2>2, <2>3 DEF ProcessRead
<1>4. CASE ProcessWrite
  BY <1>4, <1>a DEF ProcessWrite, Kept
<1>5. CASE Learn
  BY <1>5, <1>d DEF Learn, StoreTypeOK, Docs, Kept
<1>6. CASE AnswerFromCache \/ FailReads
  <2>1. UNCHANGED <<known, pending, withdrawn>>
    BY <1>6 DEF AnswerFromCache, FailReads
  <2>2. LocalView \subseteq Kept'
    BY <1>c, <2>1 DEF Kept
  <2>3. QED
    BY <1>6, <1>b, <1>c, <2>1, <2>2 DEF AnswerFromCache, FailReads, StoreTypeOK
<1>7. ASSUME NEW d \in MyDocs, Acknowledge(d) \/ Reject(d)
      PROVE  AnswersGrow
  BY <1>7, <1>a DEF Acknowledge, Reject, Kept
<1>8. CASE SwitchUser
  BY <1>8, <1>a DEF SwitchUser, Kept
<1>9. CASE Deliver
  <2>1. answers # <<>> /\ answers' = Tail(answers)
    BY <1>9 DEF Deliver
  <2>2. \A k \in 1..Len(answers') :
           k + 1 \in 1..Len(answers) /\ answers'[k] = answers[k + 1]
    BY <2>1, HeadOfAnswers
  <2>3. Kept \subseteq Kept' /\ withdrawn \subseteq withdrawn'
    BY <1>9 DEF Deliver, Kept
  <2>4. QED
    BY <2>2, <2>3 DEF AnswersGrow
<1>10. CASE Relaunch
  <2>1. Len(answers') = 0 /\ 1..0 = {}
    BY <1>10, EmptySeq DEF Relaunch
  <2>2. Kept \subseteq Kept' /\ withdrawn \subseteq withdrawn'
    BY <1>10 DEF Relaunch, Kept
  <2>3. QED
    BY <2>1, <2>2 DEF AnswersGrow
<1>11. CASE UNCHANGED storeVars
  BY <1>11, <1>a DEF storeVars, Kept
<1>12. ASSUME NEW d \in Docs, Forget(d)
       PROVE  AnswersGrow
  BY <1>12, <1>d DEF Forget, StoreTypeOK, Docs, Kept
<1>13. QED
  BY <1>1, <1>2, <1>3, <1>4, <1>5, <1>6, <1>7, <1>8, <1>9, <1>10, <1>11, <1>12
     DEF StoreNext, StoreStep

(* Documents of this phone exist from the addDocument that created them.   *)
DocsIssued ==
  /\ \A d \in Kept \cup parked : d \in MyDocs => d < nextWrite
  /\ \A i \in 1..Len(requests) :
       requests[i].op = "write" => requests[i].doc < nextWrite

LEMMA IssuedInit == StoreInit => DocsIssued
<1> SUFFICES ASSUME StoreInit
             PROVE  DocsIssued
  OBVIOUS
<1>1. Len(requests) = 0 /\ 1..0 = {}
  BY EmptySeq DEF StoreInit
<1>2. \A d \in Kept \cup parked : d \notin MyDocs
  BY OtherDocsAssumption DEF StoreInit, Kept, MyDocs
<1>3. QED
  BY <1>1, <1>2 DEF DocsIssued

LEMMA IssuedStep ==
  ASSUME StoreTypeOK, DocsIssued, [StoreNext]_storeVars
  PROVE  DocsIssued'
<1>a. /\ nextWrite \in Nat /\ \A d \in MyDocs : d \in Nat
      /\ \A d \in OtherDocs : d \notin MyDocs
  BY Bounds, OtherDocsAssumption DEF StoreTypeOK, MyDocs
<1>b. ASSUME UNCHANGED <<requests, nextWrite>>,
             Kept' \cup parked' \subseteq Kept \cup parked \cup OtherDocs
      PROVE  DocsIssued'
  BY <1>a, <1>b DEF DocsIssued
<1>c. requests # <<>> =>
        /\ Head(requests) = requests[1] /\ 1 \in 1..Len(requests)
        /\ \A i \in 1..Len(Tail(requests)) :
             i + 1 \in 1..Len(requests) /\ Tail(requests)[i] = requests[i + 1]
  BY HeadTailProperties, EmptySeq DEF StoreTypeOK
<1>d. \A i \in 1..Len(requests) : requests[i] \in Read \cup Write
  BY ElementOfSeq DEF StoreTypeOK
<1>1. ASSUME NEW c \in Completions, GetDocuments(c)
      PROVE  DocsIssued'
  <2> DEFINE r == [op |-> "read", id |-> nextRead, seen |-> nextWrite - 1,
                   completion |-> c]
  <2>1. /\ requests' = Append(requests, r)
        /\ UNCHANGED <<known, pending, parked, withdrawn, nextWrite>>
    BY <1>1 DEF GetDocuments
  <2>2. /\ Len(requests') = Len(requests) + 1 /\ Len(requests) \in Nat
        /\ \A i \in 1..Len(requests) : requests'[i] = requests[i]
        /\ requests'[Len(requests) + 1] = r
    <3>1. requests \in Seq(Read \cup Write \cup {r}) /\ r \in Read \cup Write \cup {r}
      BY SeqMonotonic DEF StoreTypeOK
    <3>2. QED
      BY <2>1, <3>1, AppendProperties, LenProperties
  <2>3. r.op # "write"
    OBVIOUS
  <2>4. \A i \in 1..Len(requests') : i \in 1..Len(requests) \/ i = Len(requests) + 1
    BY <2>2
  <2>5. Kept' \cup parked' = Kept \cup parked
    BY <2>1 DEF Kept
  <2> HIDE DEF r
  <2>6. QED
    BY <2>1, <2>2, <2>3, <2>4, <2>5 DEF DocsIssued
<1>2. CASE AddDocument
  <2> DEFINE w == [op |-> "write", doc |-> nextWrite]
  <2>1. /\ requests' = Append(requests, w) /\ nextWrite' = nextWrite + 1
        /\ UNCHANGED <<known, pending, parked, withdrawn>>
    BY <1>2 DEF AddDocument
  <2>2. /\ Len(requests') = Len(requests) + 1 /\ Len(requests) \in Nat
        /\ \A i \in 1..Len(requests) : requests'[i] = requests[i]
        /\ requests'[Len(requests) + 1] = w
    <3>1. requests \in Seq(Read \cup Write \cup {w}) /\ w \in Read \cup Write \cup {w}
      BY SeqMonotonic DEF StoreTypeOK
    <3>2. QED
      BY <2>1, <3>1, AppendProperties, LenProperties
  <2>3. w.doc = nextWrite
    OBVIOUS
  <2>4. \A i \in 1..Len(requests') : i \in 1..Len(requests) \/ i = Len(requests) + 1
    BY <2>2
  <2>5. Kept' \cup parked' = Kept \cup parked
    BY <2>1 DEF Kept
  <2> HIDE DEF w
  <2>6. \A i \in 1..Len(requests) :
          requests[i].op = "write" => requests[i].doc \in Nat
    BY <1>a, <1>d DEF Read, Write
  <2>7. \A d \in Nat : d < nextWrite => d < nextWrite'
    BY <1>a, <2>1
  <2>8. nextWrite < nextWrite'
    BY <1>a, <2>1
  <2>9. \A d \in Kept' \cup parked' : d \in MyDocs => d < nextWrite'
    BY <1>a, <2>5, <2>7 DEF DocsIssued
  <2>10. \A i \in 1..Len(requests') :
           requests'[i].op = "write" => requests'[i].doc < nextWrite'
    BY <2>2, <2>3, <2>4, <2>6, <2>7, <2>8 DEF DocsIssued
  <2>11. QED
    BY <2>9, <2>10 DEF DocsIssued
<1>3. CASE ProcessRead \/ ProcessWrite
  <2>1. /\ requests # <<>> /\ requests' = Tail(requests)
        /\ UNCHANGED <<known, parked, withdrawn, nextWrite>>
        /\ \/ UNCHANGED pending
           \/ /\ Head(requests).op = "write"
              /\ pending' = pending \cup {Head(requests).doc}
    BY <1>3 DEF ProcessRead, ProcessWrite
  <2>2. Head(requests).op = "write" => Head(requests).doc < nextWrite
    BY <1>c, <2>1 DEF DocsIssued
  <2>3. \A d \in Kept' \cup parked' : d \in MyDocs => d < nextWrite'
    BY <2>1, <2>2 DEF DocsIssued, Kept
  <2>4. \A i \in 1..Len(requests') :
          requests'[i].op = "write" => requests'[i].doc < nextWrite'
    BY <1>c, <2>1 DEF DocsIssued
  <2>5. QED
    BY <2>3, <2>4 DEF DocsIssued
<1>4. CASE Learn
  BY <1>4, <1>b DEF Learn, Kept
<1>5. ASSUME NEW d \in Docs, Forget(d)
      PROVE  DocsIssued'
  BY <1>5, <1>b DEF Forget, Kept
<1>6. CASE AnswerFromCache \/ FailReads \/ Deliver \/ UNCHANGED storeVars
  BY <1>6, <1>b DEF AnswerFromCache, FailReads, Deliver, storeVars, Kept
<1>7. ASSUME NEW d \in MyDocs, Acknowledge(d) \/ Reject(d)
      PROVE  DocsIssued'
  BY <1>7, <1>b DEF Acknowledge, Reject, Kept
<1>8. CASE SwitchUser
  BY <1>8, <1>b DEF SwitchUser, Kept
<1>9. CASE Relaunch
  <2>1. Len(requests') = 0 /\ 1..0 = {}
    BY <1>9, EmptySeq DEF Relaunch
  <2>2. \A d \in QueuedWrites : d < nextWrite
    BY DEF DocsIssued, QueuedWrites
  <2>3. Kept' \cup parked' = Kept \cup parked \cup QueuedWrites
    BY <1>9 DEF Relaunch, Kept
  <2>4. UNCHANGED nextWrite
    BY <1>9 DEF Relaunch
  <2>5. QED
    BY <2>1, <2>2, <2>3, <2>4 DEF DocsIssued
<1>10. QED
  BY <1>1, <1>2, <1>3, <1>4, <1>5, <1>6, <1>7, <1>8, <1>9 DEF StoreNext, StoreStep

-----------------------------------------------------------------------------
(* The list's invariant: what it shows was created or kept, and what other *)
(* phones wrote is in every result that may replace it.                    *)
ListedIssued == \A d \in Listed : d \in MyDocs => d < nextWrite

ListedKept ==
  /\ Listed \cap OtherDocs \subseteq Kept
  /\ \A i \in 1..Len(answers) : answers[i].ok =>
       Listed \cap OtherDocs \subseteq answers[i].docs \cup withdrawn

ListInv == OneRowPerEvent /\ ListedIssued /\ CreatedEventsSurviveReads /\ ListedKept

StoreInv == /\ StoreTypeOK /\ ReadsInOrder /\ IdsIssued
            /\ SeenInv /\ GrowInv /\ DocsIssued

LEMMA StoreInvStep == StoreInv /\ [StoreNext]_storeVars => StoreInv'
<1> SUFFICES ASSUME StoreInv, [StoreNext]_storeVars
             PROVE  StoreInv'
  OBVIOUS
<1>1. StoreTypeOK'
  BY StoreTypeStep DEF StoreInv
<1>2. ReadsInOrder' /\ IdsIssued'
  BY OrderStep DEF StoreInv, OrderInv
<1>3. SeenInv'
  BY SeenStep DEF StoreInv
<1>4. GrowInv'
  BY GrowStep DEF StoreInv
<1>5. DocsIssued'
  BY IssuedStep DEF StoreInv
<1>6. QED
  BY <1>1, <1>2, <1>3, <1>4, <1>5 DEF StoreInv

LEMMA StoreInvInit == StoreInit => StoreInv
<1>1. StoreInit => StoreTypeOK /\ ReadsInOrder /\ IdsIssued /\ SeenInv /\ DocsIssued
  BY StoreTypeInit, OrderInit, SeenInit, IssuedInit
<1>2. StoreInit => Len(answers) = 0 /\ 1..0 = {}
  BY EmptySeq DEF StoreInit
<1>3. StoreInit => GrowInv
  BY <1>2 DEF GrowInv, AnswersKept, ResultsGrow
<1>4. QED
  BY <1>1, <1>3 DEF StoreInv

(* Documents of this phone are numbered upwards.                           *)
LEMMA NextWriteGrows ==
  ASSUME StoreTypeOK, [StoreNext]_storeVars
  PROVE  nextWrite \in Nat /\ nextWrite' \in Nat /\ nextWrite <= nextWrite'
<1>1. nextWrite \in Nat
  BY Bounds DEF StoreTypeOK
<1>2. CASE AddDocument
  <2>1. nextWrite' = nextWrite + 1
    BY <1>2 DEF AddDocument
  <2>2. QED
    BY <1>1, <2>1
<1>3. CASE UNCHANGED nextWrite
  BY <1>1, <1>3
<1>4. ASSUME NEW c \in Completions, GetDocuments(c)
      PROVE  UNCHANGED nextWrite
  BY <1>4 DEF GetDocuments
<1>5. CASE StoreStep
  BY <1>3, <1>5 DEF StoreStep, ProcessRead, ProcessWrite, Learn, AnswerFromCache,
     FailReads, Forget, Acknowledge, Reject, SwitchUser
<1>6. CASE Deliver \/ Relaunch \/ UNCHANGED storeVars
  BY <1>3, <1>6 DEF Deliver, Relaunch, storeVars
<1>7. QED
  BY <1>2, <1>3, <1>4, <1>5, <1>6 DEF StoreNext

(* The list's invariant is kept, by each of the four kinds of step.        *)
LEMMA ListInvStep ==
  ASSUME StoreInv, ListInv, ListStep, [StoreNext]_storeVars,
         allEvents \in Seq(Event), lastSeen \in 0..MaxWrites
  PROVE  ListInv'
<1>1. StoreTypeOK /\ AnswersGrow
  BY StoreStepsGrow DEF StoreInv
<1>2. nextWrite \in Nat /\ nextWrite' \in Nat /\ nextWrite <= nextWrite'
  BY <1>1, NextWriteGrows
<1>3. \A d \in MyDocs : d \in Nat /\ d \notin OtherDocs
  BY Bounds, OtherDocsAssumption DEF MyDocs
<1>4. CASE ListUntouched
  <2>1. UNCHANGED <<allEvents, lastSeen, Listed>>
    BY <1>4 DEF ListUntouched, Listed
  <2>2. OneRowPerEvent'
    BY <2>1 DEF ListInv, OneRowPerEvent
  <2>3. ListedIssued'
    BY <1>2, <1>3, <2>1 DEF ListInv, ListedIssued
  <2>4. CreatedEventsSurviveReads'
    BY <1>1, <2>1 DEF ListInv, CreatedEventsSurviveReads, AnswersGrow
  <2>5. ListedKept'
    <3>1. Listed' \cap OtherDocs \subseteq Kept'
      BY <1>1, <2>1 DEF ListInv, ListedKept, AnswersGrow
    <3>2. ASSUME NEW k \in 1..Len(answers'), answers'[k].ok
          PROVE  Listed' \cap OtherDocs \subseteq answers'[k].docs \cup withdrawn'
      <4>1. CASE \E i \in 1..Len(answers) : answers'[k] = answers[i]
        BY <1>1, <2>1, <3>2, <4>1 DEF ListInv, ListedKept, AnswersGrow
      <4>2. CASE Kept \subseteq answers'[k].docs \cup withdrawn'
        BY <2>1, <4>2 DEF ListInv, ListedKept
      <4>3. QED
        BY <1>1, <3>2, <4>1, <4>2 DEF AnswersGrow
    <3>3. QED
      BY <3>1, <3>2 DEF ListedKept
  <2>6. QED
    BY <2>2, <2>3, <2>4, <2>5 DEF ListInv
<1>5. CASE Inserts
  <2> DEFINE e == [doc |-> nextWrite, from |-> 0]
  <2>1. /\ e \in Event /\ nextWrite \in MyDocs /\ nextWrite' = nextWrite + 1
        /\ allEvents' \in Seq(Event) /\ Len(allEvents) \in Nat
        /\ Len(allEvents') = Len(allEvents) + 1
        /\ \A i \in 1..Len(allEvents) : allEvents'[i] = allEvents[i]
        /\ allEvents'[Len(allEvents) + 1] = e
        /\ ToSet(allEvents') = ToSet(allEvents) \cup {e}
    BY <1>1, <1>5, InsertedList DEF Inserts
  <2>2. e.doc = nextWrite
    OBVIOUS
  <2> HIDE DEF e
  <2>3. Listed' = Listed \cup {nextWrite}
    BY <2>1, <2>2 DEF Listed
  <2>4. UNCHANGED <<answers, Kept, withdrawn, lastSeen>>
    BY <1>5 DEF Inserts, AddDocument, Kept
  <2>5. nextWrite \notin Listed /\ nextWrite \notin OtherDocs
    BY <1>2, <1>3, <2>1 DEF ListInv, ListedIssued
  <2>6. OneRowPerEvent'
    <3>1. \A i \in 1..Len(allEvents) : allEvents[i].doc \in Listed
      BY ElementsAreEvents DEF Listed
    <3>2. \A i \in 1..Len(allEvents') : i \in 1..Len(allEvents) \/ i = Len(allEvents) + 1
      BY <2>1
    <3>3. ASSUME NEW i \in 1..Len(allEvents'), NEW j \in 1..Len(allEvents'),
                 allEvents'[i].doc = allEvents'[j].doc
          PROVE  i = j
      <4>1. CASE i \in 1..Len(allEvents) /\ j \in 1..Len(allEvents)
        BY <2>1, <3>3, <4>1 DEF ListInv, OneRowPerEvent
      <4>2. CASE i \in 1..Len(allEvents) /\ j = Len(allEvents) + 1
        BY <2>1, <2>2, <2>5, <3>1, <3>3, <4>2
      <4>3. CASE i = Len(allEvents) + 1 /\ j \in 1..Len(allEvents)
        BY <2>1, <2>2, <2>5, <3>1, <3>3, <4>3
      <4>4. QED
        BY <3>2, <4>1, <4>2, <4>3
    <3>4. QED
      BY <3>3 DEF OneRowPerEvent
  <2>7. ListedIssued'
    BY <1>2, <1>3, <2>1, <2>3 DEF ListInv, ListedIssued
  <2>8. CreatedEventsSurviveReads'
    BY <2>3, <2>4 DEF ListInv, CreatedEventsSurviveReads
  <2>9. ListedKept'
    <3>1. Listed' \cap OtherDocs = Listed \cap OtherDocs
      BY <2>3, <2>5
    <3>2. QED
      BY <2>4, <3>1 DEF ListInv, ListedKept
  <2>10. QED
    BY <2>6, <2>7, <2>8, <2>9 DEF ListInv
<1>6. CASE Replaces
  <2>1. /\ Head(answers) \in Answer /\ Head(answers) = answers[1]
        /\ 1 \in 1..Len(answers) /\ answers[1].ok
        /\ \A i \in 1..Len(answers') :
             /\ i + 1 \in 1..Len(answers) /\ 1 < i + 1
             /\ answers'[i] = answers[i + 1]
    <3>1. answers # <<>> /\ Head(answers).ok /\ answers' = Tail(answers)
      BY <1>6 DEF Replaces, Deliver
    <3>2. QED
      BY <1>1, <3>1, HeadOfAnswers
  <2>2. /\ allEvents' \in EventsOf(answers[1]) /\ lastSeen' = answers[1].read.seen
        /\ UNCHANGED <<Kept, withdrawn, nextWrite>>
    BY <1>6, <2>1 DEF Replaces, Deliver, Kept
  <2>3. /\ Listed' = answers[1].docs
        /\ \A i, j \in 1..Len(allEvents') :
             allEvents'[i].doc = allEvents'[j].doc => i = j
    BY <2>1, <2>2, EventsOfAnswer DEF Listed
  <2>4. answers[1].docs \subseteq Kept
    BY <2>1 DEF StoreInv, GrowInv, AnswersKept
  <2>5. OneRowPerEvent'
    BY <2>3 DEF OneRowPerEvent
  <2>6. ListedIssued'
    BY <2>2, <2>3, <2>4 DEF StoreInv, DocsIssued, ListedIssued
  <2>7. CreatedEventsSurviveReads'
    BY <2>1, <2>2, <2>3
       DEF StoreInv, SeenInv, ReadYourWrites, CreatedEventsSurviveReads
  <2>8. ASSUME NEW i \in 1..Len(answers'), answers'[i].ok
        PROVE  answers[1].docs \subseteq answers'[i].docs \cup withdrawn
    BY <2>1, <2>8 DEF StoreInv, GrowInv, ResultsGrow
  <2>9. ListedKept'
    BY <2>2, <2>3, <2>4, <2>8 DEF ListedKept
  <2>10. QED
    BY <2>5, <2>6, <2>7, <2>9 DEF ListInv
<1>7. CASE Empties
  <2>1. allEvents' = <<>> /\ lastSeen' = 0
    BY <1>7 DEF Empties
  <2>2. Listed' = {} /\ Len(allEvents') = 0 /\ 1..0 = {}
    BY <2>1, EmptySeq DEF Listed, ToSet
  <2>3. QED
    BY <2>1, <2>2 DEF ListInv, OneRowPerEvent, ListedIssued,
                      CreatedEventsSurviveReads, ListedKept
<1>8. QED
  BY <1>4, <1>5, <1>6, <1>7 DEF ListStep

-----------------------------------------------------------------------------
(* Pins and list.                                                          *)
LEMMA PinsStep ==
  ASSUME StoreTypeOK, allEvents \in Seq(Event), ScreenInv, PinsMatchList,
         [FeedNext]_vars
  PROVE  PinsMatchList'
<1> USE DEF PinsMatchList
<1>a. ASSUME UNCHANGED <<allEvents, annotations, unpinned, stranded>>,
             place' = place \/ place' # "Map"
      PROVE  PinsMatchList'
  BY <1>a
<1>1. CASE EnterTabs \/ SelectMap
  BY <1>1 DEF EnterTabs, SelectMap
<1>2. CASE SelectTable \/ SelectSettings
  <2>1. /\ UNCHANGED <<allEvents, annotations, unpinned, stranded>>
        /\ place' # "Map"
    BY <1>2 DEF SelectTable, SelectSettings, historyVars
  <2>2. QED
    BY <1>a, <2>1
<1>3. CASE LogOut
  <2>1. place' = "Home" /\ annotations' = {} /\ UNCHANGED <<allEvents, stranded>>
    BY <1>3 DEF LogOut, historyVars
  <2>2. QED
    BY <2>1
<1>4. CASE OwnerChanges \/ DidUpdateLocations
  <2>1. UNCHANGED <<allEvents, annotations, unpinned, stranded, place>>
    BY <1>4 DEF OwnerChanges, DidUpdateLocations, historyVars
  <2>2. QED
    BY <1>a, <2>1
<1>5. CASE \/ LongTouchHappened \/ ShowCreateNewEventController
           \/ CalloutTapped \/ DismissSheet
  <2>1. UNCHANGED <<allEvents, annotations, unpinned, stranded, place>>
    BY <1>5 DEF LongTouchHappened, ShowCreateNewEventController, CalloutTapped,
                DismissSheet, Present, historyVars
  <2>2. QED
    BY <1>a, <2>1
<1>6. CASE CreateNewEvent
  <2>1. CASE Trap
    <3>1. UNCHANGED <<allEvents, annotations, unpinned, stranded, place>>
      BY <2>1 DEF Trap, historyVars
    <3>2. QED
      BY <1>a, <3>1
  <2>2. CASE ~Trap
    <3>1. /\ AddDocument /\ InsertNewEvent /\ sheet = "Create"
          /\ IF form.mapView THEN UpdateMap ELSE UNCHANGED annotations
          /\ UNCHANGED <<place, unpinned, stranded>>
      BY <1>6, <2>2 DEF CreateNewEvent, historyVars
    <3>2. PICK e \in Event : /\ Last(allEvents') = e
                            /\ ToSet(allEvents') = ToSet(allEvents) \cup {e}
      BY <3>1, InsertedList
    <3>3. CASE form.mapView
      <4>1. annotations' = annotations \cup {e}
        BY <3>1, <3>2, <3>3 DEF UpdateMap
      <4>2. QED
        BY <3>1, <3>2, <4>1
    <3>4. CASE ~form.mapView
      <4>1. annotations' = annotations /\ place # "Map"
        BY <3>1, <3>4 DEF ScreenInv
      <4>2. QED
        BY <3>1, <3>2, <4>1
    <3>5. QED
      BY <3>3, <3>4
  <2>3. QED
    BY <2>1, <2>2
<1>7. CASE FetchEventButton \/ Refresh \/ ReadFailed
  <2>1. UNCHANGED <<allEvents, annotations, unpinned, stranded, place>>
    BY <1>7 DEF FetchEventButton, Refresh, ReadFailed, feedVars, screenVars,
                historyVars
  <2>2. QED
    BY <1>a, <2>1
<1>8. CASE Loaded \/ Fetched \/ Refreshed
  <2>1. place' = place
    BY <1>8 DEF Loaded, Fetched, Refreshed, Completion, screenVars
  <2>2. CASE /\ UNCHANGED annotations /\ unpinned' = TRUE
             /\ stranded' = Strands
    BY <2>2 DEF Strands
  <2>3. CASE Loaded /\ OwnViews
    <3>1. /\ annotations' = annotations \cup ToSet(allEvents')
          /\ stranded' = Strands
      BY <2>3 DEF Loaded
    <3>2. QED
      BY <3>1 DEF Strands
  <2>4. CASE Fetched /\ OwnViews
    <3>1. /\ annotations' = (annotations \ ToSet(allEvents)) \cup ToSet(allEvents')
          /\ UNCHANGED stranded
      BY <2>4 DEF Fetched
    <3>2. QED
      BY <3>1
  <2>5. QED
    BY <1>8, <2>2, <2>3, <2>4 DEF Loaded, Fetched, Refreshed
<1>9. ASSUME NEW i, CellForRow(i) \/ DidSelectRow(i)
      PROVE  PinsMatchList'
  <2>1. UNCHANGED <<allEvents, annotations, unpinned, stranded, place>>
    BY <1>9 DEF CellForRow, DidSelectRow, Trap, Present, screenVars, historyVars
  <2>2. QED
    BY <1>a, <2>1
<1>10. CASE StoreWorks \/ UNCHANGED vars
  <2>1. UNCHANGED <<allEvents, annotations, unpinned, stranded, place>>
    BY <1>10 DEF StoreWorks, vars, feedVars, screenVars, historyVars
  <2>2. QED
    BY <1>a, <2>1
<1>11. CASE RelaunchApp
  BY <1>11 DEF RelaunchApp
<1>12. QED
  BY <1>1, <1>2, <1>3, <1>4, <1>5, <1>6, <1>7, <1>8, <1>9, <1>10, <1>11
     DEF FeedNext, Navigate, RunCompletion

-----------------------------------------------------------------------------
(* A prefix, entry by entry.                                               *)
LEMMA PrefixByEntries ==
  ASSUME NEW s \in Seq(Event), NEW t \in Seq(Event)
  PROVE  IsPrefix(s, t) <=> /\ Len(s) <= Len(t)
                            /\ \A i \in 1..Len(s) : s[i] = t[i]
<1>1. Len(s) \in Nat /\ Len(t) \in Nat
  BY LenProperties
<1>2. SubSeq(s, 1, Len(s)) = s
  BY SubSeqFull
<1>3. ASSUME Len(s) <= Len(t)
      PROVE  (s = SubSeq(t, 1, Len(s))) <=> \A i \in 1..Len(s) : s[i] = t[i]
  <2>1. \A i \in 1..Len(s) : t[i] \in Event
    BY <1>1, <1>3, ElementOfSeq
  <2>2. PICK n \in Nat : n = Len(s)
    BY <1>1
  <2>3. /\ SubSeq(t, 1, n) \in Seq(Event)
        /\ Len(SubSeq(t, 1, n)) = IF 1 <= n THEN n - 1 + 1 ELSE 0
        /\ \A i \in 1..(n - 1 + 1) : SubSeq(t, 1, n)[i] = t[1 + i - 1]
    <3>1. 1 \in Int /\ n \in Int /\ \A i \in 1..n : t[i] \in Event
      BY <2>1, <2>2
    <3>2. QED
      BY <3>1, SubSeqProperties
  <2>4. Len(SubSeq(t, 1, n)) = n /\ \A i \in 1..n : SubSeq(t, 1, n)[i] = t[i]
    <3>1. \A i \in 1..n : i \in 1..(n - 1 + 1) /\ 1 + i - 1 = i
      BY <2>2
    <3>2. Len(SubSeq(t, 1, n)) = n
      BY <2>2, <2>3
    <3>3. QED
      BY <2>3, <3>1, <3>2
  <2>5. QED
    BY <2>2, <2>3, <2>4, SeqEqual
<1>4. QED
  BY <1>2, <1>3 DEF IsPrefix

(* Rows of a fresh table.                                                  *)
LEMMA RowsStep ==
  ASSUME StoreTypeOK, allEvents \in Seq(Event), rows \in Seq(Event), ScreenInv,
         FreshRowsArePrefix, [FeedNext]_vars
  PROVE  FreshRowsArePrefix'
<1> USE DEF FreshRowsArePrefix
<1>a. ASSUME UNCHANGED <<allEvents, rows, rowsStale, tableLoaded>>
      PROVE  FreshRowsArePrefix'
  BY <1>a
<1>b. ASSUME NEW s \in Seq(Event)
      PROVE  IsPrefix(s, s)
  BY PrefixByEntries, LenProperties
<1>1. CASE EnterTabs
  <2>1. ~tableLoaded /\ tableLoaded' = tableLoaded
    BY <1>1 DEF EnterTabs, ScreenInv
  <2>2. QED
    BY <2>1
<1>2. CASE SelectTable
  <2>1. \/ UNCHANGED <<allEvents, rows, rowsStale>> /\ tableLoaded
        \/ rows' = allEvents /\ allEvents' = allEvents
    BY <1>2 DEF SelectTable
  <2>2. QED
    BY <1>b, <2>1
<1>3. CASE SelectMap \/ SelectSettings \/ OwnerChanges \/ DidUpdateLocations
  <2>1. UNCHANGED <<allEvents, rows, rowsStale, tableLoaded>>
    BY <1>3 DEF SelectMap, SelectSettings, OwnerChanges, DidUpdateLocations,
                historyVars
  <2>2. QED
    BY <1>a, <2>1
<1>4. CASE LogOut \/ RelaunchApp
  <2>1. tableLoaded' = FALSE
    BY <1>4 DEF LogOut, RelaunchApp
  <2>2. QED
    BY <2>1
<1>5. CASE \/ LongTouchHappened \/ ShowCreateNewEventController
           \/ CalloutTapped \/ DismissSheet
  <2>1. UNCHANGED <<allEvents, rows, rowsStale, tableLoaded>>
    BY <1>5 DEF LongTouchHappened, ShowCreateNewEventController, CalloutTapped,
                DismissSheet, Present, historyVars
  <2>2. QED
    BY <1>a, <2>1
<1>6. CASE CreateNewEvent
  <2>1. CASE Trap
    <3>1. UNCHANGED <<allEvents, rows, rowsStale, tableLoaded>>
      BY <2>1 DEF Trap, historyVars
    <3>2. QED
      BY <1>a, <3>1
  <2>2. CASE ~Trap
    <3>1. /\ AddDocument /\ InsertNewEvent
          /\ UNCHANGED <<rows, rowsStale, tableLoaded>>
      BY <1>6, <2>2 DEF CreateNewEvent, historyVars
    <3>2. /\ allEvents' \in Seq(Event) /\ Len(allEvents) \in Nat
          /\ Len(allEvents') = Len(allEvents) + 1
          /\ \A i \in 1..Len(allEvents) : allEvents'[i] = allEvents[i]
      BY <3>1, InsertedList
    <3>3. ASSUME IsPrefix(rows, allEvents)
          PROVE  IsPrefix(rows, allEvents')
      <4>1. /\ Len(rows) <= Len(allEvents) /\ Len(rows) \in Nat
            /\ \A i \in 1..Len(rows) : rows[i] = allEvents[i]
        BY <3>3, PrefixByEntries, LenProperties
      <4>2. \A i \in 1..Len(rows) : i \in 1..Len(allEvents)
        BY <3>2, <4>1
      <4>3. /\ Len(rows) <= Len(allEvents')
            /\ \A i \in 1..Len(rows) : rows[i] = allEvents'[i]
        BY <3>2, <4>1, <4>2
      <4>4. QED
        BY <3>2, <4>3, PrefixByEntries
    <3>4. QED
      BY <3>1, <3>3
  <2>3. QED
    BY <2>1, <2>2
<1>7. CASE FetchEventButton \/ ReadFailed
  <2>1. UNCHANGED <<allEvents, rows, rowsStale, tableLoaded>>
    BY <1>7 DEF FetchEventButton, ReadFailed, feedVars, screenVars, historyVars
  <2>2. QED
    BY <1>a, <2>1
<1>8. CASE Refresh
  <2>1. rows' = allEvents /\ allEvents' = allEvents
    BY <1>8 DEF Refresh
  <2>2. QED
    BY <1>b, <2>1
<1>9. CASE Loaded \/ Fetched \/ Refreshed
  <2>1. rowsStale' = TRUE
    BY <1>9 DEF Loaded, Fetched, Refreshed, Completion
  <2>2. QED
    BY <2>1
<1>10. ASSUME NEW i, CellForRow(i) \/ DidSelectRow(i)
       PROVE  FreshRowsArePrefix'
  <2>1. UNCHANGED <<allEvents, rowsStale, tableLoaded>>
    BY <1>10 DEF CellForRow, DidSelectRow, Trap, Present, screenVars, historyVars
  <2>2. CASE UNCHANGED rows
    BY <1>a, <2>1, <2>2
  <2>3. CASE /\ i \in 1..Len(rows) /\ i <= Len(allEvents)
             /\ rows' = [rows EXCEPT ![i] = allEvents[i]]
    <3>1. Len(rows) \in Nat /\ Len(allEvents) \in Nat
      BY LenProperties
    <3>2. allEvents[i] \in Event
      BY <2>3, <3>1, ElementOfSeq
    <3>3. /\ rows' \in Seq(Event) /\ Len(rows') = Len(rows)
          /\ \A j \in 1..Len(rows) :
               rows'[j] = IF j = i THEN allEvents[i] ELSE rows[j]
      BY <2>3, <3>2, ExceptSeq
    <3>4. IsPrefix(rows, allEvents) => IsPrefix(rows', allEvents)
      BY <3>3, PrefixByEntries
    <3>5. QED
      BY <2>1, <3>4
  <2>4. QED
    BY <1>10, <2>2, <2>3 DEF CellForRow, DidSelectRow, Trap, Present
<1>11. CASE StoreWorks \/ UNCHANGED vars
  <2>1. UNCHANGED <<allEvents, rows, rowsStale, tableLoaded>>
    BY <1>11 DEF StoreWorks, vars, feedVars, screenVars, historyVars
  <2>2. QED
    BY <1>a, <2>1
<1>12. QED
  BY <1>1, <1>2, <1>3, <1>4, <1>5, <1>6, <1>7, <1>8, <1>9, <1>10, <1>11
     DEF FeedNext, Navigate, RunCompletion

-----------------------------------------------------------------------------
(* Traps.  A trapped process does nothing but start again.                 *)
TrapContext == <<rowsStale, place, sheet, form>>

LEMMA TrappedStops ==
  ASSUME trapped, [FeedNext]_vars
  PROVE  trapped' = FALSE \/ UNCHANGED <<trapped, TrapContext>>
<1>1. CASE Navigate \/ CreateNewEvent \/ FetchEventButton \/ Refresh
  <2>1. ~trapped
    BY <1>1 DEF Navigate, EnterTabs, SelectMap, SelectTable, SelectSettings,
       LogOut, OwnerChanges, DidUpdateLocations, LongTouchHappened,
       ShowCreateNewEventController, CalloutTapped, DismissSheet,
       CreateNewEvent, FetchEventButton, Refresh, InTab
  <2>2. QED
    BY <2>1
<1>2. CASE RunCompletion \/ StoreWorks
  <2>1. ~trapped
    BY <1>2 DEF RunCompletion, ReadFailed, Loaded, Fetched, Refreshed,
       Completion, StoreWorks
  <2>2. QED
    BY <2>1
<1>3. ASSUME NEW i, CellForRow(i) \/ DidSelectRow(i)
      PROVE  FALSE
  BY <1>3 DEF CellForRow, DidSelectRow, InTab
<1>4. CASE RelaunchApp
  BY <1>4 DEF RelaunchApp
<1>5. CASE UNCHANGED vars
  BY <1>5 DEF vars, feedVars, screenVars, historyVars, TrapContext
<1>6. QED
  BY <1>1, <1>2, <1>3, <1>4, <1>5 DEF FeedNext

(* The steps that trap.                                                    *)
LEMMA TrapSteps ==
  ASSUME ~trapped, trapped', [FeedNext]_vars
  PROVE  /\ UNCHANGED TrapContext
         /\ \/ sheet = "Create" /\ ~form.coordinates
            \/ \E i \in 1..Len(rows) : place = "Table" /\ i > Len(allEvents)
<1>a. Trap => UNCHANGED TrapContext
  BY DEF Trap, historyVars, TrapContext
<1>1. CASE Navigate \/ FetchEventButton \/ Refresh
  <2>1. UNCHANGED trapped
    BY <1>1 DEF Navigate, EnterTabs, SelectMap, SelectTable, SelectSettings,
       LogOut, OwnerChanges, DidUpdateLocations, LongTouchHappened,
       ShowCreateNewEventController, CalloutTapped, DismissSheet, Present,
       FetchEventButton, Refresh, feedVars, screenVars
  <2>2. QED
    BY <2>1
<1>2. CASE RunCompletion \/ StoreWorks \/ UNCHANGED vars
  <2>1. UNCHANGED trapped
    BY <1>2 DEF RunCompletion, ReadFailed, Loaded, Fetched, Refreshed,
       Completion, StoreWorks, vars, feedVars, screenVars
  <2>2. QED
    BY <2>1
<1>3. CASE CreateNewEvent
  <2>1. Trap /\ sheet = "Create" /\ ~form.coordinates
    BY <1>3 DEF CreateNewEvent
  <2>2. QED
    BY <1>a, <2>1
<1>4. ASSUME NEW i, CellForRow(i) \/ DidSelectRow(i)
      PROVE  /\ Trap /\ place = "Table"
             /\ i \in 1..Len(rows) /\ i > Len(allEvents)
  BY <1>4 DEF CellForRow, DidSelectRow, InTab, Present, screenVars
<1>5. CASE RelaunchApp
  BY <1>5 DEF RelaunchApp
<1>6. QED
  BY <1>a, <1>1, <1>2, <1>3, <1>4, <1>5 DEF FeedNext

(* A trap is explained by the screen it happens on.                        *)
LEMMA TrapsStep ==
  ASSUME allEvents \in Seq(Event), rows \in Seq(Event), FlagsOK, ScreenInv,
         FreshRowsArePrefix, TrapsExplained, [FeedNext]_vars
  PROVE  TrapsExplained'
<1> SUFFICES ASSUME trapped'
             PROVE  TrapsExplained'
  BY DEF TrapsExplained
<1>1. CASE trapped
  <2>1. UNCHANGED <<trapped, TrapContext>>
    BY <1>1, TrappedStops
  <2>2. QED
    BY <2>1 DEF TrapsExplained, TrapContext
<1>2. CASE ~trapped
  <2>1. UNCHANGED TrapContext
    BY <1>2, TrapSteps
  <2>2. CASE sheet = "Create" /\ ~form.coordinates
    BY <2>1, <2>2 DEF ScreenInv, TrapsExplained, TrapContext
  <2>3. CASE \E i \in 1..Len(rows) : place = "Table" /\ i > Len(allEvents)
    <3>1. ~(Len(rows) <= Len(allEvents)) /\ tableLoaded
      BY <2>3, LenProperties DEF ScreenInv
    <3>2. rowsStale
      BY <3>1, PrefixByEntries DEF FreshRowsArePrefix
    <3>3. QED
      BY <2>1, <3>2 DEF TrapsExplained, TrapContext
  <2>4. QED
    BY <1>2, <2>2, <2>3, TrapSteps
<1>3. QED
  BY <1>1, <1>2

-----------------------------------------------------------------------------
(* The inductive invariant of the app, and the theorems that follow.       *)
FeedInv == /\ StoreInv /\ FeedTypeOK /\ ScreenInv /\ ListInv
           /\ PinsMatchList /\ FreshRowsArePrefix /\ TrapsExplained

LEMMA FeedInvInit == FeedInit => FeedInv
<1> SUFFICES ASSUME FeedInit
             PROVE  FeedInv
  OBVIOUS
<1>1. StoreInv /\ FeedTypeOK /\ ScreenInv
  BY StoreInvInit, FeedTypeInit, ScreenInit DEF FeedInit
<1>2. allEvents = <<>> /\ annotations = {} /\ lastSeen = 0 /\ ~tableLoaded
      /\ ~trapped
  BY DEF FeedInit
<1>3. Listed = {} /\ ToSet(allEvents) = {} /\ Len(allEvents) = 0 /\ 1..0 = {}
  BY <1>2, EmptySeq DEF Listed, ToSet
<1>4. ListInv
  BY <1>2, <1>3 DEF ListInv, OneRowPerEvent, ListedIssued,
                    CreatedEventsSurviveReads, ListedKept
<1>5. PinsMatchList /\ FreshRowsArePrefix /\ TrapsExplained
  BY <1>2, <1>3 DEF PinsMatchList, FreshRowsArePrefix, TrapsExplained
<1>6. QED
  BY <1>1, <1>4, <1>5 DEF FeedInv

LEMMA FeedInvStep == FeedInv /\ [FeedNext]_vars => FeedInv'
<1> SUFFICES ASSUME FeedInv, [FeedNext]_vars
             PROVE  FeedInv'
  OBVIOUS
<1>1. /\ allEvents \in Seq(Event) /\ rows \in Seq(Event)
      /\ lastSeen \in 0..MaxWrites /\ StoreTypeOK /\ FlagsOK
  BY DEF FeedInv, FeedTypeOK, FlagsOK
<1>2. [StoreNext]_storeVars
  BY FeedStepsStore DEF FeedInv
<1>3. StoreInv'
  BY <1>2, StoreInvStep DEF FeedInv
<1>4. FeedTypeOK' /\ ScreenInv'
  BY FeedTypeStep, ScreenStep DEF FeedInv
<1>5. ListInv'
  BY <1>1, <1>2, ListSteps, ListInvStep DEF FeedInv
<1>6. PinsMatchList'
  BY <1>1, PinsStep DEF FeedInv
<1>7. FreshRowsArePrefix'
  BY <1>1, RowsStep DEF FeedInv
<1>8. TrapsExplained'
  BY <1>1, TrapsStep DEF FeedInv
<1>9. QED
  BY <1>3, <1>4, <1>5, <1>6, <1>7, <1>8 DEF FeedInv

(* The invariant holds in every state of the app.                          *)
THEOREM FeedInvariant == FeedSpec => []FeedInv
BY FeedInvInit, FeedInvStep, PTL DEF FeedSpec

(* The app uses the store as the store's specification allows: every step  *)
(* of the screens is one of its operations or leaves it alone.             *)
THEOREM FeedUsesStore == FeedSpec => StoreSpec
<1>1. FeedInit => StoreInit
  BY DEF FeedInit
<1>2. FeedInv /\ [FeedNext]_vars => [StoreNext]_storeVars
  BY FeedStepsStore DEF FeedInv
<1>3. QED
  BY <1>1, <1>2, FeedInvariant, PTL DEF FeedSpec, StoreSpec

(* The variables of the screens keep their types.                          *)
THEOREM FeedTypeCorrect == FeedSpec => []FeedTypeOK
<1>1. FeedInv => FeedTypeOK
  BY DEF FeedInv
<1>2. QED
  BY <1>1, FeedInvariant, PTL

(* However many reads and creations overlap, no event is listed twice.     *)
THEOREM EventsListedOnce == FeedSpec => []OneRowPerEvent
<1>1. FeedInv => OneRowPerEvent
  BY DEF FeedInv, ListInv
<1>2. QED
  BY <1>1, FeedInvariant, PTL

(* An event created before a read was issued outlives that read's replacing*)
(* the list (MapViewController.swift:31, 50, EventTableViewController      *)
(* .swift:82).                                                             *)
THEOREM CreatedEventsStay == FeedSpec => []CreatedEventsSurviveReads
<1>1. FeedInv => CreatedEventsSurviveReads
  BY DEF FeedInv, ListInv
<1>2. QED
  BY <1>1, FeedInvariant, PTL

(* Pins and list agree, but for the completions that replace the list      *)
(* behind the map.                                                         *)
THEOREM PinsAgree == FeedSpec => []PinsMatchList
<1>1. FeedInv => PinsMatchList
  BY DEF FeedInv
<1>2. QED
  BY <1>1, FeedInvariant, PTL

(* Rows of a table that no completion has outdated index the right events. *)
THEOREM FreshRowsAgree == FeedSpec => []FreshRowsArePrefix
<1>1. FeedInv => FreshRowsArePrefix
  BY DEF FeedInv
<1>2. QED
  BY <1>1, FeedInvariant, PTL

(* The only runtime traps are those of an outdated table and of a create   *)
(* form opened before the first location.                                  *)
THEOREM TrapsAreExplained == FeedSpec => []TrapsExplained
<1>1. FeedInv => TrapsExplained
  BY DEF FeedInv
<1>2. QED
  BY <1>1, FeedInvariant, PTL

(* Within a launch, an event of another phone stays listed.                *)
THEOREM OthersStayListed == FeedSpec => OtherEventsStay
<1>1. ASSUME FeedInv, [FeedNext]_vars
      PROVE  [launch' = launch => Listed \cap OtherDocs
                                    \subseteq Listed' \cup withdrawn]_vars
  <2> SUFFICES ASSUME launch' = launch
               PROVE  Listed \cap OtherDocs \subseteq Listed' \cup withdrawn
    OBVIOUS
  <2>1. /\ StoreTypeOK /\ allEvents \in Seq(Event) /\ ListInv
        /\ launch \in 0..MaxLaunches
    BY <1>1 DEF FeedInv, FeedTypeOK
  <2>2. CASE ListUntouched
    BY <2>2 DEF ListUntouched, Listed
  <2>3. CASE Inserts
    BY <2>1, <2>3, InsertedList DEF Inserts, Listed
  <2>4. CASE Replaces
    <3>1. answers # <<>> /\ Head(answers).ok /\ allEvents' \in EventsOf(Head(answers))
      BY <2>4 DEF Replaces
    <3>2. /\ Head(answers) \in Answer /\ Head(answers) = answers[1]
          /\ 1 \in 1..Len(answers)
      BY <2>1, <3>1, HeadOfAnswers
    <3>3. Listed' = answers[1].docs
      BY <3>1, <3>2, EventsOfAnswer DEF Listed
    <3>4. QED
      BY <2>1, <3>1, <3>2, <3>3 DEF ListInv, ListedKept
  <2>5. CASE Empties
    BY <2>1, <2>5, Bounds DEF Empties
  <2>6. QED
    BY <1>1, <2>2, <2>3, <2>4, <2>5, ListSteps DEF ListStep
<1>2. QED
  BY <1>1, FeedInvariant, PTL DEF FeedSpec, OtherEventsStay
=============================================================================
