------------------------------- MODULE Places -------------------------------
(***************************************************************************)
(* The names of places: Event.setLocation asks CLGeocoder for the place of *)
(* each Event object that is read or created, and the answers fill in      *)
(* locationName, one part after the other, on the main queue.  A geocoder  *)
(* is made for each lookup, so that lookups are answered in any order, and *)
(* also for objects that a newer read has replaced in the list.            *)
(*                                                                         *)
(* A name is the sequence of its parts; a placemark is the set of parts    *)
(* that it has.  What the parts say is left out.                           *)
(***************************************************************************)
EXTENDS Naturals, Sequences, FiniteSets

CONSTANT Objects   \* bound: the Event objects that are made

VARIABLES
  listed,    \* objects in EventHandler.allEvents
  made,      \* objects that exist
  lookups,   \* lookups of each object under way
  name,      \* locationName of each object
  answered   \* history: the placemark an object was given, or None

vars == <<listed, made, lookups, name, answered>>

Parts == {"country", "administrativeArea", "locality"}
NoName == <<"No location name">>
None == {"none"}

PlacesInit ==
  /\ listed = {} /\ made = {}
  /\ lookups = [e \in Objects |-> 0]
  /\ name = [e \in Objects |-> NoName]
  /\ answered = [e \in Objects |-> None]

\* Fault: the place is looked up where the event is read and where listed.
SetLocationTwice(S) ==
  lookups' = [e \in Objects |-> IF e \in S THEN lookups[e] + 2 ELSE lookups[e]]

(* setLocation for each of the objects in S.                               *)
SetLocation(S) ==
  lookups' = [e \in Objects |-> IF e \in S THEN lookups[e] + 1 ELSE lookups[e]]

\* Fault: the created event is appended without asking for its place.
InsertNewEventUnplaced(e) ==
  /\ e \notin made /\ made' = made \cup {e}
  /\ listed' = listed \cup {e}
  /\ UNCHANGED <<lookups, name, answered>>

InsertNewEvent(e) ==
  /\ e \notin made /\ made' = made \cup {e}
  /\ SetLocation({e})
  /\ listed' = listed \cup {e}
  /\ UNCHANGED <<name, answered>>

(* The closure of readEvents makes an object for each document; its caller *)
(* replaces the list.                                                      *)
EventsRead(S) ==
  /\ S \cap made = {} /\ made' = made \cup S
  /\ SetLocation(S)
  /\ listed' = S
  /\ UNCHANGED <<name, answered>>

(* The country replaces the name, the other parts are added to it.         *)
Named(old, placemark) ==
  LET from == IF "country" \in placemark THEN <<"country">> ELSE old
      area == IF "administrativeArea" \in placemark
              THEN Append(from, "administrativeArea") ELSE from
  IN  IF "locality" \in placemark THEN Append(area, "locality") ELSE area

(* getPlace hands over a placemark; or nil, for an error or no placemark.  *)
Answer(e) ==
  /\ lookups[e] > 0 /\ lookups' = [lookups EXCEPT ![e] = @ - 1]
  /\ \/ \E placemark \in SUBSET Parts :
          /\ name' = [name EXCEPT ![e] = Named(@, placemark)]
          /\ answered' = [answered EXCEPT ![e] = placemark]
     \/ UNCHANGED name /\ answered' = [answered EXCEPT ![e] = {}]
  /\ UNCHANGED <<listed, made>>

PlacesNext ==
  \/ \E e \in Objects : InsertNewEvent(e) \/ Answer(e)
  \/ \E S \in SUBSET Objects : EventsRead(S)

PlacesSpec == PlacesInit /\ [][PlacesNext]_vars

-----------------------------------------------------------------------------
PartsIn(e) == {name[e][i] : i \in 1..Len(name[e])} \cap Parts

(* An event's name holds each part of the one place it was given, once,    *)
(* and nothing of an earlier or later answer: reading the events again     *)
(* while lookups are under way never runs two places together.             *)
NameIsOfOnePlace ==
  \A e \in Objects :
    /\ PartsIn(e) = IF answered[e] = None THEN {} ELSE answered[e]
    /\ Len(name[e]) = Cardinality(PartsIn(e))
                        + (IF "country" \in PartsIn(e) THEN 0 ELSE 1)

(* The place of every listed event was asked for, and the answer is still  *)
(* on its way unless it came.                                              *)
ListedArePlaced == \A e \in listed : lookups[e] > 0 \/ answered[e] # None
=============================================================================
