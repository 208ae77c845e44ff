---------------------------- MODULE PlacesProofs -----------------------------
(***************************************************************************)
(* Theorems about Places, for every number of Event objects and every      *)
(* order of answers.                                                       *)
(***************************************************************************)
EXTENDS Places, SequenceTheorems, FiniteSetTheorems, TLAPS

(* An object that nobody has made has no lookup and no answer; a lookup    *)
(* under way is the object's only one, and not answered.                   *)
LookupOnce(e) ==
  /\ lookups[e] \in {0, 1}
  /\ e \notin made => lookups[e] = 0 /\ answered[e] = None
  /\ lookups[e] = 1 => answered[e] = None

(* The name is the placeholder, filled in by the one answer, if it came.   *)
NamedByAnswer(e) ==
  IF answered[e] = None THEN name[e] = NoName
  ELSE answered[e] \in SUBSET Parts /\ name[e] = Named(NoName, answered[e])

PlacesInv ==
  /\ lookups \in [Objects -> Nat] /\ DOMAIN name = Objects
  /\ DOMAIN answered = Objects /\ listed \subseteq made
  /\ made \subseteq Objects
  /\ \A e \in Objects : LookupOnce(e) /\ NamedByAnswer(e)
  /\ ListedArePlaced

-----------------------------------------------------------------------------
(* What a placemark without any part leaves of the placeholder.            *)
LEMMA NothingNamed == Named(NoName, {}) = NoName
BY DEF Named

LEMMA NoneIsNoPlacemark == None \notin SUBSET Parts
BY DEF None, Parts

(* New objects are given a lookup each.                                    *)
LEMMA NewObjects ==
  ASSUME PlacesInv, NEW S \in SUBSET Objects, S \cap made = {},
         made' = made \cup S, SetLocation(S),
         listed' \subseteq listed \cup S, UNCHANGED <<name, answered>>
  PROVE  PlacesInv'
<1>1. \A e \in Objects : lookups'[e] = IF e \in S THEN lookups[e] + 1 ELSE lookups[e]
  BY DEF SetLocation
<1>2. \A e \in S : lookups[e] = 0 /\ answered[e] = None
  BY DEF PlacesInv, LookupOnce
<1>3. lookups' \in [Objects -> Nat]
  BY DEF SetLocation, PlacesInv
<1>4. ASSUME NEW e \in Objects
      PROVE  LookupOnce(e)' /\ NamedByAnswer(e)'
  <2>1. LookupOnce(e) /\ NamedByAnswer(e)
    BY DEF PlacesInv
  <2>2. NamedByAnswer(e)'
    BY <2>1 DEF NamedByAnswer
  <2>3. CASE e \in S
    <3>1. lookups'[e] = 1 /\ answered'[e] = None /\ e \in made'
      BY <1>1, <1>2, <2>3
    <3>2. QED
      BY <2>2, <3>1 DEF LookupOnce
  <2>4. CASE e \notin S
    BY <1>1, <2>1, <2>2, <2>4 DEF LookupOnce
  <2>5. QED
    BY <2>3, <2>4
<1>5. ListedArePlaced'
  <2> SUFFICES ASSUME NEW e \in listed'
               PROVE  lookups'[e] > 0 \/ answered'[e] # None
    BY DEF ListedArePlaced
  <2>1. CASE e \in S
    BY <1>1, <1>2, <2>1
  <2>2. CASE e \notin S
    <3>1. e \in listed /\ e \in Objects
      BY <2>2 DEF PlacesInv
    <3>2. lookups[e] > 0 \/ answered[e] # None
      BY <3>1 DEF PlacesInv, ListedArePlaced
    <3>3. lookups'[e] = lookups[e]
      BY <1>1, <2>2, <3>1
    <3>4. QED
      BY <3>2, <3>3
  <2>3. QED
    BY <2>1, <2>2
<1>6. /\ DOMAIN name' = Objects /\ DOMAIN answered' = Objects
      /\ listed' \subseteq made' /\ made' \subseteq Objects
  BY DEF PlacesInv
<1>7. QED
  BY <1>3, <1>4, <1>5, <1>6 DEF PlacesInv

(* The lookup of an object is answered, by a placemark or by nothing.      *)
LEMMA Answered ==
  ASSUME PlacesInv, NEW e \in Objects, Answer(e)
  PROVE  PlacesInv'
<1>1. lookups[e] = 1 /\ answered[e] = None /\ name[e] = NoName /\ e \in made
  BY DEF Answer, PlacesInv, LookupOnce, NamedByAnswer
<1>2. UNCHANGED <<listed, made>> /\ lookups' = [lookups EXCEPT ![e] = @ - 1]
  BY DEF Answer
<1>3. PICK placemark \in SUBSET Parts :
        /\ answered' = [answered EXCEPT ![e] = placemark]
        /\ name'[e] = Named(NoName, placemark) /\ DOMAIN name' = Objects
        /\ \A f \in Objects \ {e} : name'[f] = name[f]
  <2>1. CASE \E placemark \in SUBSET Parts :
               /\ name' = [name EXCEPT ![e] = Named(@, placemark)]
               /\ answered' = [answered EXCEPT ![e] = placemark]
    BY <1>1, <2>1 DEF PlacesInv
  <2>2. CASE UNCHANGED name /\ answered' = [answered EXCEPT ![e] = {}]
    <3>1. name'[e] = Named(NoName, {}) /\ {} \in SUBSET Parts
      BY <1>1, <2>2, NothingNamed
    <3>2. QED
      BY <2>2, <3>1 DEF PlacesInv
  <2>3. QED
    BY <2>1, <2>2 DEF Answer
<1>4. placemark # None
  BY NoneIsNoPlacemark
<1>5. answered'[e] = placemark /\ \A f \in Objects \ {e} : answered'[f] = answered[f]
  BY <1>3 DEF PlacesInv
<1>6. /\ lookups' \in [Objects -> Nat] /\ lookups'[e] = 0
      /\ \A f \in Objects \ {e} : lookups'[f] = lookups[f]
  BY <1>1, <1>2 DEF PlacesInv
<1>7. ASSUME NEW f \in Objects
      PROVE  LookupOnce(f)' /\ NamedByAnswer(f)'
  <2>1. LookupOnce(f) /\ NamedByAnswer(f)
    BY DEF PlacesInv
  <2>2. CASE f = e
    BY <1>1, <1>2, <1>3, <1>4, <1>5, <1>6, <2>2 DEF LookupOnce, NamedByAnswer
  <2>3. CASE f # e
    BY <1>2, <1>3, <1>5, <1>6, <2>1, <2>3 DEF LookupOnce, NamedByAnswer
  <2>4. QED
    BY <2>2, <2>3
<1>8. ListedArePlaced'
  <2> SUFFICES ASSUME NEW f \in listed
               PROVE  lookups'[f] > 0 \/ answered'[f] # None
    BY <1>2 DEF ListedArePlaced
  <2>1. f \in Objects /\ (lookups[f] > 0 \/ answered[f] # None)
    BY DEF PlacesInv, ListedArePlaced
  <2>2. QED
    BY <1>4, <1>5, <1>6, <2>1
<1>9. /\ DOMAIN name' = Objects /\ DOMAIN answered' = Objects
      /\ listed' \subseteq made' /\ made' \subseteq Objects
  BY <1>2, <1>3 DEF PlacesInv
<1>10. QED
  BY <1>6, <1>7, <1>8, <1>9 DEF PlacesInv

(* Every object is asked for once and named by the one answer.             *)
THEOREM PlacesInvariant == PlacesSpec => []PlacesInv
<1>1. PlacesInit => PlacesInv
  BY DEF PlacesInit, PlacesInv, LookupOnce, NamedByAnswer, ListedArePlaced
<1>2. PlacesInv /\ [PlacesNext]_vars => PlacesInv'
  <2> SUFFICES ASSUME PlacesInv, [PlacesNext]_vars
               PROVE  PlacesInv'
    OBVIOUS
  <2>1. ASSUME NEW e \in Objects, InsertNewEvent(e)
        PROVE  PlacesInv'
    <3>1. {e} \in SUBSET Objects /\ {e} \cap made = {} /\ made' = made \cup {e}
          /\ SetLocation({e}) /\ listed' \subseteq listed \cup {e}
          /\ UNCHANGED <<name, answered>>
      BY <2>1 DEF InsertNewEvent
    <3>2. QED
      BY <3>1, NewObjects
  <2>2. ASSUME NEW S \in SUBSET Objects, EventsRead(S)
        PROVE  PlacesInv'
    <3>1. S \cap made = {} /\ made' = made \cup S
          /\ SetLocation(S) /\ listed' \subseteq listed \cup S
          /\ UNCHANGED <<name, answered>>
      BY <2>2 DEF EventsRead
    <3>2. QED
      BY <3>1, NewObjects
  <2>3. CASE UNCHANGED vars
    BY <2>3 DEF vars, PlacesInv, LookupOnce, NamedByAnswer, ListedArePlaced
  <2>4. QED
    BY <2>1, <2>2, <2>3, Answered DEF PlacesNext
<1>3. QED
  BY <1>1, <1>2, PTL DEF PlacesSpec

(* The place of every listed event is on its way or came                   *)
(* (DataHandler.swift:80-84, CreateNewEventViewController.swift:76-80).    *)
THEOREM ListedAlwaysPlaced == PlacesSpec => []ListedArePlaced
<1>1. PlacesInv => ListedArePlaced
  BY DEF PlacesInv
<1>2. QED
  BY <1>1, PlacesInvariant, PTL
-----------------------------------------------------------------------------
(* A part that is added to a name or to a set of parts, or left out.       *)
Elements(q) == {q[i] : i \in 1..Len(q)}

(* What names are made of.                                                 *)
Words == Parts \cup {"No location name"}

LEMMA OneElement ==
  ASSUME NEW a \in Words
  PROVE  Len(<<a>>) = 1 /\ Elements(<<a>>) = {a} /\ <<a>> \in Seq(Words)
<1>1. Len(<<a>>) = 1 /\ <<a>>[1] = a /\ 1..1 = {1}
  OBVIOUS
<1>2. Elements(<<a>>) = {a}
  BY <1>1 DEF Elements
<1>3. <<a>> \in Seq(Words)
  OBVIOUS
<1>4. QED
  BY <1>1, <1>2, <1>3

LEMMA PartAdded ==
  ASSUME NEW n \in Seq(Words), NEW part \in Words
  PROVE  /\ Append(n, part) \in Seq(Words) /\ Len(n) \in Nat
         /\ Len(Append(n, part)) = Len(n) + 1
         /\ Elements(Append(n, part)) = Elements(n) \cup {part}
<1>1. /\ Append(n, part) \in Seq(Words) /\ Len(n) \in Nat
      /\ Len(Append(n, part)) = Len(n) + 1
      /\ \A i \in 1..Len(n) : Append(n, part)[i] = n[i]
      /\ Append(n, part)[Len(n) + 1] = part
  BY AppendProperties, LenProperties
<1>2. 1..(Len(n) + 1) = 1..Len(n) \cup {Len(n) + 1}
  BY <1>1
<1>3. Elements(Append(n, part)) =
        {Append(n, part)[i] : i \in 1..Len(n)} \cup {Append(n, part)[Len(n) + 1]}
  BY <1>1, <1>2 DEF Elements
<1>4. {Append(n, part)[i] : i \in 1..Len(n)} = Elements(n)
  BY <1>1 DEF Elements
<1>5. QED
  BY <1>1, <1>3, <1>4

LEMMA PartCounted ==
  ASSUME NEW S, IsFiniteSet(S), NEW part, part \notin S
  PROVE  IsFiniteSet(S \cup {part}) /\ Cardinality(S \cup {part}) = Cardinality(S) + 1
BY FS_AddElement

(* The placeholder filled in by one placemark holds each part of it, once, *)
(* after the placeholder if there is no country.                           *)
NamesPlacemark(n, placemark) ==
  /\ Elements(n) \cap Parts = placemark
  /\ Len(n) = Cardinality(placemark) + (IF "country" \in placemark THEN 0 ELSE 1)

LEMMA PartsOfName ==
  ASSUME NEW placemark \in SUBSET Parts
  PROVE  NamesPlacemark(Named(NoName, placemark), placemark)
<1> DEFINE from == IF "country" \in placemark THEN <<"country">> ELSE NoName
           area == IF "administrativeArea" \in placemark
                   THEN Append(from, "administrativeArea") ELSE from
           whole == IF "locality" \in placemark THEN Append(area, "locality") ELSE area
           one == placemark \cap {"country"}
           two == placemark \cap {"country", "administrativeArea"}
           extra == IF "country" \in placemark THEN 0 ELSE 1
<1>w. "administrativeArea" \in Words /\ "locality" \in Words
  BY DEF Words, Parts
<1>1. Named(NoName, placemark) = whole
  BY DEF Named
<1>2. /\ from \in Seq(Words) /\ Elements(from) \cap Parts = one
      /\ IsFiniteSet(one) /\ Len(from) = Cardinality(one) + extra
      /\ Cardinality(one) \in Nat
  <2>1. CASE "country" \in placemark
    <3>1. one = {"country"}
      BY <2>1
    <3>2. IsFiniteSet(one) /\ Cardinality(one) = 1
      BY <3>1, FS_Singleton
    <3>3. from = <<"country">> /\ "country" \in Words
      BY <2>1 DEF Words, Parts
    <3>4. from \in Seq(Words) /\ Len(from) = 1 /\ Elements(from) = {"country"}
      BY <3>3, OneElement
    <3>5. Elements(from) \cap Parts = one /\ extra = 0
      BY <2>1, <3>1, <3>4 DEF Parts
    <3>6. QED
      BY <3>2, <3>4, <3>5
  <2>2. CASE "country" \notin placemark
    <3>1. one = {} /\ IsFiniteSet(one) /\ Cardinality(one) = 0
      BY <2>2, FS_EmptySet
    <3>2. from = <<"No location name">> /\ "No location name" \in Words
      BY <2>2 DEF Words, NoName
    <3>3. /\ from \in Seq(Words) /\ Len(from) = 1
          /\ Elements(from) = {"No location name"}
      BY <3>2, OneElement
    <3>4. Elements(from) \cap Parts = {} /\ extra = 1
      BY <2>2, <3>3 DEF Parts
    <3>5. one = {} /\ Elements(from) \cap Parts = one
      BY <3>1, <3>4
    <3>6. Cardinality(one) = 0 /\ IsFiniteSet(one)
      BY <3>5, FS_EmptySet
    <3>7. Len(from) = Cardinality(one) + extra /\ Cardinality(one) \in Nat
      <4>1. extra = 1 /\ Len(from) = 1 /\ Cardinality(one) = 0
        BY <3>3, <3>4, <3>6
      <4> HIDE DEF one, from, extra
      <4>2. QED
        BY <4>1
    <3> HIDE DEF one, from, extra
    <3>8. QED
      BY <3>3, <3>5, <3>6, <3>7
  <2>3. QED
    BY <2>1, <2>2
<1> HIDE DEF from
<1>3. /\ area \in Seq(Words) /\ Elements(area) \cap Parts = two
      /\ IsFiniteSet(two) /\ Len(area) = Cardinality(two) + extra
      /\ Cardinality(two) \in Nat
  <2>1. CASE "administrativeArea" \in placemark
    <3>1. two = one \cup {"administrativeArea"}
      BY <2>1
    <3>2. IsFiniteSet(two) /\ Cardinality(two) = Cardinality(one) + 1
      <4>1. "administrativeArea" \notin one /\ IsFiniteSet(one)
        BY <1>2
      <4> HIDE DEF one, two
      <4>2. QED
        BY <3>1, <4>1, PartCounted
    <3>3. /\ area = Append(from, "administrativeArea") /\ area \in Seq(Words)
          /\ Len(area) = Len(from) + 1
          /\ Elements(area) = Elements(from) \cup {"administrativeArea"}
      BY <1>2, <1>w, <2>1, PartAdded
    <3>4. Elements(area) \cap Parts = two
      BY <1>2, <3>1, <3>3 DEF Parts
    <3>5. QED
      BY <1>2, <3>2, <3>3, <3>4
  <2>2. CASE "administrativeArea" \notin placemark
    <3>1. two = one /\ area = from
      BY <2>2
    <3>2. QED
      BY <1>2, <3>1
  <2>3. QED
    BY <2>1, <2>2
<1> HIDE DEF area
<1>4. Elements(whole) \cap Parts = placemark /\ Len(whole) = Cardinality(placemark) + extra
  <2>1. CASE "locality" \in placemark
    <3>1. placemark = two \cup {"locality"}
      BY <2>1 DEF Parts
    <3>2. Cardinality(placemark) = Cardinality(two) + 1
      BY <1>3, <3>1, PartCounted
    <3>3. /\ whole = Append(area, "locality") /\ Len(whole) = Len(area) + 1
          /\ Elements(whole) = Elements(area) \cup {"locality"}
      BY <1>3, <1>w, <2>1, PartAdded
    <3>4. Elements(whole) \cap Parts = placemark
      BY <1>3, <3>1, <3>3 DEF Parts
    <3>5. QED
      BY <1>3, <3>2, <3>3, <3>4
  <2>2. CASE "locality" \notin placemark
    <3>1. placemark = two /\ whole = area
      BY <2>2 DEF Parts
    <3>2. QED
      BY <1>3, <3>1
  <2>3. QED
    BY <2>1, <2>2
<1>5. QED
  BY <1>1, <1>4 DEF NamesPlacemark

(* A name is of one place, whatever order lookups end in and whichever     *)
(* objects a newer read has replaced (Event.swift:40-75).                  *)
THEOREM NamesAreOfOnePlace == PlacesSpec => []NameIsOfOnePlace
<1>1. PlacesInv => NameIsOfOnePlace
  <2> SUFFICES ASSUME PlacesInv, NEW e \in Objects
               PROVE  /\ PartsIn(e) = IF answered[e] = None THEN {} ELSE answered[e]
                      /\ Len(name[e]) = Cardinality(PartsIn(e))
                            + (IF "country" \in PartsIn(e) THEN 0 ELSE 1)
    BY DEF NameIsOfOnePlace
  <2>1. PartsIn(e) = Elements(name[e]) \cap Parts
    BY DEF PartsIn, Elements
  <2>2. PICK placemark \in SUBSET Parts :
          /\ name[e] = Named(NoName, placemark)
          /\ placemark = IF answered[e] = None THEN {} ELSE answered[e]
    BY NothingNamed DEF PlacesInv, NamedByAnswer
  <2>3. NamesPlacemark(name[e], placemark)
    BY <2>2, PartsOfName
  <2>4. QED
    BY <2>1, <2>2, <2>3 DEF NamesPlacemark
<1>2. QED
  BY <1>1, PlacesInvariant, PTL
=============================================================================
