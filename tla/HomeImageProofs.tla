-------------------------- MODULE HomeImageProofs ---------------------------
(***************************************************************************)
(* Theorems about HomeImage, for any set of fetches and any number of      *)
(* appearances.                                                            *)
(*                                                                         *)
(* The argument: unless the picture was read or replaced while a thread    *)
(* was setting it, at most one thread is setting, and the picture is its   *)
(* own (OneSetter); so what it reads back and stores is its own url.  What *)
(* the main queue or the screen got last is then the url of the picture,   *)
(* once no thread is setting it or about to hand its url over.             *)
(***************************************************************************)
EXTENDS HomeImage, SequenceTheorems, TLAPS

States == {"idle", "requested", "assigned", "formatted", "completing", "done"}
Url == [sized: BOOLEAN, id: Fetches \cup {Nil}]
Completing == {f \in Fetches : pc[f] = "completing"}

ImageTypeOK ==
  /\ picture \in Fetches \cup {Nil}
  /\ url \in [Fetches -> Url] /\ local \in [Fetches -> Url]
  /\ pc \in [Fetches -> States]
  /\ called \in [Fetches -> Nat]
  /\ mainQueue \in Seq(Url) /\ shown \in Url
  /\ appearances \in 0..MaxAppearances
  /\ overlap \in BOOLEAN

(* A thread that is beyond its assignment has left a picture.              *)
PictureIsSet == Setting \cup Completing # {} => picture # Nil

OneSetter ==
  \A f \in Setting :
    /\ picture = f
    /\ pc[f] = "formatted" => local[f] = SizedUrl(f)

SizedOnScreen ==
  /\ \A i \in 1..Len(mainQueue) : mainQueue[i].sized
  /\ shown # NoUrl => shown.sized

LastIsPicture ==
  picture # Nil /\ Setting = {} /\ Completing = {} =>
    IF mainQueue = <<>> THEN shown = url[picture]
                        ELSE mainQueue[Len(mainQueue)] = url[picture]

UrlsInv ==
  /\ \A f \in Fetches : url[f].id = f
  /\ picture # Nil /\ Setting = {} => url[picture].sized

ImageInv ==
  /\ ImageTypeOK /\ CalledOnce /\ PictureIsSet
  /\ ~overlap => OneSetter /\ UrlsInv /\ SizedOnScreen /\ LastIsPicture

(* No fetch is taken for no picture.                                       *)
LEMMA FetchesAreNumbers == Nil \notin Fetches /\ Fetches \subseteq Nat
BY ImageAssumption DEF Nil

(* The invariant holds at first.                                           *)
LEMMA ImageInvInit == ImageInit => ImageInv
<1> SUFFICES ASSUME ImageInit
             PROVE  ImageInv
  OBVIOUS
<1>1. ImageTypeOK
  <2>1. mainQueue \in Seq(Url)
    BY EmptySeq DEF ImageInit
  <2>2. NoUrl \in Url /\ \A f \in Fetches : RawUrl(f) \in Url
    BY DEF NoUrl, RawUrl, Url
  <2>3. 0 \in 0..MaxAppearances
    BY ImageAssumption
  <2>4. QED
    BY <2>1, <2>2, <2>3 DEF ImageInit, ImageTypeOK, States
<1>2. Setting = {} /\ Completing = {} /\ picture = Nil
  BY DEF ImageInit, Setting, Completing
<1>3. CalledOnce
  BY DEF ImageInit, CalledOnce
<1>4. UrlsInv
  BY <1>2 DEF ImageInit, UrlsInv, RawUrl
<1>5. SizedOnScreen
  <2>1. Len(mainQueue) = 0 /\ 1..0 = {} /\ shown = NoUrl
    BY EmptySeq DEF ImageInit
  <2>2. QED
    BY <2>1 DEF SizedOnScreen
<1>6. QED
  BY <1>1, <1>2, <1>3, <1>4, <1>5
     DEF ImageInv, PictureIsSet, OneSetter, LastIsPicture

(* A thread's step from one state to the next.                             *)
LEMMA Goes ==
  ASSUME ImageTypeOK, NEW f \in Fetches, NEW from, NEW to \in States,
         Go(f, from, to)
  PROVE  /\ pc[f] = from /\ pc'[f] = to /\ pc' \in [Fetches -> States]
         /\ \A g \in Fetches \ {f} : pc'[g] = pc[g]
BY DEF Go, ImageTypeOK

(* Each step keeps the invariant: the assignment of the picture,           *)
LEMMA AssignStep ==
  ASSUME ImageInv, NEW f \in Fetches, Assign(f)
  PROVE  ImageInv'
<1>1. /\ pc[f] = "requested" /\ pc'[f] = "assigned"
      /\ pc' \in [Fetches -> States]
      /\ \A g \in Fetches \ {f} : pc'[g] = pc[g]
  BY Goes DEF Assign, ImageInv, States
<1>2. /\ picture' = f /\ overlap' = (overlap \/ Setting # {})
      /\ UNCHANGED <<url, local, called, mainQueue, shown, appearances>>
  BY DEF Assign
<1>3. ImageTypeOK'
  BY <1>1, <1>2 DEF ImageInv, ImageTypeOK
<1>4. CalledOnce'
  BY <1>1, <1>2 DEF ImageInv, CalledOnce
<1>5. Setting' = Setting \cup {f} /\ f \notin Setting
  BY <1>1 DEF Setting
<1>6. PictureIsSet'
  BY <1>2, FetchesAreNumbers DEF PictureIsSet
<1>7. ASSUME ~overlap'
      PROVE  OneSetter' /\ UrlsInv' /\ SizedOnScreen' /\ LastIsPicture'
  <2>1. ~overlap /\ Setting' = {f}
    BY <1>2, <1>5, <1>7
  <2>2. OneSetter'
    BY <1>1, <1>2, <2>1 DEF OneSetter
  <2>3. UrlsInv' /\ LastIsPicture'
    BY <1>2, <2>1 DEF ImageInv, UrlsInv, LastIsPicture
  <2>4. SizedOnScreen'
    BY <1>2, <2>1 DEF ImageInv, SizedOnScreen
  <2>5. QED
    BY <2>2, <2>3, <2>4
<1>8. QED
  BY <1>3, <1>4, <1>6, <1>7 DEF ImageInv

(* reading it back for the url,                                            *)
LEMMA FormatStep ==
  ASSUME ImageInv, NEW f \in Fetches, Format(f)
  PROVE  ImageInv'
<1>1. /\ pc[f] = "assigned" /\ pc'[f] = "formatted"
      /\ pc' \in [Fetches -> States]
      /\ \A g \in Fetches \ {f} : pc'[g] = pc[g]
  BY Goes DEF Format, ImageInv, States
<1>2. /\ local' = [local EXCEPT ![f] = SizedUrl(picture)]
      /\ UNCHANGED <<picture, url, called, mainQueue, shown, appearances, overlap>>
  BY DEF Format
<1>3. ImageTypeOK'
  <2>1. SizedUrl(picture) \in Url
    BY DEF ImageInv, ImageTypeOK, SizedUrl, Url
  <2>2. QED
    BY <1>1, <1>2, <2>1 DEF ImageInv, ImageTypeOK
<1>4. CalledOnce'
  BY <1>1, <1>2 DEF ImageInv, CalledOnce
<1>5. Setting' = Setting /\ f \in Setting /\ Completing' = Completing
  BY <1>1 DEF Setting, Completing
<1>6. PictureIsSet'
  BY <1>2, <1>5 DEF ImageInv, PictureIsSet
<1>7. ASSUME ~overlap'
      PROVE  OneSetter' /\ UrlsInv' /\ SizedOnScreen' /\ LastIsPicture'
  <2>1. ~overlap /\ picture = f /\ \A g \in Setting : g = f
    BY <1>2, <1>5, <1>7 DEF ImageInv, OneSetter
  <2>2. local'[f] = SizedUrl(f)
    BY <1>2, <2>1 DEF ImageInv, ImageTypeOK
  <2>3. OneSetter'
    BY <1>2, <1>5, <2>1, <2>2 DEF OneSetter
  <2>4. UrlsInv' /\ LastIsPicture'
    BY <1>2, <1>5, <2>1 DEF ImageInv, UrlsInv, LastIsPicture
  <2>5. SizedOnScreen'
    BY <1>2, <2>1 DEF ImageInv, SizedOnScreen
  <2>6. QED
    BY <2>3, <2>4, <2>5
<1>8. QED
  BY <1>3, <1>4, <1>6, <1>7 DEF ImageInv

(* changing its url, and calling the completion,                           *)
LEMMA StoreStep ==
  ASSUME ImageInv, NEW f \in Fetches, Store(f)
  PROVE  ImageInv'
<1>1. /\ pc[f] = "formatted" /\ pc'[f] = "completing"
      /\ pc' \in [Fetches -> States]
      /\ \A g \in Fetches \ {f} : pc'[g] = pc[g]
  BY Goes DEF Store, ImageInv, States
<1>2. /\ url' = [url EXCEPT ![picture] = local[f]]
      /\ called' = [called EXCEPT ![f] = @ + 1]
      /\ UNCHANGED <<picture, local, mainQueue, shown, appearances, overlap>>
  BY DEF Store
<1>3. ImageTypeOK'
  <2>1. local[f] \in Url /\ url \in [Fetches -> Url] /\ called \in [Fetches -> Nat]
    BY DEF ImageInv, ImageTypeOK
  <2>2. url' \in [Fetches -> Url]
    BY <1>2, <2>1
  <2>3. called' \in [Fetches -> Nat]
    BY <1>2, <2>1
  <2>4. QED
    BY <1>1, <1>2, <2>2, <2>3 DEF ImageInv, ImageTypeOK
<1>4. CalledOnce'
  BY <1>1, <1>2 DEF ImageInv, ImageTypeOK, CalledOnce
<1>5. /\ f \in Setting /\ Setting' = Setting \ {f}
      /\ Completing' = Completing \cup {f}
  BY <1>1 DEF Setting, Completing
<1>6. PictureIsSet'
  BY <1>2, <1>5 DEF ImageInv, PictureIsSet
<1>7. ASSUME ~overlap'
      PROVE  OneSetter' /\ UrlsInv' /\ SizedOnScreen' /\ LastIsPicture'
  <2>1. /\ ~overlap /\ picture = f /\ local[f] = SizedUrl(f)
        /\ \A g \in Setting : g = f
    BY <1>1, <1>2, <1>5, <1>7 DEF ImageInv, OneSetter
  <2>2. Setting' = {}
    BY <1>5, <2>1
  <2>3. /\ url'[f] = SizedUrl(f)
        /\ \A g \in Fetches \ {f} : url'[g] = url[g]
    BY <1>2, <2>1 DEF ImageInv, ImageTypeOK
  <2>4. UrlsInv'
    BY <1>2, <2>1, <2>3 DEF ImageInv, UrlsInv, SizedUrl
  <2>5. OneSetter' /\ LastIsPicture'
    BY <1>5, <2>2 DEF OneSetter, LastIsPicture
  <2>6. SizedOnScreen'
    BY <1>2, <2>1 DEF ImageInv, SizedOnScreen
  <2>7. QED
    BY <2>4, <2>5, <2>6
<1>8. QED
  BY <1>3, <1>4, <1>6, <1>7 DEF ImageInv

(* a fetch that brings no picture,                                         *)
LEMMA FailStep ==
  ASSUME ImageInv, NEW f \in Fetches, Fail(f)
  PROVE  ImageInv'
<1>1. /\ pc[f] = "requested" /\ pc'[f] = "done"
      /\ pc' \in [Fetches -> States]
      /\ \A g \in Fetches \ {f} : pc'[g] = pc[g]
  BY Goes DEF Fail, ImageInv, States
<1>2. /\ called' = [called EXCEPT ![f] = @ + 1]
      /\ UNCHANGED <<picture, url, local, mainQueue, shown, appearances, overlap>>
  BY DEF Fail
<1>3. ImageTypeOK'
  BY <1>1, <1>2 DEF ImageInv, ImageTypeOK
<1>4. CalledOnce'
  BY <1>1, <1>2 DEF ImageInv, ImageTypeOK, CalledOnce
<1>5. Setting' = Setting /\ Completing' = Completing /\ f \notin Setting
  BY <1>1 DEF Setting, Completing
<1>6. PictureIsSet'
  BY <1>2, <1>5 DEF ImageInv, PictureIsSet
<1>7. ASSUME ~overlap'
      PROVE  OneSetter' /\ UrlsInv' /\ SizedOnScreen' /\ LastIsPicture'
  <2>1. ~overlap
    BY <1>2, <1>7
  <2>2. OneSetter'
    BY <1>1, <1>2, <1>5, <2>1 DEF ImageInv, OneSetter, Setting
  <2>3. UrlsInv' /\ LastIsPicture'
    BY <1>2, <1>5, <2>1 DEF ImageInv, UrlsInv, LastIsPicture
  <2>4. SizedOnScreen'
    BY <1>2, <2>1 DEF ImageInv, SizedOnScreen
  <2>5. QED
    BY <2>2, <2>3, <2>4
<1>8. QED
  BY <1>3, <1>4, <1>6, <1>7 DEF ImageInv

(* the completion's block for the main queue,                              *)
LEMMA CompleteStep ==
  ASSUME ImageInv, NEW f \in Fetches, Complete(f)
  PROVE  ImageInv'
<1>1. /\ pc[f] = "completing" /\ pc'[f] = "done"
      /\ pc' \in [Fetches -> States]
      /\ \A g \in Fetches \ {f} : pc'[g] = pc[g]
  BY Goes DEF Complete, ImageInv, States
<1>2. /\ mainQueue' = Append(mainQueue, url[picture])
      /\ overlap' = (overlap \/ Setting # {})
      /\ UNCHANGED <<picture, url, local, called, shown, appearances>>
  BY DEF Complete
<1>3. f \in Completing /\ Setting' = Setting /\ Completing' = Completing \ {f}
  BY <1>1 DEF Setting, Completing
<1>4. picture \in Fetches /\ url[picture] \in Url
  BY <1>3 DEF ImageInv, PictureIsSet, ImageTypeOK
<1>5. /\ mainQueue' \in Seq(Url) /\ mainQueue' # <<>>
      /\ Len(mainQueue') = Len(mainQueue) + 1 /\ Len(mainQueue) \in Nat
      /\ \A i \in 1..Len(mainQueue) : mainQueue'[i] = mainQueue[i]
      /\ mainQueue'[Len(mainQueue) + 1] = url[picture]
  BY <1>2, <1>4, AppendProperties, LenProperties DEF ImageInv, ImageTypeOK
<1>6. ImageTypeOK'
  BY <1>1, <1>2, <1>5 DEF ImageInv, ImageTypeOK
<1>7. CalledOnce'
  BY <1>1, <1>2 DEF ImageInv, CalledOnce
<1>8. PictureIsSet'
  BY <1>2, <1>3 DEF ImageInv, PictureIsSet
<1>9. ASSUME ~overlap'
      PROVE  OneSetter' /\ UrlsInv' /\ SizedOnScreen' /\ LastIsPicture'
  <2>1. ~overlap /\ Setting = {} /\ Setting' = {}
    BY <1>2, <1>3, <1>9
  <2>2. url[picture].sized /\ picture # Nil
    BY <1>4, <2>1, FetchesAreNumbers DEF ImageInv, UrlsInv
  <2>3. OneSetter' /\ UrlsInv'
    BY <1>2, <2>1 DEF ImageInv, OneSetter, UrlsInv
  <2>4. SizedOnScreen'
    <3>1. \A i \in 1..Len(mainQueue') :
             i \in 1..Len(mainQueue) \/ i = Len(mainQueue) + 1
      BY <1>5
    <3>2. QED
      BY <1>2, <1>5, <2>1, <2>2, <3>1 DEF ImageInv, SizedOnScreen
  <2>5. LastIsPicture'
    BY <1>2, <1>5 DEF LastIsPicture
  <2>6. QED
    BY <2>3, <2>4, <2>5
<1>10. QED
  BY <1>6, <1>7, <1>8, <1>9 DEF ImageInv

(* an appearance of the home screen,                                       *)
LEMMA AppearStep ==
  ASSUME ImageInv, ViewDidAppear
  PROVE  ImageInv'
<1>1. /\ appearances' \in 0..MaxAppearances
      /\ UNCHANGED <<picture, url, local, called, mainQueue>>
  <2>1. appearances < MaxAppearances /\ appearances' = appearances + 1
    BY DEF ViewDidAppear
  <2>2. appearances' \in 0..MaxAppearances
    BY <2>1, ImageAssumption DEF ImageInv, ImageTypeOK
  <2>3. QED
    BY <2>2 DEF ViewDidAppear
<1>2. CASE picture # Nil
  <2>1. /\ shown' = url[picture] /\ UNCHANGED pc
        /\ overlap' = (overlap \/ Setting # {})
    BY <1>2 DEF ViewDidAppear
  <2>2. Setting' = Setting /\ Completing' = Completing
    BY <2>1 DEF Setting, Completing
  <2>3. ImageTypeOK'
    BY <1>1, <1>2, <2>1 DEF ImageInv, ImageTypeOK
  <2>4. CalledOnce' /\ PictureIsSet'
    BY <1>1, <2>1, <2>2 DEF ImageInv, CalledOnce, PictureIsSet
  <2>5. ASSUME ~overlap'
        PROVE  OneSetter' /\ UrlsInv' /\ SizedOnScreen' /\ LastIsPicture'
    <3>1. ~overlap /\ Setting = {}
      BY <2>1, <2>5
    <3>2. OneSetter' /\ UrlsInv'
      BY <1>1, <2>2, <3>1 DEF ImageInv, OneSetter, UrlsInv
    <3>3. SizedOnScreen'
      BY <1>1, <1>2, <2>1, <3>1 DEF ImageInv, UrlsInv, SizedOnScreen
    <3>4. LastIsPicture'
      BY <1>1, <2>1, <2>2, <3>1 DEF ImageInv, LastIsPicture
    <3>5. QED
      BY <3>2, <3>3, <3>4
  <2>6. QED
    BY <2>3, <2>4, <2>5 DEF ImageInv
<1>3. CASE picture = Nil
  <2>1. PICK f \in Fetches : /\ pc[f] = "idle"
                             /\ pc' = [pc EXCEPT ![f] = "requested"]
    BY <1>3 DEF ViewDidAppear
  <2>2. UNCHANGED <<shown, overlap>>
    BY <1>3 DEF ViewDidAppear
  <2>3. Setting' = Setting /\ Completing' = Completing
    BY <2>1 DEF Setting, Completing, ImageInv, ImageTypeOK
  <2>4. ImageTypeOK'
    BY <1>1, <2>1, <2>2 DEF ImageInv, ImageTypeOK, States
  <2>5. CalledOnce'
    BY <1>1, <2>1 DEF ImageInv, ImageTypeOK, CalledOnce
  <2>6. PictureIsSet'
    BY <1>1, <2>3 DEF ImageInv, PictureIsSet
  <2>7. Setting = {}
    BY <1>3 DEF ImageInv, PictureIsSet
  <2>8. ASSUME ~overlap'
        PROVE  OneSetter' /\ UrlsInv' /\ SizedOnScreen' /\ LastIsPicture'
    BY <1>1, <1>3, <2>2, <2>3, <2>7, <2>8
       DEF ImageInv, OneSetter, UrlsInv, SizedOnScreen, LastIsPicture
  <2>9. QED
    BY <2>4, <2>5, <2>6, <2>8 DEF ImageInv
<1>4. QED
  BY <1>2, <1>3

(* and the block that shows the picture.                                   *)
LEMMA SetImageStep ==
  ASSUME ImageInv, SetImage
  PROVE  ImageInv'
<1>1. /\ mainQueue # <<>> /\ mainQueue' = Tail(mainQueue)
      /\ shown' = Head(mainQueue)
      /\ UNCHANGED <<picture, url, pc, local, called, appearances, overlap>>
  BY DEF SetImage
<1>2. /\ mainQueue' \in Seq(Url) /\ Head(mainQueue) \in Url
      /\ Len(mainQueue) \in Nat \ {0} /\ Head(mainQueue) = mainQueue[1]
      /\ Len(mainQueue') = Len(mainQueue) - 1
      /\ \A i \in 1..Len(mainQueue') : mainQueue'[i] = mainQueue[i + 1]
  BY <1>1, HeadTailProperties, EmptySeq DEF ImageInv, ImageTypeOK
<1>3. Setting' = Setting /\ Completing' = Completing
  BY <1>1 DEF Setting, Completing
<1>4. ImageTypeOK'
  BY <1>1, <1>2 DEF ImageInv, ImageTypeOK
<1>5. CalledOnce' /\ PictureIsSet'
  BY <1>1, <1>3 DEF ImageInv, CalledOnce, PictureIsSet
<1>6. ASSUME ~overlap'
      PROVE  OneSetter' /\ UrlsInv' /\ SizedOnScreen' /\ LastIsPicture'
  <2>1. ~overlap
    BY <1>1, <1>6
  <2>2. OneSetter' /\ UrlsInv'
    BY <1>1, <1>3, <2>1 DEF ImageInv, OneSetter, UrlsInv
  <2>3. SizedOnScreen'
    <3>1. /\ \A i \in 1..Len(mainQueue') : i + 1 \in 1..Len(mainQueue)
          /\ 1 \in 1..Len(mainQueue)
      BY <1>2
    <3>2. QED
      BY <1>1, <1>2, <2>1, <3>1 DEF ImageInv, SizedOnScreen
  <2>4. LastIsPicture'
    <3>1. CASE mainQueue' = <<>>
      <4>1. Len(mainQueue) = 1
        BY <1>2, <3>1, EmptySeq
      <4>2. QED
        BY <1>1, <1>2, <1>3, <2>1, <3>1, <4>1 DEF ImageInv, LastIsPicture
    <3>2. CASE mainQueue' # <<>>
      <4>1. Len(mainQueue') \in 1..Len(mainQueue') /\ Len(mainQueue') + 1 = Len(mainQueue)
        BY <1>2, <3>2, EmptySeq
      <4>2. mainQueue'[Len(mainQueue')] = mainQueue[Len(mainQueue)]
        BY <1>2, <4>1
      <4>3. QED
        BY <1>1, <1>3, <2>1, <3>2, <4>2 DEF ImageInv, LastIsPicture
    <3>3. QED
      BY <3>1, <3>2
  <2>5. QED
    BY <2>2, <2>3, <2>4
<1>7. QED
  BY <1>4, <1>5, <1>6 DEF ImageInv

(* The invariant holds in every state.                                     *)
THEOREM ImageInvariant == ImageSpec => []ImageInv
<1>1. ImageInv /\ [ImageNext]_vars => ImageInv'
  <2> SUFFICES ASSUME ImageInv, [ImageNext]_vars
               PROVE  ImageInv'
    OBVIOUS
  <2>1. CASE ViewDidAppear \/ SetImage
    BY <2>1, AppearStep, SetImageStep
  <2>2. ASSUME NEW f \in Fetches, Step(f)
        PROVE  ImageInv'
    BY <2>2, AssignStep, FormatStep, StoreStep, FailStep, CompleteStep DEF Step
  <2>3. CASE UNCHANGED vars
    BY <2>3 DEF vars, ImageInv, ImageTypeOK, CalledOnce, PictureIsSet, OneSetter,
       UrlsInv, SizedOnScreen, LastIsPicture, Setting, Completing
  <2>4. QED
    BY <2>1, <2>2, <2>3 DEF ImageNext
<1>2. QED
  BY <1>1, ImageInvInit, PTL DEF ImageSpec

(* Each fetch calls its completion once, whatever fetches overlap.         *)
THEOREM CompletionsCalledOnce == ImageSpec => []CalledOnce
<1>1. ImageInv => CalledOnce
  BY DEF ImageInv
<1>2. QED
  BY <1>1, ImageInvariant, PTL

(* Unless the picture was touched while a thread was setting it, urls are  *)
(* those of their pictures, and only sized ones are shown.                 *)
THEOREM UrlsAreSized == ImageSpec => []UrlsFit
<1>1. ImageInv => UrlsFit
  BY DEF ImageInv, UrlsInv, SizedOnScreen, UrlsFit
<1>2. QED
  BY <1>1, ImageInvariant, PTL

(* When all is done, the home screen shows the picture there is.           *)
THEOREM HomeShowsIt == ImageSpec => []HomeShowsPicture
<1>1. ImageInv => HomeShowsPicture
  <2>1. InFlight = {} => Setting = {} /\ Completing = {}
    BY DEF InFlight, Setting, Completing
  <2>2. QED
    BY <2>1 DEF ImageInv, LastIsPicture, HomeShowsPicture
<1>2. QED
  BY <1>1, ImageInvariant, PTL
=============================================================================
