----------------------------- MODULE HomeImage ------------------------------
(***************************************************************************)
(* The background picture of the home screen: DataHandler's one picture,   *)
(* written by the URLSession threads of RestHandler.fetchImage and read by *)
(* them and by HomeViewController on the main queue, without a lock.       *)
(*                                                                         *)
(* A picture is the number of the fetch that brought it.  Its download_url *)
(* is as the server sent it, until setBackgroundImage fills in an id and   *)
(* the size of the screen.  A step is one access to shared memory; what    *)
(* a torn reference may do in Swift beyond that is not modelled.           *)
(***************************************************************************)
EXTENDS Naturals, Sequences, FiniteSets

CONSTANTS Fetches,        \* the fetches, each a thread of its own
          MaxAppearances  \* bound: appearances of the home screen

ASSUME ImageAssumption == Fetches \subseteq Nat \ {0} /\ MaxAppearances \in Nat

VARIABLES
  picture,     \* DataHandler.homepageBackgroundImage
  url,         \* download_url of each picture
  pc,          \* where each fetch is
  local,       \* what the fetch's thread has read last
  called,      \* how often each fetch called its completion
  mainQueue,   \* urls in blocks sent to the main queue
  shown,       \* url of the last kf.setImage
  appearances,
  overlap      \* history: picture was read while a thread was setting it

vars == <<picture, url, pc, local, called, mainQueue, shown, appearances,
          overlap>>

Nil == 0
RawUrl(p) == [sized |-> FALSE, id |-> p]
SizedUrl(p) == [sized |-> TRUE, id |-> p]
NoUrl == RawUrl(Nil)

Setting == {f \in Fetches : pc[f] \in {"assigned", "formatted"}}
InFlight == {f \in Fetches : pc[f] \notin {"idle", "done"}}

-----------------------------------------------------------------------------
ImageInit ==
  /\ picture = Nil /\ url = [f \in Fetches |-> RawUrl(f)]
  /\ pc = [f \in Fetches |-> "idle"] /\ local = [f \in Fetches |-> NoUrl]
  /\ called = [f \in Fetches |-> 0]
  /\ mainQueue = <<>> /\ shown = NoUrl
  /\ appearances = 0 /\ overlap = FALSE

(* HomeViewController.viewDidAppear: shows the picture there is, or        *)
(* fetches one, even while another fetch is on its way.                    *)
ViewDidAppear ==
  /\ appearances < MaxAppearances /\ appearances' = appearances + 1
  /\ \/ /\ picture # Nil
        /\ shown' = url[picture]
        /\ overlap' = (overlap \/ Setting # {})
        /\ UNCHANGED pc
     \/ /\ picture = Nil
        /\ \E f \in Fetches : pc[f] = "idle"
                             /\ pc' = [pc EXCEPT ![f] = "requested"]
        /\ UNCHANGED <<shown, overlap>>
  /\ UNCHANGED <<picture, url, local, called, mainQueue>>

Go(f, from, to) == pc[f] = from /\ pc' = [pc EXCEPT ![f] = to]

(* DataHandler.setBackgroundImage line by line: the property is assigned;  *)
(* read back for the new url; and read again for the object to change.     *)
Assign(f) ==
  /\ Go(f, "requested", "assigned")
  /\ picture' = f
  /\ overlap' = (overlap \/ Setting # {})
  /\ UNCHANGED <<url, local, called, mainQueue, shown, appearances>>

\* Fault: the url is formatted with an id read before the assignment.
FormatStale(f) ==
  /\ Go(f, "assigned", "formatted")
  /\ \E p \in Fetches : local' = [local EXCEPT ![f] = SizedUrl(p)]
  /\ UNCHANGED <<picture, url, called, mainQueue, shown, appearances, overlap>>

Format(f) ==
  /\ Go(f, "assigned", "formatted")
  /\ local' = [local EXCEPT ![f] = SizedUrl(picture)]
  /\ UNCHANGED <<picture, url, called, mainQueue, shown, appearances, overlap>>

Store(f) ==
  /\ Go(f, "formatted", "completing")
  /\ url' = [url EXCEPT ![picture] = local[f]]
  /\ called' = [called EXCEPT ![f] = @ + 1]
  /\ UNCHANGED <<picture, local, mainQueue, shown, appearances, overlap>>

(* No picture, or no JSON of one: the completion gets false.               *)
Fail(f) ==
  /\ Go(f, "requested", "done")
  /\ called' = [called EXCEPT ![f] = @ + 1]
  /\ UNCHANGED <<picture, url, local, mainQueue, shown, appearances, overlap>>

\* Fault: without the return, completion(false) follows completion(true).
CompleteTwice(f) ==
  /\ Go(f, "completing", "done")
  /\ called' = [called EXCEPT ![f] = @ + 1]
  /\ mainQueue' = Append(mainQueue, url[picture])
  /\ overlap' = (overlap \/ Setting # {})
  /\ UNCHANGED <<picture, url, local, shown, appearances>>

\* Fault: the completion does not go to the main queue.
CompleteUnseen(f) ==
  /\ Go(f, "completing", "done")
  /\ UNCHANGED <<picture, url, local, called, mainQueue, shown, appearances,
                 overlap>>

(* Completion in fetchBackgroundImage, on the thread of the fetch.         *)
Complete(f) ==
  /\ Go(f, "completing", "done")
  /\ mainQueue' = Append(mainQueue, url[picture])
  /\ overlap' = (overlap \/ Setting # {})
  /\ UNCHANGED <<picture, url, local, called, shown, appearances>>

\* Fault: an image set earlier wins.
SetImageOnce ==
  /\ mainQueue # <<>> /\ mainQueue' = Tail(mainQueue)
  /\ shown' = IF shown = NoUrl THEN Head(mainQueue) ELSE shown
  /\ UNCHANGED <<picture, url, pc, local, called, appearances, overlap>>

(* kf.setImage: a later call on the same view takes over.                  *)
SetImage ==
  /\ mainQueue # <<>> /\ mainQueue' = Tail(mainQueue)
  /\ shown' = Head(mainQueue)
  /\ UNCHANGED <<picture, url, pc, local, called, appearances, overlap>>

Step(f) == Assign(f) \/ Format(f) \/ Store(f) \/ Fail(f) \/ Complete(f)

ImageNext == ViewDidAppear \/ SetImage \/ \E f \in Fetches : Step(f)

ImageSpec == ImageInit /\ [][ImageNext]_vars

(* Threads run, requests end (URLSession times them out), and the main     *)
(* queue is served.                                                        *)
FairImageSpec ==
  ImageSpec /\ WF_vars(SetImage) /\ \A f \in Fetches : WF_vars(Step(f))

-----------------------------------------------------------------------------
(* A picture's url asks for that picture in the size of the screen once    *)
(* its fetch has completed, and nothing else is ever shown, unless the     *)
(* picture was read or replaced while another thread was setting it.       *)
UrlsFit ==
  ~overlap => /\ \A f \in Fetches : url[f].id = f
              /\ picture # Nil /\ Setting = {} => url[picture].sized
              /\ shown # NoUrl => shown.sized

(* With every thread done and the main queue empty, the home screen shows  *)
(* the picture a later appearance would show, under the same condition.    *)
HomeShowsPicture ==
  ~overlap /\ InFlight = {} /\ mainQueue = <<>> /\ picture # Nil =>
     shown = url[picture]

(* RestHandler.swift:38 asks for it: the completion of a fetch is called,  *)
(* and only once; a failed fetch has called it before it ends.             *)
CalledOnce ==
  \A f \in Fetches :
     called[f] = IF pc[f] \in {"completing", "done"} THEN 1 ELSE 0

(* Once a picture has come it gets shown, whatever fetches and appearances *)
(* follow.                                                                 *)
PictureGetsShown == picture # Nil ~> shown # NoUrl
=============================================================================
