----------------------------- MODULE MappyProofs -----------------------------
(***************************************************************************)
(* Theorems about Mappy: the session's theorems hold of the composition,   *)
(* and an event has its owner's account behind it.                         *)
(***************************************************************************)
EXTENDS Mappy, SessionProofs

Notice == [user: Users \cup {NoUser}, ahead: Nat]

(* A step of the composition is a step of the session, or leaves it alone. *)
LEMMA MappyIsSession == MappySpec => SessionSpec
<1>1. MappyInit => SessionInit
  BY DEF MappyInit
<1>2. [MappyNext]_mappyVars => [SessionNext]_vars
  <2> SUFFICES ASSUME MappyNext \/ UNCHANGED mappyVars
               PROVE  SessionNext \/ UNCHANGED vars
    OBVIOUS
  <2>1. CASE Happens
    BY <2>1 DEF Happens, SessionNext
  <2>2. CASE Completes
    BY <2>2 DEF Completes, SessionNext
  <2>3. CASE OnNotification
    BY <2>3 DEF OnNotification
  <2>4. CASE Restarts
    BY <2>4 DEF Restarts, SessionNext
  <2>5. CASE UNCHANGED mappyVars
    BY <2>5 DEF mappyVars
  <2>6. QED
    BY <2>1, <2>2, <2>3, <2>4, <2>5 DEF MappyNext
<1>3. QED
  BY <1>1, <1>2, PTL DEF MappySpec, SessionSpec

(* The last notification, run or on its way, is of the current user.       *)
LastNotified ==
  currentUser = IF notices = <<>> THEN notified ELSE notices[Len(notices)].user

(* Nobody the log out button signed out is Firestore's user or will be.    *)
Clean(gone, now, q) ==
  now \notin gone /\ \A i \in 1..Len(q) : q[i].user \notin gone

(* The notification of the last log out, or one after it, is on its way:   *)
(* only completions of forms that are gone are in front of it.             *)
Barrier(gone, q, f, done, i) ==
  /\ \A j \in i..Len(q) : q[j].user \notin gone
  /\ \A k \in 1..q[i].ahead : f = 0 \/ done[k].form # f

OwnersInv ==
  /\ notices \in Seq(Notice) /\ notified \in Users \cup {NoUser}
  /\ \A i \in 1..Len(notices) : notices[i].ahead <= Len(callbacks)
  /\ LastNotified /\ FormsIssued
  /\ \/ Clean(ended, notified, notices)
     \/ /\ ~OnTabs
        /\ \E i \in 1..Len(notices) : Barrier(ended, notices, form, callbacks, i)

-----------------------------------------------------------------------------
(* What Posted leaves on the main queue.                                   *)
LEMMA PostedNotice ==
  ASSUME TypeInv, TypeInv', OwnersInv, Posted
  PROVE  /\ notices' \in Seq(Notice) /\ Len(notices') \in Nat /\ Len(notices) \in Nat
         /\ Len(notices) <= Len(notices')
         /\ \A i \in 1..Len(notices) : notices'[i] = notices[i]
         /\ \A i \in 1..Len(notices') :
              i \in 1..Len(notices) \/ notices'[i] = [user |-> currentUser', ahead |-> Len(callbacks)]
         /\ currentUser' = IF notices' = <<>> THEN notified
                           ELSE notices'[Len(notices')].user
         /\ currentUser' # currentUser =>
              /\ Len(notices') = Len(notices) + 1
              /\ notices'[Len(notices')] = [user |-> currentUser', ahead |-> Len(callbacks)]
<1> DEFINE new == [user |-> currentUser', ahead |-> Len(callbacks)]
<1>1. callbacks \in Seq(Callback) /\ currentUser' \in Users \cup {NoUser}
  BY DEF TypeInv, SessionTypeOK
<1>2. Len(callbacks) \in Nat
  BY <1>1, LenProperties
<1>3. new \in Notice /\ new.user = currentUser'
  BY <1>1, <1>2 DEF Notice
<1>4. notices \in Seq(Notice) /\ Len(notices) \in Nat
  BY LenProperties DEF OwnersInv
<1>5. CASE currentUser' = currentUser
  <2>1. notices' = notices
    BY <1>5 DEF Posted
  <2>2. QED
    BY <1>4, <1>5, <2>1 DEF OwnersInv, LastNotified
<1>6. CASE currentUser' # currentUser
  <2>1. notices' = Append(notices, new)
    BY <1>6 DEF Posted
  <2> HIDE DEF new
  <2>2. /\ notices' \in Seq(Notice) /\ Len(notices') = Len(notices) + 1
        /\ \A i \in 1..Len(notices) : notices'[i] = notices[i]
        /\ notices'[Len(notices) + 1] = new /\ notices' # <<>>
    BY <1>3, <1>4, <2>1, AppendProperties
  <2>3. \A i \in 1..Len(notices') : i \in 1..Len(notices) \/ i = Len(notices) + 1
    BY <1>4, <2>2
  <2>4. QED
    BY <1>3, <1>4, <2>2, <2>3 DEF new
<1>7. QED
  BY <1>5, <1>6

(* A step that ends nobody's session and takes nothing from the main       *)
(* queue.                                                                  *)
LEMMA OwnersKept ==
  ASSUME TypeInv, TypeInv', OwnersInv, Posted, notified' = notified, ended' = ended,
         currentUser' \notin ended, FormsIssued',
         Len(callbacks) <= Len(callbacks'),
         \A k \in 1..Len(callbacks) : callbacks'[k] = callbacks[k],
         form' \in {form, 0, nextForm}, OnTabs' => OnTabs
  PROVE  OwnersInv'
<1>1. /\ notices' \in Seq(Notice) /\ Len(notices') \in Nat /\ Len(notices) \in Nat
      /\ Len(notices) <= Len(notices')
      /\ \A i \in 1..Len(notices) : notices'[i] = notices[i]
      /\ \A i \in 1..Len(notices') :
           i \in 1..Len(notices) \/ notices'[i] = [user |-> currentUser', ahead |-> Len(callbacks)]
      /\ currentUser' = IF notices' = <<>> THEN notified ELSE notices'[Len(notices')].user
  BY PostedNotice
<1>2. Len(callbacks) \in Nat /\ Len(callbacks') \in Nat
  BY LenProperties DEF TypeInv, SessionTypeOK
<1>3. \A i \in 1..Len(notices) : notices[i].ahead \in Nat /\ notices[i].ahead <= Len(callbacks)
  <2>1. \A i \in 1..Len(notices) : notices[i] \in Notice
    BY ElementOfSeq DEF OwnersInv
  <2>2. QED
    BY <2>1 DEF OwnersInv, Notice
<1>4. ASSUME NEW i \in 1..Len(notices')
      PROVE  notices'[i].ahead <= Len(callbacks')
  <2>1. CASE i \in 1..Len(notices)
    BY <1>1, <1>2, <1>3, <2>1
  <2>2. CASE notices'[i] = [user |-> currentUser', ahead |-> Len(callbacks)]
    BY <1>2, <2>2
  <2>3. QED
    BY <1>1, <2>1, <2>2
<1>5. CASE Clean(ended, notified, notices)
  <2>1. \A i \in 1..Len(notices') : notices'[i].user \notin ended
    BY <1>1, <1>5 DEF Clean
  <2>2. Clean(ended', notified', notices')
    BY <1>5, <2>1 DEF Clean
  <2>3. QED
    BY <1>1, <1>4, <2>2 DEF OwnersInv, LastNotified
<1>6. CASE ~OnTabs /\ \E i \in 1..Len(notices) : Barrier(ended, notices, form, callbacks, i)
  <2>1. PICK i \in 1..Len(notices) : Barrier(ended, notices, form, callbacks, i)
    BY <1>6
  <2>2. i \in 1..Len(notices') /\ notices'[i] = notices[i]
    BY <1>1
  <2>3. ASSUME NEW j \in i..Len(notices')
        PROVE  notices'[j].user \notin ended'
    <3>1. CASE j \in 1..Len(notices)
      BY <1>1, <2>1, <3>1 DEF Barrier
    <3>2. CASE j \notin 1..Len(notices)
      BY <1>1, <3>2
    <3>3. QED
      BY <3>1, <3>2
  <2>4. ASSUME NEW k \in 1..notices'[i].ahead
        PROVE  form' = 0 \/ callbacks'[k].form # form'
    <3>1. k \in 1..notices[i].ahead /\ k \in 1..Len(callbacks)
      BY <1>2, <1>3, <2>2
    <3>2. callbacks'[k] = callbacks[k]
      BY <3>1
    <3>3. callbacks[k].form < nextForm
      BY <3>1 DEF OwnersInv, FormsIssued
    <3>4. form = 0 \/ callbacks[k].form # form
      BY <2>1, <3>1 DEF Barrier
    <3>5. CASE form' = form
      BY <3>2, <3>4, <3>5
    <3>6. CASE form' = nextForm
      <4>1. nextForm \in Nat
        BY SessionBounds DEF TypeInv, SessionTypeOK
      <4>2. QED
        BY <3>2, <3>3, <3>6, <4>1
    <3>7. QED
      BY <3>5, <3>6
  <2>5. Barrier(ended', notices', form', callbacks', i)
    BY <2>3, <2>4 DEF Barrier
  <2>6. ~OnTabs'
    BY <1>6
  <2>7. QED
    BY <1>1, <1>4, <2>2, <2>5, <2>6 DEF OwnersInv, LastNotified
<1>7. QED
  BY <1>5, <1>6 DEF OwnersInv

(* The log out button ends a session: its notification is behind every     *)
(* completion that could still run, and no form is in front.               *)
LEMMA OwnersLogOut ==
  ASSUME TypeInv, TypeInv', OwnersInv, Posted, notified' = notified,
         currentUser # NoUser, currentUser' = NoUser, form' = 0,
         UNCHANGED <<callbacks, signIns, nextForm>>, ~OnTabs', nextForm \in Nat \ {0}
  PROVE  OwnersInv'
<1>1. /\ notices' \in Seq(Notice) /\ Len(notices) \in Nat
      /\ \A i \in 1..Len(notices) : notices'[i] = notices[i]
      /\ \A i \in 1..Len(notices') :
           i \in 1..Len(notices) \/ notices'[i] = [user |-> currentUser', ahead |-> Len(callbacks)]
      /\ currentUser' = IF notices' = <<>> THEN notified ELSE notices'[Len(notices')].user
      /\ Len(notices') = Len(notices) + 1
      /\ notices'[Len(notices')] = [user |-> currentUser', ahead |-> Len(callbacks)]
  BY PostedNotice
<1>2. ended' \subseteq Users /\ NoUser \notin Users
  BY DEF TypeInv, SessionTypeOK, Users, NoUser
<1>3. Barrier(ended', notices', form', callbacks', Len(notices'))
  <2>1. notices'[Len(notices')].user \notin ended'
    BY <1>1, <1>2
  <2>2. \A j \in Len(notices')..Len(notices') : j = Len(notices')
    BY <1>1
  <2>3. QED
    BY <2>1, <2>2 DEF Barrier
<1>4. \A i \in 1..Len(notices') : notices'[i].ahead <= Len(callbacks')
  <2>1. Len(callbacks) \in Nat
    BY LenProperties DEF TypeInv, SessionTypeOK
  <2>2. QED
    BY <1>1, <2>1 DEF OwnersInv
<1>5. FormsIssued'
  BY DEF OwnersInv, FormsIssued
<1>6. Len(notices') \in 1..Len(notices')
  BY <1>1
<1>7. QED
  BY <1>1, <1>3, <1>4, <1>5, <1>6 DEF OwnersInv, LastNotified

(* A completion runs: it is in front of every notification, so that one    *)
(* behind a log out's finds its form gone, and shows no tab bar.           *)
LEMMA OwnersComplete ==
  ASSUME TypeInv, TypeInv', OwnersInv, Completes
  PROVE  OwnersInv'
<1>1. PICK what : Take(what)
  BY DEF Completes, LoggedIn, SignedUp, Reloaded
<1>2. UNCHANGED <<signIns, form, nextForm, currentUser, ended, notified>>
  BY DEF Completes, LoggedIn, SignedUp, Reloaded, authVars, screenVars
<1>3. /\ 1 \in 1..Len(callbacks) /\ Head(callbacks) = callbacks[1]
      /\ \A i \in 1..Len(callbacks') :
           i + 1 \in 1..Len(callbacks) /\ callbacks'[i] = callbacks[i + 1]
  BY <1>1, CompletingTaken
<1>4. Len(callbacks) \in Nat /\ Len(callbacks') = Len(callbacks) - 1
  <2>1. /\ callbacks \in Seq(Callback) /\ callbacks # <<>>
        /\ callbacks' = Tail(callbacks)
    BY <1>1 DEF Take, TypeInv, SessionTypeOK
  <2>2. QED
    BY <2>1, HeadTailProperties, LenProperties
<1>5. /\ \A i \in 1..Len(notices) : notices[i].ahead > 0
      /\ notices' = [i \in 1..Len(notices) |-> [notices[i] EXCEPT !.ahead = @ - 1]]
  BY DEF Completes
<1>6. /\ notices \in Seq(Notice) /\ Len(notices) \in Nat
      /\ \A i \in 1..Len(notices) : notices[i] \in Notice
  BY LenProperties, ElementOfSeq DEF OwnersInv
<1>7. /\ notices' \in Seq(Notice) /\ Len(notices') = Len(notices)
      /\ \A i \in 1..Len(notices) : /\ notices'[i].user = notices[i].user
                                    /\ notices'[i].ahead = notices[i].ahead - 1
                                    /\ notices[i].ahead \in Nat
  <2>1. ASSUME NEW i \in 1..Len(notices)
        PROVE  /\ [notices[i] EXCEPT !.ahead = @ - 1] \in Notice
               /\ [notices[i] EXCEPT !.ahead = @ - 1].user = notices[i].user
               /\ [notices[i] EXCEPT !.ahead = @ - 1].ahead = notices[i].ahead - 1
               /\ notices[i].ahead \in Nat
    <3>1. notices[i] \in [user: Users \cup {NoUser}, ahead: Nat]
      BY <1>6 DEF Notice
    <3>2. notices[i].ahead \in Nat /\ notices[i].ahead > 0
          /\ notices[i].ahead - 1 \in Nat
      BY <1>5, <3>1
    <3>3. QED
      BY <3>1, <3>2 DEF Notice
  <2>2. notices' \in [1..Len(notices) -> Notice]
    BY <1>5, <2>1
  <2>3. notices' \in Seq(Notice) /\ Len(notices') = Len(notices)
    BY <1>6, <2>2, SeqDef, LenProperties
  <2>4. QED
    BY <1>5, <2>1, <2>3
<1>8. \A i \in 1..Len(notices') : notices'[i].ahead <= Len(callbacks')
  BY <1>4, <1>5, <1>7 DEF OwnersInv
<1>9. LastNotified'
  <2>1. notices = <<>> <=> Len(notices) = 0
    BY <1>6, EmptySeq
  <2>2. notices' = <<>> <=> Len(notices') = 0
    BY <1>7, EmptySeq
  <2>3. notices # <<>> => Len(notices) \in 1..Len(notices)
    BY <1>6, <2>1
  <2>4. QED
    BY <1>2, <1>7, <2>1, <2>2, <2>3 DEF OwnersInv, LastNotified
<1>10. FormsIssued'
  BY <1>2, <1>3 DEF OwnersInv, FormsIssued
<1>11. CASE Clean(ended, notified, notices)
  <2>1. Clean(ended', notified', notices')
    BY <1>2, <1>7, <1>11 DEF Clean
  <2>2. QED
    BY <1>2, <1>7, <1>8, <1>9, <1>10, <2>1 DEF OwnersInv
<1>12. CASE ~OnTabs /\ \E i \in 1..Len(notices) : Barrier(ended, notices, form, callbacks, i)
  <2>1. PICK i \in 1..Len(notices) : Barrier(ended, notices, form, callbacks, i)
    BY <1>12
  <2>2. form = 0 \/ callbacks[1].form # form
    <3>1. 1 \in 1..notices[i].ahead
      BY <1>5, <1>7
    <3>2. QED
      BY <2>1, <3>1 DEF Barrier
  <2>3. ~OnTabs'
    <3>1. place' = place \/ (place \in {"LogIn", "SignUp"} /\ form = callbacks[1].form)
      BY <1>3 DEF Completes, LoggedIn, SignedUp, Reloaded, ShowTabs, screenVars
    <3>2. place \in {"LogIn", "SignUp"} => form # 0
      BY DEF TypeInv, FormNumbered
    <3>3. place' = place
      BY <2>2, <3>1, <3>2
    <3>4. QED
      BY <1>12, <3>3 DEF OnTabs
  <2>4. ASSUME NEW j \in i..Len(notices')
        PROVE  notices'[j].user \notin ended'
    BY <1>2, <1>7, <2>1 DEF Barrier
  <2>5. ASSUME NEW k \in 1..notices'[i].ahead
        PROVE  form' = 0 \/ callbacks'[k].form # form'
    <3>1. k + 1 \in 1..notices[i].ahead
      BY <1>7
    <3>2. k \in 1..Len(callbacks')
      BY <1>4, <1>7, <1>8, <2>1
    <3>3. callbacks'[k] = callbacks[k + 1]
      BY <1>3, <3>2
    <3>4. QED
      BY <1>2, <2>1, <3>1, <3>3 DEF Barrier
  <2>6. Barrier(ended', notices', form', callbacks', i)
    BY <2>4, <2>5 DEF Barrier
  <2>7. QED
    BY <1>2, <1>7, <1>8, <1>9, <1>10, <2>3, <2>6 DEF OwnersInv
<1>13. QED
  BY <1>11, <1>12 DEF OwnersInv

(* A notification runs, perhaps that of the log out.                       *)
LEMMA OwnersNotified ==
  ASSUME TypeInv, OwnersInv, OnNotification
  PROVE  OwnersInv'
<1>1. /\ notices # <<>> /\ Head(notices).ahead = 0
      /\ notified' = Head(notices).user /\ notices' = Tail(notices)
      /\ UNCHANGED <<callbacks, signIns, form, nextForm, currentUser, ended, place>>
  BY DEF OnNotification, vars, authVars, screenVars
<1>2. /\ notices' \in Seq(Notice) /\ Len(notices') = Len(notices) - 1
      /\ Len(notices) \in Nat \ {0} /\ Head(notices) = notices[1]
      /\ \A i \in 1..Len(notices') : notices'[i] = notices[i + 1]
      /\ notices' = <<>> <=> Len(notices') = 0
      /\ notices[1] \in Notice
  <2>1. notices \in Seq(Notice)
    BY DEF OwnersInv
  <2>2. Len(notices) \in Nat \ {0} /\ Head(notices) = notices[1]
    BY <1>1, <2>1, HeadTailProperties, LenProperties, EmptySeq
  <2>3. /\ notices' \in Seq(Notice) /\ Len(notices') = Len(notices) - 1
        /\ \A i \in 1..Len(notices') : notices'[i] = notices[i + 1]
    BY <1>1, <2>1, HeadTailProperties
  <2>4. notices' = <<>> <=> Len(notices') = 0
    BY <2>3, EmptySeq
  <2>5. notices[1] \in Notice
    BY <2>1, <2>2, ElementOfSeq
  <2>6. QED
    BY <2>2, <2>3, <2>4, <2>5
<1>3. LastNotified'
  BY <1>1, <1>2 DEF OwnersInv, LastNotified
<1>4. FormsIssued'
  BY <1>1 DEF OwnersInv, FormsIssued
<1>5. \A i \in 1..Len(notices') : notices'[i].ahead <= Len(callbacks')
  BY <1>1, <1>2 DEF OwnersInv
<1>6. notified' \in Users \cup {NoUser}
  BY <1>1, <1>2 DEF Notice
<1>7. CASE Clean(ended, notified, notices)
  <2>1. Clean(ended', notified', notices')
    BY <1>1, <1>2, <1>7 DEF Clean
  <2>2. QED
    BY <1>2, <1>3, <1>4, <1>5, <1>6, <2>1 DEF OwnersInv
<1>8. CASE ~OnTabs /\ \E i \in 1..Len(notices) : Barrier(ended, notices, form, callbacks, i)
  <2>1. PICK i \in 1..Len(notices) : Barrier(ended, notices, form, callbacks, i)
    BY <1>8
  <2>2. CASE i = 1
    <3>1. \A j \in 1..Len(notices) : notices[j].user \notin ended
      BY <2>1, <2>2 DEF Barrier
    <3>2. Clean(ended', notified', notices')
      BY <1>1, <1>2, <3>1 DEF Clean
    <3>3. QED
      BY <1>2, <1>3, <1>4, <1>5, <1>6, <3>2 DEF OwnersInv
  <2>3. CASE i # 1
    <3>1. i - 1 \in 1..Len(notices') /\ notices'[i - 1] = notices[i]
      BY <1>2, <2>3
    <3>2. \A j \in (i - 1)..Len(notices') : notices'[j].user \notin ended
      <4> TAKE j \in (i - 1)..Len(notices')
      <4>1. j \in 1..Len(notices') /\ j + 1 \in i..Len(notices)
        BY <1>2, <2>3
      <4>2. QED
        BY <1>2, <2>1, <4>1 DEF Barrier
    <3>3. Barrier(ended', notices', form', callbacks', i - 1)
      BY <1>1, <2>1, <3>1, <3>2 DEF Barrier
    <3>4. ~OnTabs'
      BY <1>1, <1>8 DEF OnTabs
    <3>5. QED
      BY <1>2, <1>3, <1>4, <1>5, <1>6, <3>1, <3>3, <3>4 DEF OwnersInv
  <2>4. QED
    BY <2>2, <2>3
<1>9. QED
  BY <1>7, <1>8 DEF OwnersInv

(* A completion is posted, of a form that was numbered.                    *)
LEMMA OwnersPost ==
  ASSUME TypeInv, TypeInv', OwnersInv, Posted, notified' = notified,
         UNCHANGED <<ended, form, nextForm, place>>, currentUser' \notin ended,
         signIns' \subseteq signIns,
         NEW what \in {"logIn", "signUp", "reload"}, NEW ok \in BOOLEAN,
         NEW id \in Users, NEW f \in 0..MaxForms, Post(what, ok, id, f), f < nextForm
  PROVE  OwnersInv'
<1>1. [what |-> what, ok |-> ok, id |-> id, form |-> f] \in Callback
      /\ callbacks \in Seq(Callback)
  BY DEF Callback, TypeInv, SessionTypeOK
<1>2. /\ Len(callbacks') = Len(callbacks) + 1 /\ Len(callbacks) \in Nat
      /\ \A k \in 1..Len(callbacks) : callbacks'[k] = callbacks[k]
  BY <1>1, PostAppends
<1>3. \A k \in 1..Len(callbacks') :
        \/ k \in 1..Len(callbacks) /\ callbacks'[k] = callbacks[k]
        \/ callbacks'[k].form = f
  BY CompletingStays
<1>4. FormsIssued'
  BY <1>3 DEF OwnersInv, FormsIssued
<1>5. OnTabs' => OnTabs
  BY DEF OnTabs
<1>6. Len(callbacks) <= Len(callbacks') /\ form' \in {form, 0, nextForm}
  BY <1>2
<1>7. QED
  BY <1>2, <1>4, <1>5, <1>6, OwnersKept

(* What happens outside of the main queue, and in front of the screen.     *)
LEMMA OwnersHappens ==
  ASSUME TypeInv, TypeInv', OwnersInv, Happens, SignedOutStaysOut, SignedOutStaysOut'
  PROVE  OwnersInv'
<1>p. Posted /\ notified' = notified
  BY DEF Happens
<1>t. /\ nextForm \in Nat \ {0} /\ form \in Nat /\ Len(callbacks) \in Nat
      /\ ended \subseteq Users /\ NoUser \notin Users /\ MaxForms \in Nat
      /\ currentUser \notin ended
  BY SessionBounds, LenProperties
  DEF TypeInv, SessionTypeOK, Users, NoUser, SignedOutStaysOut
<1>u. ended' = ended => currentUser' \notin ended
  BY DEF SignedOutStaysOut
<1>k. ASSUME UNCHANGED <<callbacks, ended>>, FormsIssued',
             form' \in {form, 0, nextForm}, OnTabs' => OnTabs
      PROVE  OwnersInv'
  BY <1>k, <1>p, <1>t, <1>u, OwnersKept
<1>f. ASSUME UNCHANGED <<callbacks, signIns, form, nextForm>>
      PROVE  FormsIssued'
  BY <1>f DEF OwnersInv, FormsIssued
<1>s. ASSUME NEW s \in signIns
      PROVE  /\ s.kind \in {"logIn", "signUp", "reload"} /\ s.id \in Users
             /\ s.form \in 0..MaxForms /\ s.form < nextForm
  <2>1. s \in SignIn
    BY DEF TypeInv, SessionTypeOK
  <2>2. s.kind \in {"logIn", "signUp"} /\ s.id \in Users /\ s.form \in 1..MaxForms
    BY <2>1 DEF SignIn
  <2>3. s.form < nextForm
    BY DEF OwnersInv, FormsIssued
  <2>4. QED
    BY <2>2, <2>3, SessionBounds
<1>1. ASSUME NEW screen \in {"LogIn", "SignUp"}, OpenForm(screen)
      PROVE  OwnersInv'
  <2>1. /\ UNCHANGED <<callbacks, signIns, ended>> /\ form' = nextForm
        /\ nextForm' = nextForm + 1 /\ place' = screen
    BY <1>1 DEF OpenForm
  <2>2. \A k \in 1..Len(callbacks) : callbacks[k].form < nextForm + 1
    <3>1. \A k \in 1..Len(callbacks) : callbacks[k].form \in Nat
      <4>1. \A k \in 1..Len(callbacks) : callbacks[k] \in Callback
        BY ElementOfSeq DEF TypeInv, SessionTypeOK
      <4>2. QED
        BY <1>t, <4>1 DEF Callback
    <3>2. QED
      BY <1>t, <3>1 DEF OwnersInv, FormsIssued
  <2>3. \A s \in signIns : s.form < nextForm + 1
    BY <1>t, <1>s
  <2>4. FormsIssued'
    BY <1>t, <2>1, <2>2, <2>3 DEF FormsIssued
  <2>5. ~OnTabs'
    BY <2>1 DEF OnTabs
  <2>6. QED
    BY <1>k, <2>1, <2>4, <2>5
<1>2. CASE GoBackHome
  <2>1. /\ UNCHANGED <<callbacks, signIns, ended, nextForm>> /\ form' = 0
        /\ place' = "Home"
    BY <1>2 DEF GoBackHome
  <2>2. FormsIssued'
    BY <1>t, <2>1 DEF OwnersInv, FormsIssued
  <2>3. ~OnTabs'
    BY <2>1 DEF OnTabs
  <2>4. QED
    BY <1>k, <2>1, <2>2, <2>3
<1>3. ASSUME NEW screen, NEW kind, Request(screen, kind)
      PROVE  OwnersInv'
  <2>1. /\ UNCHANGED <<callbacks, ended, form, nextForm, place>>
        /\ signIns' = signIns \cup {[id |-> nextSignIn, kind |-> kind, form |-> form]}
    BY <1>3 DEF Request, screenVars
  <2>2. FormsIssued'
    BY <2>1 DEF OwnersInv, FormsIssued
  <2>3. OnTabs' => OnTabs
    BY <2>1 DEF OnTabs
  <2>4. QED
    BY <1>k, <2>1, <2>2, <2>3
<1>4. ASSUME NEW s \in signIns, Accept(s) \/ Refuse(s)
      PROVE  OwnersInv'
  <2>1. PICK ok \in BOOLEAN : Post(s.kind, ok, s.id, s.form)
    BY <1>4 DEF Accept, Refuse
  <2>2. UNCHANGED <<ended, form, nextForm, place>> /\ signIns' \subseteq signIns
    BY <1>4 DEF Accept, Refuse, screenVars
  <2>3. QED
    BY <1>p, <1>s, <1>u, <2>1, <2>2, OwnersPost
<1>5. ASSUME NEW u \in Users, EndReload(u)
      PROVE  OwnersInv'
  <2>1. PICK ok \in BOOLEAN : Post("reload", ok, u, 0)
    BY <1>5 DEF EndReload
  <2>2. UNCHANGED <<ended, form, nextForm, place, signIns>>
    BY <1>5 DEF EndReload, screenVars
  <2>3. 0 \in 0..MaxForms /\ 0 < nextForm
    BY <1>t
  <2>4. QED
    BY <1>p, <1>u, <2>1, <2>2, <2>3, OwnersPost
<1>6. CASE TokenExpires
  <2>1. UNCHANGED <<callbacks, signIns, ended, form, nextForm, place>>
    BY <1>6 DEF TokenExpires, screenVars
  <2>2. QED
    BY <1>f, <1>k, <2>1 DEF OnTabs
<1>7. ASSUME NEW screen, SelectTab(screen)
      PROVE  OwnersInv'
  <2>1. UNCHANGED <<callbacks, signIns, ended, form, nextForm>> /\ OnTabs
    BY <1>7 DEF SelectTab
  <2>2. QED
    BY <1>f, <1>k, <2>1
<1>8. CASE PressedLogOutButton
  <2>1. /\ UNCHANGED <<callbacks, signIns, nextForm>> /\ form' = 0
        /\ place = "Settings" /\ place' \in {Appeared(user'), "Home"}
        /\ \/ /\ currentUser' = NoUser /\ user' = NoUser
              /\ ended' = (ended \cup {currentUser}) \ {NoUser}
           \/ UNCHANGED ended
    BY <1>8 DEF PressedLogOutButton, ReloadUser
  <2>2. FormsIssued'
    BY <1>t, <2>1 DEF OwnersInv, FormsIssued
  <2>3. OnTabs
    BY <2>1 DEF OnTabs
  <2>4. CASE UNCHANGED ended
    BY <1>k, <2>1, <2>2, <2>3, <2>4
  <2>5. CASE /\ currentUser' = NoUser /\ user' = NoUser
             /\ ended' = (ended \cup {currentUser}) \ {NoUser}
    <3>1. CASE currentUser = NoUser
      <4>1. UNCHANGED ended
        BY <1>t, <2>5, <3>1
      <4>2. QED
        BY <2>4, <4>1
    <3>2. CASE currentUser # NoUser
      <4>1. ~OnTabs'
        BY <2>1, <2>5 DEF OnTabs, Appeared
      <4>2. QED
        BY <1>p, <1>t, <2>1, <2>5, <3>2, <4>1, OwnersLogOut
    <3>3. QED
      BY <3>1, <3>2
  <2>6. QED
    BY <2>1, <2>4, <2>5
<1>9. CASE PressedResetPasswordButton
  <2>1. UNCHANGED <<callbacks, signIns, ended, form, nextForm, place>>
    BY <1>9 DEF PressedResetPasswordButton
  <2>2. QED
    BY <1>f, <1>k, <2>1 DEF OnTabs
<1>10. QED
  BY <1>1, <1>2, <1>3, <1>4, <1>5, <1>6, <1>7, <1>8, <1>9
  DEF Happens, LoginButtonPressed, SignupButtonPressed

LEMMA OwnersStep ==
  ASSUME TypeInv, TypeInv', OwnersInv, SignedOutStaysOut, SignedOutStaysOut',
         [MappyNext]_mappyVars
  PROVE  OwnersInv'
<1>1. CASE Restarts
  <2>1. /\ signIns' = {} /\ callbacks' = <<>> /\ form' = 0 /\ notices' = <<>>
        /\ notified' = currentUser' /\ UNCHANGED nextForm
    BY <1>1 DEF Restarts, Relaunch
  <2>2. 1..Len(callbacks') = {} /\ 1..Len(notices') = {}
    BY <2>1, EmptySeq
  <2>3. nextForm \in Nat \ {0} /\ currentUser' \in Users \cup {NoUser}
    BY SessionBounds DEF TypeInv, SessionTypeOK
  <2>4. notices' \in Seq(Notice)
    BY <2>1, EmptySeq
  <2>5. LastNotified' /\ FormsIssued'
    BY <2>1, <2>2, <2>3 DEF LastNotified, FormsIssued
  <2>6. Clean(ended', notified', notices')
    BY <2>1, <2>2 DEF Clean, SignedOutStaysOut
  <2>7. QED
    BY <2>1, <2>2, <2>3, <2>4, <2>5, <2>6 DEF OwnersInv
<1>2. CASE UNCHANGED mappyVars
  BY <1>2 DEF mappyVars, vars, authVars, screenVars, OwnersInv, LastNotified,
              FormsIssued, OnTabs
<1>3. QED
  BY <1>1, <1>2, OwnersHappens, OwnersComplete, OwnersNotified DEF MappyNext

-----------------------------------------------------------------------------
(* What the create form would write has its owner's account behind it, and *)
(* goes into no mutation queue of somebody who logged out                  *)
(* (CreateNewEventViewController.swift:75, FIRAuth.m:1546-1557).           *)
THEOREM EventsHaveOwners == MappySpec => []EventsAreOwners
<1>1. MappyInit => OwnersInv
  <2> SUFFICES ASSUME MappyInit PROVE OwnersInv
    OBVIOUS
  <2>1. /\ notices = <<>> /\ notified = NoUser /\ currentUser = NoUser /\ ended = {}
        /\ form = 0 /\ nextForm = 1 /\ signIns = {} /\ callbacks = <<>>
    BY DEF MappyInit, SessionInit
  <2>2. 1..Len(callbacks) = {} /\ 1..Len(notices) = {} /\ notices \in Seq(Notice)
    BY <2>1, EmptySeq
  <2>3. LastNotified /\ FormsIssued /\ Clean(ended, notified, notices)
    BY <2>1, <2>2 DEF LastNotified, FormsIssued, Clean
  <2>4. QED
    BY <2>1, <2>2, <2>3 DEF OwnersInv
<1>2. SessionSpec => []TypeInv
  BY TypeInit, TypeStep, PTL DEF SessionSpec
<1>3. OwnersInv /\ UserCatchesUp => EventsAreOwners
  <2> SUFFICES ASSUME OwnersInv, UserCatchesUp, place = "Tabs",
                      user \notin {NoUser, notified}
               PROVE  /\ silent \/ callbacks # <<>> \/ notices # <<>>
                      /\ notified \notin ended
    BY DEF EventsAreOwners
  <2>1. notified \notin ended
    BY DEF OwnersInv, OnTabs, Clean
  <2>2. ASSUME ~silent, notices = <<>>
        PROVE  callbacks # <<>>
    <3>1. user # currentUser
      BY <2>2 DEF OwnersInv, LastNotified
    <3>2. PICK i \in 1..Len(callbacks) : callbacks[i].what \in {"logIn", "reload"}
      BY <2>2, <3>1 DEF UserCatchesUp
    <3>3. QED
      BY <3>2, EmptySeq
  <2>3. QED
    BY <2>1, <2>2
<1>4. TypeInv /\ TypeInv' /\ OwnersInv /\ SignedOutStaysOut /\ SignedOutStaysOut'
        /\ [MappyNext]_mappyVars => OwnersInv'
  BY OwnersStep
<1>5. QED
  BY <1>1, <1>2, <1>3, <1>4, MappyIsSession, SignedOutUsersStayOut,
     UserCatchesUpAlways, PTL DEF MappySpec
=============================================================================
