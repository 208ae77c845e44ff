-------------------------------- MODULE Mappy ---------------------------------
(***************************************************************************)
(* Whose events are stored for whom.  An event's `owner` is                *)
(* UserHandler.user, the copy that Session keeps; the mutation queue it is *)
(* put into, and so the account it is committed under (WriteStream), is    *)
(* that of the user FirebaseCredentialsProvider was last notified of: the  *)
(* worker queue keeps the order of the main queue, so an event and the     *)
(* changes of user before it arrive in that order.  Session is composed    *)
(* with the notifications, which share the main queue with its             *)
(* completions.                                                            *)
(***************************************************************************)
EXTENDS Session

VARIABLES
  notices,    \* notifications on the main queue, each with the number of
              \* completions in front of it
  notified    \* FirebaseCredentialsProvider: user of the last notification

mappyVars == <<vars, notices, notified>>

MappyInit == SessionInit /\ notices = <<>> /\ notified = NoUser

(* possiblyPostAuthStateChangeNotification: posted by the change itself,   *)
(* and so in front of the completion of the request that made it.          *)
Posted ==
  notices' = IF currentUser' = currentUser THEN notices
             ELSE Append(notices, [user |-> currentUser', ahead |-> Len(callbacks)])

(* A step of the session that takes nothing from the main queue.           *)
Happens ==
  /\ \/ \E screen \in {"LogIn", "SignUp"} : OpenForm(screen)
     \/ GoBackHome
     \/ LoginButtonPressed \/ SignupButtonPressed
     \/ \E s \in signIns : ~trapped /\ (Accept(s) \/ Refuse(s))
     \/ \E u \in Users : ~trapped /\ EndReload(u)
     \/ TokenExpires
     \/ \E screen \in {"Tabs", "Settings"} : SelectTab(screen)
     \/ PressedLogOutButton \/ PressedResetPasswordButton
  /\ Posted /\ UNCHANGED notified

\* Fault: completions overtake notifications.
CompletesEarly ==
  /\ LoggedIn \/ SignedUp \/ Reloaded
  /\ notices' = [i \in 1..Len(notices) |->
                   [notices[i] EXCEPT !.ahead = IF @ = 0 THEN 0 ELSE @ - 1]]
  /\ UNCHANGED notified

(* A completion runs when the notifications in front of it have.           *)
Completes ==
  /\ LoggedIn \/ SignedUp \/ Reloaded
  /\ \A i \in 1..Len(notices) : notices[i].ahead > 0
  /\ notices' = [i \in 1..Len(notices) |-> [notices[i] EXCEPT !.ahead = @ - 1]]
  /\ UNCHANGED notified

(* FirebaseCredentialsProvider's observer.                                 *)
OnNotification ==
  /\ ~trapped /\ notices # <<>> /\ Head(notices).ahead = 0
  /\ notified' = Head(notices).user /\ notices' = Tail(notices)
  /\ UNCHANGED vars

(* A new process finds the user in the keychain.                           *)
Restarts == Relaunch /\ notices' = <<>> /\ notified' = currentUser'

MappyNext == Happens \/ Completes \/ OnNotification \/ Restarts

MappySpec == MappyInit /\ [][MappyNext]_mappyVars

-----------------------------------------------------------------------------
(* What the create form would write now has its owner's account behind it, *)
(* unless FIRAuth's user is changing or has changed without a reload; and  *)
(* it is never stored for somebody who has logged out.                     *)
EventsAreOwners ==
  place = "Tabs" /\ user \notin {NoUser, notified} =>
    /\ silent \/ callbacks # <<>> \/ notices # <<>>
    /\ notified \notin ended
=============================================================================
