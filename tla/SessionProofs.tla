--------------------------- MODULE SessionProofs ----------------------------
(***************************************************************************)
(* Theorems about Session, for every number of sign-ins, forms and starts  *)
(* of the process.                                                         *)
(***************************************************************************)
EXTENDS Session, SequenceTheorems, TLAPS

(* What the main queue holds after a completion was posted.                *)
LEMMA PostAppends ==
  ASSUME NEW S, callbacks \in Seq(S),
         NEW what, NEW ok, NEW id, NEW f, Post(what, ok, id, f),
         [what |-> what, ok |-> ok, id |-> id, form |-> f] \in S
  PROVE  /\ callbacks' \in Seq(S)
         /\ Len(callbacks') = Len(callbacks) + 1 /\ Len(callbacks) \in Nat
         /\ \A i \in 1..Len(callbacks) : callbacks'[i] = callbacks[i]
         /\ callbacks'[Len(callbacks) + 1].what = what
BY AppendProperties, LenProperties DEF Post

(* A log in or sign up screen in front is numbered.                        *)
FormNumbered == place \in {"LogIn", "SignUp"} => form # 0

TypeInv == SessionTypeOK /\ FormNumbered

LEMMA TypeInit == SessionInit => TypeInv
<1> SUFFICES ASSUME SessionInit
             PROVE  TypeInv
  OBVIOUS
<1> USE SessionBounds DEF SessionInit, NoUser
<1>1. {currentUser, keychain, user} \subseteq Users \cup {NoUser}
  OBVIOUS
<1>2. signIns \in SUBSET SignIn /\ reloads \in [Users -> Nat]
  OBVIOUS
<1>3. callbacks \in Seq(Callback)
  BY EmptySeq
<1>4. place \in Screens /\ form \in 0..MaxForms
  BY DEF Screens
<1>5. nextForm \in 1..(MaxForms + 1) /\ nextSignIn \in 1..(MaxSignIns + 1)
      /\ launch \in 1..MaxLaunches
  OBVIOUS
<1>6. {trapped, silent, unsaved, unread, forcedOut, signOutFailed} \subseteq BOOLEAN
  OBVIOUS
<1>7. left \in SUBSET Users /\ ended \in SUBSET Users
  OBVIOUS
<1>8. FormNumbered
  BY DEF FormNumbered
<1>9. QED
  BY <1>1, <1>2, <1>3, <1>4, <1>5, <1>6, <1>7, <1>8 DEF TypeInv, SessionTypeOK

(* No step of the session breaks the types.                                *)
LEMMA TypeStep == TypeInv /\ [SessionNext]_vars => TypeInv'
<1> SUFFICES ASSUME TypeInv, [SessionNext]_vars
             PROVE  TypeInv'
  OBVIOUS
<1> USE SessionBounds DEF TypeInv, SessionTypeOK, FormNumbered, NoUser
<1>a. ASSUME NEW f, Leave(f)
      PROVE  left' \in SUBSET Users
  <2>1. \A t \in signIns \cup {callbacks[i] : i \in 1..Len(callbacks)} :
          t.id \in Users
    <3>1. \A i \in 1..Len(callbacks) : callbacks[i] \in Callback
      BY ElementOfSeq
    <3>2. QED
      BY <3>1 DEF SignIn, Callback
  <2>2. QED
    BY <1>a, <2>1 DEF Leave
<1>b. ASSUME NEW what \in {"logIn", "signUp", "reload"}, NEW ok \in BOOLEAN,
             NEW id \in Users, NEW f \in 0..MaxForms, Post(what, ok, id, f)
      PROVE  callbacks' \in Seq(Callback)
  <2>1. [what |-> what, ok |-> ok, id |-> id, form |-> f] \in Callback
    BY DEF Callback
  <2>2. QED
    BY <1>b, <2>1, PostAppends
<1>c. ASSUME NEW s \in signIns
      PROVE  s.kind \in {"logIn", "signUp"} /\ s.id \in Users /\ s.form \in 0..MaxForms
  BY DEF SignIn
<1>d. ASSUME NEW what, Take(what)
      PROVE  callbacks' \in Seq(Callback) /\ Head(callbacks) \in Callback
  BY <1>d, HeadTailProperties DEF Take
<1>e. ASSUME NEW u \in Users \cup {0}, ReloadUser(u)
      PROVE  user' \in Users \cup {0} /\ reloads' \in [Users -> Nat]
  BY <1>e DEF ReloadUser
<1>f. ASSUME NEW callback, NEW screen, ShowTabs(callback, screen)
      PROVE  /\ place' \in Screens
             /\ place' \in {"LogIn", "SignUp"} => place' = place
  BY <1>f DEF ShowTabs, Screens
<1>g. ASSUME NEW u \in Users, ForceOut(u)
      PROVE  /\ {currentUser', keychain'} \subseteq Users \cup {0}
             /\ {unsaved', unread', forcedOut'} \subseteq BOOLEAN
  BY <1>g DEF ForceOut
<1>1. ASSUME NEW screen \in {"LogIn", "SignUp"}, OpenForm(screen)
      PROVE  TypeInv'
  BY <1>1 DEF OpenForm, authVars, Screens
<1>2. CASE GoBackHome
  BY <1>2, <1>a DEF GoBackHome, authVars, Screens
<1>3. ASSUME NEW screen \in {"LogIn", "SignUp"}, NEW kind \in {"logIn", "signUp"},
             Request(screen, kind)
      PROVE  TypeInv'
  BY <1>3 DEF Request, authVars, screenVars, SignIn, Users
<1>4. ASSUME NEW s \in signIns, Accept(s)
      PROVE  TypeInv'
  <2>1. callbacks' \in Seq(Callback)
    BY <1>4, <1>b, <1>c DEF Accept
  <2>2. QED
    BY <1>4, <1>c, <2>1 DEF Accept, screenVars
<1>5. ASSUME NEW s \in signIns, Refuse(s)
      PROVE  TypeInv'
  <2>1. callbacks' \in Seq(Callback)
    BY <1>5, <1>b, <1>c DEF Refuse
  <2>2. QED
    BY <1>5, <2>1 DEF Refuse, authVars, screenVars
<1>6. ASSUME NEW u \in Users, EndReload(u)
      PROVE  TypeInv'
  <2>1. callbacks' \in Seq(Callback)
    <3>1. PICK ok \in BOOLEAN : Post("reload", ok, u, 0)
      BY <1>6 DEF EndReload
    <3>2. QED
      BY <1>b, <3>1
  <2>2. reloads' \in [Users -> Nat]
    BY <1>6 DEF EndReload
  <2>3. /\ {currentUser', keychain'} \subseteq Users \cup {0}
        /\ {silent', unsaved', unread', forcedOut'} \subseteq BOOLEAN
    BY <1>6, <1>g DEF EndReload, authVars
  <2>4. QED
    BY <1>6, <2>1, <2>2, <2>3 DEF EndReload, screenVars
<1>7. CASE TokenExpires
  <2>1. currentUser \in Users
    BY <1>7 DEF TokenExpires
  <2>2. QED
    BY <1>7, <1>g, <2>1 DEF TokenExpires, screenVars
<1>8. CASE LoggedIn
  BY <1>8, <1>d, <1>e, <1>f DEF LoggedIn, authVars
<1>9. CASE SignedUp
  BY <1>9, <1>d, <1>f DEF SignedUp, authVars
<1>10. CASE Reloaded
  BY <1>10, <1>d DEF Reloaded, authVars, screenVars
<1>11. ASSUME NEW screen \in {"Tabs", "Settings"}, SelectTab(screen)
       PROVE  TypeInv'
  BY <1>11 DEF SelectTab, authVars, Screens
<1>12. CASE PressedLogOutButton
  <2>1. user' \in Users \cup {0} /\ reloads' \in [Users -> Nat]
    BY <1>12, <1>e DEF PressedLogOutButton
  <2>2. place' \in {"Home", "Tabs"} /\ left' \in SUBSET Users
    BY <1>12, <1>a DEF PressedLogOutButton, Appeared
  <2>3. /\ {currentUser', keychain'} \subseteq Users \cup {0}
        /\ {silent', forcedOut', signOutFailed'} \subseteq BOOLEAN
        /\ ended' \in SUBSET Users
    BY <1>12 DEF PressedLogOutButton
  <2>4. QED
    BY <1>12, <2>1, <2>2, <2>3 DEF PressedLogOutButton, Screens
<1>13. CASE PressedResetPasswordButton
  BY <1>13 DEF PressedResetPasswordButton, authVars
<1>14. CASE Relaunch
  <2>1. callbacks' \in Seq(Callback)
    BY <1>14, EmptySeq DEF Relaunch
  <2>2. place' \in {"Home", "Tabs"}
    BY <1>14 DEF Relaunch, Appeared
  <2>3. signIns' \in SUBSET SignIn /\ reloads' \in [Users -> Nat]
    BY <1>14 DEF Relaunch
  <2>4. launch' \in 1..MaxLaunches /\ form' \in 0..MaxForms
    BY <1>14 DEF Relaunch
  <2>5. /\ {currentUser', keychain', user'} \subseteq Users \cup {NoUser}
        /\ left' \in SUBSET Users /\ ended' \in SUBSET Users
        /\ nextForm' \in 1..(MaxForms + 1) /\ nextSignIn' \in 1..(MaxSignIns + 1)
    BY <1>14 DEF Relaunch
  <2>6. {trapped', silent', unsaved', unread', forcedOut', signOutFailed'}
        \subseteq BOOLEAN
    BY <1>14 DEF Relaunch
  <2>7. QED
    BY <2>1, <2>2, <2>3, <2>4, <2>5, <2>6 DEF Screens
<1>15. CASE UNCHANGED vars
  BY <1>15 DEF vars, authVars, screenVars
<1>16. QED
  BY <1>1, <1>2, <1>3, <1>4, <1>5, <1>6, <1>7, <1>8, <1>9, <1>10, <1>11, <1>12,
     <1>13, <1>14, <1>15
  DEF SessionNext, LoginButtonPressed, SignupButtonPressed

(* The session's variables keep their types, whatever order requests and   *)
(* completions end in (UserHandler.swift, FIRAuth.m).                      *)
THEOREM SessionTypeCorrect == SessionSpec => []SessionTypeOK
<1>1. TypeInv => SessionTypeOK
  BY DEF TypeInv
<1>2. QED
  BY <1>1, TypeInit, TypeStep, PTL DEF SessionSpec
-----------------------------------------------------------------------------
(* What FIRAuth keeps in memory and what it keeps on disk change together, *)
(* except that a forced sign-out may leave the disk alone, and a start may *)
(* leave memory empty.                                                     *)
LEMMA ResumesStep == RestartResumes /\ [SessionNext]_vars => RestartResumes'
<1> SUFFICES ASSUME RestartResumes, [SessionNext]_vars
             PROVE  RestartResumes'
  OBVIOUS
<1> USE DEF RestartResumes
<1>1. ASSUME NEW u, ForceOut(u)
      PROVE  RestartResumes'
  <2>1. CASE currentUser = u
    <3>1. currentUser' = NoUser
      BY <1>1, <2>1 DEF ForceOut
    <3>2. keychain' # NoUser => unsaved'
      BY <1>1, <2>1 DEF ForceOut
    <3>3. QED
      BY <3>1, <3>2
  <2>2. CASE currentUser # u
    BY <1>1, <2>2 DEF ForceOut
  <2>3. QED
    BY <2>1, <2>2
<1>2. ASSUME NEW s \in signIns, Accept(s)
      PROVE  RestartResumes'
  BY <1>2 DEF Accept
<1>3. ASSUME NEW u \in Users, EndReload(u)
      PROVE  RestartResumes'
  <2>1. CASE ForceOut(u)
    BY <1>1, <2>1
  <2>2. CASE /\ UNCHANGED <<currentUser, unsaved, unread>>
             /\ keychain' = keychain \/ keychain' = currentUser
    BY <2>2
  <2>3. QED
    BY <1>3, <2>1, <2>2 DEF EndReload, authVars
<1>4. CASE TokenExpires
  BY <1>1, <1>4 DEF TokenExpires
<1>5. CASE PressedLogOutButton
  BY <1>5 DEF PressedLogOutButton
<1>6. CASE Relaunch
  BY <1>6 DEF Relaunch
<1>7. CASE UNCHANGED authVars
  BY <1>7 DEF authVars
<1>8. QED
  BY <1>2, <1>3, <1>4, <1>5, <1>6, <1>7
  DEF SessionNext, OpenForm, GoBackHome, Request, LoginButtonPressed,
      SignupButtonPressed, Refuse, LoggedIn, SignedUp,
      Reloaded, SelectTab, PressedResetPasswordButton, vars

(* Nobody is signed in whom the keychain does not hold; it holds somebody  *)
(* who is not signed in only after a forced sign-out that was not saved or *)
(* a start that could not read it (FIRAuth.m:394-412, 1202-1218,           *)
(* 1546-1557, 1770).                                                       *)
THEOREM RestartsResume == SessionSpec => []RestartResumes
<1>1. SessionInit => RestartResumes
  BY DEF SessionInit, RestartResumes
<1>2. QED
  BY <1>1, ResumesStep, PTL DEF SessionSpec

-----------------------------------------------------------------------------
(* A completion on the main queue is still there after another was posted, *)
(* and after one that does not read the current user ran.                  *)
Reads(q) == \E i \in 1..Len(q) : q[i].what \in {"logIn", "reload"}

LEMMA CatchesUpStep ==
  TypeInv /\ UserCatchesUp /\ [SessionNext]_vars => UserCatchesUp'
<1> SUFFICES ASSUME TypeInv, UserCatchesUp, [SessionNext]_vars
             PROVE  UserCatchesUp'
  OBVIOUS
<1>t. callbacks \in Seq(Callback)
  BY DEF TypeInv, SessionTypeOK
<1>i. user # currentUser /\ ~silent => Reads(callbacks)
  BY DEF UserCatchesUp, Reads
<1>s. SUFFICES user' # currentUser' /\ ~silent' => Reads(callbacks')
  BY DEF UserCatchesUp, Reads
<1>a. ASSUME NEW what \in {"logIn", "signUp", "reload"}, NEW ok \in BOOLEAN,
             NEW id \in Users, NEW f \in 0..MaxForms, Post(what, ok, id, f)
      PROVE  Reads(callbacks) \/ what # "signUp" => Reads(callbacks')
  <2>1. [what |-> what, ok |-> ok, id |-> id, form |-> f] \in Callback
    BY DEF Callback
  <2>2. /\ Len(callbacks') = Len(callbacks) + 1 /\ Len(callbacks) \in Nat
        /\ \A i \in 1..Len(callbacks) : callbacks'[i] = callbacks[i]
        /\ callbacks'[Len(callbacks) + 1].what = what
    BY <1>t, <1>a, <2>1, PostAppends
  <2>3. CASE Reads(callbacks)
    BY <2>2, <2>3 DEF Reads
  <2>4. CASE what # "signUp"
    <3>1. Len(callbacks) + 1 \in 1..Len(callbacks')
      BY <2>2
    <3>2. callbacks'[Len(callbacks) + 1].what \in {"logIn", "reload"}
      BY <2>2, <2>4
    <3>3. QED
      BY <3>1, <3>2 DEF Reads
  <2>5. QED
    BY <2>3, <2>4
<1>b. ASSUME Take("signUp"), Reads(callbacks)
      PROVE  Reads(callbacks')
  <2>1. PICK i \in 1..Len(callbacks) : callbacks[i].what \in {"logIn", "reload"}
    BY <1>b DEF Reads
  <2>2. callbacks # <<>> /\ callbacks' = Tail(callbacks)
        /\ callbacks[1].what = "signUp"
    BY <1>b, <1>t DEF Take
  <2>3. i # 1 /\ i - 1 \in 1..(Len(callbacks) - 1)
    BY <1>t, <2>1, <2>2, LenProperties
  <2>4. Len(callbacks') = Len(callbacks) - 1 /\ callbacks'[i - 1] = callbacks[i]
    BY <1>t, <2>2, <2>3, HeadTailProperties
  <2>5. QED
    BY <2>1, <2>3, <2>4 DEF Reads
<1>c. ASSUME NEW s \in signIns
      PROVE  /\ s.kind \in {"logIn", "signUp"} /\ s.id \in Users
             /\ s.form \in 0..MaxForms
  BY SessionBounds DEF TypeInv, SessionTypeOK, SignIn
<1>1. ASSUME NEW s \in signIns, Accept(s)
      PROVE  ~silent' => Reads(callbacks')
  BY <1>1, <1>a, <1>c DEF Accept
<1>2. ASSUME NEW s \in signIns, Refuse(s)
      PROVE  user' # currentUser' /\ ~silent' => Reads(callbacks')
  BY <1>2, <1>a, <1>c, <1>i DEF Refuse, authVars
<1>3. ASSUME NEW u \in Users, EndReload(u)
      PROVE  Reads(callbacks')
  <2>1. PICK ok \in BOOLEAN : Post("reload", ok, u, 0)
    BY <1>3 DEF EndReload
  <2>2. 0 \in 0..MaxForms
    BY SessionBounds
  <2>3. QED
    BY <2>1, <2>2, <1>a
<1>4. CASE TokenExpires
  BY <1>4 DEF TokenExpires
<1>5. CASE LoggedIn \/ Reloaded
  BY <1>5 DEF LoggedIn, Reloaded, ReloadUser, authVars
<1>6. CASE SignedUp
  BY <1>6, <1>b, <1>i DEF SignedUp, authVars
<1>7. CASE PressedLogOutButton
  BY <1>7, <1>i DEF PressedLogOutButton, ReloadUser
<1>8. CASE Relaunch
  BY <1>8 DEF Relaunch
<1>9. CASE UNCHANGED <<authVars, user, callbacks>>
  BY <1>9, <1>i DEF authVars
<1>10. QED
  BY <1>1, <1>2, <1>3, <1>4, <1>5, <1>6, <1>7, <1>8, <1>9
  DEF SessionNext, OpenForm, GoBackHome, LoginButtonPressed,
      SignupButtonPressed, Request, SelectTab, PressedResetPasswordButton, vars

(* UserHandler.user is behind FIRAuth only while a completion that reads   *)
(* the current user again is on its way, except after the changes nobody   *)
(* reloads after (UserHandler.swift:22-27, 57-64; FIRUser.m:978).          *)
THEOREM UserCatchesUpAlways == SessionSpec => []UserCatchesUp
<1>1. SessionInit => UserCatchesUp
  BY DEF SessionInit, UserCatchesUp
<1>2. QED
  BY <1>1, TypeInit, TypeStep, CatchesUpStep, PTL DEF SessionSpec

-----------------------------------------------------------------------------
(* A sign-in is on its way once, and belongs to nobody who was or is       *)
(* signed in.                                                              *)
SignInsAreNew ==
  /\ \A s \in signIns : /\ s.id < nextSignIn
                        /\ s.id \notin ended \cup {currentUser, keychain}
                        /\ \A t \in signIns : s.id = t.id => s = t
  /\ \A u \in ended \cup {currentUser, keychain} : u < nextSignIn

SignedOutInv == SignInsAreNew /\ SignedOutStaysOut

LEMMA SignedOutStep ==
  TypeInv /\ SignedOutInv /\ [SessionNext]_vars => SignedOutInv'
<1> SUFFICES ASSUME TypeInv, SignedOutInv, [SessionNext]_vars
             PROVE  SignedOutInv'
  OBVIOUS
<1> USE DEF SignedOutInv, SignInsAreNew, SignedOutStaysOut, NoUser
<1>t. /\ \A s \in signIns : s.id \in Users
      /\ {currentUser, keychain} \subseteq Users \cup {0}
      /\ ended \subseteq Users /\ Users \subseteq Nat \ {0}
      /\ nextSignIn \in Nat \ {0}
  BY SessionBounds DEF TypeInv, SessionTypeOK, SignIn, Users
<1>a. ASSUME UNCHANGED <<signIns, nextSignIn, ended>>,
             currentUser' \in {0, currentUser, keychain},
             keychain' \in {0, currentUser, keychain}
      PROVE  SignedOutInv'
  BY <1>a, <1>t
<1>b. ASSUME NEW u \in Users, ForceOut(u), UNCHANGED <<signIns, nextSignIn, ended>>
      PROVE  SignedOutInv'
  BY <1>a, <1>b DEF ForceOut
<1>1. ASSUME NEW screen \in {"LogIn", "SignUp"}, NEW kind, Request(screen, kind)
      PROVE  SignedOutInv'
  <2>1. PICK s : s.id = nextSignIn /\ signIns' = signIns \cup {s}
    BY <1>1 DEF Request
  <2>2. \A t \in signIns : t.id # s.id
    BY <1>t, <2>1
  <2>3. UNCHANGED <<currentUser, keychain, ended>> /\ nextSignIn' = nextSignIn + 1
    BY <1>1 DEF Request, authVars
  <2>4. \A u \in ended \cup {currentUser, keychain} : u < nextSignIn' /\ u # s.id
    BY <1>t, <2>1, <2>3
  <2>5. \A t \in signIns' : t \in signIns \/ t = s
    BY <2>1
  <2>6. s.id < nextSignIn' /\ \A t \in signIns : t.id < nextSignIn'
    <3>1. \A t \in signIns : t.id \in Nat /\ t.id < nextSignIn
      BY <1>t
    <3>2. QED
      BY <1>t, <2>1, <2>3, <3>1
  <2>7. \A t \in signIns' : \A r \in signIns' : t.id = r.id => t = r
    BY <2>2, <2>5
  <2>8. \A t \in signIns' : t.id \notin ended' \cup {currentUser', keychain'}
    BY <2>3, <2>4, <2>5
  <2>9. QED
    BY <2>3, <2>4, <2>5, <2>6, <2>7, <2>8
<1>2. ASSUME NEW s \in signIns, Accept(s)
      PROVE  SignedOutInv'
  BY <1>2, <1>t DEF Accept
<1>3. ASSUME NEW s \in signIns, Refuse(s)
      PROVE  SignedOutInv'
  BY <1>3, <1>t DEF Refuse, authVars
<1>4. ASSUME NEW u \in Users, EndReload(u)
      PROVE  SignedOutInv'
  <2>1. CASE ForceOut(u)
    BY <1>4, <1>b, <2>1 DEF EndReload
  <2>2. CASE UNCHANGED currentUser /\ keychain' \in {currentUser, keychain}
    BY <1>4, <1>a, <2>2 DEF EndReload
  <2>3. QED
    BY <1>4, <2>1, <2>2 DEF EndReload, authVars
<1>5. CASE TokenExpires
  BY <1>5, <1>b, <1>t DEF TokenExpires
<1>6. CASE PressedLogOutButton
  <2>1. CASE UNCHANGED <<currentUser, keychain, ended>>
    BY <1>6, <1>a, <2>1 DEF PressedLogOutButton
  <2>2. CASE /\ currentUser' = 0
             /\ keychain' = IF currentUser = 0 THEN keychain ELSE 0
             /\ ended' = (ended \cup {currentUser}) \ {0}
    BY <1>6, <1>t, <2>2 DEF PressedLogOutButton
  <2>3. QED
    BY <1>6, <2>1, <2>2 DEF PressedLogOutButton
<1>7. CASE Relaunch
  BY <1>7, <1>t DEF Relaunch
<1>8. CASE UNCHANGED <<authVars, signIns, nextSignIn, ended>>
  BY <1>8, <1>a DEF authVars
<1>9. QED
  BY <1>1, <1>2, <1>3, <1>4, <1>5, <1>6, <1>7, <1>8
  DEF SessionNext, LoginButtonPressed, SignupButtonPressed, OpenForm, GoBackHome,
      LoggedIn, SignedUp, Reloaded, SelectTab, PressedResetPasswordButton, vars

(* Nothing that was on its way signs a user in again whom the log out      *)
(* button signed out, and no restart does (FIRAuth.m:1202, 1546-1557;      *)
(* settingsViewController.swift:19-25).                                    *)
THEOREM SignedOutUsersStayOut == SessionSpec => []SignedOutStaysOut
<1>1. SessionInit => SignedOutInv
  BY DEF SessionInit, SignedOutInv, SignInsAreNew, SignedOutStaysOut, NoUser
<1>2. SignedOutInv => SignedOutStaysOut
  BY DEF SignedOutInv
<1>3. QED
  BY <1>1, <1>2, TypeInit, TypeStep, SignedOutStep, PTL DEF SessionSpec
-----------------------------------------------------------------------------
(* A sign-in, on its way or with its completion on the main queue, has its *)
(* form in front or under the tab bar, or its form was left before.        *)
Seen(screen, number, gone, kind, f, id) ==
  \/ id \in gone
  \/ /\ number = f /\ f # 0
     /\ \/ screen = (IF kind = "logIn" THEN "LogIn" ELSE "SignUp")
        \/ screen \in {"Tabs", "Settings"}

SignInsSeen ==
  /\ \A s \in signIns : Seen(place, form, left, s.kind, s.form, s.id)
  /\ \A i \in 1..Len(callbacks) :
       callbacks[i].what # "reload" =>
         Seen(place, form, left, callbacks[i].what, callbacks[i].form,
              callbacks[i].id)
  /\ place = "Home" => form = 0

(* The completion of a user's sign-in is on the main queue q.              *)
Completing(q, u) ==
  \E i \in 1..Len(q) : q[i].what # "reload" /\ q[i].ok /\ q[i].id = u

(* A user, in FIRAuth or in the copy, has the tab bar, or gets it from the *)
(* completion, or has an excuse.                                           *)
Settled(screen, gone, failed, q, u) ==
  u = NoUser \/ u \in gone \/ failed \/ screen \in {"Tabs", "Settings"}
    \/ Completing(q, u)

UsersSettled ==
  \A u \in {currentUser, user} : Settled(place, left, signOutFailed, callbacks, u)

HomeInv == SignInsSeen /\ UsersSettled

(* Another completion is posted behind those on the main queue.            *)
LEMMA CompletingStays ==
  ASSUME TypeInv, NEW what \in {"logIn", "signUp", "reload"}, NEW ok \in BOOLEAN,
         NEW id \in Users, NEW f \in 0..MaxForms, Post(what, ok, id, f)
  PROVE  /\ \A u : Completing(callbacks, u) => Completing(callbacks', u)
         /\ ok /\ what # "reload" => Completing(callbacks', id)
         /\ \A i \in 1..Len(callbacks') :
              \/ i \in 1..Len(callbacks) /\ callbacks'[i] = callbacks[i]
              \/ /\ callbacks'[i].what = what /\ callbacks'[i].form = f
                 /\ callbacks'[i].id = id /\ callbacks'[i].ok = ok
<1> DEFINE new == [what |-> what, ok |-> ok, id |-> id, form |-> f]
<1>1. callbacks \in Seq(Callback) /\ new \in Callback
  BY DEF TypeInv, SessionTypeOK, Callback
<1>2. callbacks' = Append(callbacks, new)
  BY DEF Post
<1>3. new.what = what /\ new.ok = ok /\ new.id = id /\ new.form = f
  OBVIOUS
<1> HIDE DEF new
<1>4. /\ Len(callbacks) \in Nat /\ Len(callbacks') = Len(callbacks) + 1
      /\ \A i \in 1..Len(callbacks) : callbacks'[i] = callbacks[i]
      /\ callbacks'[Len(callbacks) + 1] = new
  BY <1>1, <1>2, AppendProperties, LenProperties
<1>5. ASSUME NEW u, Completing(callbacks, u)
      PROVE  Completing(callbacks', u)
  <2>1. PICK i \in 1..Len(callbacks) :
          callbacks[i].what # "reload" /\ callbacks[i].ok /\ callbacks[i].id = u
    BY <1>5 DEF Completing
  <2>2. i \in 1..Len(callbacks') /\ callbacks'[i] = callbacks[i]
    BY <1>4
  <2>3. QED
    BY <2>1, <2>2 DEF Completing
<1>6. ok /\ what # "reload" => Completing(callbacks', id)
  <2>1. Len(callbacks) + 1 \in 1..Len(callbacks')
    BY <1>4
  <2>2. QED
    BY <1>3, <1>4, <2>1 DEF Completing
<1>7. QED
  BY <1>3, <1>4, <1>5, <1>6

(* The first of the completions on the main queue is taken.                *)
LEMMA CompletingTaken ==
  ASSUME TypeInv, NEW what, Take(what)
  PROVE  /\ 1 \in 1..Len(callbacks)
         /\ Head(callbacks) = callbacks[1] /\ callbacks[1].what = what
         /\ \A i \in 1..Len(callbacks') :
              i + 1 \in 1..Len(callbacks) /\ callbacks'[i] = callbacks[i + 1]
         /\ \A u : Completing(callbacks, u) =>
              \/ Completing(callbacks', u)
              \/ callbacks[1].ok /\ callbacks[1].id = u /\ what # "reload"
<1>1. /\ callbacks \in Seq(Callback) /\ callbacks # <<>>
      /\ callbacks' = Tail(callbacks) /\ Head(callbacks).what = what
  BY DEF Take, TypeInv, SessionTypeOK
<1>2. /\ Len(callbacks) \in Nat \ {0} /\ Head(callbacks) = callbacks[1]
      /\ Len(callbacks') = Len(callbacks) - 1
      /\ \A i \in 1..Len(callbacks') : callbacks'[i] = callbacks[i + 1]
  BY <1>1, HeadTailProperties, LenProperties, EmptySeq
<1>3. ASSUME NEW u, Completing(callbacks, u)
      PROVE  \/ Completing(callbacks', u)
             \/ callbacks[1].ok /\ callbacks[1].id = u /\ what # "reload"
  <2>1. PICK i \in 1..Len(callbacks) :
          callbacks[i].what # "reload" /\ callbacks[i].ok /\ callbacks[i].id = u
    BY <1>3 DEF Completing
  <2>2. CASE i = 1
    BY <1>1, <1>2, <2>1, <2>2
  <2>3. CASE i # 1
    <3>1. i - 1 \in 1..Len(callbacks') /\ callbacks'[i - 1] = callbacks[i]
      BY <1>2, <2>3
    <3>2. QED
      BY <2>1, <3>1 DEF Completing
  <2>4. QED
    BY <2>2, <2>3
<1>4. \A i \in 1..Len(callbacks') : i + 1 \in 1..Len(callbacks)
  BY <1>2
<1>5. QED
  BY <1>1, <1>2, <1>3, <1>4

-----------------------------------------------------------------------------
(* A form number is given to one form.                                     *)
FormsIssued ==
  /\ form < nextForm
  /\ \A s \in signIns : s.form < nextForm
  /\ \A k \in 1..Len(callbacks) : callbacks[k].form < nextForm

(* Forms are numbered as they are opened, and a sign-in and its completion *)
(* keep the number of theirs.                                              *)
LEMMA FormsStep == TypeInv /\ FormsIssued /\ [SessionNext]_vars => FormsIssued'
<1> SUFFICES ASSUME TypeInv, FormsIssued, [SessionNext]_vars
             PROVE  FormsIssued'
  OBVIOUS
<1>t. /\ form \in Nat /\ nextForm \in Nat \ {0} /\ 0 \in 0..MaxForms
      /\ \A s \in signIns : /\ s.kind \in {"logIn", "signUp"} /\ s.id \in Users
                            /\ s.form \in 0..MaxForms /\ s.form \in Nat
  BY SessionBounds DEF TypeInv, SessionTypeOK, SignIn
<1>p. ASSUME NEW what \in {"logIn", "signUp", "reload"}, NEW ok \in BOOLEAN,
             NEW id \in Users, NEW f \in 0..MaxForms, Post(what, ok, id, f),
             f < nextForm, signIns' \subseteq signIns, UNCHANGED <<form, nextForm>>
      PROVE  FormsIssued'
  <2>1. \A i \in 1..Len(callbacks') :
          \/ i \in 1..Len(callbacks) /\ callbacks'[i] = callbacks[i]
          \/ callbacks'[i].form = f
    BY <1>p, CompletingStays
  <2>2. QED
    BY <1>p, <2>1 DEF FormsIssued
<1>k. ASSUME NEW what, Take(what), UNCHANGED <<signIns, form, nextForm>>
      PROVE  FormsIssued'
  BY <1>k, CompletingTaken DEF FormsIssued
<1>1. ASSUME NEW screen, OpenForm(screen)
      PROVE  FormsIssued'
  <2>1. \A i \in 1..Len(callbacks) : callbacks[i].form \in Nat
    <3>1. \A i \in 1..Len(callbacks) : callbacks[i] \in Callback
      BY ElementOfSeq DEF TypeInv, SessionTypeOK
    <3>2. QED
      BY <3>1, SessionBounds DEF Callback
  <2>2. /\ form' = nextForm /\ nextForm' = nextForm + 1
        /\ UNCHANGED <<signIns, callbacks>>
    BY <1>1 DEF OpenForm
  <2>3. QED
    BY <1>t, <2>1, <2>2 DEF FormsIssued
<1>2. CASE GoBackHome \/ PressedLogOutButton
  <2>1. form' = 0 /\ UNCHANGED <<nextForm, signIns, callbacks>>
    BY <1>2 DEF GoBackHome, PressedLogOutButton
  <2>2. QED
    BY <1>t, <2>1 DEF FormsIssued
<1>3. ASSUME NEW screen, NEW kind, Request(screen, kind)
      PROVE  FormsIssued'
  BY <1>3 DEF Request, screenVars, FormsIssued
<1>4. ASSUME NEW s \in signIns, Accept(s) \/ Refuse(s)
      PROVE  FormsIssued'
  <2>1. PICK ok \in BOOLEAN : Post(s.kind, ok, s.id, s.form)
    BY <1>4 DEF Accept, Refuse
  <2>2. signIns' \subseteq signIns /\ UNCHANGED <<form, nextForm>>
    BY <1>4 DEF Accept, Refuse, screenVars
  <2>3. s.form < nextForm
    BY DEF FormsIssued
  <2>4. QED
    BY <1>p, <1>t, <2>1, <2>2, <2>3
<1>5. ASSUME NEW u \in Users, EndReload(u)
      PROVE  FormsIssued'
  <2>1. PICK ok \in BOOLEAN : Post("reload", ok, u, 0)
    BY <1>5 DEF EndReload
  <2>2. UNCHANGED <<signIns, form, nextForm>>
    BY <1>5 DEF EndReload, screenVars
  <2>3. QED
    BY <1>p, <1>t, <2>1, <2>2
<1>6. CASE LoggedIn \/ SignedUp \/ Reloaded
  <2>1. PICK what : Take(what)
    BY <1>6 DEF LoggedIn, SignedUp, Reloaded
  <2>2. QED
    BY <1>6, <1>k, <2>1 DEF LoggedIn, SignedUp, Reloaded, screenVars
<1>7. CASE Relaunch
  <2>1. /\ callbacks' = <<>> /\ signIns' = {} /\ form' = 0
        /\ UNCHANGED nextForm
    BY <1>7 DEF Relaunch
  <2>2. 1..Len(callbacks') = {}
    BY <2>1, EmptySeq
  <2>3. QED
    BY <1>t, <2>1, <2>2 DEF FormsIssued
<1>8. CASE UNCHANGED <<signIns, callbacks, form, nextForm>>
  BY <1>8 DEF FormsIssued
<1>9. QED
  BY <1>1, <1>2, <1>3, <1>4, <1>5, <1>6, <1>7, <1>8
  DEF SessionNext, LoginButtonPressed, SignupButtonPressed, TokenExpires,
      SelectTab, PressedResetPasswordButton, vars, screenVars

(* A completion on the main queue q will bring the tabs from form f.       *)
Brings(q, f) ==
  \E i \in 1..Len(q) :
    q[i].ok /\ q[i].what # "reload" /\ q[i].form = f /\ f # 0

SessionHeld == currentUser # NoUser \/ forcedOut

(* The tabs, and a completion that will bring them, have a user, or the    *)
(* server took the user away.                                              *)
TabsInv == FormsIssued /\ (OnTabs \/ Brings(callbacks, form) => SessionHeld)

LEMMA TabsStep == TypeInv /\ TabsInv /\ [SessionNext]_vars => TabsInv'
<1> SUFFICES ASSUME TypeInv, TabsInv, [SessionNext]_vars
             PROVE  OnTabs' \/ Brings(callbacks', form') => SessionHeld'
  BY FormsStep DEF TabsInv
<1>t. /\ 0 \in 0..MaxForms
      /\ \A s \in signIns : /\ s.kind \in {"logIn", "signUp"} /\ s.id \in Users
                            /\ s.form \in 0..MaxForms /\ s.id # NoUser
  <2>1. \A s \in signIns : /\ s.kind \in {"logIn", "signUp"} /\ s.id \in Users
                           /\ s.form \in 1..MaxForms
    BY DEF TypeInv, SessionTypeOK, SignIn
  <2>2. NoUser \notin Users /\ 0 \in 0..MaxForms /\ 1..MaxForms \subseteq 0..MaxForms
    BY SessionBounds DEF NoUser, Users
  <2>3. QED
    BY <2>1, <2>2
<1>k. ASSUME SessionHeld => SessionHeld', OnTabs' => OnTabs,
             Brings(callbacks', form') => Brings(callbacks, form)
      PROVE  OnTabs' \/ Brings(callbacks', form') => SessionHeld'
  BY <1>k DEF TabsInv
<1>f. ASSUME NEW u, ForceOut(u)
      PROVE  SessionHeld => SessionHeld'
  BY <1>f DEF ForceOut, SessionHeld
<1>p. ASSUME NEW what \in {"logIn", "signUp", "reload"}, NEW ok \in BOOLEAN,
             NEW id \in Users, NEW f \in 0..MaxForms, Post(what, ok, id, f),
             ~ok \/ what = "reload", UNCHANGED form
      PROVE  Brings(callbacks', form') => Brings(callbacks, form)
  <2>1. \A i \in 1..Len(callbacks') :
          \/ i \in 1..Len(callbacks) /\ callbacks'[i] = callbacks[i]
          \/ callbacks'[i].what = what /\ callbacks'[i].ok = ok
    BY <1>p, CompletingStays
  <2>2. QED
    BY <1>p, <2>1 DEF Brings
<1>c. ASSUME NEW what, Take(what), UNCHANGED form
      PROVE  Brings(callbacks', form') => Brings(callbacks, form)
  <2>1. \A i \in 1..Len(callbacks') :
          i + 1 \in 1..Len(callbacks) /\ callbacks'[i] = callbacks[i + 1]
    BY <1>c, CompletingTaken
  <2>2. QED
    BY <1>c, <2>1 DEF Brings
<1>s. ASSUME NEW what \in {"logIn", "signUp"}, Take(what),
             ShowTabs(Head(callbacks), IF what = "logIn" THEN "LogIn" ELSE "SignUp"),
             UNCHANGED <<currentUser, forcedOut, form>>
      PROVE  OnTabs' \/ Brings(callbacks', form') => SessionHeld'
  <2>1. SessionHeld' = SessionHeld
    BY <1>s DEF SessionHeld
  <2>2. CASE place' = place
    BY <1>c, <1>k, <1>s, <2>1, <2>2 DEF OnTabs
  <2>3. CASE place' # place
    <3>1. callbacks[1].ok /\ place \in {"LogIn", "SignUp"} /\ form = callbacks[1].form
      BY <1>s, <2>3, CompletingTaken DEF ShowTabs
    <3>2. form # 0 /\ 1 \in 1..Len(callbacks) /\ callbacks[1].what # "reload"
      BY <1>s, <3>1, CompletingTaken DEF TypeInv, FormNumbered
    <3>3. Brings(callbacks, form)
      BY <3>1, <3>2 DEF Brings
    <3>4. QED
      BY <2>1, <3>3 DEF TabsInv
  <2>4. QED
    BY <2>2, <2>3
<1>1. ASSUME NEW screen \in {"LogIn", "SignUp"}, OpenForm(screen)
      PROVE  ~OnTabs' /\ ~Brings(callbacks', form')
  <2>1. callbacks' = callbacks /\ form' = nextForm /\ ~OnTabs'
    BY <1>1 DEF OpenForm, OnTabs
  <2>2. \A i \in 1..Len(callbacks) : callbacks[i].form # nextForm
    <3>1. nextForm \in Nat
      BY SessionBounds DEF TypeInv, SessionTypeOK
    <3>2. QED
      BY <3>1 DEF TabsInv, FormsIssued
  <2>3. QED
    BY <2>1, <2>2 DEF Brings
<1>2. CASE GoBackHome
  BY <1>2 DEF GoBackHome, OnTabs, Brings
<1>3. ASSUME NEW s \in signIns, Accept(s)
      PROVE  SessionHeld'
  BY <1>3, <1>t DEF Accept, SessionHeld
<1>4. ASSUME NEW s \in signIns, Refuse(s)
      PROVE  OnTabs' \/ Brings(callbacks', form') => SessionHeld'
  <2>1. Post(s.kind, FALSE, s.id, s.form)
    BY <1>4 DEF Refuse
  <2>2. UNCHANGED <<currentUser, forcedOut, place, form>>
    BY <1>4 DEF Refuse, authVars, screenVars
  <2>3. Brings(callbacks', form') => Brings(callbacks, form)
    BY <1>p, <1>t, <2>1, <2>2
  <2>4. QED
    BY <1>k, <2>2, <2>3 DEF SessionHeld, OnTabs
<1>5. ASSUME NEW u \in Users, EndReload(u)
      PROVE  OnTabs' \/ Brings(callbacks', form') => SessionHeld'
  <2>1. PICK ok \in BOOLEAN : Post("reload", ok, u, 0)
    BY <1>5 DEF EndReload
  <2>2. UNCHANGED <<place, form>>
    BY <1>5 DEF EndReload, screenVars
  <2>3. Brings(callbacks', form') => Brings(callbacks, form)
    BY <1>p, <1>t, <2>1, <2>2
  <2>4. ForceOut(u) \/ UNCHANGED <<currentUser, forcedOut>>
    BY <1>5 DEF EndReload, authVars
  <2>5. SessionHeld => SessionHeld'
    BY <1>f, <2>4 DEF SessionHeld
  <2>6. QED
    BY <1>k, <2>2, <2>3, <2>5 DEF OnTabs
<1>6. CASE TokenExpires
  <2>1. SessionHeld => SessionHeld'
    BY <1>6, <1>f DEF TokenExpires
  <2>2. UNCHANGED <<callbacks, place, form>>
    BY <1>6 DEF TokenExpires, screenVars
  <2>3. QED
    BY <1>k, <2>1, <2>2 DEF OnTabs
<1>7. CASE LoggedIn
  BY <1>7, <1>s DEF LoggedIn, authVars
<1>8. CASE SignedUp
  BY <1>8, <1>s DEF SignedUp, authVars
<1>9. CASE Reloaded
  <2>1. /\ Take("reload")
        /\ UNCHANGED <<currentUser, forcedOut, place, form>>
    BY <1>9 DEF Reloaded, authVars, screenVars
  <2>2. QED
    BY <1>c, <1>k, <2>1 DEF SessionHeld, OnTabs
<1>10. ASSUME NEW screen, SelectTab(screen)
       PROVE  OnTabs' \/ Brings(callbacks', form') => SessionHeld'
  BY <1>10, <1>k DEF SelectTab, authVars, SessionHeld
<1>11. CASE PressedLogOutButton
  <2>1. ~Brings(callbacks', form')
    BY <1>11 DEF PressedLogOutButton, Brings
  <2>2. CASE user' = NoUser
    BY <1>11, <2>1, <2>2 DEF PressedLogOutButton, Appeared, OnTabs
  <2>3. CASE currentUser # NoUser /\ UNCHANGED currentUser
    BY <2>3 DEF SessionHeld
  <2>4. QED
    BY <1>11, <2>2, <2>3 DEF PressedLogOutButton, ReloadUser
<1>12. CASE Relaunch
  BY <1>12 DEF Relaunch, Appeared, OnTabs, Brings, SessionHeld
<1>13. CASE UNCHANGED <<currentUser, forcedOut, callbacks, place, form>>
  BY <1>13, <1>k DEF SessionHeld, OnTabs
<1>14. QED
  BY <1>1, <1>2, <1>3, <1>4, <1>5, <1>6, <1>7, <1>8, <1>9, <1>10, <1>11, <1>12,
     <1>13
  DEF SessionNext, Request, LoginButtonPressed, SignupButtonPressed,
      PressedResetPasswordButton, vars, authVars, screenVars

(* The tab bar is never shown without a user, unless the server ended the  *)
(* session: after a log out no completion of an older request brings it    *)
(* back (LogInViewController.swift:44-48, SignUpViewController.swift:49,   *)
(* HomeViewController.swift:19-32, Main.storyboard:563-565).               *)
THEOREM TabsHaveUser == SessionSpec => []TabsAreSignedIn
<1>1. SessionInit => TabsInv
  <2> SUFFICES ASSUME SessionInit PROVE TabsInv
    OBVIOUS
  <2>1. /\ 1..Len(callbacks) = {} /\ signIns = {} /\ form = 0 /\ nextForm = 1
        /\ place = "Home"
    BY EmptySeq DEF SessionInit
  <2>2. QED
    BY <2>1 DEF TabsInv, FormsIssued, OnTabs, Brings
<1>2. TabsInv => TabsAreSignedIn
  BY DEF TabsInv, TabsAreSignedIn, SessionHeld
<1>3. QED
  BY <1>1, <1>2, TypeInit, TypeStep, TabsStep, PTL DEF SessionSpec

-----------------------------------------------------------------------------
(* A step that posts nothing and takes nothing, and keeps what sign-ins    *)
(* and users are seen by.                                                  *)
LEMMA HomeKept ==
  ASSUME TypeInv, HomeInv, UNCHANGED <<signIns, callbacks>>,
         {currentUser', user'} \subseteq {currentUser, user, NoUser},
         left \subseteq left', signOutFailed' = signOutFailed,
         \/ UNCHANGED <<place, form>>
         \/ UNCHANGED form /\ OnTabs /\ OnTabs'
         \/ place = "Home" /\ place' # "Home"
  PROVE  HomeInv'
<1> USE DEF OnTabs
<1>1. ASSUME NEW kind, NEW f, NEW id, Seen(place, form, left, kind, f, id)
      PROVE  Seen(place', form', left', kind, f, id)
  BY <1>1 DEF Seen, HomeInv, SignInsSeen
<1>2. ASSUME NEW u, Settled(place, left, signOutFailed, callbacks, u)
      PROVE  Settled(place', left', signOutFailed', callbacks', u)
  BY <1>2 DEF Settled
<1>3. Settled(place', left', signOutFailed', callbacks', NoUser)
  BY DEF Settled
<1>4. UsersSettled'
  BY <1>2, <1>3 DEF HomeInv, UsersSettled
<1>5. place' = "Home" => form' = 0
  BY DEF HomeInv, SignInsSeen
<1>6. QED
  BY <1>1, <1>4, <1>5 DEF HomeInv, SignInsSeen

(* A step that posts a completion of the current user's sign-in, or of a   *)
(* reload.                                                                 *)
LEMMA HomePosted ==
  ASSUME TypeInv, HomeInv, UNCHANGED <<place, form, left, signOutFailed, user>>,
         NEW what \in {"logIn", "signUp", "reload"}, NEW ok \in BOOLEAN,
         NEW id \in Users, NEW f \in 0..MaxForms, Post(what, ok, id, f),
         signIns' \subseteq signIns,
         what # "reload" => Seen(place, form, left, what, f, id),
         \/ currentUser' \in {currentUser, NoUser}
         \/ currentUser' = id /\ ok /\ what # "reload"
  PROVE  HomeInv'
<1>1. \A i \in 1..Len(callbacks') :
        \/ i \in 1..Len(callbacks) /\ callbacks'[i] = callbacks[i]
        \/ /\ callbacks'[i].what = what /\ callbacks'[i].form = f
           /\ callbacks'[i].id = id
  BY CompletingStays
<1>2. /\ \A u : Completing(callbacks, u) => Completing(callbacks', u)
      /\ ok /\ what # "reload" => Completing(callbacks', id)
  BY CompletingStays
<1>3. ASSUME NEW i \in 1..Len(callbacks'), callbacks'[i].what # "reload"
      PROVE  Seen(place, form, left, callbacks'[i].what, callbacks'[i].form,
                  callbacks'[i].id)
  <2>1. CASE i \in 1..Len(callbacks) /\ callbacks'[i] = callbacks[i]
    BY <1>3, <2>1 DEF HomeInv, SignInsSeen
  <2>2. CASE /\ callbacks'[i].what = what /\ callbacks'[i].form = f
             /\ callbacks'[i].id = id
    BY <1>3, <2>2
  <2>3. QED
    BY <1>1, <2>1, <2>2
<1>4. SignInsSeen'
  BY <1>3 DEF HomeInv, SignInsSeen
<1>5. ASSUME NEW u, Settled(place, left, signOutFailed, callbacks, u)
      PROVE  Settled(place', left', signOutFailed', callbacks', u)
  BY <1>2, <1>5 DEF Settled
<1>6. Settled(place', left', signOutFailed', callbacks', NoUser)
      /\ (ok /\ what # "reload" => Settled(place', left', signOutFailed', callbacks', id))
  BY <1>2 DEF Settled
<1>7. UsersSettled'
  BY <1>5, <1>6 DEF HomeInv, UsersSettled
<1>8. QED
  BY <1>4, <1>7 DEF HomeInv

(* The completion of a sign-in shows the tab bar, or its form was left.    *)
LEMMA HomeShowsTabs ==
  ASSUME TypeInv, HomeInv, NEW what \in {"logIn", "signUp"}, Take(what),
         ShowTabs(Head(callbacks), IF what = "logIn" THEN "LogIn" ELSE "SignUp"),
         UNCHANGED <<form, signIns, currentUser, left, signOutFailed>>,
         user' \in {user, currentUser}
  PROVE  HomeInv'
<1>1. place' = place \/ place' = "Tabs"
  BY DEF ShowTabs
<1>2. Seen(place, form, left, what, callbacks[1].form, callbacks[1].id)
  BY CompletingTaken DEF HomeInv, SignInsSeen
<1>3. callbacks[1].ok => callbacks[1].id \in left \/ place' \in {"Tabs", "Settings"}
  <2>1. CASE callbacks[1].ok /\ form = callbacks[1].form
               /\ place = (IF what = "logIn" THEN "LogIn" ELSE "SignUp")
    BY <2>1, CompletingTaken DEF ShowTabs
  <2>2. CASE place \in {"Tabs", "Settings"}
    BY <1>1, <2>2
  <2>3. QED
    BY <1>2, <2>1, <2>2 DEF Seen
<1>4. ASSUME NEW kind, NEW f, NEW id, Seen(place, form, left, kind, f, id)
      PROVE  Seen(place', form', left', kind, f, id)
  BY <1>1, <1>4 DEF Seen
<1>5. ASSUME NEW i \in 1..Len(callbacks'), callbacks'[i].what # "reload"
      PROVE  Seen(place', form', left', callbacks'[i].what, callbacks'[i].form,
                  callbacks'[i].id)
  <2>1. i + 1 \in 1..Len(callbacks) /\ callbacks'[i] = callbacks[i + 1]
    BY CompletingTaken
  <2>2. Seen(place, form, left, callbacks[i + 1].what, callbacks[i + 1].form,
             callbacks[i + 1].id)
    BY <1>5, <2>1 DEF HomeInv, SignInsSeen
  <2>3. QED
    BY <1>4, <2>1, <2>2
<1>6. SignInsSeen'
  <2>1. place' = "Home" => form' = 0
    BY <1>1 DEF HomeInv, SignInsSeen
  <2>2. \A s \in signIns : Seen(place', form', left', s.kind, s.form, s.id)
    BY <1>4 DEF HomeInv, SignInsSeen
  <2>3. QED
    BY <1>5, <2>1, <2>2 DEF SignInsSeen
<1>7. ASSUME NEW u, Settled(place, left, signOutFailed, callbacks, u)
      PROVE  Settled(place', left', signOutFailed', callbacks', u)
  <2>1. Completing(callbacks, u) =>
          Completing(callbacks', u) \/ u \in left \/ place' \in {"Tabs", "Settings"}
    BY <1>3, CompletingTaken
  <2>2. QED
    BY <1>1, <1>7, <2>1 DEF Settled
<1>8. UsersSettled'
  BY <1>7 DEF HomeInv, UsersSettled
<1>9. QED
  BY <1>6, <1>8 DEF HomeInv

(* A form is left, with the tab bar over it or not.                        *)
LEMMA HomeLeft ==
  ASSUME TypeInv, HomeInv, Leave(form), form' = 0, UNCHANGED <<signIns, callbacks>>
  PROVE  SignInsSeen' /\ left \subseteq left'
<1>1. left \subseteq left'
  BY DEF Leave
<1>2. ASSUME NEW t \in signIns \cup {callbacks[i] : i \in 1..Len(callbacks)},
             NEW kind, Seen(place, form, left, kind, t.form, t.id)
      PROVE  t.id \in left'
  BY <1>2 DEF Seen, Leave
<1>3. \A s \in signIns : s.id \in left'
  BY <1>2 DEF HomeInv, SignInsSeen
<1>4. \A i \in 1..Len(callbacks) : callbacks[i].what # "reload" => callbacks[i].id \in left'
  BY <1>2 DEF HomeInv, SignInsSeen
<1>5. QED
  BY <1>1, <1>3, <1>4 DEF SignInsSeen, Seen

(* What the steps of the session do to a signed-in user and to Home.       *)
LEMMA HomeStep == TypeInv /\ HomeInv /\ [SessionNext]_vars => HomeInv'
<1> SUFFICES ASSUME TypeInv, HomeInv, [SessionNext]_vars
             PROVE  HomeInv'
  OBVIOUS
<1>t. ASSUME NEW s \in signIns
      PROVE  /\ s.kind \in {"logIn", "signUp"} /\ s.id \in Users
             /\ s.form \in 0..MaxForms /\ s.kind # "reload"
             /\ Seen(place, form, left, s.kind, s.form, s.id)
  BY SessionBounds DEF TypeInv, SessionTypeOK, SignIn, HomeInv, SignInsSeen
<1>o. 0 \in 0..MaxForms
  BY SessionBounds
<1>1. ASSUME NEW screen \in {"LogIn", "SignUp"}, OpenForm(screen)
      PROVE  HomeInv'
  <2>1. UNCHANGED <<signIns, callbacks, currentUser, user, left, signOutFailed>>
    BY <1>1 DEF OpenForm, authVars
  <2>2. place = "Home" /\ place' # "Home"
    BY <1>1 DEF OpenForm
  <2>3. QED
    BY <2>1, <2>2, HomeKept
<1>2. CASE GoBackHome
  <2>1. /\ Leave(form) /\ form' = 0 /\ place \in {"LogIn", "SignUp"}
        /\ UNCHANGED <<signIns, callbacks, currentUser, user, signOutFailed>>
    BY <1>2 DEF GoBackHome, authVars
  <2>2. SignInsSeen' /\ left \subseteq left'
    BY <2>1, HomeLeft
  <2>3. UsersSettled'
    BY <2>1, <2>2 DEF HomeInv, UsersSettled, Settled
  <2>4. QED
    BY <2>2, <2>3 DEF HomeInv
<1>3. ASSUME NEW screen, NEW kind,
             \/ screen = "LogIn" /\ kind = "logIn"
             \/ screen = "SignUp" /\ kind = "signUp",
             Request(screen, kind)
      PROVE  HomeInv'
  <2>1. /\ signIns' = signIns \cup {[id |-> nextSignIn, kind |-> kind, form |-> form]}
        /\ UNCHANGED <<callbacks, currentUser, user, place, form, left, signOutFailed>>
        /\ place = screen
    BY <1>3 DEF Request, authVars, screenVars
  <2>2. form # 0
    BY <1>3, <2>1 DEF TypeInv, FormNumbered
  <2>3. Seen(place, form, left, kind, form, nextSignIn)
    BY <1>3, <2>1, <2>2 DEF Seen
  <2>4. SignInsSeen'
    BY <2>1, <2>3 DEF HomeInv, SignInsSeen
  <2>5. UsersSettled'
    BY <2>1 DEF HomeInv, UsersSettled
  <2>6. QED
    BY <2>4, <2>5 DEF HomeInv
<1>4. ASSUME NEW s \in signIns, Accept(s)
      PROVE  HomeInv'
  <2>1. /\ UNCHANGED <<place, form, left, signOutFailed, user>>
        /\ currentUser' = s.id /\ signIns' \subseteq signIns
        /\ Post(s.kind, TRUE, s.id, s.form)
    BY <1>4 DEF Accept, screenVars
  <2>2. QED
    BY <1>t, <2>1, HomePosted
<1>5. ASSUME NEW s \in signIns, Refuse(s)
      PROVE  HomeInv'
  <2>1. /\ UNCHANGED <<place, form, left, signOutFailed, user, currentUser>>
        /\ signIns' \subseteq signIns /\ Post(s.kind, FALSE, s.id, s.form)
    BY <1>5 DEF Refuse, screenVars, authVars
  <2>2. QED
    BY <1>t, <2>1, HomePosted
<1>6. ASSUME NEW u \in Users, EndReload(u)
      PROVE  HomeInv'
  <2>1. PICK ok \in BOOLEAN : Post("reload", ok, u, 0)
    BY <1>6 DEF EndReload
  <2>2. UNCHANGED <<place, form, left, signOutFailed, user, signIns>>
    BY <1>6 DEF EndReload, screenVars
  <2>3. currentUser' \in {currentUser, NoUser}
    BY <1>6 DEF EndReload, ForceOut, authVars
  <2>4. QED
    BY <1>o, <2>1, <2>2, <2>3, HomePosted
<1>7. CASE TokenExpires
  <2>1. UNCHANGED <<signIns, callbacks, user, place, form, left, signOutFailed>>
    BY <1>7 DEF TokenExpires, screenVars
  <2>2. currentUser' \in {currentUser, NoUser}
    BY <1>7 DEF TokenExpires, ForceOut
  <2>3. QED
    BY <2>1, <2>2, HomeKept
<1>8. CASE LoggedIn
  <2>1. /\ Take("logIn") /\ ShowTabs(Head(callbacks), "LogIn")
        /\ UNCHANGED <<form, signIns, currentUser, left, signOutFailed>>
        /\ user' \in {user, currentUser}
    BY <1>8 DEF LoggedIn, ReloadUser, authVars
  <2>2. QED
    BY <2>1, HomeShowsTabs
<1>9. CASE SignedUp
  <2>1. /\ Take("signUp") /\ ShowTabs(Head(callbacks), "SignUp")
        /\ UNCHANGED <<form, signIns, currentUser, left, signOutFailed>>
        /\ user' \in {user, currentUser}
    BY <1>9 DEF SignedUp, authVars
  <2>2. QED
    BY <2>1, HomeShowsTabs
<1>10. CASE Reloaded
  <2>1. /\ Take("reload") /\ user' = currentUser
        /\ UNCHANGED <<place, form, signIns, currentUser, left, signOutFailed>>
    BY <1>10 DEF Reloaded, screenVars, authVars
  <2>2. \A u : Completing(callbacks, u) => Completing(callbacks', u)
    BY <2>1, CompletingTaken
  <2>3. \A i \in 1..Len(callbacks') :
          i + 1 \in 1..Len(callbacks) /\ callbacks'[i] = callbacks[i + 1]
    BY <2>1, CompletingTaken
  <2>4. SignInsSeen'
    BY <2>1, <2>3 DEF HomeInv, SignInsSeen
  <2>5. UsersSettled'
    BY <2>1, <2>2 DEF HomeInv, UsersSettled, Settled
  <2>6. QED
    BY <2>4, <2>5 DEF HomeInv
<1>11. ASSUME NEW screen \in {"Tabs", "Settings"}, SelectTab(screen)
       PROVE  HomeInv'
  <2>1. /\ UNCHANGED <<signIns, callbacks, currentUser, user, form, left, signOutFailed>>
        /\ OnTabs /\ OnTabs'
    BY <1>11 DEF SelectTab, authVars, OnTabs
  <2>2. QED
    BY <2>1, HomeKept
<1>12. CASE PressedLogOutButton
  <2>1. /\ Leave(form) /\ form' = 0 /\ UNCHANGED <<signIns, callbacks>>
        /\ \/ currentUser' = NoUser /\ user' = NoUser
           \/ signOutFailed'
    BY <1>12 DEF PressedLogOutButton, ReloadUser
  <2>2. SignInsSeen' /\ left \subseteq left'
    BY <2>1, HomeLeft
  <2>3. UsersSettled'
    BY <2>1 DEF UsersSettled, Settled
  <2>4. QED
    BY <2>2, <2>3 DEF HomeInv
<1>13. CASE PressedResetPasswordButton
  <2>1. UNCHANGED <<signIns, callbacks, currentUser, user, place, form, left,
                    signOutFailed>>
    BY <1>13 DEF PressedResetPasswordButton, authVars
  <2>2. QED
    BY <2>1, HomeKept
<1>14. CASE Relaunch
  <2>1. /\ user' = currentUser' /\ place' = Appeared(currentUser')
        /\ signIns' = {} /\ callbacks' = <<>> /\ form' = 0
    BY <1>14 DEF Relaunch
  <2>2. UsersSettled'
    BY <2>1 DEF UsersSettled, Settled, Appeared
  <2>3. SignInsSeen'
    <3>1. Len(callbacks') = 0
      BY <2>1, EmptySeq
    <3>2. 1..Len(callbacks') = {}
      BY <3>1
    <3>3. QED
      BY <2>1, <3>2 DEF SignInsSeen
  <2>4. QED
    BY <2>2, <2>3 DEF HomeInv
<1>15. CASE UNCHANGED vars
  <2>1. UNCHANGED <<signIns, callbacks, currentUser, user, place, form, left,
                    signOutFailed>>
    BY <1>15 DEF vars, authVars, screenVars
  <2>2. QED
    BY <2>1, HomeKept
<1>16. QED
  BY <1>1, <1>2, <1>3, <1>4, <1>5, <1>6, <1>7, <1>8, <1>9, <1>10, <1>11, <1>12,
     <1>13, <1>14, <1>15
  DEF SessionNext, LoginButtonPressed, SignupButtonPressed

(* Home is shown with a user signed in only after a sign-in whose form was *)
(* left before it ended, or a failed sign-out: the completion of any other *)
(* sign-in brings the tab bar (LogInViewController.swift:44,               *)
(* SignUpViewController, HomeViewController.swift:19-32).                  *)
THEOREM HomeHasNobody == SessionSpec => []HomeIsSignedOut
<1>1. SessionInit => HomeInv
  <2> SUFFICES ASSUME SessionInit PROVE HomeInv
    OBVIOUS
  <2>1. 1..Len(callbacks) = {} /\ signIns = {} /\ form = 0
    BY EmptySeq DEF SessionInit
  <2>2. currentUser = NoUser /\ user = NoUser
    BY DEF SessionInit
  <2>3. QED
    BY <2>1, <2>2 DEF HomeInv, SignInsSeen, UsersSettled, Settled
<1>2. TypeInv /\ HomeInv => HomeIsSignedOut
  <2> SUFFICES ASSUME TypeInv, HomeInv, place = "Home", user # NoUser
               PROVE  user \in left \/ signOutFailed
    BY DEF HomeIsSignedOut
  <2>1. CASE Completing(callbacks, user)
    <3>1. PICK i \in 1..Len(callbacks) :
            callbacks[i].what # "reload" /\ callbacks[i].id = user
      BY <2>1 DEF Completing
    <3>2. Seen("Home", form, left, callbacks[i].what, callbacks[i].form, user)
      BY <3>1 DEF HomeInv, SignInsSeen
    <3>3. QED
      BY <3>2 DEF Seen
  <2>2. QED
    BY <2>1 DEF HomeInv, UsersSettled, Settled
<1>3. QED
  BY <1>1, <1>2, TypeInit, TypeStep, HomeStep, PTL DEF SessionSpec
============================================================================
