------------------------------ MODULE Session -------------------------------
(***************************************************************************)
(* Who is signed in: UserHandler.user, the copy the screens read on the    *)
(* main queue; FIRAuth's current user, which its work queue changes; and   *)
(* the keychain, which a restart reads.  Around them, the screens from     *)
(* HomeViewController to the tab bar and back.                             *)
(*                                                                         *)
(* A FIRUser object is the number of the sign-in that made it; NoUser is   *)
(* nil.  Requests are answered in any order; the completions that FIRAuth  *)
(* puts on the main queue run in theirs.  Log In and Sign Up are sheets    *)
(* (Main.storyboard gives them no modalPresentationStyle), the tab bar is  *)
(* full screen.                                                            *)
(***************************************************************************)
EXTENDS Naturals, Sequences

CONSTANTS MaxSignIns,   \* bound: presses of the log in and sign up buttons
          MaxForms,     \* bound: presentations of Log In and Sign Up
          MaxLaunches   \* bound: starts of the process

ASSUME SessionBounds ==
  MaxSignIns \in Nat /\ MaxForms \in Nat /\ MaxLaunches \in Nat \ {0}

VARIABLES
  currentUser,   \* FIRAuth._currentUser
  keychain,      \* the user saved on disk
  user,          \* UserHandler.instance.user
  signIns,       \* sign-in requests on their way
  reloads,       \* reloads of the user on their way
  callbacks,     \* completions on the main queue, oldest first
  place,         \* the screen
  form,          \* number of the Log In or Sign Up screen (0: none)
  nextForm, nextSignIn, launch,
  trapped,       \* a forced unwrapping ended the process
  silent,        \* history: currentUser last changed without a reload
  unsaved,       \* history: a forced sign-out was not saved
  unread,        \* history: this start could not read the keychain
  forcedOut,     \* history: the server ended a session since the last sign-in
                 \* or log out
  signOutFailed, \* history: the last sign-out failed
  left,          \* history: sign-ins whose form was gone before they ended
  ended          \* history: users the log out button signed out

authVars == <<currentUser, keychain, silent, unsaved, unread>>
screenVars == <<place, form, nextForm, trapped>>
vars == <<authVars, user, signIns, reloads, callbacks, screenVars, nextSignIn,
          launch, forcedOut, signOutFailed, left, ended>>

NoUser == 0
Users == 1..MaxSignIns
Screens == {"Home", "LogIn", "SignUp", "Tabs", "Settings"}
SignIn == [id: Users, kind: {"logIn", "signUp"}, form: 1..MaxForms]
Callback == [what: {"logIn", "signUp", "reload"}, ok: BOOLEAN,
             id: Users, form: 0..MaxForms]

OnTabs == place \in {"Tabs", "Settings"}

(* The screen is gone: its sign-ins end unseen.                            *)
Leave(f) ==
  LET posted == {callbacks[i] : i \in 1..Len(callbacks)}
  IN  left' = left \cup {s.id : s \in {t \in signIns \cup posted :
                                        t.form = f /\ f # 0}}

\* Fault: viewDidAppear does not look at the user.
StayHome(u) == "Home"

(* HomeViewController.viewDidAppear moves on to the tab bar for a user.    *)
Appeared(u) == IF u = NoUser THEN "Home" ELSE "Tabs"

-----------------------------------------------------------------------------
SessionInit ==
  /\ currentUser = NoUser /\ keychain = NoUser /\ user = NoUser
  /\ signIns = {} /\ reloads = [u \in Users |-> 0] /\ callbacks = <<>>
  /\ place = "Home" /\ form = 0
  /\ nextForm = 1 /\ nextSignIn = 1 /\ launch = 1
  /\ trapped = FALSE /\ silent = FALSE /\ unsaved = FALSE /\ unread = FALSE
  /\ forcedOut = FALSE /\ signOutFailed = FALSE
  /\ left = {} /\ ended = {}

OpenForm(screen) ==
  /\ ~trapped /\ place = "Home" /\ nextForm <= MaxForms
  /\ place' = screen /\ form' = nextForm /\ nextForm' = nextForm + 1
  /\ UNCHANGED <<authVars, user, signIns, reloads, callbacks, trapped,
                 nextSignIn, launch, forcedOut, signOutFailed, left, ended>>

(* Back, or the sheet is swiped down; Home was never hidden by the sheet,  *)
(* so its viewDidAppear does not run.                                      *)
GoBackHome ==
  /\ ~trapped /\ place \in {"LogIn", "SignUp"}
  /\ place' = "Home" /\ form' = 0 /\ Leave(form)
  /\ UNCHANGED <<authVars, user, signIns, reloads, callbacks, nextForm,
                 trapped, nextSignIn, launch, forcedOut, signOutFailed, ended>>

(* A button of the form that has nothing to disable it while a request is  *)
(* on its way.                                                             *)
Request(screen, kind) ==
  /\ ~trapped /\ place = screen /\ nextSignIn <= MaxSignIns
  /\ nextSignIn' = nextSignIn + 1
  /\ signIns' = signIns \cup {[id |-> nextSignIn, kind |-> kind, form |-> form]}
  /\ UNCHANGED <<authVars, user, reloads, callbacks, screenVars, launch,
                 forcedOut, signOutFailed, left, ended>>

LoginButtonPressed == Request("LogIn", "logIn")

SignupButtonPressed == Request("SignUp", "signUp")

Post(what, ok, id, f) ==
  callbacks' = Append(callbacks,
                      [what |-> what, ok |-> ok, id |-> id, form |-> f])

\* Fault: the user is made current before it is saved, and never is.
AcceptUnsaved(s) ==
  /\ s \in signIns /\ signIns' = signIns \ {s}
  /\ currentUser' = s.id /\ UNCHANGED keychain
  /\ silent' = (s.kind = "signUp") /\ unsaved' = FALSE /\ unread' = FALSE
  /\ forcedOut' = FALSE
  /\ Post(s.kind, TRUE, s.id, s.form)
  /\ UNCHANGED <<user, reloads, screenVars, nextSignIn, launch, signOutFailed,
                 left, ended>>

(* The server accepts a sign-in and its user is saved.                     *)
Accept(s) ==
  /\ s \in signIns /\ signIns' = signIns \ {s}
  /\ currentUser' = s.id /\ keychain' = s.id
  /\ silent' = (s.kind = "signUp") /\ unsaved' = FALSE /\ unread' = FALSE
  /\ forcedOut' = FALSE
  /\ Post(s.kind, TRUE, s.id, s.form)
  /\ UNCHANGED <<user, reloads, screenVars, nextSignIn, launch, signOutFailed,
                 left, ended>>

(* It rejects it, or the keychain does not take the user.                  *)
Refuse(s) ==
  /\ s \in signIns /\ signIns' = signIns \ {s}
  /\ Post(s.kind, FALSE, s.id, s.form)
  /\ UNCHANGED <<authVars, user, reloads, screenVars, nextSignIn, launch,
                 forcedOut, signOutFailed, left, ended>>

(* signOutByForceWithUserID: memory follows even where the disk does not.  *)
ForceOut(u) ==
  /\ UNCHANGED unread
  /\ IF currentUser = u
     THEN /\ currentUser' = NoUser
          /\ \/ keychain' = NoUser /\ UNCHANGED unsaved
             \/ UNCHANGED keychain /\ unsaved' = (keychain # NoUser)
          /\ forcedOut' = TRUE
     ELSE UNCHANGED <<currentUser, keychain, unsaved, forcedOut>>

\* Fault: a reload saves its user without asking whether it is current.
EndReloadSaving(u) ==
  /\ reloads[u] > 0 /\ reloads' = [reloads EXCEPT ![u] = @ - 1]
  /\ keychain' = u
  /\ Post("reload", TRUE, u, 0)
  /\ UNCHANGED <<currentUser, silent, unsaved, unread, forcedOut, user, signIns,
                 screenVars, nextSignIn, launch, signOutFailed, left, ended>>

\* Fault: a reload may call its completion more than once.
EndReloadTwice(u) ==
  /\ Len(callbacks) < 2
  /\ reloads' = [reloads EXCEPT ![u] = @ - 1]
  /\ Post("reload", TRUE, u, 0)
  /\ UNCHANGED <<authVars, forcedOut, user, signIns, screenVars, nextSignIn,
                 launch, signOutFailed, left, ended>>

(* A reload ends well, saving the user unless it is no longer the current  *)
(* one (updateKeychainWithUser); or badly, signing the user out when the   *)
(* token is invalid.                                                       *)
EndReload(u) ==
  /\ reloads[u] > 0 /\ reloads' = [reloads EXCEPT ![u] = @ - 1]
  /\ \/ /\ keychain' = IF currentUser = u THEN u ELSE keychain
        /\ Post("reload", TRUE, u, 0)
        /\ UNCHANGED <<currentUser, silent, unsaved, unread, forcedOut>>
     \/ /\ ForceOut(u)
        /\ silent' = (silent /\ currentUser # u)
        /\ Post("reload", FALSE, u, 0)
     \/ /\ Post("reload", FALSE, u, 0)
        /\ UNCHANGED <<authVars, forcedOut>>
  /\ UNCHANGED <<user, signIns, screenVars, nextSignIn, launch, signOutFailed,
                 left, ended>>

(* Firestore's token refresh finds the token invalid: FIRUser signs the    *)
(* user out, and the app hears nothing.                                    *)
TokenExpires ==
  /\ ~trapped /\ currentUser # NoUser
  /\ ForceOut(currentUser) /\ silent' = TRUE
  /\ UNCHANGED <<user, signIns, reloads, callbacks, screenVars, nextSignIn,
                 launch, signOutFailed, left, ended>>

-----------------------------------------------------------------------------
\* Fault: login does not call reloadUser.
LoginWithoutReload(u) == UNCHANGED <<user, reloads>>

(* UserHandler.reloadUser                                                  *)
ReloadUser(u) ==
  /\ user' = u
  /\ reloads' = IF u = NoUser THEN reloads ELSE [reloads EXCEPT ![u] = @ + 1]

\* Fault: the segue is performed for an error as well.
ShowTabsAnyway(callback, screen) ==
  place' = IF place = screen /\ form = callback.form THEN "Tabs" ELSE place

\* Fault: whichever form is in front performs the segue.
ShowTabsOfAnyForm(callback, screen) ==
  place' = IF callback.ok /\ place = screen THEN "Tabs" ELSE place

(* performSegue works only from a screen that is in front.                 *)
ShowTabs(callback, screen) ==
  place' = IF callback.ok /\ place = screen /\ form = callback.form
           THEN "Tabs" ELSE place

Take(what) ==
  /\ ~trapped /\ callbacks # <<>> /\ Head(callbacks).what = what
  /\ callbacks' = Tail(callbacks)

(* Completion of UserHandler.login, then of the screen.                    *)
LoggedIn ==
  /\ Take("logIn")
  /\ ReloadUser(currentUser)
  /\ ShowTabs(Head(callbacks), "LogIn")
  /\ UNCHANGED <<authVars, signIns, form, nextForm, trapped, nextSignIn, launch,
                 forcedOut, signOutFailed, left, ended>>

(* Completion of UserHandler.createUser: no reload.                        *)
SignedUp ==
  /\ Take("signUp")
  /\ ShowTabs(Head(callbacks), "SignUp")
  /\ UNCHANGED <<authVars, user, signIns, reloads, form, nextForm, trapped,
                 nextSignIn, launch, forcedOut, signOutFailed, left, ended>>

Reloaded ==
  /\ Take("reload") /\ user' = currentUser
  /\ UNCHANGED <<authVars, signIns, reloads, screenVars, nextSignIn, launch,
                 forcedOut, signOutFailed, left, ended>>

SelectTab(screen) ==
  /\ ~trapped /\ OnTabs /\ place # screen /\ place' = screen
  /\ UNCHANGED <<authVars, user, signIns, reloads, callbacks, form, nextForm,
                 trapped, nextSignIn, launch, forcedOut, signOutFailed, left,
                 ended>>

(* pressedLogOutButton and the unwind segue of the same button, which runs *)
(* whether or not the sign-out worked.  Home appears if the tab bar was    *)
(* presented over it; under a sheet it may count as never hidden.          *)
PressedLogOutButton ==
  /\ ~trapped /\ place = "Settings"
  /\ \/ /\ currentUser' = NoUser /\ keychain' = IF currentUser = NoUser
                                                THEN keychain ELSE NoUser
        /\ ReloadUser(NoUser) /\ signOutFailed' = FALSE
        /\ silent' = FALSE /\ forcedOut' = FALSE
        /\ ended' = (ended \cup {currentUser}) \ {NoUser}
     \/ /\ currentUser # NoUser /\ signOutFailed' = TRUE
        /\ UNCHANGED <<currentUser, keychain, user, reloads, silent, forcedOut,
                       ended>>
  /\ place' = Appeared(user') \/ (form # 0 /\ place' = "Home")
  /\ form' = 0 /\ Leave(form)
  /\ UNCHANGED <<signIns, callbacks, nextForm, trapped, nextSignIn, launch,
                 unsaved, unread>>

(* (UserHandler.instance.user?.email)! traps for nil.                      *)
PressedResetPasswordButton ==
  /\ ~trapped /\ place = "Settings" /\ user = NoUser
  /\ trapped' = TRUE
  /\ UNCHANGED <<authVars, user, signIns, reloads, callbacks, place, form,
                 nextForm, nextSignIn, launch, forcedOut, signOutFailed, left,
                 ended>>

(* The process ends and starts again: FIRAuth loads the keychain on its    *)
(* work queue before UserHandler.user reads it.  If the keychain cannot be *)
(* read, that is logged and nobody is signed in; it keeps its user.        *)
Relaunch ==
  /\ launch < MaxLaunches /\ launch' = launch + 1
  /\ \/ currentUser' = keychain /\ unread' = FALSE
     \/ currentUser' = NoUser /\ keychain # NoUser /\ unread' = TRUE
  /\ user' = currentUser' /\ place' = Appeared(currentUser')
  /\ signIns' = {} /\ reloads' = [u \in Users |-> 0] /\ callbacks' = <<>>
  /\ form' = 0
  /\ trapped' = FALSE /\ silent' = FALSE /\ unsaved' = FALSE
  /\ forcedOut' = FALSE /\ signOutFailed' = FALSE
  /\ UNCHANGED <<keychain, nextForm, nextSignIn, left, ended>>

SessionNext ==
  \/ \E screen \in {"LogIn", "SignUp"} : OpenForm(screen)
  \/ GoBackHome
  \/ LoginButtonPressed \/ SignupButtonPressed
  \/ \E s \in signIns : ~trapped /\ (Accept(s) \/ Refuse(s))
  \/ \E u \in Users : ~trapped /\ EndReload(u)
  \/ TokenExpires
  \/ LoggedIn \/ SignedUp \/ Reloaded
  \/ \E screen \in {"Tabs", "Settings"} : SelectTab(screen)
  \/ PressedLogOutButton \/ PressedResetPasswordButton
  \/ Relaunch

SessionSpec == SessionInit /\ [][SessionNext]_vars

-----------------------------------------------------------------------------
SessionTypeOK ==
  /\ {currentUser, keychain, user} \subseteq Users \cup {NoUser}
  /\ signIns \in SUBSET SignIn
  /\ reloads \in [Users -> Nat]
  /\ callbacks \in Seq(Callback)
  /\ place \in Screens /\ form \in 0..MaxForms
  /\ nextForm \in 1..(MaxForms + 1) /\ nextSignIn \in 1..(MaxSignIns + 1)
  /\ launch \in 1..MaxLaunches
  /\ {trapped, silent, unsaved, unread, forcedOut, signOutFailed} \subseteq BOOLEAN
  /\ left \in SUBSET Users /\ ended \in SUBSET Users

(* A restart resumes the session that was running, so nobody is signed in  *)
(* whom the keychain does not hold.  It may hold somebody who is not: the  *)
(* server ended the session and the keychain could not be cleared, or this *)
(* start could not read it and nobody has signed in since.                 *)
RestartResumes ==
  keychain # currentUser => currentUser = NoUser /\ (unsaved \/ unread)

(* UserHandler.user catches up with FIRAuth: where they differ, a          *)
(* completion that reads the current user again is on the main queue,      *)
(* unless the change is one nobody reloads after (sign-up, token refresh). *)
UserCatchesUp ==
  user # currentUser /\ ~silent =>
     \E i \in 1..Len(callbacks) : callbacks[i].what \in {"logIn", "reload"}

(* A user whom FIRAuth still had when the log out button signed it out is  *)
(* never signed in again, not by a restart and not by a reload or a        *)
(* sign-in that was on its way: coming back takes a new sign-in.           *)
SignedOutStaysOut == currentUser \notin ended /\ keychain \notin ended

(* The tab bar is shown to a signed-in user, unless the server has ended   *)
(* the session since the last sign-in or log out: the completion of an     *)
(* older request, of the same form or of one that is gone, never brings it *)
(* back after a log out.                                                   *)
TabsAreSignedIn == OnTabs /\ currentUser = NoUser => forcedOut

(* Home, no form in front of it, is shown with a user signed in only if    *)
(* that sign-in ended after its form was left, or a sign-out failed.       *)
HomeIsSignedOut ==
  place = "Home" /\ user # NoUser => user \in left \/ signOutFailed

(* settingsViewController.swift:29 unwraps UserHandler.instance.user by    *)
(* force: it asserts that there is a user on the settings screen.          *)
SettingsHasUser == place = "Settings" => user # NoUser
=============================================================================
