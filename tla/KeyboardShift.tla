--------------------------- MODULE KeyboardShift ----------------------------
(***************************************************************************)
(* How a form makes room for the keyboard: keyboardWillShow pushes the     *)
(* view up while one field, low on the form, is the first responder, and   *)
(* keyboardWillHide puts it back.  CreateNewEventViewController watches    *)
(* the description and pushes by the whole height, SignUpViewController    *)
(* watches the password and pushes by half of it.                          *)
(*                                                                         *)
(* When the notifications are sent is UIKit's part: keyboardWillShow comes *)
(* when the keyboard appears and again whenever its frame changes on       *)
(* screen (another field with another input view, the suggestion bar), and *)
(* may or may not come when the first responder changes under it.          *)
(***************************************************************************)
EXTENDS Integers

CONSTANTS Fields,      \* the fields of the form
          Watched,     \* the one it moves for
          HeightOf,    \* height of each field's keyboard or picker
          Parts,       \* 1: pushed by the height, 2: by half of it
          MaxShows     \* bound: notifications while the keyboard is up

VARIABLES
  responder,   \* the first responder, or None
  height,      \* height of the keyboard on screen, 0 when hidden
  y,           \* view.frame.origin.y
  shows        \* notifications since the keyboard appeared

vars == <<responder, height, y, shows>>

None == "none"
Heights == {HeightOf[f] : f \in Fields} \cup {2 * HeightOf[f] : f \in Fields}

-----------------------------------------------------------------------------
KeyboardInit ==
  responder = None /\ height = 0 /\ y = 0 /\ shows = 0

(* SignUpViewController pushes by half of the height, the other form by    *)
(* the whole of it.                                                        *)
Push(begin) == begin \div Parts

(* keyboardWillShow(notification:); the height is that of the frame the    *)
(* keyboard leaves (keyboardFrameBeginUserInfoKey).                        *)
KeyboardWillShow(begin) ==
  y' = IF responder' = Watched THEN y - Push(begin) ELSE y

(* keyboardWillHide(notification:)                                         *)
KeyboardWillHide == y' = IF y # 0 THEN 0 ELSE y

Notify(begin) ==
  shows < MaxShows /\ shows' = shows + 1 /\ KeyboardWillShow(begin)

(* The user taps a field.                                                  *)
BecomeFirstResponder(f) ==
  /\ responder' = f /\ responder # f
  /\ height' = HeightOf[f]
  /\ \/ height = 0 /\ Notify(height')
     \/ height # 0 /\ Notify(height)
     \/ height = height' /\ UNCHANGED <<y, shows>>

(* The keyboard changes its height under the same field.                   *)
ChangeFrame(h) ==
  /\ responder # None /\ h # height /\ height' = h
  /\ UNCHANGED responder
  /\ Notify(height)

(* onClickDoneButton, and in SignUpViewController a touch outside.         *)
EndEditing ==
  /\ responder # None
  /\ responder' = None /\ height' = 0
  /\ KeyboardWillHide
  /\ shows' = 0

KeyboardNext ==
  \/ \E f \in Fields : BecomeFirstResponder(f)
  \/ \E h \in Heights : ChangeFrame(h)
  \/ EndEditing

KeyboardSpec == KeyboardInit /\ [][KeyboardNext]_vars

-----------------------------------------------------------------------------
(* CreateNewEventViewController.swift:112: the view is pushed up "equal to *)
(* the keyboard height when the description text view is selected".        *)
PushedByHeight == responder = Watched => y = 0 - height
=============================================================================
