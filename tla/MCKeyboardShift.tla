-------------------------- MODULE MCKeyboardShift ---------------------------
EXTENDS KeyboardShift
MCHeightOf == [title |-> 4, date |-> 6, description |-> 4]
=============================================================================
