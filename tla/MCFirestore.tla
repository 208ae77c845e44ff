---------------------------- MODULE MCFirestore ----------------------------
EXTENDS Firestore, TLC
\* Users differ only in whose mutations they own.
UserSymmetry == Permutations(Users)
=============================================================================
