------------------------------ MODULE MCCompat ------------------------------
(* Instances of Compat for TLC. *)
EXTENDS Compat, TLC

CONSTANTS h1, h2, h3, t1, t2

\* An append to a slice of one element finds room for another one.
SomeRoom == [h \in Handles |-> 1]

HandleSymmetry == Permutations({h1, h2, h3})
=============================================================================
