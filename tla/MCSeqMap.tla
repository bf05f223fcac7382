------------------------------ MODULE MCSeqMap ------------------------------
(* Instances of SeqMap for TLC. *)
EXTENDS SeqMap, TLC

CONSTANTS w1, w2, w3

WorkerSymmetry == Permutations(Workers)
=============================================================================
