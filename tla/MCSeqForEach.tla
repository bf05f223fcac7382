---- MODULE MCSeqForEach ----
(* Instances of SeqForEach for TLC. *)
EXTENDS SeqForEach

CONSTANTS w1, w2, w3

====
