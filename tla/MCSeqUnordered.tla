---- MODULE MCSeqUnordered ----
(* Instances of SeqUnordered for TLC. *)
EXTENDS SeqUnordered

CONSTANTS w1, w2, w3

====
