----------------------------- MODULE MCInvocation -----------------------------
(* Instances of Invocation for TLC. *)
EXTENDS Invocation

CONSTANTS t1, t2, t3

\* The Recorder is outermost, and a slot is kept for all attempts of a task.
SlotAroundRetry == <<"record", "limit", "rate", "custom", "retry">>

\* Every attempt goes through the same Invoker of WithMaxConcurrency.
RetryAroundSlot == <<"retry", "limit">>
=============================================================================
