----------------------------- MODULE Lifecycle -----------------------------
(* What a hierarchy of States promises to those who start tasks on it and  *)
(* wait for it, with no locks, timers, hooks or goroutines.                *)
(*                                                                         *)
(* A State goes from open to soft (stopping, tasks remain) to hard (its    *)
(* outcome is settled), possibly at once, and never back. A task enters    *)
(* the States of its path from the top-level one down, each while it is    *)
(* open, and leaves them in the same order.                                *)
EXTENDS Hierarchy

VARIABLES
  mode,        \* "open", "soft" or "hard"
  live,        \* live[s]: the tasks that s waits for
  outcome      \* "none" until mode is "hard", then "stopped" or "expired"

vars == <<mode, live, outcome>>

Init ==
  /\ mode = [s \in States |-> "open"]
  /\ live = [s \in States |-> {}]
  /\ outcome = [s \in States |-> "none"]

Settle(s, how) ==
  /\ mode' = [mode EXCEPT ![s] = "hard"]
  /\ outcome' = [outcome EXCEPT ![s] = how]

Enter(t, s) ==
  /\ mode[s] = "open" /\ Covers(s, Home[t])
  /\ HasParent(s) => t \in live[Parent(s)]
  /\ \A d \in States : Covers(s, d) => t \notin live[d]
  /\ live' = [live EXCEPT ![s] = @ \cup {t}]
  /\ UNCHANGED <<mode, outcome>>

\* The last task to leave a soft State settles it. An open State may have
\* been asked to stop when idle.
Leave(t, s) ==
  /\ t \in live[s]
  /\ HasParent(s) => t \notin live[Parent(s)]
  /\ live' = [live EXCEPT ![s] = @ \ {t}]
  /\ \/ /\ live[s] = {t} /\ mode[s] # "hard"
        /\ Settle(s, "stopped")
     \/ /\ live[s] = {t} => mode[s] # "soft"
        /\ UNCHANGED <<mode, outcome>>

Drain(s) ==
  /\ mode[s] = "open" /\ live[s] # {}
  /\ mode' = [mode EXCEPT ![s] = "soft"]
  /\ UNCHANGED <<live, outcome>>

StopIdle(s) ==
  /\ mode[s] = "open" /\ live[s] = {}
  /\ Settle(s, "stopped")
  /\ UNCHANGED live

\* The grace period is over, or there was none.
Expire(s) ==
  /\ mode[s] # "hard" /\ live[s] # {}
  /\ Settle(s, "expired")
  /\ UNCHANGED live

Next ==
  \E s \in States :
    \/ Drain(s) \/ StopIdle(s) \/ Expire(s)
    \/ \E t \in Tasks : Enter(t, s) \/ Leave(t, s)

Spec == Init /\ [][Next]_vars

\* A soft State does not stay soft.
FairSpec ==
  Spec /\ \A s \in States :
            WF_vars(mode[s] = "soft"
                     /\ (Expire(s) \/ \E t \in Tasks : Leave(t, s) /\ live[s] = {t}))
=============================================================================
