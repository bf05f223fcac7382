----------------------------- MODULE MCContexts -----------------------------
(* Instances of Contexts for TLC. *)
EXTENDS Contexts, TLC

CONSTANTS root, mid, leaf, t1, t2

ChainPath == root :> <<root>> @@ mid :> <<root, mid>> @@ leaf :> <<root, mid, leaf>>
OneEach   == t1 :> mid @@ t2 :> leaf

\* Only the top-level context is ever told not to wait.
RootNow == [c \in States |-> IF c = root THEN {0} ELSE {}]

\* Some arrays are rounded up, so that append writes in place.
SomeRoom == [o \in States \cup Tasks |-> IF o \in {mid} \cup Tasks THEN 1 ELSE 0]

task(h, mw) == [noInherit |-> FALSE, errHandler |-> h, mw |-> mw]
NoOptions == [noInherit |-> FALSE, noTaskInfo |-> FALSE, gracePeriod |-> nil, taskOpts |-> nil]

\* Fields that one context sets are left unset further in, or reset there.
SomeConfigs ==
  root :> {[NoOptions EXCEPT !.gracePeriod = 0, !.taskOpts = task("Record", TRUE)],
           [NoOptions EXCEPT !.gracePeriod = 1, !.noTaskInfo = TRUE]} @@
  mid  :> {NoOptions, [NoOptions EXCEPT !.noInherit = TRUE, !.taskOpts = task(nil, TRUE)],
           [NoOptions EXCEPT !.noTaskInfo = TRUE, !.taskOpts = task("Record", FALSE)]} @@
  leaf :> {NoOptions, [NoOptions EXCEPT !.taskOpts = task(nil, TRUE)]}

SomeTasks == {task(nil, FALSE), task(nil, TRUE), [task("Record", FALSE) EXCEPT !.noInherit = TRUE]}
=============================================================================
