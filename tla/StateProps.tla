----------------------------- MODULE StateProps -----------------------------
(* What a hierarchy of States gets right, the abstract specification it    *)
(* implements, and, at the end, what its comments say and it does not do.  *)
EXTENDS State

\* Task t is included in mu.count of s.
Holds(t, s) == \E i \in lo[t] .. hi[t] : At(t, i) = s

Holders(s) == {t \in Tasks : Holds(t, s)}

\* The lists that still have s's cancel function to run, as places in todo.
CancelsPending(s) ==
  UNION {{<<a, i>> : i \in {j \in DOMAIN todo[a] : todo[a][j].cancel /\ todo[a][j].st = s}} :
           a \in Actors}

\* c's stop hook is in a list that some goroutine is working through.
HookPending(c) ==
  \E a \in Actors : \E i \in DOMAIN todo[a] : c \in todo[a][i].hooks

\* The context.Context of s: derived from those of its ancestors, it is
\* canceled as soon as the cancel function of one of them was called.
Canceled(s) == \E a \in States : Covers(a, s) /\ done[a]

\* The errors that a step adds to those of s.
NewErrors(s) == errs'[s] \ errs[s]

\* Apply counts a task on a contiguous stretch of the levels of its path: on
\* the way in it grows from the top-level State, on the way out it shrinks
\* from there. While checking, lo is the level whose flag is read next.
SpanOK(t) ==
  LET d == Depth(Home[t]) IN
  \/ phase[t] = "idle" /\ lo[t] = 1 /\ hi[t] = 0
  \/ phase[t] = "checking" /\ lo[t] \in 1 .. d /\ hi[t] = 0
  \/ phase[t] = "entering" /\ lo[t] = 1 /\ hi[t] \in 0 .. d - 1
  \/ phase[t] = "running" /\ lo[t] = 1 /\ hi[t] = d
  \/ phase[t] = "leaving" /\ hi[t] \in 1 .. d /\ lo[t] \in 1 .. hi[t]

(* The types of the variables, and where in its path a task can be.        *)
TypeOK ==
  /\ created \subseteq States
  /\ count \in [States -> Int]
  /\ stopping \in [States -> BOOLEAN]
  /\ stopOnIdle \in [States -> BOOLEAN]
  /\ deferred \in [States -> Seq(Callbacks)]
  /\ stopHooks \in [States -> SUBSET States]
  /\ cause \in [States -> {"none", "stopped", "expired"}]
  /\ stopAt \in [States -> Nat \cup {NoTime}]
  /\ errs \in [States -> SUBSET (Tasks \cup Callbacks)]
  /\ todo \in [Actors -> Seq(Call)]
  /\ phase \in [Tasks -> {"idle", "checking", "entering", "running", "leaving"}]
  /\ lo \in [Tasks -> Nat] /\ hi \in [Tasks -> Nat]
  /\ \A t \in Tasks : SpanOK(t)
  /\ done \in [States -> BOOLEAN]
  /\ fresh \subseteq Callbacks
  /\ kept \in [States -> Seq(Callbacks)]
  /\ ran \in [States -> Seq(Callbacks)]

(* mu.count "includes nested state counts": at every instant it is the     *)
(* number of tasks whose Apply(1) got as far as this State, whether it was *)
(* called on it or on a descendant, and whose Apply(-1) has not. So the    *)
(* "over-released" panic of Apply is unreachable, and no rejected Apply    *)
(* leaves a count behind that would hold back the clean exit.              *)
CountMatchesHolders == \A s \in States : count[s] = Cardinality(Holders(s))

(* Apply admits no task that a clean stop has not waited for: once         *)
(* hardStopLocked captured ErrStopped no task of the State or of any       *)
(* descendant is running, although Apply looks at the parents' stopping    *)
(* flags without their locks.                                              *)
CleanStopHasNoTasks ==
  \A s \in States, t \in Tasks :
    cause[s] = "stopped" /\ phase[t] = "running" => ~Covers(s, Home[t])

(* No critical section of Stop, StopOnIdle or Apply leaves a State idle    *)
(* with a stop requested and not hard-stopped (nobody would come back),    *)
(* and one that waits for its tasks has a deadline.                        *)
IdleIsStopped ==
  \A s \in States :
    /\ count[s] = 0 /\ (stopping[s] \/ stopOnIdle[s]) => captured(s)
    /\ stopping[s] => captured(s) \/ stopAt[s] # NoTime

\* Only a stopping State has a deadline or is hard-stopped, and a clean stop
\* finds and leaves it without tasks.
StopsAreFirm ==
  \A s \in States :
    /\ captured(s) \/ stopAt[s] # NoTime => stopping[s]
    /\ cause[s] = "stopped" => count[s] = 0

(* The inductive invariant behind the safety of stops: the counts are      *)
(* exact, no stop request is pending on an idle State, and a clean stop is *)
(* for good.                                                               *)
IInv == TypeOK /\ CountMatchesHolders /\ IdleIsStopped /\ StopsAreFirm

(* hardStopLocked is "a one-shot": however Stop, StopOnIdle, the last      *)
(* task, the parent's hook and the grace timer race, the cancel function   *)
(* is owed exactly once after the capture and never before it.             *)
CancelOwedOnce ==
  \A s \in States :
    Cardinality(CancelsPending(s)) + (IF done[s] THEN 1 ELSE 0)
      = IF captured(s) THEN 1 ELSE 0

(* After a clean stop the callbacks that Defer retained have all run, each *)
(* once, in LIFO order, by the time the State's own cancel function is     *)
(* called, also those that were added while it was already stopping. (The  *)
(* context of a child may be done earlier: see DeferNotCanceled.)          *)
DeferredAreLIFO ==
  \A s \in States :
    done[s] /\ cause[s] = "stopped" =>
      /\ ToSet(kept[s]) \subseteq ToSet(ran[s])
      /\ \A k, l \in DOMAIN ran[s], i, j \in DOMAIN kept[s] :
           ran[s][k] = kept[s][i] /\ ran[s][l] = kept[s][j] => (k < l <=> j < i)

(* A stop reaches every child whatever order AddStopHook, the parent's     *)
(* Stop and the child's own cleanup come in: the hook is stored, or some   *)
(* goroutine is about to run it, or the child is stopping.                 *)
NoLostStop ==
  \A c \in created :
    HasParent(c) =>
      IF stopping[Parent(c)] THEN stopping[c] \/ HookPending(c)
                             ELSE done[c] \/ c \in stopHooks[Parent(c)]

(* softStopLocked only brings the deadline forward: a second Stop with a   *)
(* longer grace period, or StopOnIdle, neither extends nor drops the       *)
(* deadline of the first one; only the hard stop clears it.                *)
GraceOnlyShortens ==
  [][\A s \in States :
       stopAt[s] # NoTime =>
         \/ stopAt'[s] # NoTime /\ stopAt'[s] <= stopAt[s]
         \/ stopAt'[s] = NoTime /\ captured(s)']_vars

(* hardStopLocked is given ErrGracePeriodExpired only when tasks really    *)
(* remain: a timer that fires as the last task ends does not turn a clean  *)
(* exit into the error that WaitCtx reports.                               *)
CauseIsTruthful ==
  [][\A s \in States :
       cause'[s] # cause[s] => (cause'[s] = "stopped" <=> count'[s] = 0)]_vars

(* What Wait can rely on: once a clean stop of s or of an ancestor called  *)
(* its cancel function, no task adds an error to s any more, and once a    *)
(* clean stop called s's own, no retained callback of s does. What is left *)
(* out is what goes wrong: an ancestor's cancel function makes the context *)
(* done before the callbacks of s have run. See ErrorsAreFinal.            *)
CleanStopSettlesErrors ==
  [][\A s \in States :
       /\ (\E a \in States : Covers(a, s) /\ done[a] /\ cause[a] = "stopped")
            => NewErrors(s) \cap Tasks = {}
       /\ done[s] /\ cause[s] = "stopped"
            => NewErrors(s) \cap ToSet(kept[s]) = {}]_vars

(* A stopped State is canceled within its grace period, whatever its tasks *)
(* do: softStopLocked either hard-stops it or leaves a timer running.      *)
StopCompletes == \A s \in States : stopping[s] ~> done[s]

(* A Stop ends up stopping every descendant, those included that           *)
(* newContext is publishing at the same time.                              *)
StopPropagates ==
  \A s, d \in States :
    Covers(s, d) => (stopping[s] /\ d \in created ~> stopping[d])

\* The refinement mapping: what Lifecycle sees of a State.
modeBar == [s \in States |-> IF captured(s) THEN "hard"
                             ELSE IF stopping[s] THEN "soft" ELSE "open"]
liveBar == [s \in States |-> Holders(s)]

Abstract == INSTANCE Lifecycle WITH mode <- modeBar, live <- liveBar, outcome <- cause

(* The whole hierarchy behaves as Lifecycle says: one-way phases, tasks    *)
(* admitted only to open States, a clean outcome only when nothing is live *)
(* and settled by the very step in which the last task leaves.             *)
Implements == Abstract!Spec

\* The same with its liveness: a draining State is settled.
ImplementsFair == Abstract!FairSpec

-----------------------------------------------------------------------------
(* What the comments say and the code does not do.                         *)

(* Defer: "this method will return true to indicate that the callback was  *)
(* retained for later execution".                                          *)
RetainedRuns ==
  \A s \in States, f \in Callbacks :
    f \in ToSet(kept[s]) /\ stopping[s] ~> f \in ToSet(ran[s])

(* Defer: the callback "will be executed after Stop has been called and    *)
(* all tasks managed by the Context have completed".                       *)
DeferAfterTasks ==
  [][\A s \in States, t \in Tasks :
       ran'[s] # ran[s] => ~(phase[t] = "running" /\ Covers(s, Home[t]))]_vars

(* Defer: "The Context passed to the callback will be stopped but not yet  *)
(* canceled." Stated for clean stops only, so without expired deadlines.   *)
DeferNotCanceled ==
  [][\A s \in States :
       /\ ran'[s] # ran[s] /\ Last(ran'[s]) \in ToSet(kept[s])
       /\ \A a \in States : cause[a] # "expired"
       => ~Canceled(s)]_vars

(* AddStopHook: "These hooks will be called synchronously from within      *)
(* softStopLocked immediately after the stopping channel has been closed." *)
HooksBeforeCancel ==
  [][\A s \in States, c \in created :
       done'[s] # done[s] /\ HasParent(c) /\ Parent(c) = s => stopping[c]]_vars

(* Defer: "Any error returned by the deferred function will be available   *)
(* from Context.Wait." Wait returns the errors it finds when Done closes,  *)
(* so once the context is done neither a task nor a retained callback may  *)
(* add one. Stated without expired deadlines, which tasks may outlive.     *)
ErrorsAreFinal ==
  [][\A s \in States :
       /\ Canceled(s)
       /\ \A a \in States : cause[a] # "expired"
       => NewErrors(s) \cap (Tasks \cup ToSet(kept[s])) = {}]_vars
=============================================================================
