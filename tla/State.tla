------------------------------- MODULE State -------------------------------
(***************************************************************************)
(* The lifecycle state shared by all views of one stopper Context          *)
(* (internal/state/state.go), for a whole hierarchy of States.             *)
(*                                                                         *)
(* Every critical section of State.mu is one step: none of them blocks or  *)
(* takes a second lock, so running it atomically loses no interleaving.    *)
(* What the code does between critical sections is kept apart:             *)
(*  - Apply reads mu.stopping under the read lock, level by level from the *)
(*    State up to the top-level one, and then takes each write lock in     *)
(*    turn on the way back down;                                           *)
(*  - callDeferred runs its list after the lock is released, one element   *)
(*    per step, and an element may itself stop another State.              *)
(*                                                                         *)
(* A goroutine's pending callDeferred lists form a stack, todo[a].         *)
(***************************************************************************)
EXTENDS Hierarchy, SequencesExt

CONSTANTS
  Grace,       \* Grace[s]: the configured grace period, used by s's stop hook
  Graces,      \* grace periods that callers pass to Stop
  Procs,       \* goroutines that make the other calls (callers, timers)
  Callbacks    \* functions handed to AddDeferred

NoTime == -1   \* a nil *time.Time

Actors == Tasks \cup Procs

ASSUME GraceAssumption ==
  Grace \in [States -> Nat] /\ Graces \subseteq Nat

ASSUME ProcsAssumption == Tasks \cap Procs = {}

\* errs tells an error of a task from one of a callback.
ASSUME CallbacksAssumption == Tasks \cap Callbacks = {}

VARIABLES
  created,     \* States that exist
  \* The fields of State.mu.
  count,       \* mu.count
  stopping,    \* mu.stopping, and whether the stopping channel is closed
  stopOnIdle,  \* mu.stopOnIdle is non-nil (its value plays no part: see StopOnIdle)
  deferred,    \* mu.deferred
  stopHooks,   \* mu.stopHooks: the children with a registered hook
  cause,       \* "none" while mu.cancel is non-nil, else the error captured for it
  stopAt,      \* mu.stopAt, as the time left; NoTime when nil
  errs,        \* mu.errs: the callbacks and tasks whose error was added
  \* Goroutines.
  todo,        \* todo[a]: stack of the callDeferred lists goroutine a is running
  phase,       \* where task t is in Apply(1) ... Apply(-1)
  lo, hi,      \* t is counted at the levels lo[t] .. hi[t] of Path[Home[t]]
  \* What an observer sees.
  done,        \* cancelFn(err) has been called
  fresh,       \* callbacks not yet handed to AddDeferred
  kept,        \* callbacks retained (AddDeferred returned true), in order
  ran          \* callbacks executed, in order

locks  == <<created, count, stopping, stopOnIdle, deferred, stopHooks, cause, stopAt>>
applys == <<phase, lo, hi>>
seen   == <<done, fresh, kept, ran>>
vars   == <<locks, errs, todo, applys, seen>>

(* One list passed to callDeferred: an optional closure that runs stop     *)
(* hooks, then optionally the cancel function, then deferred callbacks.    *)
(* callDeferred works through it from the end.                             *)
Call == [st: States, hooks: SUBSET States, cancel: BOOLEAN, fns: Seq(Callbacks)]

List(s, hooks, cancel, fns) ==
  [st |-> s, hooks |-> hooks, cancel |-> cancel, fns |-> fns]

Push(c, rest) ==
  IF c.hooks = {} /\ ~c.cancel /\ c.fns = <<>> THEN rest ELSE <<c>> \o rest

Init ==
  /\ created = {s \in States : ~HasParent(s)}
  /\ count = [s \in States |-> 0]
  /\ stopping = [s \in States |-> FALSE]
  /\ stopOnIdle = [s \in States |-> FALSE]
  /\ deferred = [s \in States |-> <<>>]
  /\ stopHooks = [s \in States |-> {}]
  /\ cause = [s \in States |-> "none"]
  /\ stopAt = [s \in States |-> NoTime]
  /\ errs = [s \in States |-> {}]
  /\ todo = [a \in Actors |-> <<>>]
  /\ phase = [t \in Tasks |-> "idle"]
  /\ lo = [t \in Tasks |-> 1]
  /\ hi = [t \in Tasks |-> 0]
  /\ done = [s \in States |-> FALSE]
  /\ fresh = Callbacks
  /\ kept = [s \in States |-> <<>>]
  /\ ran = [s \in States |-> <<>>]

-----------------------------------------------------------------------------
(* The helpers that run with the lock held. Goroutine a goes on with the   *)
(* list they return on top of the stack rest.                              *)

\* Mutant: the early return on a nil mu.cancel is missing.
capturedNever(s) == FALSE

\* mu.cancel has been taken, which happens once.
captured(s) == cause[s] # "none"

\* Only the first caller finds mu.cancel and takes the callbacks.
hardStopLocked(a, s, err, hooks, rest) ==
  \/ /\ captured(s)
     /\ todo' = [todo EXCEPT ![a] = Push(List(s, hooks, FALSE, <<>>), rest)]
     /\ UNCHANGED <<cause, deferred, stopAt>>
  \/ /\ ~captured(s)
     /\ cause' = [cause EXCEPT ![s] = err]
     /\ stopAt' = [stopAt EXCEPT ![s] = NoTime]
     /\ deferred' = [deferred EXCEPT ![s] = <<>>]
     /\ todo' = [todo EXCEPT ![a] = Push(List(s, hooks, TRUE, deferred[s]), rest)]

\* Mutant: every Stop restarts the timer.
restartGraceTimer(s, g) == stopAt' = [stopAt EXCEPT ![s] = g]

\* Mutant: the timer is never started.
skipGraceTimer(s, g) == stopAt' = stopAt

\* A later Stop may only bring the deadline forward.
updateGraceTimerLocked(s, g) ==
  stopAt' = IF stopAt[s] # NoTime /\ g >= stopAt[s]
              THEN stopAt
              ELSE [stopAt EXCEPT ![s] = g]

\* n is the value of mu.count inside the critical section.
softStopLocked(a, s, n, g, rest) ==
  /\ stopping' = [stopping EXCEPT ![s] = TRUE]
  /\ stopHooks' = [stopHooks EXCEPT ![s] = {}]
  /\ \/ /\ n = 0
        /\ hardStopLocked(a, s, "stopped", stopHooks[s], rest)
     \/ /\ n # 0 /\ g <= 0
        /\ hardStopLocked(a, s, "expired", stopHooks[s], rest)
     \/ /\ n # 0 /\ g > 0
        /\ updateGraceTimerLocked(s, g)
        /\ todo' = [todo EXCEPT ![a] = Push(List(s, stopHooks[s], FALSE, <<>>), rest)]
        /\ UNCHANGED <<cause, deferred>>

-----------------------------------------------------------------------------
(* Calls made by a goroutine p that is not inside callDeferred.            *)

\* Mutant: the hook is stored even if the parent is already stopping.
alreadyStoppingIgnored(s) == FALSE

alreadyStopping(s) == stopping[Parent(s)]

\* newContext: New is private to p until AddStopHook publishes the child.
\* A hook on a State that is already stopping runs at once, outside the lock.
AddStopHook(p, s) ==
  /\ todo[p] = <<>>
  /\ s \notin created /\ HasParent(s) /\ Parent(s) \in created
  /\ created' = created \cup {s}
  /\ \/ /\ alreadyStopping(s)
        /\ todo' = [todo EXCEPT ![p] = <<List(Parent(s), {s}, FALSE, <<>>)>>]
        /\ UNCHANGED stopHooks
     \/ /\ ~alreadyStopping(s)
        /\ stopHooks' = [stopHooks EXCEPT ![Parent(s)] = @ \cup {s}]
        /\ UNCHANGED todo
  /\ UNCHANGED <<count, stopping, stopOnIdle, deferred, cause, stopAt>>
  /\ UNCHANGED <<errs, applys, seen>>

Stop(p, s, g) ==
  /\ todo[p] = <<>> /\ s \in created
  /\ softStopLocked(p, s, count[s], g, <<>>)
  /\ UNCHANGED <<created, count, stopOnIdle, errs, applys, seen>>

\* The grace period kept in mu.stopOnIdle is only ever passed to
\* softStopLocked with a count of 0, where it plays no part.
StopOnIdle(p, s) ==
  /\ todo[p] = <<>> /\ s \in created
  /\ stopOnIdle' = [stopOnIdle EXCEPT ![s] = TRUE]
  /\ \/ /\ count[s] = 0
        /\ softStopLocked(p, s, 0, 0, <<>>)
     \/ /\ count[s] # 0
        /\ UNCHANGED <<stopping, stopHooks, cause, deferred, stopAt, todo>>
  /\ UNCHANGED <<created, count, errs, applys, seen>>

\* Mutant: new callbacks go in front of the earlier ones.
retainFirst(s, f) == <<f>> \o deferred[s]

retain(s, f) == Append(deferred[s], f)

invokeNow(s) == stopping[s] /\ count[s] = 0

AddDeferred(p, s, f) ==
  /\ todo[p] = <<>> /\ s \in created
  /\ f \in fresh /\ fresh' = fresh \ {f}
  /\ \/ /\ invokeNow(s)
        /\ todo' = [todo EXCEPT ![p] = <<List(s, {}, FALSE, <<f>>)>>]
        /\ UNCHANGED <<deferred, kept>>
     \/ /\ ~invokeNow(s)
        /\ deferred' = [deferred EXCEPT ![s] = retain(s, f)]
        /\ kept' = [kept EXCEPT ![s] = Append(@, f)]
        /\ UNCHANGED todo
  /\ UNCHANGED <<created, count, stopping, stopOnIdle, stopHooks, cause, stopAt>>
  /\ UNCHANGED <<errs, applys, done, ran>>

-----------------------------------------------------------------------------
(* Time and the grace timer's function.                                    *)

Tick ==
  /\ \E s \in States : stopAt[s] > 0
  /\ stopAt' = [s \in States |-> IF stopAt[s] > 0 THEN stopAt[s] - 1 ELSE stopAt[s]]
  /\ UNCHANGED <<created, count, stopping, stopOnIdle, deferred, stopHooks, cause>>
  /\ UNCHANGED <<errs, todo, applys, seen>>

graceTimer(p, s) ==
  /\ todo[p] = <<>>
  /\ stopAt[s] = 0
  /\ hardStopLocked(p, s, "expired", {}, <<>>)
  /\ UNCHANGED <<created, count, stopping, stopOnIdle, stopHooks>>
  /\ UNCHANGED <<errs, applys, seen>>

-----------------------------------------------------------------------------
(* Apply(1) and Apply(-1) on Home[t].                                      *)

\* The State at level i of t's path.
At(t, i) == Path[Home[t]][i]

Apply(t) ==
  /\ todo[t] = <<>> /\ phase[t] = "idle" /\ Home[t] \in created
  /\ phase' = [phase EXCEPT ![t] = "checking"]
  /\ lo' = [lo EXCEPT ![t] = Depth(Home[t])]
  /\ UNCHANGED <<locks, errs, todo, hi, seen>>

\* The unlocked recursion into the parent: check this level, then go up one.
ApplyCheck(t) ==
  /\ phase[t] = "checking"
  /\ \/ /\ stopping[At(t, lo[t])]
        /\ phase' = [phase EXCEPT ![t] = "idle"]
        /\ lo' = [lo EXCEPT ![t] = 1]
     \/ /\ ~stopping[At(t, lo[t])] /\ lo[t] > 1
        /\ lo' = [lo EXCEPT ![t] = @ - 1]
        /\ UNCHANGED phase
     \/ /\ ~stopping[At(t, lo[t])] /\ lo[t] = 1
        /\ phase' = [phase EXCEPT ![t] = "entering"]
        /\ UNCHANGED lo
  /\ UNCHANGED <<locks, errs, todo, hi, seen>>

\* Mutant: mu.stopping is not read again under the write lock.
acceptsAlways(s) == TRUE

accepts(s) == ~stopping[s]

\* Mutant: the unwinding call is left out.
rejectForgets(t) == "idle"

\* Rejected at level hi+1: take back what the ancestors already accepted.
reject(t) == IF hi[t] = 0 THEN "idle" ELSE "leaving"

\* A positive delta reaches the critical section of the next level down.
ApplyAdd(t) ==
  LET s == At(t, hi[t] + 1) IN
  /\ phase[t] = "entering"
  /\ \/ /\ accepts(s)
        /\ count' = [count EXCEPT ![s] = @ + 1]
        /\ hi' = [hi EXCEPT ![t] = @ + 1]
        /\ phase' = [phase EXCEPT ![t] =
                        IF s = Home[t] THEN "running" ELSE "entering"]
     \/ /\ ~accepts(s)
        /\ phase' = [phase EXCEPT ![t] = reject(t)]
        /\ UNCHANGED <<count, hi>>
  /\ UNCHANGED <<created, stopping, stopOnIdle, deferred, stopHooks, cause, stopAt>>
  /\ UNCHANGED <<errs, todo, lo, seen>>

\* Mutant: only StopOnIdle reacts to the last task, a pending Stop does not.
applyIdleOnly(t, s, n) ==
  \/ /\ n = 0 /\ stopOnIdle[s]
     /\ softStopLocked(t, s, 0, 0, <<>>)
  \/ /\ n # 0 \/ ~stopOnIdle[s]
     /\ UNCHANGED <<stopping, stopHooks, cause, deferred, stopAt, todo>>

\* What the critical section does once mu.count has become n.
applyIdle(t, s, n) ==
  \/ /\ n = 0 /\ stopOnIdle[s]
     /\ softStopLocked(t, s, 0, 0, <<>>)
  \/ /\ n = 0 /\ ~stopOnIdle[s] /\ stopping[s]
     /\ hardStopLocked(t, s, "stopped", {}, <<>>)
     /\ UNCHANGED <<stopping, stopHooks>>
  \/ /\ n # 0 \/ (~stopOnIdle[s] /\ ~stopping[s])
     /\ UNCHANGED <<stopping, stopHooks, cause, deferred, stopAt, todo>>

\* A negative delta is applied to the ancestors first, top-level State first,
\* and each level's callDeferred ends before the next level's lock is taken.
ApplySub(t) ==
  LET s == At(t, lo[t]) IN
  /\ todo[t] = <<>> /\ phase[t] \in {"running", "leaving"}
  /\ count' = [count EXCEPT ![s] = @ - 1]
  /\ applyIdle(t, s, count[s] - 1)
  /\ \/ /\ lo[t] = hi[t]
        /\ phase' = [phase EXCEPT ![t] = "idle"]
        /\ lo' = [lo EXCEPT ![t] = 1]
        /\ hi' = [hi EXCEPT ![t] = 0]
     \/ /\ lo[t] # hi[t]
        /\ phase' = [phase EXCEPT ![t] = "leaving"]
        /\ lo' = [lo EXCEPT ![t] = @ + 1]
        /\ UNCHANGED hi
  /\ UNCHANGED <<created, stopOnIdle, errs, seen>>

\* A running task reports an error (ErrorHandler, Context.AddError).
AddErrors(t) ==
  /\ phase[t] = "running"
  /\ errs' = [errs EXCEPT ![Home[t]] = @ \cup {t}]
  /\ UNCHANGED <<locks, todo, applys, seen>>

-----------------------------------------------------------------------------
(* callDeferred: the last element of the list on top of the stack.         *)

\* safe.CallE turns an error or a panic into an entry of mu.errs.
callDeferredFn(a) ==
  /\ todo[a] # <<>> /\ Head(todo[a]).fns # <<>>
  /\ LET c == Head(todo[a])
         f == Last(c.fns)
     IN /\ ran' = [ran EXCEPT ![c.st] = Append(@, f)]
        /\ errs' \in {errs, [errs EXCEPT ![c.st] = @ \cup {f}]}
        /\ todo' = [todo EXCEPT ![a] = Push([c EXCEPT !.fns = Front(@)], Tail(@))]
  /\ UNCHANGED <<locks, applys, done, fresh, kept>>

\* Mutant: the context is canceled while callbacks are still to be run.
cancelTurnEarly(c) == c.cancel

\* The cancel function counts as the first deferred callback: it runs last.
cancelTurn(c) == c.fns = <<>> /\ c.cancel

\* The cancel function is newContext's cleanup: it drops the hook from the
\* parent's mu.stopHooks and then cancels the context.
callDeferredCancel(a) ==
  /\ todo[a] # <<>> /\ cancelTurn(Head(todo[a]))
  /\ LET c == Head(todo[a])
     IN /\ done' = [done EXCEPT ![c.st] = TRUE]
        /\ stopHooks' = IF HasParent(c.st)
                          THEN [stopHooks EXCEPT ![Parent(c.st)] = @ \ {c.st}]
                          ELSE stopHooks
        /\ todo' = [todo EXCEPT ![a] = Push([c EXCEPT !.cancel = FALSE], Tail(@))]
  /\ UNCHANGED <<created, count, stopping, stopOnIdle, deferred, cause, stopAt>>
  /\ UNCHANGED <<errs, applys, fresh, kept, ran>>

\* Each hook is the child's Stop with the child's own grace period. The map
\* is iterated in any order.
callDeferredHook(a) ==
  /\ todo[a] # <<>> /\ Head(todo[a]).fns = <<>> /\ ~Head(todo[a]).cancel
  /\ LET c == Head(todo[a])
     IN \E k \in c.hooks :
          softStopLocked(a, k, count[k], Grace[k],
                         Push([c EXCEPT !.hooks = @ \ {k}], Tail(todo[a])))
  /\ UNCHANGED <<created, count, stopOnIdle, errs, applys, seen>>

callDeferred(a) ==
  callDeferredFn(a) \/ callDeferredCancel(a) \/ callDeferredHook(a)

-----------------------------------------------------------------------------

Next ==
  \/ \E p \in Procs, s \in States : AddStopHook(p, s)
  \/ \E p \in Procs, s \in States, g \in Graces : Stop(p, s, g)
  \/ \E p \in Procs, s \in States : StopOnIdle(p, s)
  \/ \E p \in Procs, s \in States, f \in Callbacks : AddDeferred(p, s, f)
  \/ Tick
  \/ \E p \in Procs, s \in States : graceTimer(p, s)
  \/ \E t \in Tasks : Apply(t)
  \/ \E t \in Tasks : ApplyCheck(t)
  \/ \E t \in Tasks : ApplyAdd(t)
  \/ \E t \in Tasks : ApplySub(t)
  \/ \E t \in Tasks : AddErrors(t)
  \/ \E a \in Actors : callDeferredFn(a)
  \/ \E a \in Actors : callDeferredCancel(a)
  \/ \E a \in Actors : callDeferredHook(a)

Spec == Init /\ [][Next]_vars

(* Every goroutine keeps running its callDeferred lists (the callbacks in  *)
(* them return), time passes, and a due timer's function is started.       *)
(* Nothing is assumed about tasks: they may never end.                     *)
Fairness ==
  /\ \A a \in Actors : WF_vars(callDeferred(a))
  /\ WF_vars(Tick)
  /\ \A s \in States : WF_vars(\E p \in Procs : graceTimer(p, s))

FairSpec == Spec /\ Fairness

\* Also, no call of Apply stops halfway and tasks end.
TaskEndSpec ==
  FairSpec /\ \A t \in Tasks : WF_vars(ApplyCheck(t) \/ ApplyAdd(t) \/ ApplySub(t))
=============================================================================
