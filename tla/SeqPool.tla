------------------------------ MODULE SeqPool ------------------------------
(***************************************************************************)
(* What ForEach, Map and MapUnordered (seq/each.go, seq/map.go) share: a   *)
(* nested Context s, numWorkers tasks of s that take the items of the      *)
(* input one by one under nextMu, and the calling goroutine, which starts  *)
(* them, asks s to stop when idle, waits and cleans up.                    *)
(*                                                                         *)
(* s is used through the interface of the stopper package, so it moves in  *)
(* the steps of Lifecycle (which State implements): a task is admitted or  *)
(* ends, or s stops, in one step. What its hard stop does outside the lock *)
(* (run the deferred callback, then cancel the context) stays apart, and   *)
(* keeps the goroutine that caused it busy.                                *)
(***************************************************************************)
EXTENDS Naturals, FiniteSets, Sequences

CONSTANTS
  Workers,      \* the tasks started by "for range numWorkers"
  NumItems,     \* the input sequence is 1 .. NumItems
  PanicsAt,     \* the item at which the input's iterator may panic, 0 for none
  OuterEvents,  \* what may happen to the context passed in: "stopping" when it
                \* belongs to a stopper that stops, "canceled"
  Grace,        \* the grace period configured for s: "now" if it is not
                \* positive, else "later"
  FnGraces,     \* grace periods with which a callback may stop s
  Expires       \* whether a positive grace period may run out

ASSUME PoolAssumption ==
  /\ Workers \cap {"main", "other", "nobody", "free"} = {}
  /\ NumItems \in Nat /\ PanicsAt \in Nat
  /\ OuterEvents \subseteq {"stopping", "canceled"}
  /\ Expires \in BOOLEAN
  /\ Grace \in {"now", "later"} /\ FnGraces \subseteq {"now", "later"}

VARIABLES
  \* The nested Context.
  outer,      \* what has happened to the context passed in
  mode,       \* "open", "soft" (stopping, tasks remain) or "hard"
  outcome,    \* "none" until mode is "hard", then "stopped" or "expired"
  onIdle,     \* StopOnIdle was called
  live,       \* the workers counted as tasks of s
  cause,      \* context.Cause(s): "none" while s.Err() is nil
  errs,       \* the errors added to s
  deferred,   \* a deferred callback is registered
  duty, by,   \* what the hard stop still has to do, and the goroutine doing it
  \* The call.
  main,       \* where the calling goroutine is
  pc,         \* where each worker is
  item,       \* the item a worker took last
  idx,        \* idx
  nextMu,     \* the goroutine that has locked nextMu, or "free"
  pulled      \* stop() has been called on the iterator

ctx  == <<outer, mode, outcome, onIdle, live, cause, errs, deferred, duty, by>>
pool == <<main, pc, item, idx, nextMu, pulled>>

\* The goroutines that can cause the hard stop: "other" is the grace timer's,
\* or the one that stops or cancels the context passed in.
Actors == Workers \cup {"main", "other"}

Init ==
  /\ outer \in SUBSET OuterEvents
  /\ mode = "open" /\ outcome = "none" /\ onIdle = FALSE
  /\ live = {} /\ errs = {}
  /\ cause = IF "canceled" \in outer THEN "outer" ELSE "none"
  /\ deferred = FALSE /\ duty = "none" /\ by = "nobody"
  /\ main = "new"
  /\ pc = [w \in Workers |-> "new"]
  /\ item = [w \in Workers |-> 0]
  /\ idx = 0 /\ nextMu = "free" /\ pulled = FALSE

canceled == cause # "none"
busy(a)  == by = a

-----------------------------------------------------------------------------
(* The nested Context.                                                     *)

\* Mutant: the deferred callback is lost.
settleQuietly(a, how) ==
  mode' = "hard" /\ outcome' = how /\ duty' = "cancel" /\ by' = a

settle(a, how) ==
  /\ mode' = "hard" /\ outcome' = how
  /\ duty' = IF deferred THEN "close" ELSE "cancel"
  /\ by' = a

unsettled == UNCHANGED <<mode, outcome, duty, by>>

\* Goroutine a calls s.Stop.
softStop(a, grace) ==
  \/ /\ mode = "hard"
     /\ unsettled
  \/ /\ mode # "hard" /\ live = {}
     /\ settle(a, "stopped")
  \/ /\ mode # "hard" /\ live # {} /\ grace = "now"
     /\ settle(a, "expired")
  \/ /\ mode # "hard" /\ live # {} /\ grace = "later"
     /\ mode' = "soft"
     /\ UNCHANGED <<outcome, duty, by>>

\* The end of the hard stop: newContext's cleanup.
Cancel ==
  /\ duty = "cancel"
  /\ cause' = IF canceled THEN cause ELSE outcome
  /\ duty' = "none" /\ by' = "nobody"
  /\ UNCHANGED <<outer, mode, outcome, onIdle, live, errs, deferred, pool>>

\* Mutant: the grace timer is not started.
neverUp == FALSE

timeIsUp == Expires /\ mode = "soft" /\ live # {}

\* The grace period is over.
Expire ==
  /\ timeIsUp
  /\ settle("other", "expired")
  /\ UNCHANGED <<outer, onIdle, live, cause, errs, deferred, pool>>

\* The context passed in is stopped (a stopper) or canceled.
OuterEvent(e) ==
  /\ outer' = outer \cup {e}
  /\ cause' = IF e = "canceled" /\ ~canceled THEN "outer" ELSE cause
  /\ UNCHANGED <<mode, outcome, onIdle, live, errs, deferred, duty, by, pool>>

\* newContext's stop hook, or its context.AfterFunc.
OuterStop ==
  /\ outer # {} /\ main # "new" /\ mode # "hard"
  /\ softStop("other", Grace)
  /\ UNCHANGED <<outer, onIdle, live, cause, errs, deferred, pool>>

-----------------------------------------------------------------------------
(* The calling goroutine.                                                  *)

\* WithContext. The hook on a parent that is already stopping runs at once.
WithContext(then) ==
  /\ main = "new" /\ main' = then
  /\ \/ "stopping" \in outer /\ softStop("main", Grace)
     \/ "stopping" \notin outer /\ unsettled
  /\ UNCHANGED <<outer, onIdle, live, cause, errs, deferred>>
  /\ UNCHANGED <<pc, item, idx, nextMu, pulled>>

\* Mutant: a task is admitted whatever s's state.
admitsAlways == TRUE

\* Apply(1) on s and on the States above it.
admits == mode = "open" /\ "stopping" \notin outer

\* s.AddError(s.Go(...))
Go(w) ==
  /\ main = "launch" /\ ~busy("main") /\ pc[w] = "new"
  /\ \/ /\ admits
        /\ live' = live \cup {w}
        /\ pc' = [pc EXCEPT ![w] = "top"]
        /\ UNCHANGED errs
     \/ /\ ~admits
        /\ errs' = errs \cup {"ErrStopped"}
        /\ pc' = [pc EXCEPT ![w] = "rejected"]
        /\ UNCHANGED live
  /\ UNCHANGED <<outer, mode, outcome, onIdle, cause, deferred, duty, by>>
  /\ UNCHANGED <<main, item, idx, nextMu, pulled>>

\* s.Stop(stopper.StopOnIdle())
StopOnIdle(then) ==
  /\ main = "launch" /\ ~busy("main") /\ \A w \in Workers : pc[w] # "new"
  /\ main' = then /\ onIdle' = TRUE
  /\ \/ live = {} /\ softStop("main", Grace)
     \/ live # {} /\ unsettled
  /\ UNCHANGED <<outer, live, cause, errs, deferred>>
  /\ UNCHANGED <<pc, item, idx, nextMu, pulled>>

\* Mutant: the hard stop is not made visible.
waitErrorsOnly == errs

\* The error of s.Wait(), as the set of the errors joined in it.
waitErrors == errs \cup (IF cause = "expired" THEN {"ErrGracePeriodExpired"} ELSE {})

\* The deferred s.Stop().
DeferredStop ==
  /\ main = "exit" /\ main' = "lock"
  /\ softStop("main", Grace)
  /\ UNCHANGED <<outer, onIdle, live, cause, errs, deferred>>
  /\ UNCHANGED <<pc, item, idx, nextMu, pulled>>

\* The deferred nextMu.Lock(), stop(), nextMu.Unlock().
Release ==
  /\ main = "lock" /\ ~busy("main") /\ nextMu = "free"
  /\ main' = "done" /\ pulled' = TRUE
  /\ UNCHANGED <<ctx, pc, item, idx, nextMu>>

-----------------------------------------------------------------------------
(* The workers.                                                            *)

goto(w, l) == pc' = [pc EXCEPT ![w] = l]

\* The worker's function returns an error or panics: taskInvoker hands it to
\* the default ErrorHandlerStop.
fail(w, e) == errs' = errs \cup {e} /\ goto(w, "failed")

HandlerStop(w) ==
  /\ pc[w] = "failed" /\ goto(w, "leave")
  /\ softStop(w, Grace)
  /\ UNCHANGED <<outer, onIdle, live, cause, errs, deferred>>
  /\ UNCHANGED <<main, item, idx, nextMu, pulled>>

\* The look at ctx.Err() at the top of the loop.
Top(w) ==
  /\ pc[w] = "top"
  /\ \/ canceled /\ fail(w, "Canceled")
     \/ ~canceled /\ goto(w, "next") /\ UNCHANGED errs
  /\ UNCHANGED <<outer, mode, outcome, onIdle, live, cause, deferred, duty, by>>
  /\ UNCHANGED <<main, item, idx, nextMu, pulled>>

\* nextMu is locked, idx counted and next() called. The worker goes on to l
\* with an item, and leaves nextMu to m. A panic leaves nextMu locked.
next(w, l, m) ==
  /\ pc[w] = "next" /\ nextMu = "free"
  /\ idx' = idx + 1
  /\ \/ /\ idx >= NumItems \/ pulled
        /\ goto(w, "leave")
        /\ UNCHANGED <<item, nextMu, errs>>
     \/ /\ idx < NumItems /\ ~pulled /\ idx + 1 = PanicsAt
        /\ fail(w, "panic")
        /\ nextMu' = w
        /\ UNCHANGED item
     \/ /\ idx < NumItems /\ ~pulled
        /\ item' = [item EXCEPT ![w] = idx + 1]
        /\ nextMu' = m
        /\ goto(w, l)
        /\ UNCHANGED errs
  /\ UNCHANGED <<outer, mode, outcome, onIdle, live, cause, deferred, duty, by>>
  /\ UNCHANGED <<main, pulled>>

\* The callback calls Stop on its Context.
FnStop(w, grace) ==
  /\ pc[w] = "call" /\ ~busy(w)
  /\ softStop(w, grace)
  /\ UNCHANGED <<outer, onIdle, live, cause, errs, deferred, pool>>

\* Mutant: the count is compared before it is decremented.
isLastEarly(w) == Cardinality(live) <= 2

isLast(w) == live = {w}

\* Apply(-1): the last task to leave settles an idle or soft-stopped s.
Leave(w) ==
  /\ pc[w] = "leave" /\ ~busy(w) /\ goto(w, "ended")
  /\ live' = live \ {w}
  /\ \/ /\ isLast(w) /\ mode # "hard" /\ (onIdle \/ mode = "soft")
        /\ settle(w, "stopped")
     \/ /\ ~isLast(w) \/ mode = "hard" \/ ~(onIdle \/ mode = "soft")
        /\ unsettled
  /\ UNCHANGED <<outer, onIdle, cause, errs, deferred>>
  /\ UNCHANGED <<main, item, idx, nextMu, pulled>>

-----------------------------------------------------------------------------

\* s as a hierarchy of one State with the workers as its tasks.
Nested == INSTANCE Lifecycle WITH
  States <- {"s"}, Path <- [s \in {"s"} |-> <<"s">>],
  Tasks <- Workers, Home <- [w \in Workers |-> "s"],
  mode <- [s \in {"s"} |-> mode],
  live <- [s \in {"s"} |-> live],
  outcome <- [s \in {"s"} |-> outcome]

PoolTypeOK ==
  /\ outer \subseteq OuterEvents
  /\ mode \in {"open", "soft", "hard"}
  /\ outcome \in {"none", "stopped", "expired"}
  /\ onIdle \in BOOLEAN /\ deferred \in BOOLEAN /\ pulled \in BOOLEAN
  /\ live \subseteq Workers
  /\ cause \in {"none", "outer", "stopped", "expired"}
  /\ duty \in {"none", "close", "cancel"} /\ by \in Actors \cup {"nobody"}
  /\ main \in {"new", "defer", "launch", "consume", "await", "wait", "exit",
               "lock", "done"}
  /\ pc \in [Workers -> {"new", "rejected", "top", "next", "select", "call",
                         "failed", "leave", "ended"}]
  /\ item \in [Workers -> 0 .. NumItems]
  /\ idx \in 0 .. NumItems + Cardinality(Workers)
  /\ nextMu \in Workers \cup {"free"}
=============================================================================
