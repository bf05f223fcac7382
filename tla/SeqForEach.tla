----------------------------- MODULE SeqForEach -----------------------------
(* seq.ForEach and ForEach2: the callback's errors are added to s, and the *)
(* caller gets what s.WaitCtx returns.                                     *)
EXTENDS SeqPool

VARIABLES
  finished,  \* the items whose callback has ended
  bad,       \* those of them whose callback returned an error or panicked
  indexErrs, \* those whose error is among the errors of s, next to errs
  ret        \* the joined errors returned: those of items and the others

sink == <<finished, bad, indexErrs, ret>>
vars == <<ctx, pool, sink>>

nil == [items |-> {}, others |-> {}]

InitForEach ==
  /\ Init
  /\ finished = {} /\ bad = {} /\ indexErrs = {} /\ ret = nil

TakeItem(w) == next(w, "call", "free") /\ UNCHANGED sink

\* Mutant: only the first error is kept.
addFirst(i) == IF indexErrs = {} THEN {i} ELSE indexErrs

\* ctx.AddError(fmt.Errorf("index %d: %w", ...))
addError(i) == indexErrs \cup {i}

\* The callback returns nil.
ReturnNil(w) ==
  /\ pc[w] = "call" /\ ~busy(w) /\ goto(w, "top")
  /\ finished' = finished \cup {item[w]}
  /\ UNCHANGED <<ctx, main, item, idx, nextMu, pulled, bad, indexErrs, ret>>

\* It returns an error, or its panic is turned into one. There is no stop.
ReturnErr(w) ==
  /\ pc[w] = "call" /\ ~busy(w) /\ goto(w, "top")
  /\ finished' = finished \cup {item[w]}
  /\ bad' = bad \cup {item[w]}
  /\ indexErrs' = addError(item[w])
  /\ UNCHANGED <<ctx, main, item, idx, nextMu, pulled, ret>>

\* s.WaitCtx(ctx): either channel may be found closed, in any order.
WaitCtx ==
  /\ main = "wait" /\ ~busy("main") /\ main' = "exit"
  /\ \/ /\ canceled
        /\ ret' = [items |-> indexErrs, others |-> waitErrors]
     \/ /\ "canceled" \in outer
        /\ ret' = [items |-> indexErrs, others |-> errs \cup {"Canceled"}]
  /\ UNCHANGED <<ctx, pc, item, idx, nextMu, pulled, bad, indexErrs, finished>>

PoolStep ==
  /\ \/ Cancel \/ Expire \/ OuterStop
     \/ \E e \in OuterEvents : OuterEvent(e)
     \/ WithContext("launch") \/ StopOnIdle("wait")
     \/ DeferredStop \/ Release
     \/ \E w \in Workers : Go(w) \/ Top(w) \/ HandlerStop(w) \/ Leave(w)
     \/ \E w \in Workers, grace \in FnGraces : FnStop(w, grace)
  /\ UNCHANGED sink

Main ==
  \/ /\ \/ WithContext("launch") \/ StopOnIdle("wait") \/ DeferredStop \/ Release
        \/ \E w \in Workers : Go(w)
     /\ UNCHANGED sink
  \/ WaitCtx

Worker(w) == (Top(w) \/ HandlerStop(w) \/ Leave(w)) /\ UNCHANGED sink

Next ==
  \/ PoolStep
  \/ \E w \in Workers : TakeItem(w)
  \/ \E w \in Workers : ReturnNil(w)
  \/ \E w \in Workers : ReturnErr(w)
  \/ WaitCtx

Spec == InitForEach /\ [][Next]_vars

(* Every goroutine goes on, time passes, and a stop of the outer context   *)
(* reaches s. Callbacks may never return.                                  *)
FairSpec ==
  /\ Spec
  /\ WF_vars(Cancel /\ UNCHANGED sink)
  /\ WF_vars((Expire \/ OuterStop) /\ UNCHANGED sink)
  /\ WF_vars(Main)
  /\ \A w \in Workers : WF_vars(Worker(w)) /\ SF_vars(TakeItem(w))

-----------------------------------------------------------------------------

TypeOK ==
  /\ PoolTypeOK
  /\ bad \subseteq finished /\ finished \subseteq 1 .. NumItems
  /\ ret.items \subseteq indexErrs /\ indexErrs \subseteq bad
  /\ ret.others \subseteq errs \cup {"ErrGracePeriodExpired", "Canceled"}

Returned == main \in {"exit", "lock", "done"}

\* When ForEach returns because s has stopped within the grace period, no
\* callback is running any more and none of their errors is missing
\* (each.go:23), however many workers failed at once.
ErrorsArrive ==
  Returned /\ "canceled" \notin outer /\ outcome = "stopped" =>
    bad = ret.items /\ \A w \in Workers : pc[w] \in {"ended", "rejected"}

\* A nil error means that the callback has ended without one for every item,
\* unless the context was canceled: which error that gives depends on timing
\* (each_test.go:77), nil included.
NilIsComplete ==
  Returned /\ ret = nil /\ "canceled" \notin outer =>
    finished = 1 .. NumItems /\ bad = {}

\* A stop or a cancellation makes ForEach return within the grace period, even
\* if callbacks never do (each_test.go:76, "must not cause ForEach2 to hang").
StopEndsForEach == mode # "open" \/ canceled ~> main = "done"
=============================================================================
