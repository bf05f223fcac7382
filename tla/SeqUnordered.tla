---------------------------- MODULE SeqUnordered ----------------------------
(* seq.MapUnordered and MapUnordered2: a worker lets go of nextMu before   *)
(* it calls the callback, and sends the result itself when it has one.     *)
EXTENDS SeqResults

vars == <<ctx, pool, sink>>

\* nextMu is unlocked right after next().
TakeItem(w) == next(w, "call", "free") /\ UNCHANGED sink

\* The callback ends, with a value, an error or a panic.
Return(w) ==
  /\ pc[w] = "call" /\ ~busy(w) /\ goto(w, "select")
  /\ UNCHANGED <<ctx, main, item, idx, nextMu, pulled, sink>>

\* Mutant: the result is dropped when a stop was requested.
gaveUpWhenStopping == mode # "open"

\* case <-ctx.Done()
gaveUp == canceled

\* Mutant: the loop goes on with the same item.
again == "call"

\* Where the loop goes on.
onward == "top"

\* Any case that is ready. A send on a closed channel panics.
Select(w) ==
  /\ pc[w] = "select"
  /\ \/ /\ ~closed /\ hasRoom
        /\ results' = Append(results, item[w])
        /\ goto(w, onward) /\ UNCHANGED errs
     \/ /\ earlyBreak /\ goto(w, "leave")
        /\ UNCHANGED <<results, errs>>
     \/ /\ gaveUp /\ goto(w, "top")
        /\ UNCHANGED <<results, errs>>
     \/ /\ closed /\ fail(w, "closed")
        /\ UNCHANGED results
  /\ UNCHANGED <<outer, mode, outcome, onIdle, live, cause, deferred, duty, by>>
  /\ UNCHANGED <<main, item, idx, nextMu, pulled, closed, out, ending, final>>

\* yieldUnordered receives a result and yields it.
YieldResult ==
  /\ main = "consume" /\ ~busy("main") /\ results # <<>>
  /\ results' = Tail(results)
  /\ Yield(Head(results))
  /\ UNCHANGED <<ctx, pc, item, idx, nextMu, pulled, closed, final>>

\* The steps of the calling goroutine, and those of a worker but for the end of
\* its callback.
Main ==
  \/ /\ \/ WithContext("defer") \/ StopOnIdle("consume") \/ DeferredStop \/ Release
        \/ \E w \in Workers : Go(w)
     /\ UNCHANGED sink
  \/ Defer \/ Drained \/ Wait
  \/ YieldResult

Worker(w) ==
  \/ (Top(w) \/ HandlerStop(w) \/ Leave(w)) /\ UNCHANGED sink
  \/ Select(w)

Next ==
  \/ PoolStep \/ Defer \/ Close \/ Drained \/ Wait
  \/ \E w \in Workers : TakeItem(w)
  \/ \E w \in Workers : Return(w)
  \/ \E w \in Workers : Select(w)
  \/ YieldResult

Spec == InitResults /\ [][Next]_vars

(* Every goroutine goes on, the loop body returns, time passes, and a stop *)
(* of the outer context reaches s. Callbacks may never return.             *)
FairSpec ==
  /\ Spec
  /\ WF_vars(Cancel /\ UNCHANGED sink) /\ WF_vars(Close)
  /\ WF_vars((Expire \/ OuterStop) /\ UNCHANGED sink)
  /\ WF_vars(Main)
  /\ \A w \in Workers : WF_vars(Worker(w)) /\ SF_vars(TakeItem(w))

-----------------------------------------------------------------------------

\* Where the items are that have been taken from the input and not dropped.
inHand(w) == pc[w] \in {"call", "select"}

\* No item is processed or yielded twice: it is in one worker's hands, in the
\* channel, or out (map.go:258).
EachOnce ==
  LET seen == out \o results
  IN /\ \A i, j \in 1 .. Len(seen) : seen[i] = seen[j] => i = j
     /\ \A v, w \in Workers : inHand(v) /\ inHand(w) /\ v # w => item[v] # item[w]
     /\ \A w \in Workers, i \in 1 .. Len(seen) : inHand(w) => seen[i] # item[w]

\* Every item taken is in one of those places while nobody has given up.
NoneLost ==
  mode # "hard" /\ ending = "no" /\ ~canceled =>
    \A i \in 1 .. idx :
      \/ i > NumItems \/ i = PanicsAt
      \/ \E j \in 1 .. Len(out) : out[j] = i
      \/ \E j \in 1 .. Len(results) : results[j] = i
      \/ \E w \in Workers : inHand(w) /\ item[w] = i

\* A stop ends the sequence within the grace period, even if callbacks never
\* return, and gives the caller its goroutine back (map.go:231).
StopEndsSequence == mode # "open" ~> main = "done"
=============================================================================
