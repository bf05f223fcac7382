------------------------------- MODULE SeqMap -------------------------------
(* seq.Map and Map2: the results are yielded in the order of the input.    *)
(* The results channel holds result channels of capacity one, which a      *)
(* worker enqueues before it lets go of nextMu and calls the callback.     *)
EXTENDS SeqResults

VARIABLES
  ready,   \* the items whose result channel holds the result
  cur      \* the item whose result channel yieldOrdered receives from

vars == <<ctx, pool, sink, ready, cur>>

InitMap == InitResults /\ ready = {} /\ cur = 0

\* Mutant: nextMu is unlocked before the result channel is enqueued.
keepsNothing(w) == "free"

\* nextMu stays locked until the result channel is enqueued.
keeps(w) == w

TakeItem(w) == next(w, "select", keeps(w)) /\ UNCHANGED <<sink, ready, cur>>

\* Mutant: a soft stop is taken for a hard one.
dropsWhenStopping == mode # "open"

\* case <-earlyBreak, case <-ctx.Done()
drops == earlyBreak \/ canceled

\* Any case that is ready. A send on a closed channel panics, and the panic
\* takes the worker past nextMu.Unlock().
Select(w) ==
  /\ pc[w] = "select"
  /\ \/ /\ ~closed /\ hasRoom
        /\ results' = Append(results, item[w])
        /\ goto(w, "call") /\ nextMu' = "free"
        /\ UNCHANGED errs
     \/ /\ drops
        /\ goto(w, "leave") /\ nextMu' = "free"
        /\ UNCHANGED <<results, errs>>
     \/ /\ closed
        /\ fail(w, "closed")
        /\ UNCHANGED <<results, nextMu>>
  /\ UNCHANGED <<outer, mode, outcome, onIdle, live, cause, deferred, duty, by>>
  /\ UNCHANGED <<main, item, idx, pulled, closed, out, ending, final, ready, cur>>

\* Mutant: a callback that panics skips the send.
promise(i) == ready' \in {ready, ready \cup {i}}

\* retChan has room for the one result that is ever sent to it.
fulfil(i) == ready' = ready \cup {i}

\* The callback ends, with a value, an error or a panic, and retChan gets it.
Return(w) ==
  /\ pc[w] = "call" /\ ~busy(w) /\ goto(w, "top")
  /\ fulfil(item[w])
  /\ UNCHANGED <<ctx, main, item, idx, nextMu, pulled, sink, cur>>

\* yieldOrdered receives a result channel ...
Receive ==
  /\ main = "consume" /\ ~busy("main") /\ results # <<>> /\ main' = "await"
  /\ cur' = Head(results) /\ results' = Tail(results)
  /\ UNCHANGED <<ctx, pc, item, idx, nextMu, pulled>>
  /\ UNCHANGED <<closed, out, ending, final, ready>>

\* ... and yields what it receives from it.
YieldResult ==
  /\ main = "await" /\ cur \in ready
  /\ Yield(cur) /\ cur' = 0
  /\ UNCHANGED <<ctx, pc, item, idx, nextMu, pulled>>
  /\ UNCHANGED <<results, closed, final, ready>>

MapStep == (PoolStep \/ Defer \/ Close \/ Drained \/ Wait) /\ UNCHANGED <<ready, cur>>

Next ==
  \/ MapStep
  \/ \E w \in Workers : TakeItem(w)
  \/ \E w \in Workers : Select(w)
  \/ \E w \in Workers : Return(w)
  \/ Receive
  \/ YieldResult

\* The steps of the calling goroutine, and those of a worker but for the end of
\* its callback.
Main ==
  \/ /\ \/ WithContext("defer") \/ StopOnIdle("consume") \/ DeferredStop \/ Release
        \/ \E w \in Workers : Go(w)
     /\ UNCHANGED <<sink, ready, cur>>
  \/ (Defer \/ Drained \/ Wait) /\ UNCHANGED <<ready, cur>>
  \/ Receive
  \/ YieldResult

Worker(w) ==
  \/ (Top(w) \/ HandlerStop(w) \/ Leave(w)) /\ UNCHANGED <<sink, ready, cur>>
  \/ TakeItem(w)
  \/ Select(w)

Spec == InitMap /\ [][Next]_vars

(* Every goroutine goes on, the loop body returns, time passes, and a stop *)
(* of the outer context reaches s. Callbacks may never return.             *)
Fairness ==
  /\ WF_vars(Cancel /\ UNCHANGED <<sink, ready, cur>>)
  /\ WF_vars(Close /\ UNCHANGED <<ready, cur>>)
  /\ WF_vars((Expire \/ OuterStop) /\ UNCHANGED <<sink, ready, cur>>)
  /\ WF_vars(Main)
  /\ \A w \in Workers : WF_vars(Worker(w)) /\ SF_vars(TakeItem(w))

FairSpec == Spec /\ Fairness

\* Also, callbacks return.
ReturnSpec == FairSpec /\ \A w \in Workers : WF_vars(Return(w))

-----------------------------------------------------------------------------

TypeOK ==
  /\ ResultsTypeOK
  /\ ready \subseteq 1 .. NumItems
  /\ cur \in 0 .. NumItems

\* The items on their way to the consumer, and those it has seen.
Pipeline == out \o (IF cur = 0 THEN <<>> ELSE <<cur>>) \o results

\* Results are yielded in the order of the input, each once (map.go:26) ...
Ordered == \A i, j \in 1 .. Len(Pipeline) : i < j => Pipeline[i] < Pipeline[j]

\* ... and the Nth is that of the Nth item, until the consumer breaks or the
\* context is canceled.
NthIsNth ==
  ~earlyBreak /\ ~canceled =>
    \A i \in 1 .. Len(Pipeline) : Pipeline[i] = i

\* A result channel that is enqueued belongs to a worker that will fill it:
\* yieldOrdered does not wait in vain (map.go:377) while callbacks return.
PromisesKept ==
  \A i \in 1 .. Len(Pipeline) :
    Pipeline[i] \in ready \/ \E w \in Workers : pc[w] = "call" /\ item[w] = Pipeline[i]

\* The pool moves s only as a State may move.
UsesContext == Nested!Spec

\* Map returns if its callbacks do, whatever stops or cancels the context
\* meanwhile (map.go:76). The exceptions are what can leave nextMu locked: the
\* end of a grace period, and a panic of the input or of the loop body.
MapReturns ==
  <>(main = "done" \/ outcome = "expired" \/ ending = "panic" \/ "panic" \in errs)

-----------------------------------------------------------------------------
(* Statements of the documentation that the code does not keep.            *)

\* "the Nth output is the result of applying the function to the Nth input
\* value" (map.go:26), also when the context is canceled meanwhile.
NthAlways == \A i \in 1 .. Len(out) : out[i] = i

\* "Callers are free to call Stop from within the callback if short-circuiting
\* is desired" (map.go:31): a worker that is done with an item starts no other.
StopShortCircuits ==
  [][\A w \in Workers : pc[w] = "top" /\ mode # "open" => pc'[w] # "next"]_vars

\* An extra channel is there because "we might block indefinitely while writing
\* to the results channel" (map.go:76-81), and "the sequence will not end until
\* the enclosed stopper has stopped" (map.go:28): once it has, and callbacks and
\* loop body return, nobody is blocked and the sequence ends.
EndsOnceStopped == mode = "hard" ~> main = "done"
=============================================================================
