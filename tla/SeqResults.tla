----------------------------- MODULE SeqResults -----------------------------
(* What Map and MapUnordered (seq/map.go) add to the pool: the results     *)
(* channel, closed by a deferred callback of s, and the consumer of the    *)
(* returned sequence, whose loop body is the yield function.               *)
EXTENDS SeqPool

CONSTANT Yields  \* what the loop body may do: "more", "break" or "panic"

ASSUME YieldsAssumption == Yields \subseteq {"more", "break", "panic"}

VARIABLES
  results,  \* the items whose results (or result channels) are in the channel
  closed,   \* results is closed
  out,      \* the items that were yielded, in order
  ending,   \* how yieldOrdered or yieldUnordered ended: "no" (not yet),
            \* "drained", "break" or "panic"
  final     \* the errors joined in the extra element

sink == <<results, closed, out, ending, final>>

InitResults ==
  /\ Init
  /\ results = <<>> /\ closed = FALSE
  /\ out = <<>> /\ ending = "no" /\ final = {}

\* make(chan, numWorkers)
hasRoom == Len(results) < Cardinality(Workers)

\* Mutant: yieldOrdered's result is not looked at.
earlyBreakForgotten == FALSE

\* earlyBreak is closed.
earlyBreak == ending = "break"

\* s.Defer: a context that has already stopped runs the callback at once.
Defer ==
  /\ main = "defer" /\ ~busy("main") /\ main' = "launch"
  /\ \/ mode = "hard" /\ closed' = TRUE /\ UNCHANGED deferred
     \/ mode # "hard" /\ deferred' = TRUE /\ UNCHANGED closed
  /\ UNCHANGED <<outer, mode, outcome, onIdle, live, cause, errs, duty, by>>
  /\ UNCHANGED <<pc, item, idx, nextMu, pulled, results, out, ending, final>>

\* The deferred callback: close(results).
Close ==
  /\ duty = "close" /\ duty' = "cancel"
  /\ closed' = TRUE
  /\ UNCHANGED <<outer, mode, outcome, onIdle, live, cause, errs, deferred, by>>
  /\ UNCHANGED <<pool, results, out, ending, final>>

\* yield(result): the loop body sees the item i.
Yield(i) ==
  /\ out' = Append(out, i)
  /\ \/ "more" \in Yields /\ main' = "consume" /\ UNCHANGED ending
     \/ \E e \in Yields \ {"more"} : main' = "exit" /\ ending' = e

\* for ... range results: the channel is closed and empty.
Drained ==
  /\ main = "consume" /\ ~busy("main") /\ results = <<>> /\ closed
  /\ main' = "wait" /\ ending' = "drained"
  /\ UNCHANGED <<ctx, pc, item, idx, nextMu, pulled, results, closed, out, final>>

Wait ==
  /\ main = "wait" /\ canceled
  /\ final' = waitErrors
  /\ main' = "exit"
  /\ UNCHANGED <<ctx, pc, item, idx, nextMu, pulled, results, closed, out, ending>>

\* The steps of the pool that leave the results alone.
PoolStep ==
  /\ \/ Cancel \/ Expire \/ OuterStop
     \/ \E e \in OuterEvents : OuterEvent(e)
     \/ WithContext("defer") \/ StopOnIdle("consume")
     \/ DeferredStop \/ Release
     \/ \E w \in Workers : Go(w) \/ Top(w) \/ HandlerStop(w) \/ Leave(w)
     \/ \E w \in Workers, grace \in FnGraces : FnStop(w, grace)
  /\ UNCHANGED sink

-----------------------------------------------------------------------------

ResultsTypeOK ==
  /\ PoolTypeOK
  /\ results \in Seq(1 .. NumItems) /\ Len(results) <= Cardinality(Workers)
  /\ out \in Seq(1 .. NumItems)
  /\ closed \in BOOLEAN
  /\ ending \in {"no", "drained", "break", "panic"}
  /\ final \subseteq {"ErrStopped", "Canceled", "panic", "closed",
                      "ErrGracePeriodExpired"}

\* The results channel is closed under a running worker only when the grace
\* period is over: otherwise a worker's send would panic (map.go:58, 88, 274).
ClosedUnderNoWorker == closed => live = {} \/ outcome = "expired"

\* Items are lost only if the consumer is told so: a sequence that ends by
\* itself, with no error, has yielded every item (map.go:33). The exception
\* is a context that was canceled from the outside, whose workers may leave
\* with a nil error after they dropped an item (map.go:91).
CompleteOrError ==
  main = "done" /\ ending = "drained" /\ final = {} /\ cause # "outer" =>
    {out[i] : i \in 1 .. Len(out)} = 1 .. NumItems
=============================================================================
