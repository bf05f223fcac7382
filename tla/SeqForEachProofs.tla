------------------------- MODULE SeqForEachProofs -------------------------
(* What ForEach returns, for every number of workers and items, however    *)
(* stops, cancelations, panics and failing callbacks interfere: every      *)
(* error of a callback, and nil only when all have succeeded.              *)
EXTENDS SeqForEach, TLAPS

Item == 1 .. NumItems

Labels == {"new", "rejected", "top", "next", "select", "call", "failed", "leave", "ended"}

Running == {"top", "next", "select", "call", "failed", "leave"}

\* s knows its tasks, and when it is canceled by itself it is for the reason it
\* was stopped with.
ContextInv ==
  /\ live \subseteq Workers /\ pc \in [Workers -> Labels]
  /\ \A w \in Workers : w \in live <=> pc[w] \in Running
  /\ outcome \in {"none", "stopped", "expired"}
  /\ mode = "hard" <=> outcome # "none"
  /\ outcome = "stopped" => live = {}
  /\ duty # "none" => mode = "hard"
  /\ cause \in {"none", "outer", outcome}
  /\ cause = "outer" => "canceled" \in outer

\* How far the calling goroutine is.
CallInv ==
  /\ main \in {"new", "launch", "wait", "exit", "lock", "done"}
  /\ main \in {"new", "launch"} \/ \A w \in Workers : pc[w] # "new"
  /\ pulled => main = "done"

\* What WaitCtx has found is not outdated later: who is still running after a
\* stop within the grace period?
ReportInv ==
  /\ bad = indexErrs
  /\ Returned /\ "canceled" \notin outer =>
       /\ cause = outcome /\ outcome # "none"
       /\ outcome = "stopped" => ret.items = bad
       /\ outcome = "expired" => "ErrGracePeriodExpired" \in ret.others

StopInv == ContextInv /\ CallInv /\ ReportInv

\* Nobody but the end of the input has kept a worker from an item.
Unhindered == errs = {} /\ ~pulled

WorkInv ==
  /\ item \in [Workers -> 0 .. NumItems] /\ idx \in Nat
  /\ finished \subseteq Item
  /\ \A w \in Workers : pc[w] = "call" => item[w] \in Item
  /\ Unhindered =>
       /\ \A w \in Workers :
            /\ pc[w] \in {"leave", "ended"} => idx >= NumItems
            /\ pc[w] \notin {"rejected", "failed"}
       /\ \A i \in Item : i <= idx =>
            i \in finished \/ \E w \in Workers : pc[w] = "call" /\ item[w] = i

\* What a nil error tells.
Told == Returned /\ ret = nil /\ "canceled" \notin outer => finished = Item

-----------------------------------------------------------------------------
(* Stops.                                                                  *)

\* What the rest of the system does to s, as far as it matters to the call.
Steady ==
  /\ errs \subseteq errs' /\ outer \subseteq outer'
  /\ mode = "hard" => UNCHANGED <<mode, outcome>>
  /\ canceled => cause' = cause

LEMMA SoftStopSteady ==
  ASSUME ContextInv, NEW a, NEW grace, softStop(a, grace)
  PROVE  /\ outcome' \in {"none", "stopped", "expired"}
         /\ mode' = "hard" <=> outcome' # "none"
         /\ outcome' = "stopped" => live = {}
         /\ duty' # "none" => mode' = "hard"
         /\ mode = "hard" => UNCHANGED <<mode, outcome>>
         /\ cause \in {"none", "outer", outcome'}
BY DEF ContextInv, softStop, settle, unsettled

\* A step within the pool leaves what the call reports alone, and while tasks
\* are left, s has not been stopped within the grace period.
LEMMA ReportKept ==
  ASSUME StopInv, ContextInv', Steady, UNCHANGED ret, bad' = indexErrs',
         Returned' => Returned, live = {} => bad' = bad
  PROVE  ReportInv'
BY DEF StopInv, ReportInv, ContextInv, Steady, canceled

LEMMA PoolContext ==
  ASSUME StopInv, PoolStep
  PROVE  ContextInv' /\ Steady
<1> USE DEF StopInv
<1> DEFINE Goal == ContextInv' /\ Steady
<1> HIDE DEF Goal
<1> SUFFICES Goal
  BY DEF Goal
<1>1. ASSUME NEW a, NEW grace, softStop(a, grace), UNCHANGED <<outer, live, cause, errs>>,
             \/ pc' = pc
             \/ \E w \in Workers : pc[w] = "failed" /\ pc' = [pc EXCEPT ![w] = "leave"]
      PROVE  Goal
  <2>1. /\ pc' \in [Workers -> Labels] /\ \A w \in Workers : w \in live <=> pc'[w] \in Running
    BY <1>1 DEF ContextInv, Labels, Running
  <2> QED
    BY <1>1, <2>1, SoftStopSteady DEF Goal, ContextInv, Steady
<1>2. ASSUME UNCHANGED <<mode, outcome, duty, outer, live, cause, pc>>, errs \subseteq errs'
      PROVE  Goal
  BY <1>2 DEF Goal, ContextInv, Steady
<1>3. CASE Cancel
  BY <1>3 DEF Cancel, pool, Goal, ContextInv, Steady, canceled
<1>4. CASE Expire
  BY <1>4 DEF Expire, timeIsUp, settle, pool, Goal, ContextInv, Steady
<1>5. CASE OuterStop
  BY <1>1, <1>5 DEF OuterStop, pool
<1>6. ASSUME NEW e \in OuterEvents, OuterEvent(e) PROVE Goal
  BY <1>6 DEF OuterEvent, pool, Goal, ContextInv, Steady, canceled
<1>7. CASE WithContext("launch")
  BY <1>1, <1>2, <1>7 DEF WithContext, unsettled
<1>8. CASE StopOnIdle("wait")
  BY <1>1, <1>2, <1>8 DEF StopOnIdle, unsettled
<1>9. CASE DeferredStop
  BY <1>1, <1>9 DEF DeferredStop
<1>10. CASE Release
  BY <1>2, <1>10 DEF Release, ctx
<1>11. ASSUME NEW w \in Workers, Go(w) PROVE Goal
  <2>1. /\ UNCHANGED <<mode, outcome, duty, outer, cause>> /\ errs \subseteq errs'
        /\ pc[w] = "new" /\ w \notin live
        /\ \/ mode = "open" /\ live' = live \cup {w} /\ pc' = [pc EXCEPT ![w] = "top"]
           \/ live' = live /\ pc' = [pc EXCEPT ![w] = "rejected"]
    BY <1>11 DEF Go, admits, ContextInv, Running
  <2>2. /\ live' \subseteq Workers /\ pc' \in [Workers -> Labels]
        /\ \A v \in Workers : v \in live' <=> pc'[v] \in Running
    BY <2>1 DEF ContextInv, Running, Labels
  <2> QED
    BY <2>1, <2>2 DEF Goal, ContextInv, Steady
<1>12. ASSUME NEW w \in Workers, Top(w) PROVE Goal
  <2>1. /\ UNCHANGED <<mode, outcome, duty, outer, live, cause>> /\ errs \subseteq errs'
        /\ pc[w] = "top" /\ \E l \in Running : pc' = [pc EXCEPT ![w] = l]
    BY <1>12 DEF Top, goto, fail, Running
  <2>2. pc' \in [Workers -> Labels] /\ \A v \in Workers : v \in live <=> pc'[v] \in Running
    BY <2>1 DEF ContextInv, Running, Labels
  <2> QED
    BY <2>1, <2>2 DEF Goal, ContextInv, Steady
<1>13. ASSUME NEW w \in Workers, HandlerStop(w) PROVE Goal
  BY <1>1, <1>13 DEF HandlerStop, goto
<1>14. ASSUME NEW w \in Workers, Leave(w) PROVE Goal
  <2>1. /\ UNCHANGED <<outer, cause, errs>> /\ w \in live /\ live' = live \ {w}
        /\ pc' = [pc EXCEPT ![w] = "ended"]
    BY <1>14 DEF Leave, goto, ContextInv, Running
  <2>2. /\ live' \subseteq Workers /\ pc' \in [Workers -> Labels]
        /\ \A v \in Workers : v \in live' <=> pc'[v] \in Running
    BY <2>1 DEF ContextInv, Running, Labels
  <2>3. CASE live = {w} /\ mode # "hard" /\ settle(w, "stopped")
    BY <2>1, <2>2, <2>3 DEF Goal, ContextInv, Steady, settle
  <2>4. CASE unsettled
    BY <2>1, <2>2, <2>4 DEF Goal, ContextInv, Steady, unsettled
  <2> QED
    BY <1>14, <2>3, <2>4 DEF Leave, isLast
<1>15. ASSUME NEW w \in Workers, NEW grace \in FnGraces, FnStop(w, grace) PROVE Goal
  BY <1>1, <1>15 DEF FnStop, pool
<1> QED
  BY <1>3, <1>4, <1>5, <1>6, <1>7, <1>8, <1>9, <1>10, <1>11, <1>12, <1>13, <1>14, <1>15
     DEF PoolStep

LEMMA PoolCall ==
  ASSUME StopInv, PoolStep
  PROVE  CallInv' /\ (Returned' => Returned)
<1> USE DEF StopInv
<1>1. CASE \E w \in Workers : Go(w) \/ Top(w) \/ HandlerStop(w) \/ Leave(w)
  <2>1. PICK w \in Workers : Go(w) \/ Top(w) \/ HandlerStop(w) \/ Leave(w)
    BY <1>1
  <2>2. UNCHANGED <<main, pulled>> /\ \E l \in Labels \ {"new"} : pc' = [pc EXCEPT ![w] = l]
    BY <2>1 DEF Go, Top, HandlerStop, Leave, goto, fail, Labels
  <2>3. \A v \in Workers : pc'[v] = "new" => pc[v] = "new"
    BY <2>2 DEF ContextInv
  <2> QED
    BY <2>2, <2>3 DEF CallInv, Returned
<1>2. CASE UNCHANGED <<main, pc, pulled>>
  BY <1>2 DEF CallInv, Returned
<1>3. CASE WithContext("launch") \/ StopOnIdle("wait") \/ DeferredStop \/ Release
  BY <1>3 DEF WithContext, StopOnIdle, DeferredStop, Release, CallInv, Returned
<1> QED
  BY <1>1, <1>2, <1>3 DEF PoolStep, Cancel, Expire, OuterStop, OuterEvent, FnStop, pool

\* A worker's own step: it runs before and after.
LEMMA WorkerStop ==
  ASSUME StopInv, NEW w \in Workers, pc[w] \in Running,
         NEW l \in Running, pc' = [pc EXCEPT ![w] = l],
         UNCHANGED <<outer, mode, outcome, live, cause, duty, main, pulled, ret>>,
         errs \subseteq errs', bad' = indexErrs'
  PROVE  StopInv'
<1> USE DEF StopInv
<1>1. /\ pc' \in [Workers -> Labels] /\ \A v \in Workers : v \in live <=> pc'[v] \in Running
      /\ \A v \in Workers : pc'[v] = "new" => pc[v] = "new"
  BY DEF ContextInv, Running, Labels
<1>2. ContextInv' /\ Steady
  BY <1>1 DEF ContextInv, Steady
<1>3. CallInv' /\ (Returned' => Returned)
  BY <1>1 DEF CallInv, Returned
<1>4. live # {}
  BY DEF ContextInv
<1> QED
  BY <1>2, <1>3, <1>4, ReportKept

LEMMA WaitStop ==
  ASSUME StopInv, WaitCtx
  PROVE  StopInv'
<1> USE DEF StopInv
<1>1. UNCHANGED <<ctx, pc, pulled, bad, indexErrs>> /\ main = "wait" /\ main' = "exit"
  BY DEF WaitCtx
<1>2. ContextInv' /\ CallInv'
  BY <1>1 DEF ctx, ContextInv, CallInv
<1>3. ASSUME "canceled" \notin outer
      PROVE  /\ cause = outcome /\ outcome # "none"
             /\ ret'.items = bad
             /\ outcome = "expired" => "ErrGracePeriodExpired" \in ret'.others
  BY <1>3 DEF WaitCtx, waitErrors, canceled, ContextInv, ReportInv
<1> QED
  BY <1>1, <1>2, <1>3 DEF ctx, ReportInv

LEMMA StepStop ==
  ASSUME StopInv, [Next]_vars
  PROVE  StopInv'
<1>1. CASE PoolStep
  <2>1. UNCHANGED sink
    BY <1>1 DEF PoolStep
  <2> QED
    BY <1>1, <2>1, PoolContext, PoolCall, ReportKept DEF sink, StopInv, ReportInv
<1>2. ASSUME NEW w \in Workers, TakeItem(w) PROVE StopInv'
  <2>1. \E l \in Running : pc' = [pc EXCEPT ![w] = l]
    BY <1>2 DEF TakeItem, next, goto, fail, Running
  <2>2. /\ pc[w] \in Running /\ errs \subseteq errs' /\ bad' = indexErrs'
        /\ UNCHANGED <<outer, mode, outcome, live, cause, duty, main, pulled, ret>>
    BY <1>2 DEF TakeItem, next, fail, sink, Running, StopInv, ReportInv
  <2> QED
    BY <2>1, <2>2, WorkerStop
<1>3. ASSUME NEW w \in Workers, ReturnNil(w) \/ ReturnErr(w) PROVE StopInv'
  <2>1. /\ pc[w] \in Running /\ "top" \in Running /\ pc' = [pc EXCEPT ![w] = "top"]
        /\ bad' = indexErrs'
        /\ UNCHANGED <<outer, mode, outcome, live, cause, duty, errs, main, pulled, ret>>
    BY <1>3 DEF ReturnNil, ReturnErr, addError, goto, ctx, Running, StopInv, ReportInv
  <2> QED
    BY <2>1, WorkerStop
<1>4. CASE WaitCtx
  BY <1>4, WaitStop
<1>5. CASE UNCHANGED vars
  BY <1>5 DEF vars, ctx, pool, sink, StopInv, ContextInv, CallInv, ReportInv, Returned
<1> QED
  BY <1>1, <1>2, <1>3, <1>4, <1>5 DEF Next

LEMMA InitStop == InitForEach => StopInv
<1> SUFFICES ASSUME InitForEach PROVE StopInv
  OBVIOUS
<1> USE DEF InitForEach, Init
<1>1. ContextInv
  BY DEF ContextInv, Labels, Running
<1>2. CallInv /\ ReportInv
  BY DEF CallInv, ReportInv, Returned
<1> QED
  BY <1>1, <1>2 DEF StopInv

THEOREM StopInvariance == Spec => []StopInv
BY InitStop, StepStop, PTL DEF Spec

(* When ForEach returns because s has stopped within the grace period, all *)
(* workers have ended and every error of a callback has been returned,     *)
(* whoever stopped s and whatever fails after WaitCtx has looked.          *)
THEOREM EveryErrorArrives == Spec => []ErrorsArrive
<1>1. StopInv => ErrorsArrive
  <2> SUFFICES ASSUME StopInv, Returned, "canceled" \notin outer, outcome = "stopped"
               PROVE  bad = ret.items /\ \A w \in Workers : pc[w] \in {"ended", "rejected"}
    BY DEF ErrorsArrive
  <2>1. bad = ret.items /\ live = {}
    BY DEF StopInv, ReportInv, ContextInv
  <2>2. \A w \in Workers : pc[w] \in Labels \ Running /\ pc[w] # "new"
    BY <2>1 DEF StopInv, ContextInv, CallInv, Returned
  <2> QED
    BY <2>1, <2>2 DEF Labels, Running
<1> QED
  BY <1>1, StopInvariance, PTL

-----------------------------------------------------------------------------
(* Work.                                                                   *)

\* Where a worker may go while it takes and gives back no item.
Moves(w, l) ==
  /\ pc[w] # "call" /\ l \in Labels \ {"call", "rejected", "failed"}
  /\ l \in {"leave", "ended"} => pc[w] \in {"leave", "ended"}

LEMMA WorkKept ==
  ASSUME ContextInv, WorkInv, UNCHANGED <<item, idx, finished>>,
         errs \subseteq errs', pulled => pulled',
         \/ pc' = pc
         \/ \E w \in Workers : \E l : Moves(w, l) /\ pc' = [pc EXCEPT ![w] = l]
         \/ \E w \in Workers : \E l : /\ pc[w] # "call" /\ l # "call"
                                      /\ errs' # {} /\ pc' = [pc EXCEPT ![w] = l]
  PROVE  WorkInv'
<1>1. \A w \in Workers : pc'[w] = "call" <=> pc[w] = "call"
  BY DEF ContextInv, Moves
<1>2. Unhindered' =>
        /\ Unhindered
        /\ \A w \in Workers :
             /\ pc'[w] \in {"leave", "ended"} => pc[w] \in {"leave", "ended"}
             /\ pc'[w] \in {"rejected", "failed"} => pc'[w] = pc[w]
  BY DEF ContextInv, Moves, Unhindered
<1> QED
  BY <1>1, <1>2 DEF WorkInv

LEMMA PoolWork ==
  ASSUME StopInv, WorkInv, PoolStep
  PROVE  WorkInv'
<1> USE DEF StopInv
<1>1. /\ UNCHANGED <<item, idx, finished>> /\ errs \subseteq errs'
      /\ pulled => pulled'
  <2>1. UNCHANGED <<item, idx, finished>>
    BY DEF PoolStep, sink, Cancel, Expire, OuterStop, OuterEvent, WithContext, StopOnIdle,
           DeferredStop, Release, Go, Top, HandlerStop, Leave, FnStop, pool
  <2>2. pulled => pulled'
    BY DEF PoolStep, Cancel, Expire, OuterStop, OuterEvent, WithContext, StopOnIdle,
           DeferredStop, Release, Go, Top, HandlerStop, Leave, FnStop, pool
  <2>3. errs \subseteq errs'
    BY PoolContext DEF Steady
  <2> QED
    BY <2>1, <2>2, <2>3
<1>2. ASSUME NEW w \in Workers, Go(w) PROVE WorkInv'
  <2>1. \/ Moves(w, "top") /\ pc' = [pc EXCEPT ![w] = "top"]
        \/ errs' # {} /\ pc[w] # "call" /\ pc' = [pc EXCEPT ![w] = "rejected"]
    BY <1>2 DEF Go, Moves, Labels
  <2> QED
    BY <1>1, <2>1, WorkKept
<1>3. ASSUME NEW w \in Workers, Top(w) PROVE WorkInv'
  <2>1. \/ Moves(w, "next") /\ pc' = [pc EXCEPT ![w] = "next"]
        \/ errs' # {} /\ pc[w] # "call" /\ pc' = [pc EXCEPT ![w] = "failed"]
    BY <1>3 DEF Top, goto, fail, Moves, Labels
  <2> QED
    BY <1>1, <2>1, WorkKept
<1>4. ASSUME NEW w \in Workers, HandlerStop(w) PROVE WorkInv'
  <2>1. pc[w] = "failed" /\ pc' = [pc EXCEPT ![w] = "leave"] /\ UNCHANGED <<errs, pulled>>
    BY <1>4 DEF HandlerStop, goto
  <2>2. ~Unhindered
    BY <2>1 DEF WorkInv
  <2>3. ~Unhindered'
    BY <2>1, <2>2 DEF Unhindered
  <2>4. \A v \in Workers : pc'[v] = "call" => pc[v] = "call"
    BY <2>1 DEF ContextInv
  <2> QED
    BY <1>1, <2>3, <2>4 DEF WorkInv
<1>5. ASSUME NEW w \in Workers, Leave(w) PROVE WorkInv'
  <2>1. Moves(w, "ended") /\ pc' = [pc EXCEPT ![w] = "ended"]
    BY <1>5 DEF Leave, goto, Moves, Labels
  <2> QED
    BY <1>1, <2>1, WorkKept
<1>6. CASE pc' = pc
  BY <1>1, <1>6, WorkKept
<1> QED
  BY <1>2, <1>3, <1>4, <1>5, <1>6 DEF PoolStep, Cancel, Expire, OuterStop, OuterEvent,
     WithContext, StopOnIdle, DeferredStop, Release, FnStop, pool

LEMMA TakeItemWork ==
  ASSUME StopInv, WorkInv, NEW w \in Workers, TakeItem(w)
  PROVE  WorkInv'
<1> USE DEF StopInv
<1>1. /\ pc[w] = "next" /\ idx' = idx + 1 /\ idx \in Nat /\ NumItems \in Nat
      /\ finished' = finished /\ pulled' = pulled
      /\ pc \in [Workers -> Labels] /\ item \in [Workers -> 0 .. NumItems]
  BY PoolAssumption DEF TakeItem, next, sink, WorkInv, ContextInv
<1>2. CASE pc' = [pc EXCEPT ![w] = "leave"] /\ UNCHANGED <<item, errs>>
           /\ (idx >= NumItems \/ pulled)
  <2>1. Unhindered' => Unhindered /\ idx >= NumItems
    BY <1>1, <1>2 DEF Unhindered
  <2>2. \A v \in Workers : pc'[v] = "call" <=> pc[v] = "call"
    BY <1>1, <1>2
  <2>3. \A i \in Item : idx >= NumItems => i <= idx
    BY <1>1 DEF Item
  <2> QED
    BY <1>1, <1>2, <2>1, <2>2, <2>3 DEF WorkInv
<1>3. CASE pc' = [pc EXCEPT ![w] = "failed"] /\ item' = item /\ errs' # {}
  <2>1. ~Unhindered'
    BY <1>3 DEF Unhindered
  <2>2. \A v \in Workers : pc'[v] = "call" => pc[v] = "call"
    BY <1>1, <1>3
  <2> QED
    BY <1>1, <1>3, <2>1, <2>2 DEF WorkInv
<1>4. CASE /\ pc' = [pc EXCEPT ![w] = "call"] /\ item' = [item EXCEPT ![w] = idx + 1]
           /\ idx < NumItems /\ errs' = errs
  <2>1. idx + 1 \in Item /\ item'[w] = idx + 1 /\ pc'[w] = "call"
    BY <1>1, <1>4 DEF Item
  <2>2. \A v \in Workers : v # w => item'[v] = item[v] /\ pc'[v] = pc[v]
    BY <1>1, <1>4
  <2>3. item' \in [Workers -> 0 .. NumItems]
    BY <1>1, <1>4, <2>1 DEF Item
  <2>4. ASSUME Unhindered', NEW i \in Item, i <= idx + 1
        PROVE  i \in finished \/ \E v \in Workers : pc'[v] = "call" /\ item'[v] = i
    <3>1. CASE i = idx + 1
      BY <2>1, <3>1
    <3>2. CASE i <= idx
      <4>1. i \in finished \/ \E v \in Workers : pc[v] = "call" /\ item[v] = i
        BY <1>1, <1>4, <2>4, <3>2 DEF WorkInv, Unhindered
      <4> QED
        BY <1>1, <2>2, <4>1
    <3> QED
      BY <1>1, <2>4, <3>1, <3>2 DEF Item
  <2>5. ASSUME Unhindered', NEW v \in Workers
        PROVE  /\ pc'[v] \in {"leave", "ended"} => idx' >= NumItems
               /\ pc'[v] \notin {"rejected", "failed"}
    BY <1>1, <1>4, <2>1, <2>2, <2>5 DEF WorkInv, Unhindered
  <2>6. \A v \in Workers : pc'[v] = "call" => item'[v] \in Item
    BY <2>1, <2>2 DEF WorkInv
  <2> QED
    BY <1>1, <2>3, <2>4, <2>5, <2>6 DEF WorkInv
<1> QED
  BY <1>2, <1>3, <1>4 DEF TakeItem, next, fail, goto

LEMMA ReturnWork ==
  ASSUME StopInv, WorkInv, NEW w \in Workers, ReturnNil(w) \/ ReturnErr(w)
  PROVE  WorkInv'
<1>1. /\ pc[w] = "call" /\ pc' = [pc EXCEPT ![w] = "top"] /\ pc \in [Workers -> Labels]
      /\ finished' = finished \cup {item[w]} /\ item[w] \in Item
      /\ UNCHANGED <<item, idx, errs, pulled>>
  BY DEF ReturnNil, ReturnErr, goto, ctx, WorkInv, StopInv, ContextInv
<1>2. \A v \in Workers : v # w => pc'[v] = pc[v]
  BY <1>1
<1>3. pc'[w] = "top"
  BY <1>1
<1> QED
  BY <1>1, <1>2, <1>3 DEF WorkInv, Unhindered

LEMMA StepWork ==
  ASSUME StopInv, WorkInv, [Next]_vars
  PROVE  WorkInv'
<1>1. CASE WaitCtx
  BY <1>1, WorkKept DEF WaitCtx, ctx, StopInv
<1>2. CASE UNCHANGED vars
  BY <1>2, WorkKept DEF vars, ctx, pool, sink, StopInv
<1> QED
  BY <1>1, <1>2, PoolWork, TakeItemWork, ReturnWork DEF Next

-----------------------------------------------------------------------------
(* What a nil error tells.                                                 *)

\* s has stopped with no error: every worker has left because there were no
\* items left, and nobody holds one.
LEMMA WaitTold ==
  ASSUME Workers # {}, StopInv, WorkInv, WaitCtx
  PROVE  Told'
<1> USE DEF StopInv
<1> SUFFICES ASSUME ret' = nil, "canceled" \notin outer' PROVE finished' = Item
  BY DEF Told
<1>1. UNCHANGED <<ctx, pc, finished>> /\ main = "wait" /\ "canceled" \notin outer
  BY DEF WaitCtx, ctx
<1>2. canceled /\ errs = {} /\ cause # "expired"
  BY <1>1 DEF WaitCtx, nil, waitErrors
<1>3. cause = "stopped" /\ live = {}
  BY <1>1, <1>2 DEF ContextInv, canceled
<1>4. Unhindered
  BY <1>1, <1>2 DEF CallInv, Unhindered
<1>5. \A w \in Workers : pc[w] = "ended"
  <2>1. \A w \in Workers : pc[w] \in Labels \ Running /\ pc[w] \notin {"new", "rejected"}
    BY <1>1, <1>3, <1>4 DEF ContextInv, CallInv, WorkInv
  <2> QED
    BY <2>1 DEF Labels, Running
<1>6. idx >= NumItems /\ idx \in Nat
  BY <1>4, <1>5 DEF WorkInv
<1>7. \A i \in Item : i <= idx
  BY <1>6, PoolAssumption DEF Item
<1>8. Item \subseteq finished /\ finished \subseteq Item
  BY <1>4, <1>5, <1>7 DEF WorkInv
<1> QED
  BY <1>1, <1>8

LEMMA StepTold ==
  ASSUME Workers # {}, StopInv, WorkInv, Told, [Next]_vars
  PROVE  Told'
<1>1. CASE WaitCtx
  BY <1>1, WaitTold
<1>2. ASSUME ret' = ret, finished \subseteq finished', outer \subseteq outer',
             Returned' => Returned
      PROVE  Told'
  <2>1. WorkInv'
    BY StepWork
  <2> QED
    BY <1>2, <2>1 DEF Told, WorkInv, Item
<1>3. CASE PoolStep
  BY <1>2, <1>3, PoolContext, PoolCall DEF PoolStep, sink, Steady
<1>4. CASE \E w \in Workers : TakeItem(w)
  BY <1>2, <1>4 DEF TakeItem, next, sink, Returned
<1>5. CASE \E w \in Workers : ReturnNil(w) \/ ReturnErr(w)
  BY <1>2, <1>5 DEF ReturnNil, ReturnErr, ctx, Returned
<1>6. CASE UNCHANGED vars
  BY <1>2, <1>6 DEF vars, ctx, pool, sink, Returned
<1> QED
  BY <1>1, <1>3, <1>4, <1>5, <1>6 DEF Next

LEMMA InitWork == InitForEach => WorkInv /\ Told
<1> SUFFICES ASSUME InitForEach PROVE WorkInv /\ Told
  OBVIOUS
<1> USE DEF InitForEach, Init
<1>1. WorkInv
  BY PoolAssumption DEF WorkInv, Item
<1>2. Told
  BY DEF Told, Returned
<1> QED
  BY <1>1, <1>2

(* A nil error means that the callback has succeeded for every item, unless *)
(* the context was canceled from outside. With no worker at all ForEach     *)
(* returns nil at once, and no callback is ever called.                     *)
THEOREM NilMeansAllDone == Workers # {} => (Spec => []NilIsComplete)
<1> SUFFICES ASSUME Workers # {} PROVE Spec => []NilIsComplete
  OBVIOUS
<1>1. InitForEach => StopInv /\ WorkInv /\ Told
  BY InitStop, InitWork
<1>2. StopInv /\ WorkInv /\ Told /\ [Next]_vars => StopInv' /\ WorkInv' /\ Told'
  BY StepStop, StepWork, StepTold
<1>3. StopInv /\ Told => NilIsComplete
  <2> SUFFICES ASSUME StopInv, Told, Returned, ret = nil, "canceled" \notin outer
               PROVE  finished = 1 .. NumItems /\ bad = {}
    BY DEF NilIsComplete
  <2>1. finished = 1 .. NumItems
    BY DEF Told, Item
  <2>2. ret.items = {} /\ ret.others = {}
    BY DEF nil
  <2>3. outcome = "stopped"
    BY <2>2 DEF StopInv, ReportInv, ContextInv
  <2> QED
    BY <2>1, <2>2, <2>3 DEF StopInv, ReportInv
<1> QED
  BY <1>1, <1>2, <1>3, PTL DEF Spec
=============================================================================
