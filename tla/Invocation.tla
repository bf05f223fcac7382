----------------------------- MODULE Invocation -----------------------------
(***************************************************************************)
(* One task from Go or Call to Apply(-1): Context.taskInvoker              *)
(* (stopper.go), with the middleware that the library brings:              *)
(*  "record"  linger.Recorder: an entry from setup to the end of the task; *)
(*  "limit"   limit.WithMaxConcurrency: a slot of a channel, taken in the  *)
(*            setup phase and given back when its Invoker returns;         *)
(*  "rate"    limit.WithMaxRate: a token of a rate.Limiter, taken in the    *)
(*            setup phase. Tokens come when they come, or never;           *)
(*  "retry"   retry.Middleware with the classifiers of Loop and Backoff;   *)
(*  "custom"  a Middleware of the program, whose setup phase may panic.    *)
(*                                                                         *)
(* The setup phases run in the order of Chain in the goroutine that calls  *)
(* Go or Call. The Invokers they return are then called as a chain, the    *)
(* first outermost, around the task. One instance of each middleware is    *)
(* shared by all tasks of one Context.                                     *)
(***************************************************************************)
EXTENDS Naturals, FiniteSets, Sequences

CONSTANTS
  Tasks,
  Chain,        \* the middleware of every task, in declaration order
  Limit,        \* the argument of WithMaxConcurrency
  MaxAttempts   \* MaxAttempts of the retry classifier

ASSUME InvocationAssumption ==
  /\ Chain \in Seq({"record", "limit", "rate", "retry", "custom"})
  /\ Limit \in Nat \ {0} /\ MaxAttempts \in Nat \ {0}
  /\ IsFiniteSet(Tasks)

VARIABLES
  \* The Context: its phase, whether it is canceled, and its tasks.
  mode, canceled, live,
  \* What the middleware and the TaskGroup share between tasks.
  slots,      \* values in WithMaxConcurrency's channel
  recorded,   \* tasks with an entry in the Recorder
  infos,      \* tasks with a TaskInfo in the TaskGroup
  \* Each task.
  stage,      \* what it is doing
  at,         \* at which position of Chain; past the end is the task itself
  inv,        \* the kind of Invoker each position returned
  tries,      \* attempts of the task that have failed
  runs,       \* the times the task function was called
  res,        \* result on the way out of the chain: "ok", "error" or "panic"
  outcome,    \* TaskInfo.Error: "none" while it is nil
  closed      \* TaskInfo.Done is closed

ctx    == <<mode, canceled, live>>
shared == <<slots, recorded, infos>>
task   == <<stage, at, inv, tries, runs, res, outcome, closed>>
vars   == <<ctx, shared, task>>

Init ==
  /\ mode = "open" /\ canceled = FALSE /\ live = {}
  /\ slots = 0 /\ recorded = {} /\ infos = {}
  /\ stage = [t \in Tasks |-> "idle"]
  /\ at = [t \in Tasks |-> 0]
  /\ inv = [t \in Tasks |-> [k \in 1 .. Len(Chain) |-> "none"]]
  /\ tries = [t \in Tasks |-> 0]
  /\ runs = [t \in Tasks |-> 0]
  /\ res = [t \in Tasks |-> "ok"]
  /\ outcome = [t \in Tasks |-> "none"]
  /\ closed = [t \in Tasks |-> FALSE]

stopping == mode # "open"

-----------------------------------------------------------------------------
(* The Context, as Lifecycle has it.                                       *)

Stop ==
  /\ mode = "open"
  /\ \/ live # {} /\ mode' = "soft" /\ UNCHANGED canceled
     \/ live = {} /\ mode' = "hard" /\ canceled' = TRUE

\* Somebody stops the Context.
CallStop == Stop /\ UNCHANGED <<live, shared, task>>

\* The grace period is over.
Expire ==
  /\ mode = "soft" /\ mode' = "hard" /\ canceled' = TRUE
  /\ UNCHANGED <<live, shared, task>>

\* The parent context is canceled; AfterFunc's stop is CallStop.
CancelParent ==
  /\ ~canceled /\ canceled' = TRUE
  /\ UNCHANGED <<mode, live, shared, task>>

-----------------------------------------------------------------------------
(* Setup, in the goroutine that called Go or Call.                         *)

goto(t, s, k) ==
  /\ stage' = [stage EXCEPT ![t] = s]
  /\ at' = [at EXCEPT ![t] = k]

Middleware(t) == Chain[at[t]]

\* The Invoker of this position is known; on to the next one.
return(t, i) ==
  /\ inv' = [inv EXCEPT ![t][at[t]] = i]
  /\ goto(t, "setup", at[t] + 1)

Start(t) ==
  /\ stage[t] = "idle"
  /\ \/ /\ mode = "open"
        /\ live' = live \cup {t} /\ infos' = infos \cup {t}
        /\ goto(t, "setup", 1)
     \/ /\ mode # "open"
        /\ goto(t, "rejected", 0)
        /\ UNCHANGED <<live, infos>>
  /\ UNCHANGED <<mode, canceled, slots, recorded>>
  /\ UNCHANGED <<inv, tries, runs, res, outcome, closed>>

\* Mutant: the channel holds one more than the limit.
hasSlotMore == slots <= Limit

hasSlot == slots < Limit

\* The fast paths take a slot or a token when there is one.
Setup(t) ==
  /\ stage[t] = "setup" /\ at[t] <= Len(Chain)
  /\ \/ /\ Middleware(t) = "record"
        /\ recorded' = recorded \cup {t}
        /\ return(t, "record") /\ UNCHANGED slots
     \/ /\ Middleware(t) = "retry"
        /\ return(t, "retry") /\ UNCHANGED <<slots, recorded>>
     \/ /\ Middleware(t) \in {"rate", "custom"}
        /\ return(t, "call") /\ UNCHANGED <<slots, recorded>>
     \/ /\ Middleware(t) = "rate"
        /\ goto(t, "throttled", at[t]) /\ UNCHANGED <<inv, slots, recorded>>
     \/ /\ Middleware(t) = "limit" /\ hasSlot
        /\ slots' = slots + 1
        /\ return(t, "slot") /\ UNCHANGED recorded
     \/ /\ Middleware(t) = "limit" /\ ~hasSlot
        /\ goto(t, "blocked", at[t]) /\ UNCHANGED <<inv, slots, recorded>>
  /\ UNCHANGED <<ctx, infos, tries, runs, res, outcome, closed>>

\* Mutant: the select has a default case.
dropsAtOnce == TRUE

drops == stopping

\* The second select of WithMaxConcurrency: any case that is ready.
Blocked(t) ==
  /\ stage[t] = "blocked"
  /\ \/ hasSlot /\ slots' = slots + 1 /\ return(t, "slot")
     \/ drops /\ return(t, "drop") /\ UNCHANGED slots
     \/ canceled /\ return(t, "err") /\ UNCHANGED slots
  /\ UNCHANGED <<ctx, recorded, infos, tries, runs, res, outcome, closed>>

\* A token came, or the limiter can give none: its burst is too small, or the
\* deadline of the Context too near.
Token(t) ==
  /\ stage[t] = "throttled"
  /\ return(t, "call") \/ return(t, "err")
  /\ UNCHANGED <<ctx, shared, tries, runs, res, outcome, closed>>

\* l.Wait(outer.StoppingContext()) hears of a stop, not of a cancelation.
GiveUp(t) ==
  /\ stage[t] = "throttled" /\ stopping
  /\ return(t, "drop")
  /\ UNCHANGED <<ctx, shared, tries, runs, res, outcome, closed>>

\* The panic leaves taskInvoker. Go has no deferred call yet: its Apply(1) is
\* never taken back. Call's Apply(-1) is deferred already. Neither gives back
\* what the middleware before this one took, nor the TaskInfo.
SetupPanics(t) ==
  /\ stage[t] = "setup" /\ at[t] <= Len(Chain) /\ Middleware(t) = "custom"
  /\ goto(t, "abandoned", at[t])
  /\ UNCHANGED live \/ live' = live \ {t}
  /\ mode' = IF mode = "soft" /\ live' = {} THEN "hard" ELSE mode
  /\ canceled' = (canceled \/ mode' = "hard")
  /\ UNCHANGED <<shared, inv, tries, runs, res, outcome, closed>>

\* The chain is built and called, by Go in a goroutine of its own.
Invoke(t) ==
  /\ stage[t] = "setup" /\ at[t] > Len(Chain)
  /\ goto(t, "call", 1)
  /\ UNCHANGED <<ctx, shared, inv, tries, runs, res, outcome, closed>>

-----------------------------------------------------------------------------
(* The chain of Invokers, from the outermost in and back out.              *)

\* The call reaches position at[t].
Call(t) ==
  /\ stage[t] = "call" /\ at[t] <= Len(Chain)
  /\ \/ /\ inv[t][at[t]] \in {"record", "slot", "retry", "call"}
        /\ goto(t, "call", at[t] + 1) /\ UNCHANGED res
     \/ /\ inv[t][at[t]] = "drop"
        /\ goto(t, "return", at[t] - 1) /\ res' = [res EXCEPT ![t] = "ok"]
     \/ /\ inv[t][at[t]] = "err"
        /\ goto(t, "return", at[t] - 1) /\ res' = [res EXCEPT ![t] = "error"]
  /\ UNCHANGED <<ctx, shared, inv, tries, runs, outcome, closed>>

\* The task function starts ...
Run(t) ==
  /\ stage[t] = "call" /\ at[t] > Len(Chain)
  /\ goto(t, "run", at[t])
  /\ runs' = [runs EXCEPT ![t] = @ + 1]
  /\ UNCHANGED <<ctx, shared, inv, tries, res, outcome, closed>>

\* ... and ends.
RunEnds(t) ==
  /\ stage[t] = "run"
  /\ \E r \in {"ok", "error", "panic"} : res' = [res EXCEPT ![t] = r]
  /\ goto(t, "return", at[t] - 1)
  /\ UNCHANGED <<ctx, shared, inv, tries, runs, outcome, closed>>

returning(t, i) == stage[t] = "return" /\ at[t] > 0 /\ inv[t][at[t]] = i

\* The deferred r.data.Delete
Unrecord(t) ==
  /\ returning(t, "record")
  /\ recorded' = recorded \ {t}
  /\ goto(t, "return", at[t] - 1)
  /\ UNCHANGED <<ctx, slots, infos, inv, tries, runs, res, outcome, closed>>

\* Invokers that have nothing to undo.
Pass(t) ==
  /\ returning(t, "call")
  /\ goto(t, "return", at[t] - 1)
  /\ UNCHANGED <<ctx, shared, inv, tries, runs, res, outcome, closed>>

\* Mutant: a panic skips the receive.
returnsSlotUnlessPanic(t) == slots' = IF res[t] = "panic" THEN slots ELSE slots - 1

returnsSlot(t) == slots' = slots - 1

\* The deferred <-ch, which blocks when the channel is empty.
ReturnSlot(t) ==
  /\ returning(t, "slot") /\ slots > 0
  /\ returnsSlot(t)
  /\ goto(t, "return", at[t] - 1)
  /\ UNCHANGED <<ctx, recorded, infos, inv, tries, runs, res, outcome, closed>>

\* The loop of retry.Middleware looks at the attempt. A panic passes through.
\* The classifier may fail the task, swallow the error, or ask for a retry.
Classify(t) ==
  /\ returning(t, "retry")
  /\ \/ /\ res[t] # "error"
        /\ goto(t, "return", at[t] - 1)
        /\ UNCHANGED <<tries, res>>
     \/ /\ res[t] = "error"
        /\ goto(t, "return", at[t] - 1)
        /\ res' \in {res, [res EXCEPT ![t] = "ok"]}
        /\ UNCHANGED tries
     \/ /\ res[t] = "error" /\ tries[t] + 1 < MaxAttempts
        /\ tries' = [tries EXCEPT ![t] = @ + 1]
        /\ goto(t, "wait", at[t]) /\ UNCHANGED res
  /\ UNCHANGED <<ctx, shared, inv, runs, outcome, closed>>

\* Mutant: the stop is not waited for.
retryWaitsOn == FALSE

retryCutShort == stopping \/ canceled

\* waitOnChannel: the classifier's channel, or a stop.
WaitSignal(t) ==
  /\ stage[t] = "wait"
  /\ goto(t, "call", at[t] + 1)
  /\ UNCHANGED <<ctx, shared, inv, tries, runs, res, outcome, closed>>

WaitStopped(t) ==
  /\ stage[t] = "wait" /\ retryCutShort
  /\ goto(t, "return", at[t] - 1)
  /\ UNCHANGED <<ctx, shared, inv, tries, runs, res, outcome, closed>>

-----------------------------------------------------------------------------
(* The end of taskInvoker's function, and Apply(-1).                       *)

next(t, s) == goto(t, s, 0)

Outcome(t) ==
  /\ stage[t] = "return" /\ at[t] = 0
  /\ outcome' = [outcome EXCEPT ![t] = res[t]]
  /\ next(t, "handle")
  /\ UNCHANGED <<ctx, shared, inv, tries, runs, res, closed>>

\* Go hands an error to the ErrorHandler, the default one stops the Context;
\* Call returns it.
Handle(t) ==
  /\ stage[t] = "handle" /\ next(t, "close")
  /\ \/ res[t] # "ok" /\ Stop
     \/ UNCHANGED <<mode, canceled>>
  /\ UNCHANGED <<live, shared, inv, tries, runs, res, outcome, closed>>

\* Deferred functions run last to first: close(taskDone) ...
CloseDone(t) ==
  /\ stage[t] = "close" /\ next(t, "delete")
  /\ closed' = [closed EXCEPT ![t] = TRUE]
  /\ UNCHANGED <<ctx, shared, inv, tries, runs, res, outcome>>

\* Mutant: Apply(-1) comes before the TaskInfo is dropped.
keepsInfo(t) == infos' = infos

dropsInfo(t) == infos' = infos \ {t}

\* ... then taskGroup.tasks.Delete ...
DeleteInfo(t) ==
  /\ stage[t] = "delete" /\ next(t, "apply")
  /\ dropsInfo(t)
  /\ UNCHANGED <<ctx, slots, recorded, inv, tries, runs, res, outcome, closed>>

\* ... and then Apply(-1), deferred by Go or Call.
Leave(t) ==
  /\ stage[t] = "apply" /\ next(t, "ended")
  /\ live' = live \ {t}
  /\ \/ mode = "soft" /\ live = {t} /\ mode' = "hard" /\ canceled' = TRUE
     \/ (mode # "soft" \/ live # {t}) /\ UNCHANGED <<mode, canceled>>
  /\ UNCHANGED <<shared, inv, tries, runs, res, outcome, closed>>

-----------------------------------------------------------------------------

\* The steps of a task that do not depend on the task function.
Step(t) ==
  \/ Setup(t) \/ Blocked(t) \/ GiveUp(t) \/ Invoke(t) \/ Call(t) \/ Run(t)
  \/ Pass(t) \/ Unrecord(t) \/ ReturnSlot(t) \/ Classify(t) \/ WaitStopped(t)
  \/ Outcome(t) \/ Handle(t) \/ CloseDone(t) \/ DeleteInfo(t) \/ Leave(t)

Next ==
  \/ CallStop \/ Expire \/ CancelParent
  \/ \E t \in Tasks : Start(t)
  \/ \E t \in Tasks : Step(t)
  \/ \E t \in Tasks : RunEnds(t)
  \/ \E t \in Tasks : WaitSignal(t)
  \/ \E t \in Tasks : Token(t)
  \/ \E t \in Tasks : SetupPanics(t)

Spec == Init /\ [][Next]_vars

(* Goroutines go on and task functions return. The classifier's channel    *)
(* may stay silent, tokens may not come, and nobody has to stop the Context.*)
FairSpec ==
  Spec /\ \A t \in Tasks : WF_vars(Step(t)) /\ WF_vars(RunEnds(t))

-----------------------------------------------------------------------------

After == {"handle", "close", "delete", "apply", "ended"}

\* Task t has a slot of WithMaxConcurrency, or should have: its Invoker has not
\* returned for good. An abandoned task has it forever.
HoldsAt(t, k) ==
  inv[t][k] = "slot" /\ stage[t] \notin After /\ (stage[t] = "return" => at[t] >= k)

Holds(t) == \E k \in 1 .. Len(Chain) : HoldsAt(t, k)

Stages == {"idle", "rejected", "setup", "blocked", "throttled", "abandoned",
           "call", "run", "return", "wait"} \cup After

TypeOK ==
  /\ mode \in {"open", "soft", "hard"} /\ canceled \in BOOLEAN
  /\ live \subseteq Tasks /\ recorded \subseteq Tasks /\ infos \subseteq Tasks
  /\ slots \in 0 .. Limit
  /\ stage \in [Tasks -> Stages]
  /\ at \in [Tasks -> 0 .. Len(Chain) + 1]
  /\ inv \in [Tasks -> [1 .. Len(Chain) ->
                 {"none", "record", "retry", "slot", "call", "drop", "err"}]]
  /\ tries \in [Tasks -> 0 .. MaxAttempts - 1]
  /\ runs \in [Tasks -> 0 .. MaxAttempts]
  /\ res \in [Tasks -> {"ok", "error", "panic"}]
  /\ outcome \in [Tasks -> {"none", "ok", "error", "panic"}]
  /\ closed \in [Tasks -> BOOLEAN]

\* WithMaxConcurrency "limits the total number of goroutines executing a task"
\* (limit.go:19).
ConcurrencyBound == Cardinality({t \in Tasks : stage[t] = "run"}) <= Limit

\* No slot is lost or given back twice, by an error, a panic or a discarded
\* task: the channel holds one value for every task that has a slot.
SlotsMatch == slots = Cardinality({t \in Tasks : Holds(t)})

\* The Recorder and the TaskGroup know only tasks that the Context waits for
\* (linger.go:37): once Wait has returned nothing is reported as lingering, but
\* for calls of Go and Call that a Middleware made panic.
TracksLive ==
  recorded \cup infos \subseteq live \cup {t \in Tasks : stage[t] = "abandoned"}

\* A task is discarded only when its Context is stopped or canceled
\* (limit.go:21, limit.go:60): otherwise its function has been called, or the
\* limiter's error is its outcome, and an observer who sees Done closed also
\* sees the outcome (task_info.go:150).
NoSilentDrop ==
  \A t \in Tasks : closed[t] =>
    /\ outcome[t] # "none"
    /\ runs[t] = 0 => stopping \/ canceled \/ outcome[t] = "error"

\* A stop drains the Context: callers that wait for a slot or a token and tasks
\* that wait for a retry give up, whether or not anything else ever happens. Only
\* a call of Go that panicked in its setup phase holds up the clean exit.
StopDrains == stopping ~> \A t \in live : stage[t] = "abandoned"

-----------------------------------------------------------------------------
(* Why these hold: what is known of each task at each stage.               *)

\* Chains in which no middleware that can discard a task, or call it twice, is
\* declared before WithMaxConcurrency,
LimitIsSafe ==
  \A j, k \in 1 .. Len(Chain) :
    Chain[j] = "limit" /\ Chain[k] \in {"limit", "rate", "retry"} /\ j # k => j < k

\* none that can discard a task is declared before a Recorder,
RecorderIsSafe ==
  \A j, k \in 1 .. Len(Chain) :
    Chain[j] = "record" /\ Chain[k] \in {"limit", "rate"} => j < k

\* and no classifier can swallow the error of WithMaxRate.
RateIsSafe ==
  \A j, k \in 1 .. Len(Chain) : Chain[j] = "rate" /\ Chain[k] = "retry" => j < k

\* The Invokers that a middleware returns.
Kinds(m) ==
  CASE m = "record" -> {"record"}
    [] m = "limit"  -> {"slot", "drop", "err"}
    [] m = "rate"   -> {"call", "drop", "err"}
    [] m = "retry"  -> {"retry"}
    [] m = "custom" -> {"call"}

InSetup == {"setup", "blocked", "throttled"}
InChain == {"call", "run", "return", "wait"}

\* Where in the chain the task is.
Positioned(t) ==
  /\ stage[t] = "blocked" => at[t] \in 1 .. Len(Chain) /\ Chain[at[t]] = "limit"
  /\ stage[t] = "throttled" => at[t] \in 1 .. Len(Chain) /\ Chain[at[t]] = "rate"
  /\ stage[t] \in {"setup", "call"} => at[t] # 0
  /\ stage[t] = "run" => at[t] = Len(Chain) + 1
  /\ stage[t] = "return" => at[t] # Len(Chain) + 1
  /\ stage[t] = "wait" => at[t] \in 1 .. Len(Chain) /\ inv[t][at[t]] = "retry"

\* Which Invokers there are, and which of them have called on.
Built(t) ==
  \A k \in 1 .. Len(Chain) :
    /\ inv[t][k] \in Kinds(Chain[k]) \cup {"none"}
    /\ stage[t] \in {"idle", "rejected"} => inv[t][k] = "none"
    /\ stage[t] \in InSetup /\ k >= at[t] => inv[t][k] = "none"
    /\ stage[t] \in {"call", "run"} /\ k < at[t] => inv[t][k] \notin {"none", "drop", "err"}
    /\ stage[t] \in {"return", "wait"} /\ k <= at[t] =>
         inv[t][k] \notin {"none", "drop", "err"}

\* Apply(1) and the TaskInfo.
Counted(t) ==
  /\ stage[t] \in InSetup \cup InChain \cup (After \ {"ended"}) => t \in live
  /\ t \in infos =>
       stage[t] \in InSetup \cup InChain \cup {"abandoned", "handle", "close", "delete"}

\* Every attempt after the first one was asked for.
Attempted(t) ==
  /\ stage[t] = "run" => runs[t] # 0
  /\ runs[t] <= tries[t] + 1
  /\ stage[t] \notin {"run", "return"} \cup After => runs[t] <= tries[t]

\* Only a stop makes an Invoker that drops a task, and only a cancelation one that
\* fails it for WithMaxConcurrency: what a task that was not run has come to.
Excused(t) ==
  /\ \A k \in 1 .. Len(Chain) :
       /\ inv[t][k] = "drop" => stopping
       /\ inv[t][k] = "err" /\ Chain[k] = "limit" => canceled
  /\ stage[t] = "return" /\ runs[t] = 0 =>
       \/ stopping \/ canceled
       \/ res[t] = "error" /\ \E k \in 1 .. Len(Chain) : k > at[t] /\ Chain[k] = "rate"
  /\ stage[t] \in After /\ runs[t] = 0 => stopping \/ canceled \/ res[t] = "error"
  /\ stage[t] \in After => outcome[t] = res[t]
  /\ closed[t] => stage[t] \in After

\* An entry is deleted on the way out.
Entered(t) ==
  t \in recorded =>
    /\ stage[t] \notin After
    /\ \E k \in 1 .. Len(Chain) :
         inv[t][k] = "record" /\ (stage[t] \in {"return", "wait"} => k <= at[t])

TaskInv(t) ==
  /\ Positioned(t) /\ Built(t) /\ Counted(t) /\ Attempted(t)
  /\ RecorderIsSafe => Entered(t)
  /\ RateIsSafe => Excused(t)

\* The inductive invariant.
IInv ==
  /\ TypeOK
  /\ \A t \in Tasks : TaskInv(t)
  /\ LimitIsSafe => SlotsMatch
=============================================================================
