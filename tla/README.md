# A formal model of stopper

`stopper` adds to Go's `context.Context` a tree of managed tasks with a
two-phase shutdown: *soft stop* (the `Stopping` channel closes, no new task is
admitted, running ones may drain) and *hard stop* (the context is canceled, when
the last task has ended or the grace period is over). This directory holds TLA+
models of it, the TLC configurations that check them, and TLAPS proofs.

## 1. The system

### Components

| Component | State it keeps | Operations | Hard part | Correct when |
|---|---|---|---|---|
| `internal/state` `State` | per context: `count`, `stopping`, `stopOnIdle`, `deferred`, `stopHooks`, `cancel` (one-shot), grace timer and deadline, `errs` | `New`, `Apply(+1/-1)`, `Stop`, `StopOnIdle`, `AddDeferred`, `AddStopHook`, `AddErrors`, timer | one mutex per level, unlocked steps between levels, callbacks run after the unlock by whoever caused the stop | counts are exact, a clean stop has waited for every admitted task, the hard stop happens once, deferred callbacks run LIFO before the cancel, stops reach every descendant and complete |
| `stopper.go` (`impl`) | a `State`, a delegate `context.Context` | `New`/`WithContext`, `Call`, `Go`, `Stop`, `Defer`, `Wait`/`WaitCtx`, `WithDelegate` | context cancellation, stop hooks and `context.AfterFunc` all lead to `Stop`; the task's middleware, panics and error handler | a task's error reaches its caller or the handler exactly once, `Wait` does not return early |
| `options.go` | `config` of a context, inherited and merged, with a slice of middleware | `Clone`, `Merge`, `Sanitize`, option functions, error handlers | which of parent, child, task wins; slices that share an array | a child inherits what it does not set, and nobody's settings change when a relative is configured |
| `task_info.go` | the `TaskGroup` tree and the set of running tasks | `Tasks`, `TaskGroup` snapshots, fed by `taskInvoker` and `newContext` | sampled while tasks start and end, and while contexts come and go | a listed task is running or about to; an awaited task is listed; a stopped tree empties |
| `adapt.go`, `signal.go`, `stopping_ctx.go`, `doc.go` | none | signature adapters, `StopOnReceive`, soft-stop view of a context | | |
| `internal/safe` | none | call a function, turn panics into errors | error and panic together | |
| `seq` | per call: shared iterator under `nextMu`, results channel, early-break channel, a nested context | `ForEach`, `Map`, `MapUnordered` and pairwise versions | a consumer that breaks early, a grace period that expires, a panic in the source, a parent that stops half-way through start-up | outputs in input order, each once; no worker blocks forever |
| `limit` | a channel of slots, a rate limiter | `WithMaxConcurrency`, `WithMaxRate` middleware | slots are taken in the setup phase and released in the invocation phase | never more than `limit` tasks, slots come back |
| `retry` | per task: classifier state | `Middleware`, `Loop`, `Backoff` | wait for retry, soft stop and hard stop race | attempts bounded, no attempt after a stop is seen |
| `linger` | set of running tasks' stacks | `Recorder.Middleware`, `Callers` | entry added in setup, removed by invocation | a listed task has not ended |
| `compat` | wrapper over the above with the v1 interface: per handle a v2 context, a slice of `Invoker`s and a flag | `Background`, `From`, `With`, `WithContext`, `WithInvoker`, `Go`, `Call`, `Stop`, `StopOnReceive` | several handles to one context, slices that share an array, two meanings of a zero grace period | a task runs through the `Invoker`s of its lineage; `Stop` spares the background context; zero waits |
| `internal/tctx` | none | test helper | | |

### How they interact

`impl` calls `State` for everything that has to do with lifecycle. Each `State`
knows its parent: `Apply` on a child first applies the delta to the ancestors,
so a count includes the tasks of descendants. A parent knows its children only
through the stop hooks they register with `AddStopHook`; a child that is
canceled first removes its hook. The hard stop of a `State` calls the cancel
function that `newContext` passed to `New`: it unregisters from the parent and
cancels the `context.Context`, which cancels the contexts derived from it, and
their `context.AfterFunc` goroutines call `Stop` on those. `seq`, `limit`,
`retry` and `linger` use only the public interface: contexts, `Go`, `Call`,
`Defer`, and middleware, which runs in two phases (setup, by the goroutine that
calls `Go` or `Call`; invocation, with the task).

## 2. Modules

| Module | What it is |
|---|---|
| `Hierarchy` | the tree of `State`s and the tasks started on it (constants and operators) |
| `State` | `internal/state` and the parts of `newContext` it calls: one action per critical section or callback step |
| `StateProps` | what is claimed of it: invariants, action properties, liveness, refinement; and five sentences of the comments that the code does not keep |
| `Lifecycle` | the abstract specification of a hierarchy: phases and the tasks each context waits for |
| `StateProofs` | TLAPS theorems about `State` |
| `SeqPool` | what the functions of `seq` share: a nested context, its workers, the calling goroutine |
| `SeqResults` | what the two `Map`s add: the results channel, the consumer |
| `SeqMap`, `SeqUnordered`, `SeqForEach` | `Map`, `MapUnordered` and `ForEach`, with their pairwise versions |
| `SeqMapProofs`, `SeqUnorderedProofs`, `SeqForEachProofs` | TLAPS theorems about each of them and the pool |
| `Invocation` | one task from `Go` or `Call` to `Apply(-1)`: `taskInvoker` and the middleware of `linger`, `limit`, `retry` |
| `InvocationProofs` | TLAPS theorems about `Invocation` |
| `Slices` | Go slices: arrays that several slices view, `append`, `slices.Clone` |
| `SlicesProofs` | TLAPS lemmas about them |
| `Contexts` | what contexts take over from each other: `newContext`, `options.go`, the tree of `TaskGroup`s |
| `ContextsProofs` | TLAPS theorems about `Contexts` |
| `Compat` | the v1 interface: handles, `Invoker`s, the guards of `Background` |
| `CompatProofs` | TLAPS theorems about `Compat` |
| `MCState`, `MCSeq...`, `MCInvocation`, `MCContexts`, `MCCompat` | the instances TLC checks |

`Lifecycle` is the joint. `State` implements it (`Implements`, proved as
`Refinement`), and `SeqMap` uses its nested context only as `Lifecycle` allows
(`UsesContext`, proved as `PoolUsesContext`), so the modules above the package boundary may admit or end a
task in one step. What is *not* atomic in the code and can be seen from above,
the deferred callbacks and the cancel function that run after the unlock, stays
apart in `SeqPool` (`settle`, `Close`, `Cancel`). `Invocation`, `Contexts` and
`Compat` have contexts that live as `Lifecycle` has it too: a phase, and the
tasks waited for.

### `State` and the code

A *State* of the model is a `*State` of the code; `Path` gives its ancestors.
Each field of `mu` is a variable indexed by State. Goroutines are of two sorts:
a *task* performs one `Apply(1) ... Apply(-1)` pair (what `Go` and `Call` do) over
and over; a *proc* performs every other call, and stands as well for the
goroutines that `time.AfterFunc` and `context.AfterFunc` start.

* A critical section is one step. None of them blocks, calls out or takes a
  second lock ("locked children never lock parents"), so nothing can be
  observed between its statements.
* `Apply(1)` is not one step. It looks at `stopping` under the read lock at
  each level on the way up (`Apply`, `ApplyCheck`), and then counts at each
  level on the way down (`ApplyAdd`), where it may be rejected and must take
  back what the ancestors accepted (`reject`, then `ApplySub` level by level).
  `lo[t] .. hi[t]` is the stretch of levels at which task `t` is counted.
* `callDeferred` runs a list after the unlock, one element per step, from the
  end: deferred callbacks last to first, then the cancel function, then the
  closure with the stop hooks. A hook is the child's `Stop`, which makes a list
  of its own: `todo[a]` is the stack of lists goroutine `a` is inside of.
* The deadline is kept as the time left (`stopAt`), decreased by `Tick` down to
  0. Comparing two deadlines is comparing the times left, so this is exact, and
  a deadline that has passed is never replaced, in the code as in the model.
  A timer that fires and the function it runs are one action: `hardStopLocked`
  is one-shot, so a late timer function cannot be told from one not started.
* Negative grace periods behave as 0 (`gracePeriod <= 0`) and are left out.
* The grace period passed to `StopOnIdle` is only used when the count is 0, and
  then it is not looked at: `stopOnIdle` is a Boolean.
* `New` is private to its goroutine until `AddStopHook` publishes the child, so
  the two are one action.
* The function that `AddStopHook` returns looks at the stopping channel and then
  locks to delete the map entry; once the parent is stopping the map is gone and
  both are void, so they are one step together with the cancel call.
* A task's error (`AddErrors`) is added while it runs. A callback may return an
  error or panic: `safe.CallE` makes the two alike.

### What is left out of `State`

The read-only accessors; the values of errors; `Config`. That a callback may
itself call into the same `State` is covered: the model lets another goroutine
make the call at that moment.

### `SeqPool` and the code

* `main` is the calling goroutine: `WithContext` ("new"), `s.Defer` ("defer"),
  the loop with `s.Go` ("launch"), `s.Stop(StopOnIdle())`, then the consumer's
  range loop ("consume", "await") or `s.WaitCtx` ("wait"), and the deferred
  functions in their order: `s.Stop()` ("exit"), `nextMu.Lock(); stop()`
  ("lock").
* `pc[w]` is a worker: the `ctx.Err()` check ("top"), `nextMu` and `next()`
  ("next"), the `select` on the results channel ("select"), the callback
  ("call"), an error or panic on its way to `ErrorHandlerStop` ("failed"),
  `Apply(-1)` ("leave").
* The time between `next()` and `nextMu.Unlock()` matters only in `Map`, which
  enqueues under the lock: there `nextMu` is held from `TakeItem` to `Select`.
  The others unlock in the step that takes the item. A panic in the iterator,
  or of a send on the closed channel in `Map`, leaves `nextMu` locked, since the
  unlock is not deferred.
* A `select` takes any case that is ready. A send to a closed channel is ready,
  and panics.
* `mode`, `outcome`, `live`, `onIdle` are the nested context as `Lifecycle` has
  it. Its hard stop leaves a `duty`: close the results (the deferred callback),
  then cancel. The goroutine that caused it (`by`) does nothing else until then.
* `outer` is what has happened to the context passed in: it belongs to a
  stopper that is "stopping", or it is "canceled", or both, in either order. The
  first reaches `s` through the stop hook, the second through
  `context.AfterFunc`; both arrive later than they happen (`OuterStop`).
* Time is one bit: a positive grace period ("later") may run out at any moment
  (`Expires`); one that is not positive ("now") has run out when it starts.
* An item is its number. Results are identified with the items they are of.
  Whether a callback returned a value or an error is visible only in `ForEach`,
  which collects errors; in `Map` both go to the consumer the same way.
* A callback may call `Stop` on its context, and may never return.

### `Invocation` and the code

* Middleware is a list (`Chain`). `Setup` walks it forward in the goroutine of
  `Go` or `Call`; `Invoke`, `Call`, `Run` walk the Invokers in; `Unrecord`,
  `ReturnSlot`, `Classify` walk them out, `at[t]` being the position.
* `WithMaxConcurrency` returns a different Invoker from each case of its
  `select`: `inv[t][k]` is "slot", "drop" or "err".
* `retry.Loop` and `retry.Backoff` both count attempts and answer with a
  channel; their delays are a channel that may or may not deliver (`WaitSignal`
  has no fairness).
* The end of a task keeps the order of its deferred functions: outcome, error
  handler, `close(taskDone)`, removal from the `TaskGroup`, `Apply(-1)`.
* `WithMaxRate` keeps its state in `golang.org/x/time/rate`. A caller finds a
  token, or waits ("throttled") until one comes, until the limiter says that none
  will, or until the stop, which `l.Wait` hears of through `StoppingContext`.
* A middleware of the program's own ("custom") passes the call on, or panics in
  its setup phase (`SetupPanics`). The panic leaves `taskInvoker` before anything
  is deferred but `Call`'s `Apply(-1)`: the task is "abandoned".

### `Contexts` and the code

* Each context has the configuration that its `State` keeps (`cfg`). The options
  passed to `WithContext` are a record of the fields they set (`ConfigOption`,
  `TaskOption`); `nil` is a field left alone. Names and caller offsets are left
  out: they only reach messages.
* `newContext` is one action, since nobody else has the context or its options
  before it returns: `Clone`, `Merge` and `Sanitize` (`inherited`,
  `applyTaskOpts`, `merge`), the `TaskGroup` and its link.
* Middleware slices are `Slices`: a view `[arr, len]` of an array in `heap`, and
  `append` writes in place while the array has room (`Room` says how far the
  allocator rounded up). An array has the name of the context or task it was
  made for. Without this a missing `Clone` could not be told from a present one.
* `Go` sets up a task (`applyTaskOpts` at the head of `taskInvoker`); what happens
  to it after that is `Invocation`, and here only failure, with the handler that
  was configured, and the end.
* A stop reaches the child by the hook or by `AfterFunc`; both are `StopHook`.
  `cleanup` is the cancel function, of which the unlinking of the group is left.
* The observer's variables `given` and `asked` remember the options as passed.
  The properties compare `cfg` and `run` with what these say directly, by the
  innermost context that sets a field (`heirloom`, `gracePeriodOf`, ...).

### `Compat` and the code

* A handle is a `*Context` of v1: the v2 context it points to (named for the
  handle it was made with), a slice of `Invoker`s, `isBackground`. `From`, `With`,
  `WithContext` and `WithInvoker` are the ways to make one; the handle a task is
  given is made as by `From`.
* v2 contexts are reduced to a phase. "patient" is soft with a timer that never
  fires, which is what `math.MaxInt64` means.
* `asked[c]` remembers on whose account v2's `Stop` was called on `c`, by rank: a
  property about contexts that were only ever stopped with a zero period needs
  the highest one.

Section 6 lists what is not modelled.

## 3. What TLC checks

| Run | Instance | Shows |
|---|---|---|
| `state_pair` | parent and child, one task on each, 1 proc, 2 callbacks, grace 0 or 1, and 2 for the child's hook | safety invariants and action properties, order and completeness of deferred callbacks, and that the hierarchy implements `Lifecycle` |
| `state_live` | three levels, 1 task on the innermost, 1 proc | the inductive invariant with unwinding at a middle level; stops complete and propagate; the liveness of `Lifecycle` |
| `seq_map` | 2 workers, 4 items, the iterator may panic at the second | order, completeness, termination, use of the nested context |
| `seq_unordered` | 2 workers, 3 items | nothing repeated, nothing lost, a stop ends the sequence |
| `seq_foreach` | 2 workers, 3 items | errors arrive, `nil` means complete, a stop ends the call |
| `invocation` | 2 tasks, Recorder around WithMaxConcurrency(1) around WithMaxRate around a middleware that may panic around retry with 2 attempts | slots, entries and counts are exact; a stop drains the context |
| `contexts` | 3 nested contexts with up to 3 sets of options each, 2 tasks, 3 sets of task options | settings, middleware, handlers and grace periods are those of the innermost context that set them; the tree of groups shows what is awaited, and empties |
| `compat` | `Background`, 3 handles, 1 task, arrays rounded up by one | `Invoker`s compose along the lineage; `Background` is guarded; a zero grace period waits |
| `state_retained`, `state_errors`, `seq_map_ends`, `invocation_retry` | as small as the behaviour needs | sentences of the documentation that the code does not keep (section 5) |

Why the bounds are enough.

* `State`: a race on one `State` needs the two goroutines that race and one that
  observes: two tasks, each of which may end as the last one and run the stop that
  is due, and a proc that makes the other calls meanwhile, or is itself busy in
  `callDeferred` while tasks come and go. Two procs as well would multiply the
  states beyond a run of minutes; the theorems of section 4 are for any number.
  `Apply`'s recursion needs a level that is neither first nor last
  (three levels) to be rejected half-way; LIFO needs two callbacks, which are
  interchangeable and symmetric in `state_pair`; shortening a
  deadline needs two grace periods and a tick between.
* `seq`: reordering needs two workers. The results channel holds as many as
  there are workers, so three items fill it, and a fourth leaves a worker
  blocked, in `Map` with `nextMu` locked, when the consumer breaks at the first.
  `seq_map` runs without the grace timer (`Expires` is FALSE) so that a blocked
  worker cannot be saved by it; a grace period that is over at once (a callback
  calls `Stop` with grace 0) is in it, and the timer is in the other two.
* `Invocation`: the limiter needs one task more than `Limit`; a second attempt
  is where a retry differs from a call. The proofs cover the other chains.
* `Contexts`: a setting that skips a level needs three; the options are chosen so
  that each field is set further out, left alone or set between, and reset by
  `WithNoInherit` or `WithNoTaskInfo`. Two tasks of two contexts overwrite each
  other's middleware if anything is shared, given room in some arrays.
* `Compat`: two siblings that append to what they have from one parent, whose
  array has room, are three handles. The proofs cover the other numbers.

The properties of `State`:

* `CountMatchesHolders`: each count is exactly the tasks counted there, so
  "over-released" cannot happen and no rejected `Apply` leaks.
* `CleanStopHasNoTasks`: a context that stopped with `ErrStopped` has waited for
  every admitted task, and admits none later.
* `IdleIsStopped`: no stop request is lost between the last task and the caller.
* `CancelOwedOnce`: the cancel function runs once, after the capture.
* `NoLostStop`: a child published while its parent stops is stopped too, or its
  stop is on the way.
* `DeferredAreLIFO`: after a clean stop the retained callbacks have run, once and
  in order, when the `State`'s own cancel function has been called.
* `GraceOnlyShortens`, `CauseIsTruthful`: a deadline is only brought forward, and
  the cause says truly whether tasks remained.
* `CleanStopSettlesErrors`: after a clean stop's cancel function, its own or an
  ancestor's, no task adds an error; after its own, no retained callback does.
  `done[s]` is the call of the `State`'s own cancel function; that the *context* is
  done, `Canceled(s)`, may come earlier for a child, and what `Wait` on a child
  then misses is `ErrorsAreFinal` (section 5).
* `StopCompletes`, `StopPropagates`, and the refinements `Implements` (safety)
  and `ImplementsFair` (with liveness).

Of `seq`: `Ordered` and `NthIsNth` (what `Map` says about order, the second until
the context is canceled), `PromisesKept` (`yieldOrdered` never receives from a
result channel nobody will fill), `ClosedUnderNoWorker`, `UsesContext`,
`CompleteOrError` and `NilIsComplete` (a missing item always shows as an error),
`EachOnce`, `NoneLost`, `ErrorsArrive`; `MapReturns`, `StopEndsSequence`,
`StopEndsForEach`. Of `Invocation`: `ConcurrencyBound`, `SlotsMatch`,
`TracksLive`, `NoSilentDrop`, `StopDrains`. Of `Contexts`: `ContextSettings` and
`TaskSettings` (configuration against its meaning), `TreeShowsTasks` and
`StoppedTreeEmpties` (the tree of groups against contexts and tasks that come and
go), `GraceIsOwn` (what a stop that comes from above may do). Of `Compat`:
`InvokersComposed`, `BackgroundIsGuarded`, `ZeroWaits`. Each is stated in the
comment above its definition.

### Fairness

* `State!FairSpec`: a goroutine inside `callDeferred` goes on (its callbacks
  return), time passes, and a due timer's function is run. Nothing is assumed of
  tasks: they may never end, and a goroutine may stay inside `Apply` forever; the
  grace timer is what completes the stop. `TaskEndSpec` adds that calls of
  `Apply` go on and tasks end; it is used to show that even so a callback
  retained too late is never run.
* `SeqMap!FairSpec`, `SeqUnordered!FairSpec`, `SeqForEach!FairSpec`: the Go
  scheduler runs every goroutine that can run (weak fairness of the calling
  goroutine, of each worker, of the goroutine that stops or cancels), and
  `sync.Mutex` is starvation-free, hence strong fairness for taking `nextMu`.
  The loop body returns. Callbacks may never return, except in `ReturnSpec`,
  which only `MapReturns` and the refuted `EndsOnceStopped` use: `Map` waits for a
  callback whose result is due.
* `Invocation!FairSpec`: goroutines go on and task functions return; a retry
  signal or a token may never come and nobody has to stop the context.
* `Contexts!FairSpec`: stop hooks are run, grace timers fire and the hard stop runs
  `cleanup`, as `State` shows under its own fairness. Tasks need not end.

## 4. What is proved

Every invariant and every action property of a passing run is also a theorem, for
all values of the constants that the named `ASSUME`s allow; TLC evaluates these on
its instances. They say that the constants have their types, and otherwise only
that things which are told apart by name are different (`ProcsAssumption`,
`CallbacksAssumption`, `OptionsAssumption`, `CompatAssumption`) and that the
ancestors of a context are a chain (`PathAssumption`). Conditions that are not of
this kind are hypotheses of the theorems.

### The lifecycle

`StateProofs` proves, for every hierarchy (any finite set of tasks, any
`Path` with the tree property that `Hierarchy` assumes), any grace periods and
any set of callbacks:

| Theorem | Statement |
|---|---|
| `TypeCorrect` | `Spec => []TypeOK` |
| `Invariance` | `Spec => []IInv` |
| `CountsAreExact` | `Spec => []CountMatchesHolders` |
| `NoStopRequestIsLost` | `Spec => []IdleIsStopped` |
| `CleanStops` | `Spec => []CleanStopHasNoTasks` |
| `GraceShortens` | `Spec => GraceOnlyShortens` |
| `CauseTruth` | `Spec => CauseIsTruthful` |
| `CancelOnce` | `Spec => []CancelOwedOnce` |
| `StopsReachChildren` | `Spec => []NoLostStop` |
| `DeferredLIFO` | `Spec => []DeferredAreLIFO` |
| `ErrorsSettle` | `Spec => CleanStopSettlesErrors` |
| `Refinement` | `Spec => Implements` |

The argument. `IInv` is `TypeOK`, `CountMatchesHolders`, `IdleIsStopped` and
`StopsAreFirm` (only a stopping `State` has a deadline or is hard-stopped, and one
that captured "stopped" has count 0). None of the last three is inductive alone: that a
clean stop has no tasks rests on the count being exact, and that the count stays
0 rests on `Apply` rejecting at a stopped `State`, whose flags the third part ties
to the capture. `TypeOK` contains the one structural fact: a task is counted on
a contiguous stretch of its path, from `lo[t]` to `hi[t]`. `HoldersAdd` and
`HoldersSub` say that a step of `Apply` moves one end of the stretch by one, hence
adds or removes one holder; `CountNext` uses them, `StopsNext` does the rest
action by action. `CleanStops` follows since a holder of a descendant is a holder
of every level above on its path.

`Refinement` maps a `State`'s flags to a phase and its holders to the tasks it
waits for. `SameTree` says that both modules mean the same tree; `StepMaps` shows
that each action is a step or a stutter of `Lifecycle`: what is admitted is
admitted at the innermost level in one step (`AddMaps`), what `Apply` took back
at outer levels was never admitted, and unwinding is invisible (`SubMaps`).

The last four theorems are about the lists that `callDeferred` works through.
`StepKinds` reduces `Next` to what matters to them: a critical section that takes
hooks, callbacks and the cancel function off a `State` into a list (`Stops`), one
step of `callDeferred` on the topmost list, and steps that touch neither (`Quiet`).

* `CancelInv`: before the capture no list has the cancel function of a `State`;
  between capture and call exactly one list of one goroutine has it (`OwesOnce`
  within a stack, and one stack); after the call none. `OwedOnce` turns this into
  the cardinalities of `CancelOwedOnce`.
* `NoLostStop` is inductive with `IInv` and `CancelInv`, child by child
  (`Reached`): a step that takes the parent's hooks puts them into a list
  (`ReachedStops`), one that runs a hook stops the child, and a child that
  unregisters has run its cancel function.
* `DeferInv`: callbacks are retained once and in one place only; before the
  capture they wait in `mu.deferred` (`StillDeferred`); after a clean one the
  last of them have run, in reverse order, and the first `n` are in the very list
  that owes the cancel function (`Unwinding`). So the cancel function is reached
  with `n = 0`. That none is added after a clean capture is `IInv`: the `State`
  is stopping and has no tasks, and `AddDeferred` retains nothing.
* `CleanStopSettlesErrors` follows from these and from the exact counts: a task that
  could add an error is counted at every level above it, and a list that still
  has callbacks of a `State` whose cancel function was called is not the one that
  owed it, so its callbacks were never retained (`InvokedNotKept`). Nothing is
  proved of a child whose context an ancestor has canceled and whose own stop is
  still to come: there errors are lost (section 5).

### Tasks and their middleware

`InvocationProofs` proves, for any finite set of tasks, any `Limit`, any number of
attempts and any chain of middleware:

| Theorem | Statement | For chains with |
|---|---|---|
| `Invariance` | `Spec => []IInv` | |
| `SlotsExact` | `Spec => []SlotsMatch` | `LimitIsSafe` |
| `ConcurrencyLimited` | `Spec => []ConcurrencyBound` | `LimitIsSafe`, and a limiter |
| `LiveTracked` | `Spec => []TracksLive` | `RecorderIsSafe` |
| `NothingDroppedSilently` | `Spec => []NoSilentDrop` | `RateIsSafe` |

The conditions are about the order of declaration, and each is needed: section 5
has what happens otherwise. `LimitIsSafe`: no middleware that may discard a task or
call it twice comes before `WithMaxConcurrency`. `RecorderIsSafe`: none that may
discard a task comes before the Recorder. `RateIsSafe`: no retry, whose classifier
may swallow an error, comes before `WithMaxRate`.

The argument. None of the properties says where a task is, so none is inductive.
`IInv` says of each task what its stage implies (`TaskInv`): its position in the
chain (`Positioned`), which Invokers have been returned so far and of which kinds
(`Built`), that it is counted and has its `TaskInfo` until the last steps
(`Counted`), how often it has been attempted and run (`Attempted`), what excuses a
result without a run (`Excused`), whether its Recorder entry is there
(`Entered`); and that `slots` is the number of tasks with a slot. `HoldsAt` makes a
slot the property of a position in the chain, so the lemmas about one task's step
(`SlotsCounted`, `StepKeeps` and those built on them) say how the set of holders
changes: by nobody, by the task that takes a slot, or by the one that returns it.
With `LimitIsSafe` there is at most one such position in the chain and the call
reaches it exactly once.

### Ordered results

`SeqMapProofs` proves, for any set of workers and any number of items, whatever
the stops, cancellations, grace periods, panics and the consumer do:

| Theorem | Statement |
|---|---|
| `ResultsOrdered` | `Spec => []Ordered` |
| `NthResultIsNth` | `Spec => []NthIsNth` |
| `PromisesAreKept` | `Spec => []PromisesKept` |
| `ClosedBehindWorkers` | `Spec => []ClosedUnderNoWorker` |
| `PoolUsesContext` | `Spec => UsesContext` |
| `NothingLostSilently` | `Workers # {} => (Spec => []CompleteOrError)` |

The argument. `OrderInv` adds to `Ordered` what keeps it: the worker in the `select`
holds `nextMu` and the item counted last (`Taking`), and every item in the pipeline
is before that one (`Behind`, `Complete`). Only a send changes the pipeline, by one
item at its end (`SelectExtendsPipeline`); the consumer moves items within it
(`ReceiveKeepsPipeline`, `YieldKeepsPipeline`). `HardInv` ties the closed channel to
the hard stop, and a hard stop that is not the end of a grace period to the last
worker. `ContextInv` says that the workers between `Go` and `Apply(-1)` are the tasks
of `s`; with it each step is one of `Lifecycle` or a stutter (`StepMaps`).
`NothingLostSilently` needs all of these: with no error, no break and no cancellation
from outside nobody drops an item (`AllTaken`), since a canceled `s` that reports no
error was stopped behind its last worker; so when the consumer has drained the
channel and `Wait` reports nothing, every worker has left because `next()` had
no more items (`WaitTold`). The condition is needed: `numWorkers` 0 gives a sequence
that ends at once, empty and without an error.

### Unordered results and `ForEach`

For any set of workers and any number of items:

| Module | Theorem | Statement |
|---|---|---|
| `SeqUnorderedProofs` | `NoItemTwice` | `Spec => []EachOnce` |
| | `NoItemLost` | `Spec => []NoneLost` |
| `SeqForEachProofs` | `EveryErrorArrives` | `Spec => []ErrorsArrive` |
| | `NilMeansAllDone` | `Workers # {} => (Spec => []NilIsComplete)` |

The argument. `EachOnce` needs that what is in somebody's hands was taken before
(`Counted`: an item's number is at most `idx`), so that the item taken next is new.
`NoneLost` needs that the iterator is stopped and the channel closed only after a
hard stop or at the end of the consumer's loop (`Endings`): a worker that finds
either of them may drop its item.

`ErrorsArrive` relates what `WaitCtx` returned to what has happened later. `ContextInv`
says that the tasks of `s` are the workers that run and that a stop within the grace
period leaves none; `ReportInv` that after the return the errors reported are all
there are, unless the grace period was over. For `NilIsComplete`, `WorkInv` says of a
pool in which nothing has failed and nobody has pulled the iterator that a worker
which left had found the input exhausted, and that every item taken is finished or
in a callback; `WaitTold` puts this together at the moment `WaitCtx` finds a clean
stop. As above, no worker at all gives `nil` at once.

### Configuration and the tree of groups

`ContextsProofs` proves, for any tree of contexts, any sets of options for each, any
tasks and any rounding of arrays:

| Theorem | Statement |
|---|---|
| `SettingsAreOwn` | `Spec => []ContextSettings` |
| `TasksAreSetUp` | `Spec => []TaskSettings` |
| `TreeIsLinked` | `Spec => []TreeShowsTasks` |
| `GraceStaysOwn` | `Spec => GraceIsOwn` |

The argument. `ContextsInv` says of each context that its settings are what the
options given to it and its ancestors mean (`Configured`) and that its middleware
is in an array of its own, named for it; the same of each task (`SetUp`); and that
contexts are created from the outside in (`Upward`). The own array is what makes it
inductive: `AppliedIs` says that applying options for one owner, by `Clone`, `Merge`
or `applyTaskOpts`, yields the right elements in that owner's array and changes no
other (by `ExtendElems` and `CopyElems`), hence `OwnedKept`: all others keep theirs.
What options mean is settled at creation (`HeirloomKept`, `MeaningKept`), so only
`newContext` and `Go` have something to show: `NewGrace`, `NewHandler`,
`NewMiddleware` and `NewGroup` compare field by field what the code computes from
the parent's configuration with the innermost context that sets it
(`NewHeirloom`, `NewInnermost`). `Linked` ties a context's place in the tree to its
phase: it is there until its cleanup, which only its hard stop leads to, and
`LifeKept` says that a hard stop is for good.
`GraceStaysOwn` looks at the steps that can end a phase: with `Configured` the period
v2's `Stop` falls back to is the context's own.

### v1 handles and slices

`SlicesProofs` says what `append` and `slices.Clone` do to a heap of arrays, for any
values, owners and rounding: `ExtendElems`, `CopyElems`. `CompatProofs` uses them,
for any set of handles and tasks:

| Theorem | Statement |
|---|---|
| `LineageComposed` | `Spec => []InvokersComposed` |
| `BackgroundSpared` | `Spec => []BackgroundIsGuarded` |
| `ZeroIsForever` | `Spec => ZeroWaits` |

The argument. `CInv` adds to `InvokersComposed` that slices fit their arrays and
that the array named for a handle is in nobody's hands before the handle is made
(`NotYetMade`): then the append of `WithInvoker` writes only to the array that it
has just cloned, and no other handle's slice can change. `GuardInv` says that every
handle that comes from `Background` carries the flag. `TimersAreAsked` says that a
grace timer runs only on a context that was stopped on a higher account than that of
a v1 zero; with it `StopNowWaits` shows that a zero neither starts a timer nor
cancels under running tasks, and `Expire` never concerns such a context.

### What is only model-checked

Liveness under fairness, which is beyond the prover: `StopCompletes` and
`StopPropagates` of `State`, its refinement with liveness (`ImplementsFair`),
`MapReturns`, `StopEndsSequence`, `StopEndsForEach`, `StopDrains` and
`StoppedTreeEmpties`. Induction over data is beyond it too: no theorem is about a
recursively defined function.

## 5. Where the documentation and the code differ

With a run:

* `state_retained` (bug): after the grace period expired and while tasks are
  still running, `Defer` returns true and the callback is never run: the hard
  stop has taken the list already, and it is a one-shot.
* `state_errors` (bug): stopping an idle parent calls its cancel function before
  its hook stops the child. The child's `Done` closes at that moment, `Wait` on the
  child returns what errors there are (`stopper.go:405`), and the child's deferred
  callbacks run only then: "any error returned by the deferred function will be
  available from Context.Wait" (`stopper.go:88`), and `Done` "closed when ... all tasks
  and deferred functions have completed" (`stopper.go:99`), do not hold. One
  goroutine is enough; no grace period is involved. The property is
  `StateProps!ErrorsAreFinal`.
* `seq_map_ends` (bug): the grace period closes the results under a worker that
  holds `nextMu` and sends. The panic is recovered, the mutex stays locked, and
  the deferred `nextMu.Lock()` never returns: the consumer's loop does not end.
* `invocation_retry` (bug): `WithMaxConcurrency` takes its slot in the setup phase
  and gives it back whenever its Invoker returns. Inside a retry middleware the
  Invoker is called again, without a slot, and gives back another task's.

Stated in a module, refuted by TLC in a few steps, without a run of its own:

* `StateProps!DeferAfterTasks`: when the grace period is over, deferred callbacks
  run although tasks have not completed.
* `StateProps!DeferNotCanceled`: stopping an idle parent cancels its context
  before its hook stops the child; the child's deferred callbacks get a canceled
  context.
* `StateProps!HooksBeforeCancel`: stop hooks run after the callbacks and the
  cancel function and outside `softStopLocked`, not "immediately after the
  stopping channel has been closed".
* `SeqMap!StopShortCircuits`: a soft stop from a callback does not keep workers
  from taking further items; they look at `ctx.Err()` only.
* `SeqMap!NthAlways` ("the Nth output is the result of applying the function to the
  Nth input value", `map.go:26`): once the context is canceled, a worker that
  dropped its item (`map.go:91`) unlocks `nextMu`, and one that had passed its
  `ctx.Err()` check may still take the next item and enqueue it.
* `Contexts!HandlerInherited`: `Merge` "incorporates any settings defined in the
  provided config" (`options.go:95`), and `WithTaskOptions` has by then defined an
  error handler that the caller did not give: with it a child that only adds
  middleware stops on errors although its parent records them.
* `Contexts!GroupsMatchContexts` ("TaskGroup hierarchy matches the Context
  hierarchy", `doc.go:137`): `WithNoInherit` makes the group a root, since the
  parent group is found in the configuration that it resets. `TaskNoInherit` inside
  `WithTaskOptions` has no effect at all.
* `Compat!BackgroundNeverStops` ("never stopped", `compat/stopper.go:20`): a task
  of the background context that returns an error stops it, as does one that calls
  `Stop` on its argument, whose handle lacks the flag, and `StopOnReceive`, which
  asks the v2 context.
* `Compat!ZeroWaitsBelow`: a zero period is only replaced on the handle that is
  stopped. Its children are stopped by v2's hook, with the default period.
  `compat.StopOnReceive` hands a zero period to v2 as it is, where it means now
  (`compat/signal.go:17`).
* `Invocation!SlotsMatch` with `Chain = <<"rate", "limit">>`: `WithMaxRate`, declared
  before `WithMaxConcurrency`, drops a task whose slot has been taken; the Invoker
  that would give it back is never called.
* `SetupPanics`: after a middleware's setup phase panics under `Go`, the context
  counts a task that does not exist, and its clean exit never comes; slots and the
  `TaskInfo` stay too. No sentence of the documentation is about it, and
  `TracksLive` and `StopDrains` except it.
* `Invocation!TracksLive` with `Chain = <<"limit", "record">>`: a Recorder declared
  after the limiter keeps the entry of a task that the limiter discards.
* A loop body or an iterator that panics leaves workers behind, or `nextMu`
  locked (`Yields`, `PanicsAt`); no sentence of the documentation is about it, and
  `MapReturns` excepts it.

## 6. What is not modelled, and why

The delays of `retry.Backoff` (float arithmetic); the state of
`golang.org/x/time/rate`; the rendering of `TaskInfo`, of lingering call stacks and
of errors; display names and caller offsets; `adapt.go`, `stopping_ctx.go` and
`internal/tctx` (no state); in `compat`, the guards of `Defer` and `Wait`, which
refuse before anything changes, and the adapters; callbacks of `seq` that start
tasks of their own on the nested context; a middleware of the program's own that
discards or repeats tasks (with one, the conditions of section 4 apply to it as to
`WithMaxRate` and `retry`).

Steps of the code that are merged, and cases that are left out:

* `State`: the unlocked look and the locked delete of the function `AddStopHook`
  returns (`state.go:101-113`), and `newContext`'s publication of the child and its
  stores of the two cleanup pointers (`stopper.go:293-297`), are one step each.
  Before `newContext` returns only the parent's hook can stop the child, and then
  the parent's map is gone and the delete is void; or `AfterFunc` can, which is
  registered when the first pointer has been stored. Merging these steps hides
  nothing that the properties speak of, but it also means that no property
  exercises them.
* `SeqPool`: the input iterator's `next()` returns or panics, in one step with the
  lock around it (`each.go:55-65`, `map.go:82-95`). An input that blocks keeps
  `nextMu`, and then neither a stop nor a cancellation ends the call: `MapReturns`,
  `StopEndsSequence` and `StopEndsForEach` are about inputs that do not.
* `Invocation`: one attempt counter per task; the code has a classifier per
  call of the `Invoker` (`retry.go:45-50`). A chain with two retries would differ.
* `Contexts` and `Compat`: a context's phase is that of its `State`. That an ancestor's
  hard stop cancels the `context.Context` of a descendant before its own is not
  represented, nor, in `Compat`, that canceling a plain outer context stops a stopper
  through `AfterFunc` (`stopper.go:296`).
* `Compat`: handles made by `With` and `From` have no `Invoker`s of their own
  (`compat/stopper.go:99`, `192`); that `With` drops its receiver's is modelled
  as the code has it, not checked against a claim.

The composition of `Invocation` and `Contexts` into one module is left out on
purpose: they meet in `Go` only, where `Contexts` says which middleware a task gets
and `Invocation` what a list of middleware does.

## 7. What remains

1. Proofs: that `SeqUnordered` and `SeqForEach` use their nested contexts as
   `Lifecycle` allows. `PoolUsesContext` says it of `SeqMap`, and all three stop and
   enter a context by the same actions of `SeqPool`. `Contexts` and `Compat` enter and
   leave all levels of a path in one step, so they are not step by step
   refinements of `Lifecycle`.
2. `compat`: its `Defer` and `Wait`, should they come to hold state.
