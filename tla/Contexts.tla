------------------------------ MODULE Contexts ------------------------------
(***************************************************************************)
(* What contexts take over from each other: newContext (stopper.go), the   *)
(* configuration (options.go) and the tree of TaskGroups (task_info.go).   *)
(*                                                                         *)
(* The lifecycle of a context is the one that Lifecycle promises, a task   *)
(* entering and leaving all the contexts of its path in one step. A        *)
(* context that brings middleware brings one, named for the context; the   *)
(* middleware of a call of Go is named for the task. The TaskGroup of a    *)
(* context is named for the context too.                                   *)
(***************************************************************************)
EXTENDS Hierarchy, Slices

CONSTANTS
  ConfigOptions,   \* ConfigOptions[c]: what may be passed when c is made
  TaskOptions,     \* what callers pass to Go
  StopOptions,     \* StopOptions[c]: the StopGracePeriods passed to Stop on c
  DefaultGracePeriod,
  nil

(* A partial config or task: the fields an option may set. Handlers are     *)
(* ErrorHandlerStop and ErrorHandlerRecord. A grace period of 0 is over at  *)
(* once, another one at any later time.                                     *)
TaskOption == [noInherit: BOOLEAN, errHandler: {nil, "Stop", "Record"}, mw: BOOLEAN]
ConfigOption ==
  [noInherit: BOOLEAN, noTaskInfo: BOOLEAN, gracePeriod: Nat \cup {nil},
   taskOpts: TaskOption \cup {nil}]

\* What a config and an invoker keep of them.
TaskConfig ==
  [errHandler: {"Stop", "Record"}, mw: [arr: States \cup Tasks, len: Nat]]

ASSUME OptionsAssumption ==
  /\ ConfigOptions \in [States -> SUBSET ConfigOption]
  /\ TaskOptions \subseteq TaskOption /\ StopOptions \in [States -> SUBSET Nat]
  /\ DefaultGracePeriod \in Nat \ {0}
  /\ nil \notin States /\ nil \notin Nat /\ nil \notin {"Stop", "Record"}
  /\ nil \notin TaskOption /\ nil \notin TaskConfig
  /\ States \cap Tasks = {}
  /\ Room \in [States \cup Tasks -> Nat]

VARIABLES
  created,     \* the contexts that exist
  cfg,         \* cfg[c]: the config that c's State keeps
  run,         \* run[t]: the task config made by taskInvoker
  heap,        \* the arrays behind the middleware slices
  children,    \* children[g]: the TaskGroups stored in g.children
  mode,        \* "open", "ending" (open, StopOnIdle was called), "soft" or "hard"
  done,        \* the cleanup function was called
  at,          \* at[t]: "idle", "running", or "failed" once its handler was called
  \* What an observer remembers.
  given, asked \* the options passed for a context, and for a task

config == <<created, cfg, given>>
life   == <<mode, done>>
tasks  == <<run, at, asked>>
vars   == <<config, tasks, heap, children, life>>

zero   == [noTaskInfo |-> FALSE, gracePeriod |-> nil, group |-> nil,
           parentGroup |-> nil, taskOpts |-> nil]

Init ==
  /\ created = {}
  /\ cfg = [c \in States |-> zero]
  /\ given = [c \in States |-> nil]
  /\ run = [t \in Tasks |-> nil]
  /\ at = [t \in Tasks |-> "idle"]
  /\ asked = [t \in Tasks |-> nil]
  /\ heap = [o \in States \cup Tasks |-> <<>>]
  /\ children = [c \in States |-> {}]
  /\ mode = [c \in States |-> "open"]
  /\ done = [c \in States |-> FALSE]

-----------------------------------------------------------------------------
(* Configuration.                                                          *)

orElse(x, y) == IF x # nil THEN x ELSE y

brought(o, owner) == IF o.mw THEN <<owner>> ELSE <<>>

\* task.Sanitize
Sanitize(h) == orElse(h, "Stop")

\* Mutant: the slice header is copied, its array is not.
shareMiddleware(h, s, owner) == [heap |-> h, slice |-> s]

\* task.Clone
cloneMiddleware(h, s, owner) == Copy(h, s, owner)

\* A task with the options o alone.
freshTask(o, owner) ==
  LET m == Extend([heap EXCEPT ![owner] = <<>>], NoSlice(owner), brought(o, owner), owner)
  IN [heap |-> m.heap, task |-> [errHandler |-> Sanitize(o.errHandler), mw |-> m.slice]]

\* The options o merged into a clone of base.
mergedTask(base, o, owner) ==
  LET k == cloneMiddleware(heap, base.mw, owner)
      m == Extend(k.heap, k.slice, brought(o, owner), owner)
  IN [heap |-> m.heap,
      task |-> [errHandler |-> Sanitize(orElse(o.errHandler, base.errHandler)),
                mw         |-> m.slice]]

applyTaskOpts(base, o, owner) ==
  IF base = nil \/ o.noInherit THEN freshTask(o, owner) ELSE mergedTask(base, o, owner)

\* WithTaskOptions has no base to merge into: the handler is set for good.
WithTaskOptions(o) ==
  IF o = nil THEN [noInherit |-> FALSE, errHandler |-> nil, mw |-> FALSE]
             ELSE [o EXCEPT !.noInherit = FALSE, !.errHandler = Sanitize(@)]

\* Mutant: WithNoInherit does not reset the receiver.
inheritedAlways(c, o) == IF HasParent(c) THEN cfg[Parent(c)] ELSE zero

\* What config.Merge starts from: a clone of the parent's config or a reset one.
inherited(c, o) == IF HasParent(c) /\ ~o.noInherit THEN cfg[Parent(c)] ELSE zero

\* config.Merge and config.Sanitize, and the group that newContext makes.
merge(c, o, task) ==
  LET base == inherited(c, o)
      hide == base.noTaskInfo \/ o.noTaskInfo
  IN [noTaskInfo  |-> hide,
      gracePeriod |-> orElse(orElse(o.gracePeriod, base.gracePeriod), DefaultGracePeriod),
      group       |-> IF hide THEN nil ELSE c,
      parentGroup |-> IF hide THEN nil ELSE base.group,
      taskOpts    |-> task]

-----------------------------------------------------------------------------
(* The lifecycle.                                                          *)

stopping(c) == mode[c] \in {"soft", "hard"}

\* The tasks that the State of c counts.
live(c) == {t \in Tasks : at[t] # "idle" /\ Covers(c, Home[t])}

\* impl.Stop with a grace period: no effect on a State that is stopped already.
stopNow(c, g) ==
  /\ mode' = [mode EXCEPT ![c] =
                IF live(c) = {} \/ g = 0 \/ @ = "hard" THEN "hard" ELSE "soft"]
  /\ UNCHANGED done

newContext(c, o) ==
  /\ c \notin created /\ (HasParent(c) => Parent(c) \in created)
  /\ created' = created \cup {c}
  /\ given' = [given EXCEPT ![c] = o]
  /\ LET opts == WithTaskOptions(o.taskOpts)
         made == applyTaskOpts(inherited(c, o).taskOpts, opts, c)
         new  == merge(c, o, made.task)
     IN /\ heap' = made.heap
        /\ cfg' = [cfg EXCEPT ![c] = new]
        /\ children' = IF new.parentGroup = nil THEN children
                         ELSE [children EXCEPT ![new.parentGroup] = @ \cup {c}]
  /\ UNCHANGED <<tasks, life>>

\* The period that StopGracePeriod gives, or the configured one.
Stop(c, g) ==
  /\ c \in created /\ stopNow(c, orElse(g, cfg[c].gracePeriod))
  /\ UNCHANGED <<config, tasks, heap, children>>

StopOnIdle(c) ==
  /\ c \in created
  /\ mode' = [mode EXCEPT ![c] = IF live(c) = {} THEN "hard"
                                  ELSE IF @ = "open" THEN "ending" ELSE @]
  /\ UNCHANGED <<config, tasks, heap, children, done>>

\* Mutant: the parent's grace period goes down with the stop.
hookGraceOfParent(c) == cfg[Parent(c)].gracePeriod

\* s.Stop() as the parent's stop hook or AfterFunc calls it.
hookGrace(c) == cfg[c].gracePeriod

\* A child that is created when its parent is stopping finds its hook run.
StopHook(c) ==
  /\ c \in created /\ HasParent(c) /\ stopping(Parent(c))
  /\ stopNow(c, hookGrace(c))
  /\ UNCHANGED <<config, tasks, heap, children>>

Expire(c) ==
  /\ mode[c] = "soft" /\ mode' = [mode EXCEPT ![c] = "hard"]
  /\ UNCHANGED <<config, tasks, heap, children, done>>

\* Mutant: the group stays in its parent's map.
unlinkNever(c) == children

unlink(c) ==
  IF cfg[c].parentGroup = nil THEN children
    ELSE [children EXCEPT ![cfg[c].parentGroup] = @ \ {c}]

\* Mutant: run as soon as the context is stopping.
cleanupDueEarly(c) == stopping(c)

cleanupDue(c) == mode[c] = "hard"

cleanup(c) ==
  /\ cleanupDue(c) /\ ~done[c]
  /\ done' = [done EXCEPT ![c] = TRUE]
  /\ children' = unlink(c)
  /\ UNCHANGED <<config, tasks, heap, mode>>

-----------------------------------------------------------------------------
(* Tasks.                                                                  *)

\* Apply(1), then taskInvoker.
Go(t, o) ==
  /\ at[t] = "idle" /\ Home[t] \in created
  /\ \A c \in States : Covers(c, Home[t]) => ~stopping(c)
  /\ at' = [at EXCEPT ![t] = "running"]
  /\ asked' = [asked EXCEPT ![t] = o]
  /\ LET made == applyTaskOpts(cfg[Home[t]].taskOpts, o, t)
     IN heap' = made.heap /\ run' = [run EXCEPT ![t] = made.task]
  /\ UNCHANGED <<config, children, life>>

stopsOnError(t) == run[t].errHandler = "Stop"

\* The task returned an error and its handler is called.
handleError(t) ==
  /\ at[t] = "running" /\ at' = [at EXCEPT ![t] = "failed"]
  /\ LET c == Home[t]
     IN \/ stopsOnError(t) /\ stopNow(c, cfg[c].gracePeriod)
        \/ ~stopsOnError(t) /\ UNCHANGED life
  /\ UNCHANGED <<config, run, asked, heap, children>>

\* Apply(-1): the last task settles a State that waits for it.
End(t) ==
  LET settled == {c \in States : live(c) = {t} /\ mode[c] \in {"ending", "soft"}}
  IN /\ at[t] # "idle" /\ at' = [at EXCEPT ![t] = "idle"]
     /\ mode' = [c \in States |-> IF c \in settled THEN "hard" ELSE mode[c]]
     /\ heap' = [heap EXCEPT ![t] = <<>>]
     /\ run' = [run EXCEPT ![t] = nil] /\ asked' = [asked EXCEPT ![t] = nil]
     /\ UNCHANGED <<config, children, done>>

-----------------------------------------------------------------------------

Next ==
  \/ \E c \in States : \E o \in ConfigOptions[c] : newContext(c, o)
  \/ \E c \in States : \E g \in {nil} \cup StopOptions[c] : Stop(c, g)
  \/ \E c \in States : StopOnIdle(c)
  \/ \E c \in States : StopHook(c)
  \/ \E c \in States : Expire(c)
  \/ \E c \in States : cleanup(c)
  \/ \E t \in Tasks, o \in TaskOptions : Go(t, o)
  \/ \E t \in Tasks : handleError(t)
  \/ \E t \in Tasks : End(t)

Spec == Init /\ [][Next]_vars

(* Stop hooks are run, grace timers fire and the hard stop runs cleanup.    *)
(* Tasks need not end.                                                     *)
FairSpec ==
  Spec /\ \A c \in States :
            WF_vars(StopHook(c)) /\ WF_vars(Expire(c)) /\ WF_vars(cleanup(c))

-----------------------------------------------------------------------------
(* What the options mean, without merging, cloning or sanitizing.          *)

\* The contexts whose options count for c: from the innermost one on its path
\* that was given WithNoInherit, or from the top-level one.
heirloom(c) ==
  {a \in States : /\ Covers(a, c)
                  /\ \A b \in States : /\ Covers(a, b) /\ Covers(b, c) /\ b # a
                                        => ~given[b].noInherit}

\* The innermost member of a set of contexts on one path.
innermost(S) == CHOOSE c \in S : \A a \in S : Covers(a, c)

gracePeriodOf(c) ==
  LET S == {a \in heirloom(c) : given[a].gracePeriod # nil}
  IN IF S = {} THEN DefaultGracePeriod ELSE given[innermost(S)].gracePeriod

\* The handler set by, or by default in, the innermost WithTaskOptions.
handlerOf(c) ==
  LET S == {a \in heirloom(c) : given[a].taskOpts # nil}
  IN IF S = {} THEN "Stop" ELSE Sanitize(given[innermost(S)].taskOpts.errHandler)

\* The contexts whose middleware the tasks of c run through.
middlewareOf(c) ==
  {a \in heirloom(c) : given[a].taskOpts # nil /\ given[a].taskOpts.mw}

\* The sequence m names the contexts in S, those on one path, from the outside in.
OutsideIn(m, S) ==
  /\ {m[i] : i \in DOMAIN m} = S
  /\ \A i, j \in DOMAIN m : i < j => m[i] # m[j] /\ Covers(m[i], m[j])

groupOf(c) == IF \E a \in heirloom(c) : given[a].noTaskInfo THEN nil ELSE c

\* A context's settings are those of the innermost context that was given any,
\* and stay so whatever its relatives and their tasks are configured with:
\* Clone and Merge (options.go:83-124) share nothing that is written later.
ContextSettings ==
  \A c \in created :
    /\ cfg[c].gracePeriod = gracePeriodOf(c) /\ cfg[c].group = groupOf(c)
    /\ cfg[c].taskOpts.errHandler = handlerOf(c)
    /\ OutsideIn(Elems(heap, cfg[c].taskOpts.mw), middlewareOf(c))

\* Every task is run through the middleware of its context, outermost context
\* first, and then its own, and failures go to the handler the call named, or
\* else its context's (applyTaskOpts, options.go:224): two tasks that are set
\* up side by side do not overwrite each other's middleware.
TaskSettings ==
  \A t \in Tasks : at[t] # "idle" =>
    LET alone == asked[t].noInherit
        mw    == Elems(heap, run[t].mw)
    IN /\ \E n \in 0 .. Len(mw) :
            /\ OutsideIn(SubSeq(mw, 1, n), IF alone THEN {} ELSE middlewareOf(Home[t]))
            /\ SubSeq(mw, n + 1, Len(mw)) = brought(asked[t], t)
       /\ run[t].errHandler =
            (IF asked[t].errHandler # nil THEN asked[t].errHandler
             ELSE IF alone THEN "Stop" ELSE handlerOf(Home[t]))

\* TaskTree of an outer group shows every task that is still being waited for
\* somewhere below it (task_info.go:42): no link on the way is missing, unless
\* the grace period of a context on the way ran out.
TreeShowsTasks ==
  \A t \in Tasks, c \in created :
    at[t] # "idle" /\ Covers(c, Home[t]) /\ cfg[c].parentGroup # nil =>
      c \in children[cfg[c].parentGroup] \/ mode[c] = "hard"

\* Only a grace period of its own cuts the tasks of an open context short: the
\* stop of a parent or the failure of a task comes with the period of the
\* context that is stopped, not with the one the parent was stopped with.
GraceIsOwn ==
  [][\A c \in States :
       ~stopping(c) /\ mode'[c] = "hard" /\ live(c)' # {} =>
         gracePeriodOf(c) = 0 \/ 0 \in StopOptions[c]]_vars

\* Nothing stays in the tree: the group of a context below a stopped one is
\* unlinked, also when the context was created after the stop.
StoppedTreeEmpties ==
  \A a, c \in States :
    Covers(a, c) /\ a # c =>
      (stopping(a) /\ (\E g \in States : c \in children[g])
         ~> \A g \in States : c \notin children[g])

-----------------------------------------------------------------------------
(* What the comments say and the code does not do.                         *)

\* "Merge incorporates any settings defined in the provided config"
\* (options.go:95): a handler that was not set is merged as well.
HandlerInherited ==
  \A c \in created :
    LET S == {a \in heirloom(c) : /\ given[a].taskOpts # nil
                                  /\ given[a].taskOpts.errHandler # nil}
    IN S # {} => cfg[c].taskOpts.errHandler = given[innermost(S)].taskOpts.errHandler

\* "TaskGroup hierarchy matches the Context hierarchy" (doc.go:137).
GroupsMatchContexts ==
  \A c \in created : HasParent(c) /\ cfg[c].group # nil =>
    cfg[c].parentGroup = cfg[Parent(c)].group
=============================================================================
