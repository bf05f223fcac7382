------------------------------- MODULE Compat -------------------------------
(***************************************************************************)
(* The v1 interface over v2 contexts (compat/stopper.go, compat/signal.go). *)
(*                                                                         *)
(* A *Context of this package is a handle: it points to a v2 context and   *)
(* carries a slice of Invokers. Many handles may point to one context, and *)
(* some share the array behind their slices. A handle made by WithContext  *)
(* or WithInvoker gives its name to the v2 context made with it, and to    *)
(* the Invoker it brings. The v2 context lives as Lifecycle has it.        *)
(***************************************************************************)
EXTENDS FiniteSets, Slices

CONSTANTS
  Handles, bg,     \* *Context values; bg is the singleton of Background
  Tasks,
  nil

\* The fields of a *Context.
Handle == [inner : Handles, invokers : [arr : Handles, len : Nat], isBackground : BOOLEAN]

ASSUME CompatAssumption ==
  bg \in Handles /\ nil \notin Handles \cup Handle /\ Room \in [Handles -> Nat]

\* Grace periods: 0 is over at once, Default at some time, math.MaxInt64 never.
Default     == 1
MaxDuration == 2

\* On whose account v2's Stop is called, by how much a property cares.
Account == [nobody |-> 0, zero |-> 1, parent |-> 2, period |-> 3, receive |-> 3,
            failure |-> 3, background |-> 4]

VARIABLES
  handle,      \* handle[h]: the fields of the *Context, nil before it is made
  heap,        \* the arrays behind the Invoker slices
  path,        \* path[c]: v2 context c and those above it, the outermost first
  mode,        \* mode[c]: "open", "ending" (open, StopOnIdle was called), "soft"
               \* (the grace timer runs), "patient" (it never fires) or "hard"
  on,          \* on[t]: the v2 context that task t runs on
  receives,    \* receives[t]: the period t stops with as a StopOnReceive task
  \* What an observer remembers.
  declared,    \* declared[h]: the Invokers, as the calls that made h say
  fromBg,      \* handles that come from Background, directly or by way of With
  asked        \* asked[c]: the highest Account that Stop was called on c for

refs   == <<handle, heap, declared, fromBg>>
life   == <<mode, asked>>
tasks  == <<on, receives>>
vars   == <<refs, path, life, tasks>>

Init ==
  /\ handle = [h \in Handles |->
       IF h = bg THEN [inner |-> bg, invokers |-> NoSlice(bg), isBackground |-> TRUE]
                 ELSE nil]
  /\ heap = [h \in Handles |-> <<>>]
  /\ path = [h \in Handles |-> IF h = bg THEN <<bg>> ELSE <<>>]
  /\ mode = [h \in Handles |-> "open"]
  /\ on = [t \in Tasks |-> nil]
  /\ receives = [t \in Tasks |-> nil]
  /\ declared = [h \in Handles |-> <<>>]
  /\ fromBg = {bg}
  /\ asked = [h \in Handles |-> Account.nobody]

made == {h \in Handles : handle[h] # nil}

Covers(a, c) == \E i \in 1 .. Len(path[c]) : path[c][i] = a

stopping(c) == mode[c] \in {"soft", "patient", "hard"}

live(c) == {t \in Tasks : on[t] # nil /\ Covers(c, on[t])}

-----------------------------------------------------------------------------
(* Making handles.                                                         *)

become(h, inner, slice, isBg) ==
  handle' = [handle EXCEPT ![h] =
               [inner |-> inner, invokers |-> slice, isBackground |-> isBg]]

\* From, for a context derived from p's, and the argument of a task of p: only
\* the v2 context is found.
From(h, p) ==
  /\ handle[h] = nil /\ p \in made
  /\ become(h, handle[p].inner, NoSlice(h), FALSE)
  /\ UNCHANGED <<heap, declared, fromBg, path, life, tasks>>

\* Mutant: the flag is not handed on.
keepsFlagNever(p) == FALSE

keepsFlag(p) == handle[p].isBackground

With(h, p) ==
  /\ handle[h] = nil /\ p \in made
  /\ become(h, handle[p].inner, NoSlice(h), keepsFlag(p))
  /\ fromBg' = IF p \in fromBg THEN fromBg \cup {h} ELSE fromBg
  /\ UNCHANGED <<heap, declared, path, life, tasks>>

\* A v2 context below p's, or at the top when From finds no stopper: then the
\* parent is Background, which has no Invokers.
nest(h, p) ==
  path' = [path EXCEPT ![h] =
             Append(IF p = nil THEN <<>> ELSE path[handle[p].inner], h)]

parent(p) == IF p = nil THEN bg ELSE p

\* The slice, not its array, is copied.
WithContext(h, p) ==
  /\ handle[h] = nil /\ p \in made \cup {nil}
  /\ nest(h, p)
  /\ become(h, h, handle[parent(p)].invokers, FALSE)
  /\ declared' = [declared EXCEPT ![h] = declared[parent(p)]]
  /\ UNCHANGED <<heap, fromBg, life, tasks>>

\* Mutant: append to the parent's slice itself.
invokersShared(p, h) == [heap |-> heap, slice |-> handle[p].invokers]

invokersClone(p, h) == Copy(heap, handle[p].invokers, h)

WithInvoker(h, p) ==
  /\ handle[h] = nil /\ p \in made \cup {nil}
  /\ nest(h, p)
  /\ LET k == invokersClone(parent(p), h)
         m == Extend(k.heap, k.slice, <<h>>, h)
     IN heap' = m.heap /\ become(h, h, m.slice, FALSE)
  /\ declared' = [declared EXCEPT ![h] = Append(declared[parent(p)], h)]
  /\ UNCHANGED <<fromBg, life, tasks>>

-----------------------------------------------------------------------------
(* Stopping.                                                               *)

\* v2's Stop(StopGracePeriod(g)) on context c: a later Stop can only hurry it.
stopNow(c, g, who) ==
  /\ mode' = [mode EXCEPT ![c] =
                IF live(c) = {} \/ g = 0 \/ @ = "hard" THEN "hard"
                ELSE IF g < MaxDuration \/ @ = "soft" THEN "soft" ELSE "patient"]
  /\ asked' = [asked EXCEPT ![c] =
                IF mode[c] = "hard" \/ Account[who] < @ THEN @ ELSE Account[who]]

\* Mutant: 0 is passed on.
gracePeriodAsIs(g) == g

gracePeriod(g) == IF g = 0 THEN MaxDuration ELSE g

account(h, g) ==
  IF h \in fromBg THEN "background" ELSE IF g = 0 THEN "zero" ELSE "period"

Stop(h, g) ==
  /\ h \in made /\ ~handle[h].isBackground
  /\ stopNow(handle[h].inner, gracePeriod(g), account(h, g))
  /\ UNCHANGED <<refs, path, tasks>>

StopOnIdle(h) ==
  /\ h \in made /\ ~handle[h].isBackground
  /\ LET c == handle[h].inner
     IN mode' = [mode EXCEPT ![c] = IF live(c) = {} THEN "hard"
                                    ELSE IF @ = "open" THEN "ending" ELSE @]
  /\ UNCHANGED <<refs, path, asked, tasks>>

\* The child's stop hook, with the period v2 gives to a context that has none.
StopHook(c) ==
  /\ Len(path[c]) > 1 /\ stopping(path[c][Len(path[c]) - 1])
  /\ stopNow(c, Default, "parent")
  /\ UNCHANGED <<refs, path, tasks>>

Expire(c) ==
  /\ mode[c] = "soft"
  /\ mode' = [mode EXCEPT ![c] = "hard"]
  /\ UNCHANGED <<refs, path, asked, tasks>>

-----------------------------------------------------------------------------
(* Tasks.                                                                  *)

\* What applyInvokers wraps around a task, the first outermost.
applyInvokers(h) == Elems(heap, handle[h].invokers)

start(t, h) ==
  /\ h \in made /\ on[t] = nil
  /\ \A c \in Handles : Covers(c, handle[h].inner) => ~stopping(c)
  /\ on' = [on EXCEPT ![t] = handle[h].inner]

\* Go, or Call in the caller's goroutine.
Go(t, h) ==
  /\ start(t, h) /\ UNCHANGED receives
  /\ UNCHANGED <<refs, path, life>>

\* StopOnReceive asks the v2 context for a task, whatever the handle is.
StopOnReceive(t, h, g) ==
  /\ start(t, h) /\ receives' = [receives EXCEPT ![t] = g]
  /\ UNCHANGED <<refs, path, life>>

\* Its channel delivers, or is closed. To do this again changes nothing.
Receive(t) ==
  /\ receives[t] # nil /\ stopNow(on[t], receives[t], "receive")
  /\ UNCHANGED <<refs, path, tasks>>

\* A task of Go returns an error: v2's ErrorHandlerStop.
Fail(t) ==
  /\ on[t] # nil /\ receives[t] = nil
  /\ stopNow(on[t], Default, "failure")
  /\ UNCHANGED <<refs, path, tasks>>

End(t) ==
  /\ on[t] # nil
  /\ on' = [on EXCEPT ![t] = nil] /\ receives' = [receives EXCEPT ![t] = nil]
  /\ mode' = [c \in Handles |->
       IF live(c) = {t} /\ mode[c] \notin {"open", "hard"} THEN "hard" ELSE mode[c]]
  /\ UNCHANGED <<refs, path, asked>>

-----------------------------------------------------------------------------

Next ==
  \/ \E h, p \in Handles : From(h, p)
  \/ \E h, p \in Handles : With(h, p)
  \/ \E h \in Handles, p \in Handles \cup {nil} : WithContext(h, p)
  \/ \E h \in Handles, p \in Handles \cup {nil} : WithInvoker(h, p)
  \/ \E h \in Handles, g \in {0, Default} : Stop(h, g)
  \/ \E h \in Handles : StopOnIdle(h)
  \/ \E c \in Handles : StopHook(c)
  \/ \E c \in Handles : Expire(c)
  \/ \E t \in Tasks, h \in Handles : Go(t, h)
  \/ \E t \in Tasks, h \in Handles, g \in {0, Default} : StopOnReceive(t, h, g)
  \/ \E t \in Tasks : Receive(t)
  \/ \E t \in Tasks : Fail(t)
  \/ \E t \in Tasks : End(t)

Spec == Init /\ [][Next]_vars

-----------------------------------------------------------------------------

\* The tasks of a handle go through the Invokers of its lineage, the outermost
\* ancestor's first (compat/stopper.go:119): handles that share an array, and
\* siblings that append to clones of the same slice, never see each other's.
InvokersComposed == \A h \in made : applyInvokers(h) = declared[h]

\* Stop through a handle that comes from Background, also with another delegate,
\* is a no-op (compat/stopper.go:147): the singleton stops on the account of
\* its tasks and of those who ask its v2 context.
BackgroundIsGuarded == asked[bg] # Account.background

\* A v1 grace period of zero means to "wait indefinitely" (compat/stopper.go:149):
\* a context that was only ever stopped so, and below no stopped context, is
\* not canceled under its tasks.
ZeroWaits ==
  [][\A c \in Handles :
       asked'[c] = Account.zero /\ mode[c] # "hard" /\ mode'[c] = "hard" =>
         live(c)' = {}]_vars

-----------------------------------------------------------------------------
(* What the comments say and the code does not do.                         *)

\* "Background returns a singleton Context that is never stopped"
\* (compat/stopper.go:20).
BackgroundNeverStops == ~stopping(bg)

\* The same as ZeroWaits, for a context whose parent was stopped so.
ZeroWaitsBelow ==
  [][\A c \in Handles :
       /\ mode[c] # "hard" /\ mode'[c] = "hard"
       /\ \A a \in Handles : Covers(a, c) => asked'[a] <= Account.parent
       => live(c)' = {}]_vars
=============================================================================
