---------------------------- MODULE CompatProofs ----------------------------
(* What holds of every set of v1 handles, tasks and array sizes: a task    *)
(* goes through the Invokers of its handle's lineage, a stop through a     *)
(* handle of Background does nothing, and a period of zero waits for ever. *)
EXTENDS Compat, SlicesProofs

Cells == Handles \cup {Blank}

HandlesInv ==
  /\ handle \in [Handles -> Handle \cup {nil}]
  /\ heap \in [Handles -> Seq(Cells)]
  /\ declared \in [Handles -> Seq(Cells)]

\* The array named for a handle is in nobody's hands before the handle is made.
NotYetMade ==
  \A h \in Handles : handle[h] = nil =>
    declared[h] = <<>> /\ \A k \in made : handle[k].invokers.arr # h

Composed ==
  \A h \in made :
    /\ Fits(heap, handle[h].invokers)
    /\ Elems(heap, handle[h].invokers) = declared[h]

GuardInv ==
  /\ bg \in made /\ fromBg \subseteq made
  /\ \A h \in fromBg : handle[h].isBackground

CInv == HandlesInv /\ NotYetMade /\ Composed /\ GuardInv

AskedInv == asked \in [Handles -> 0 .. 3]

-----------------------------------------------------------------------------

LEMMA NoSliceElems ==
  ASSUME NEW hp \in [Handles -> Seq(Cells)], NEW h \in Handles
  PROVE  /\ NoSlice(h) \in Slice(Handles) /\ NoSlice(h).arr = h
         /\ Fits(hp, NoSlice(h)) /\ Elems(hp, NoSlice(h)) = <<>>
<1>1. hp[h] \in Seq(Cells) /\ Len(hp[h]) \in Nat
  BY LenProperties
<1> QED
  BY <1>1, SubSeqEmpty DEF NoSlice, Slice, Fits, Elems

\* A handle that takes its slice from nobody, or from one that is made.
LEMMA NewHandle ==
  ASSUME CInv, NEW h \in Handles, handle[h] = nil, NEW r \in Handle,
         handle' = [handle EXCEPT ![h] = r], HandlesInv',
         \A k \in made : heap'[handle[k].invokers.arr] = heap[handle[k].invokers.arr],
         \A k \in Handles \ {h} : declared'[k] = declared[k],
         Fits(heap', r.invokers), Elems(heap', r.invokers) = declared'[h],
         \/ r.invokers.arr = h
         \/ \E k \in made : r.invokers.arr = handle[k].invokers.arr,
         \/ fromBg' = fromBg
         \/ fromBg' = fromBg \cup {h} /\ r.isBackground
  PROVE  CInv'
<1>1. r # nil /\ made' = made \cup {h} /\ h \notin made
  BY CompatAssumption DEF CInv, HandlesInv, made
<1>2. \A k \in made : k \in Handles /\ k # h /\ handle'[k] = handle[k] /\ declared'[k] = declared[k]
  BY <1>1 DEF CInv, HandlesInv, made
<1>3. handle'[h] = r
  BY DEF CInv, HandlesInv
<1>4. NotYetMade'
  <2> SUFFICES ASSUME NEW g \in Handles, handle'[g] = nil
               PROVE  declared'[g] = <<>> /\ \A k \in made' : handle'[k].invokers.arr # g
    BY DEF NotYetMade
  <2>1. g # h /\ handle[g] = nil /\ declared'[g] = declared[g]
    BY <1>1, <1>3 DEF CInv, HandlesInv
  <2>2. declared[g] = <<>> /\ \A k \in made : handle[k].invokers.arr # g
    BY <2>1 DEF CInv, NotYetMade
  <2> QED
    BY <1>1, <1>2, <1>3, <2>1, <2>2
<1>5. Composed'
  <2>1. ASSUME NEW k \in made
        PROVE  Fits(heap', handle'[k].invokers) /\ Elems(heap', handle'[k].invokers) = declared'[k]
    BY <1>2 DEF CInv, Composed, Fits, Elems
  <2> QED
    BY <1>1, <1>3, <2>1 DEF Composed
<1>6. GuardInv'
  BY <1>1, <1>2, <1>3 DEF CInv, GuardInv
<1> QED
  BY <1>4, <1>5, <1>6 DEF CInv

LEMMA InitInv ==
  ASSUME Init
  PROVE  CInv /\ AskedInv
<1> USE CompatAssumption
<1>1. heap \in [Handles -> Seq(Cells)] /\ declared \in [Handles -> Seq(Cells)]
  BY EmptySeq DEF Init
<1>2. \A h \in Handles : NoSlice(h) \in Slice(Handles) /\ Elems(heap, NoSlice(h)) = <<>>
                         /\ Fits(heap, NoSlice(h))
  BY <1>1, NoSliceElems
<1> DEFINE first == [inner |-> bg, invokers |-> NoSlice(bg), isBackground |-> TRUE]
<1>3. first \in Handle /\ first # nil /\ first.invokers = NoSlice(bg)
  <2>1. NoSlice(bg) \in [arr : Handles, len : Nat]
    BY <1>2 DEF Slice
  <2>2. first \in Handle
    BY <2>1 DEF Handle
  <2> QED
    BY <2>2
<1>4. handle = [h \in Handles |-> IF h = bg THEN first ELSE nil]
  BY DEF Init
<1> HIDE DEF first
<1>5. HandlesInv
  BY <1>1, <1>3, <1>4 DEF HandlesInv
<1>6. made = {bg} /\ handle[bg] = first
  BY <1>3, <1>4 DEF made
<1>7. \A h \in Handles : declared[h] = <<>>
  BY DEF Init
<1>8. NotYetMade
  BY <1>3, <1>4, <1>6, <1>7 DEF NotYetMade, NoSlice
<1>9. Composed
  BY <1>2, <1>3, <1>6, <1>7 DEF Composed
<1>10. GuardInv
  BY <1>6 DEF GuardInv, Init, first
<1>11. AskedInv
  BY DEF AskedInv, Init, Account
<1> QED
  BY <1>5, <1>8, <1>9, <1>10, <1>11 DEF CInv

\* From and With: a handle without Invokers.
LEMMA BareHandle ==
  ASSUME CInv, NEW h \in Handles, NEW p \in made, From(h, p) \/ With(h, p)
  PROVE  CInv'
<1> DEFINE bare(b) == [inner |-> handle[p].inner, invokers |-> NoSlice(h), isBackground |-> b]
<1>1. handle[p] \in Handle
  BY DEF CInv, HandlesInv, made
<1>2. PICK b \in BOOLEAN :
        /\ handle[h] = nil /\ heap' = heap /\ declared' = declared
        /\ handle' = [handle EXCEPT ![h] = bare(b)]
        /\ fromBg' = fromBg \/ (fromBg' = fromBg \cup {h} /\ b)
  <2>1. CASE From(h, p)
    BY <2>1 DEF From, become
  <2>2. CASE With(h, p)
    <3>1. keepsFlag(p) \in BOOLEAN /\ (p \in fromBg => keepsFlag(p))
      BY <1>1 DEF keepsFlag, Handle, CInv, GuardInv
    <3> QED
      BY <2>2, <3>1 DEF With, become
  <2> QED
    BY <2>1, <2>2
<1>3. heap \in [Handles -> Seq(Cells)] /\ declared[h] = <<>>
  BY <1>2 DEF CInv, HandlesInv, NotYetMade
<1>4. /\ NoSlice(h) \in Slice(Handles) /\ NoSlice(h).arr = h
      /\ Fits(heap, NoSlice(h)) /\ Elems(heap, NoSlice(h)) = <<>>
  BY <1>3, NoSliceElems
<1>5. bare(b) \in Handle /\ bare(b).invokers = NoSlice(h) /\ bare(b).isBackground = b
  BY <1>1, <1>4 DEF Handle, Slice
<1> HIDE DEF bare
<1>6. HandlesInv'
  BY <1>2, <1>5 DEF CInv, HandlesInv
<1> QED
  BY <1>2, <1>3, <1>4, <1>5, <1>6, NewHandle

LEMMA SharingHandle ==
  ASSUME CInv, NEW h \in Handles, NEW p \in made \cup {nil}, WithContext(h, p)
  PROVE  CInv'
<1> DEFINE q    == parent(p)
           next == [inner |-> h, invokers |-> handle[q].invokers, isBackground |-> FALSE]
<1>1. q \in made /\ q \in Handles /\ handle[q] \in Handle
  BY CompatAssumption DEF parent, CInv, HandlesInv, GuardInv, made
<1>2. /\ handle[h] = nil /\ heap' = heap /\ fromBg' = fromBg
      /\ handle' = [handle EXCEPT ![h] = next]
      /\ declared' = [declared EXCEPT ![h] = declared[q]]
  BY DEF WithContext, become
<1>3. next \in Handle /\ next.invokers = handle[q].invokers
  BY <1>1 DEF Handle
<1> HIDE DEF q, next
<1>4. HandlesInv' /\ declared'[h] = declared[q]
  BY <1>1, <1>2, <1>3 DEF CInv, HandlesInv
<1>5. Fits(heap, handle[q].invokers) /\ Elems(heap, handle[q].invokers) = declared[q]
  BY <1>1 DEF CInv, Composed
<1>6. \A k \in Handles \ {h} : declared'[k] = declared[k]
  BY <1>2 DEF CInv, HandlesInv
<1> QED
  BY <1>1, <1>2, <1>3, <1>4, <1>5, <1>6, NewHandle

LEMMA ExtendingHandle ==
  ASSUME CInv, NEW h \in Handles, NEW p \in made \cup {nil}, WithInvoker(h, p)
  PROVE  CInv'
<1> DEFINE q    == parent(p)
           k    == Copy(heap, handle[q].invokers, h)
           m    == Extend(k.heap, k.slice, <<h>>, h)
           next == [inner |-> h, invokers |-> m.slice, isBackground |-> FALSE]
<1>1. q \in made /\ q \in Handles /\ handle[q] \in Handle /\ heap \in [Handles -> Seq(Cells)]
      /\ declared \in [Handles -> Seq(Cells)]
  BY CompatAssumption DEF parent, CInv, HandlesInv, GuardInv, made
<1>2. /\ handle[h] = nil /\ heap' = m.heap /\ fromBg' = fromBg
      /\ handle' = [handle EXCEPT ![h] = next]
      /\ declared' = [declared EXCEPT ![h] = Append(declared[q], h)]
  BY DEF WithInvoker, become, invokersClone
<1>3. /\ Fits(heap, handle[q].invokers) /\ Elems(heap, handle[q].invokers) = declared[q]
      /\ handle[q].invokers \in Slice(Handles)
  BY <1>1 DEF CInv, Composed, Handle, Slice
<1>4. Blank \in Cells /\ h \in Cells /\ Room \in [Handles -> Nat]
  BY CompatAssumption DEF Cells
<1>5. /\ k.heap \in [Handles -> Seq(Cells)] /\ k.slice \in Slice(Handles)
      /\ Fits(k.heap, k.slice) /\ k.slice.arr = h
      /\ Elems(k.heap, k.slice) = declared[q]
      /\ \A a \in Handles \ {h} : k.heap[a] = heap[a]
  <2> HIDE DEF q
  <2>1. Copies(Cells, Handles, heap, handle[q].invokers, h, k)
    BY <1>1, <1>3, <1>4, CopyElems
  <2> HIDE DEF k
  <2> QED
    BY <1>3, <2>1 DEF Copies
<1>6. /\ m.heap \in [Handles -> Seq(Cells)] /\ m.slice \in Slice(Handles)
      /\ Fits(m.heap, m.slice) /\ m.slice.arr = h
      /\ Elems(m.heap, m.slice) = declared[q] \o <<h>>
      /\ \A a \in Handles \ {h} : m.heap[a] = heap[a]
  <2> HIDE DEF q, k
  <2>1. <<h>> \in Seq(Cells)
    BY <1>4
  <2>2. Extends(Cells, Handles, k.heap, k.slice, <<h>>, h, m)
    BY <1>4, <1>5, <2>1, ExtendElems
  <2> HIDE DEF m
  <2> QED
    BY <1>5, <2>2 DEF Extends
<1>7. next \in Handle /\ next.invokers = m.slice
  BY <1>6 DEF Handle, Slice
<1> HIDE DEF q, k, m, next
<1>8. declared[q] \in Seq(Cells) /\ declared[q] \o <<h>> = Append(declared[q], h)
      /\ Append(declared[q], h) \in Seq(Cells)
  BY <1>1, <1>4, AppendProperties, AppendIsConcat
<1>9. HandlesInv' /\ declared'[h] = Append(declared[q], h)
  BY <1>1, <1>2, <1>6, <1>7, <1>8 DEF CInv, HandlesInv
<1>10. \A j \in made : heap'[handle[j].invokers.arr] = heap[handle[j].invokers.arr]
  <2> SUFFICES ASSUME NEW j \in made
               PROVE  heap'[handle[j].invokers.arr] = heap[handle[j].invokers.arr]
    OBVIOUS
  <2>1. handle[j].invokers.arr # h
    BY <1>2 DEF CInv, NotYetMade
  <2>2. handle[j].invokers.arr \in Handles
    BY DEF CInv, HandlesInv, Handle, made
  <2> QED
    BY <1>2, <1>6, <2>1, <2>2
<1>11. \A j \in Handles \ {h} : declared'[j] = declared[j]
  BY <1>2 DEF CInv, HandlesInv
<1>12. Fits(heap', next.invokers) /\ Elems(heap', next.invokers) = declared'[h]
  BY <1>2, <1>6, <1>7, <1>8, <1>9
<1> QED
  BY <1>2, <1>6, <1>7, <1>9, <1>10, <1>11, <1>12, NewHandle

LEMMA HandlesUntouched ==
  ASSUME CInv, UNCHANGED refs
  PROVE  CInv'
BY DEF CInv, HandlesInv, NotYetMade, Composed, GuardInv, refs, made, Fits, Elems

LEMMA CInvKept ==
  ASSUME CInv, [Next]_vars
  PROVE  CInv'
<1>1. CASE \E h, p \in Handles : From(h, p)
  BY <1>1, BareHandle DEF From
<1>2. CASE \E h, p \in Handles : With(h, p)
  BY <1>2, BareHandle DEF With
<1>3. CASE \E h \in Handles, p \in Handles \cup {nil} : WithContext(h, p)
  BY <1>3, SharingHandle DEF WithContext
<1>4. CASE \E h \in Handles, p \in Handles \cup {nil} : WithInvoker(h, p)
  BY <1>4, ExtendingHandle DEF WithInvoker
<1>5. CASE \E h \in Handles, g \in {0, Default} : Stop(h, g)
  BY <1>5, HandlesUntouched DEF Stop
<1>6. CASE \E h \in Handles : StopOnIdle(h)
  BY <1>6, HandlesUntouched DEF StopOnIdle
<1>7. CASE \E c \in Handles : StopHook(c) \/ Expire(c)
  BY <1>7, HandlesUntouched DEF StopHook, Expire
<1>8. CASE \E t \in Tasks, h \in Handles : Go(t, h)
  BY <1>8, HandlesUntouched DEF Go
<1>9. CASE \E t \in Tasks, h \in Handles, g \in {0, Default} : StopOnReceive(t, h, g)
  BY <1>9, HandlesUntouched DEF StopOnReceive
<1>10. CASE \E t \in Tasks : Receive(t) \/ Fail(t) \/ End(t)
  BY <1>10, HandlesUntouched DEF Receive, Fail, End
<1>11. CASE UNCHANGED vars
  BY <1>11, HandlesUntouched DEF vars
<1> QED
  BY <1>1, <1>2, <1>3, <1>4, <1>5, <1>6, <1>7, <1>8, <1>9, <1>10, <1>11 DEF Next

\* A call on anybody's account but Background's leaves asked in its range.
LEMMA AskedKept ==
  ASSUME AskedInv, NEW c, NEW g, NEW who,
         who \in {"zero", "parent", "period", "receive", "failure"}, stopNow(c, g, who)
  PROVE  AskedInv'
<1>1. Account[who] \in 0 .. 3
  BY DEF Account
<1>2. asked' = [asked EXCEPT ![c] =
                  IF mode[c] = "hard" \/ Account[who] < @ THEN @ ELSE Account[who]]
  BY DEF stopNow
<1> QED
  BY <1>1, <1>2 DEF AskedInv

LEMMA AskedInvKept ==
  ASSUME CInv, AskedInv, [Next]_vars
  PROVE  AskedInv'
<1>1. CASE \E h \in Handles, g \in {0, Default} : Stop(h, g)
  <2>1. PICK h \in Handles, g \in {0, Default} : Stop(h, g)
    BY <1>1
  <2>2. h \notin fromBg
    BY <2>1 DEF Stop, CInv, GuardInv
  <2>3. account(h, g) \in {"zero", "period"}
    BY <2>2 DEF account
  <2> QED
    BY <2>1, <2>3, AskedKept DEF Stop
<1>2. CASE \E c \in Handles : StopHook(c)
  BY <1>2, AskedKept DEF StopHook
<1>3. CASE \E t \in Tasks : Receive(t)
  BY <1>3, AskedKept DEF Receive
<1>4. CASE \E t \in Tasks : Fail(t)
  BY <1>4, AskedKept DEF Fail
<1>5. CASE asked' = asked
  BY <1>5 DEF AskedInv
<1>6. \/ \E h, p \in Handles : From(h, p) \/ With(h, p)
      \/ \E h \in Handles, p \in Handles \cup {nil} : WithContext(h, p) \/ WithInvoker(h, p)
      \/ \E h \in Handles : StopOnIdle(h) \/ Expire(h)
      \/ \E t \in Tasks : End(t) \/ \E h \in Handles : Go(t, h)
      \/ \E t \in Tasks, h \in Handles, g \in {0, Default} : StopOnReceive(t, h, g)
      \/ UNCHANGED vars
      => asked' = asked
  BY DEF From, With, WithContext, WithInvoker, StopOnIdle, Expire, Go, StopOnReceive, End,
         life, vars
<1> QED
  BY <1>1, <1>2, <1>3, <1>4, <1>5, <1>6 DEF Next

-----------------------------------------------------------------------------

LEMMA Inductive == Spec => [](CInv /\ AskedInv)
<1>1. Init => CInv /\ AskedInv
  BY InitInv
<1>2. CInv /\ AskedInv /\ [Next]_vars => (CInv /\ AskedInv)'
  BY CInvKept, AskedInvKept
<1> QED
  BY <1>1, <1>2, PTL DEF Spec

\* Every task goes through the Invokers of its handle's lineage and no other,
\* however the allocator rounds up the arrays behind the slices.
THEOREM LineageComposed == Spec => []InvokersComposed
<1>1. CInv => InvokersComposed
  BY DEF CInv, Composed, InvokersComposed, applyInvokers
<1> QED
  BY <1>1, Inductive, PTL

\* No call of Stop through a handle of Background reaches the singleton.
THEOREM BackgroundSpared == Spec => []BackgroundIsGuarded
<1>1. AskedInv => BackgroundIsGuarded
  BY CompatAssumption DEF AskedInv, BackgroundIsGuarded, Account
<1> QED
  BY <1>1, Inductive, PTL

-----------------------------------------------------------------------------
(* A grace timer runs only on the account of somebody who gave a period.   *)

TasksInv == on \in [Tasks -> Handles \cup {nil}] /\ receives \in [Tasks -> {0, Default, nil}]

TimersAreAsked ==
  /\ mode \in [Handles -> {"open", "ending", "soft", "patient", "hard"}]
  /\ \A c \in Handles : mode[c] = "soft" => asked[c] >= Account.parent

ZInv == AskedInv /\ TasksInv /\ TimersAreAsked

\* What ZeroWaits says of one context in a step.
Waits(c) ==
  asked'[c] = Account.zero /\ mode[c] # "hard" /\ mode'[c] = "hard" => live(c)' = {}

\* Stop of v2: neither a new grace timer nor a cancellation under running tasks
\* without an account above that of a v1 period of zero.
LEMMA StopNowWaits ==
  ASSUME AskedInv, TimersAreAsked, UNCHANGED <<path, on>>,
         NEW c \in Handles \cup {nil}, NEW g \in {0, Default, MaxDuration}, NEW who,
         who \in {"zero", "parent", "period", "receive", "failure", "background"},
         stopNow(c, g, who), who = "zero" => g = MaxDuration
  PROVE  TimersAreAsked' /\ \A d \in Handles : Waits(d)
<1> DEFINE rank == Account[who]
<1>1. rank \in 1 .. 4 /\ (rank >= 2 \/ g = MaxDuration)
  BY DEF Account, MaxDuration
<1>2. \A d \in Handles : live(d)' = live(d)
  BY DEF live, Covers
<1>3. ASSUME c = nil
      PROVE  \A d \in Handles : mode'[d] = mode[d] /\ asked'[d] = asked[d]
  BY <1>3, CompatAssumption DEF stopNow, AskedInv, TimersAreAsked
<1>4. \A d \in Handles \ {c} : mode'[d] = mode[d] /\ asked'[d] = asked[d]
  BY DEF stopNow, AskedInv, TimersAreAsked
<1>5. mode' \in [Handles -> {"open", "ending", "soft", "patient", "hard"}]
  <2> DEFINE next == IF live(c) = {} \/ g = 0 \/ mode[c] = "hard" THEN "hard"
                     ELSE IF g < MaxDuration \/ mode[c] = "soft" THEN "soft" ELSE "patient"
  <2>1. mode' = [mode EXCEPT ![c] = next] /\ next \in {"hard", "soft", "patient"}
    BY DEF stopNow
  <2> QED
    BY <2>1 DEF TimersAreAsked
<1>6. ASSUME c \in Handles
      PROVE  /\ mode'[c] = IF live(c) = {} \/ g = 0 \/ mode[c] = "hard" THEN "hard"
                           ELSE IF g < MaxDuration \/ mode[c] = "soft" THEN "soft" ELSE "patient"
             /\ asked'[c] = IF mode[c] = "hard" \/ rank < asked[c] THEN asked[c] ELSE rank
             /\ asked[c] \in 0 .. 3
  BY <1>6 DEF stopNow, AskedInv, TimersAreAsked
<1> HIDE DEF rank
<1>7. ASSUME c \in Handles, mode'[c] = "soft"
      PROVE  asked'[c] >= Account.parent
  <2>1. Account.parent = 2 /\ MaxDuration = 2
    BY DEF Account, MaxDuration
  <2>2. mode[c] = "soft" => asked[c] >= 2
    BY <1>7, <2>1 DEF TimersAreAsked
  <2>3. mode[c] # "hard" /\ (rank >= 2 \/ mode[c] = "soft")
    BY <1>1, <1>6, <1>7, <2>1
  <2> QED
    BY <1>1, <1>6, <1>7, <2>1, <2>2, <2>3
<1>8. ASSUME c \in Handles
      PROVE  Waits(c)
  <2> SUFFICES ASSUME asked'[c] = 1, mode[c] # "hard", mode'[c] = "hard"
               PROVE  live(c) = {}
    BY <1>2, <1>8 DEF Waits, Account
  <2>1. rank < 2
    BY <1>1, <1>6, <1>8
  <2>2. g # 0
    BY <1>1, <2>1 DEF MaxDuration
  <2> QED
    BY <1>6, <1>8, <2>2
<1>9. TimersAreAsked'
  BY <1>3, <1>4, <1>5, <1>7 DEF TimersAreAsked
<1>10. ASSUME NEW d \in Handles
       PROVE  Waits(d)
  BY <1>3, <1>4, <1>8 DEF Waits
<1> QED
  BY <1>9, <1>10

LEMMA StepWaits ==
  ASSUME CInv, ZInv, [Next]_vars
  PROVE  TasksInv' /\ TimersAreAsked' /\ \A c \in Handles : Waits(c)
<1> USE DEF ZInv
<1>1. ASSUME NEW h \in Handles, NEW g \in {0, Default}, Stop(h, g)
      PROVE  TasksInv' /\ TimersAreAsked' /\ \A c \in Handles : Waits(c)
  <2>1. handle[h].inner \in Handles
    BY <1>1 DEF Stop, CInv, HandlesInv, Handle, made
  <2>2. /\ gracePeriod(g) \in {0, Default, MaxDuration}
        /\ account(h, g) \in {"zero", "period", "background"}
        /\ account(h, g) = "zero" => gracePeriod(g) = MaxDuration
    BY DEF gracePeriod, account
  <2>3. stopNow(handle[h].inner, gracePeriod(g), account(h, g)) /\ UNCHANGED <<path, on>>
        /\ UNCHANGED receives
    BY <1>1 DEF Stop, tasks
  <2> QED
    BY <2>1, <2>2, <2>3, StopNowWaits DEF TasksInv
<1>2. ASSUME NEW c \in Handles, StopHook(c)
      PROVE  TasksInv' /\ TimersAreAsked' /\ \A d \in Handles : Waits(d)
  BY <1>2, StopNowWaits DEF StopHook, TasksInv, tasks
<1>3. ASSUME NEW t \in Tasks, Receive(t)
      PROVE  TasksInv' /\ TimersAreAsked' /\ \A d \in Handles : Waits(d)
  <2>1. on[t] \in Handles \cup {nil} /\ receives[t] \in {0, Default, MaxDuration}
    BY <1>3 DEF Receive, TasksInv
  <2>2. stopNow(on[t], receives[t], "receive") /\ UNCHANGED <<path, on, receives>>
    BY <1>3 DEF Receive, tasks
  <2> QED
    BY <2>1, <2>2, StopNowWaits DEF TasksInv
<1>4. ASSUME NEW t \in Tasks, Fail(t)
      PROVE  TasksInv' /\ TimersAreAsked' /\ \A d \in Handles : Waits(d)
  <2>1. on[t] \in Handles \cup {nil} /\ UNCHANGED <<path, on, receives>>
    BY <1>4 DEF Fail, TasksInv, tasks
  <2> QED
    BY <1>4, <2>1, StopNowWaits DEF Fail, TasksInv
<1>5. ASSUME NEW h \in Handles, StopOnIdle(h)
      PROVE  TasksInv' /\ TimersAreAsked' /\ \A c \in Handles : Waits(c)
  <2> DEFINE c == handle[h].inner
  <2>1. /\ mode' = [mode EXCEPT ![c] = IF live(c) = {} THEN "hard"
                                       ELSE IF @ = "open" THEN "ending" ELSE @]
        /\ UNCHANGED <<asked, path, on, receives>>
    BY <1>5 DEF StopOnIdle, tasks
  <2>2. c \in Handles
    BY <1>5 DEF StopOnIdle, CInv, HandlesInv, Handle, made
  <2> HIDE DEF c
  <2>3. TasksInv' /\ TimersAreAsked'
    BY <2>1, <2>2 DEF TasksInv, TimersAreAsked
  <2>4. \A d \in Handles : live(d)' = live(d)
    BY <2>1 DEF live, Covers
  <2>5. \A d \in Handles : mode[d] # "hard" /\ mode'[d] = "hard" => live(d) = {}
    BY <2>1, <2>2 DEF TimersAreAsked
  <2> QED
    BY <2>3, <2>4, <2>5 DEF Waits
<1>6. ASSUME NEW c \in Handles, Expire(c)
      PROVE  TasksInv' /\ TimersAreAsked' /\ \A d \in Handles : Waits(d)
  <2>1. /\ mode[c] = "soft" /\ mode' = [mode EXCEPT ![c] = "hard"]
        /\ UNCHANGED <<asked, on, receives>>
    BY <1>6 DEF Expire, tasks
  <2>2. TasksInv' /\ TimersAreAsked'
    BY <2>1 DEF TasksInv, TimersAreAsked
  <2>3. asked'[c] # Account.zero
    BY <2>1 DEF TimersAreAsked, AskedInv, Account
  <2>4. \A d \in Handles \ {c} : mode'[d] = mode[d]
    BY <2>1 DEF TimersAreAsked
  <2> QED
    BY <2>2, <2>3, <2>4 DEF Waits
<1>7. ASSUME NEW t \in Tasks, End(t)
      PROVE  TasksInv' /\ TimersAreAsked' /\ \A d \in Handles : Waits(d)
  <2>1. /\ on' = [on EXCEPT ![t] = nil] /\ receives' = [receives EXCEPT ![t] = nil]
        /\ mode' = [c \in Handles |->
             IF live(c) = {t} /\ mode[c] \notin {"open", "hard"} THEN "hard" ELSE mode[c]]
        /\ UNCHANGED <<asked, path>>
    BY <1>7 DEF End
  <2>2. TasksInv' /\ TimersAreAsked'
    BY <2>1 DEF TasksInv, TimersAreAsked
  <2>3. on'[t] = nil /\ \A u \in Tasks \ {t} : on'[u] = on[u]
    BY <2>1 DEF TasksInv
  <2>4. \A d \in Handles : live(d)' = live(d) \ {t}
    BY <2>1, <2>3 DEF live, Covers
  <2>5. \A d \in Handles : mode[d] # "hard" /\ mode'[d] = "hard" => live(d) = {t}
    BY <2>1
  <2> QED
    BY <2>2, <2>4, <2>5 DEF Waits
<1>8. ASSUME UNCHANGED <<mode, asked>>, TasksInv'
      PROVE  TasksInv' /\ TimersAreAsked' /\ \A d \in Handles : Waits(d)
  BY <1>8 DEF TimersAreAsked, Waits
<1>9. ASSUME NEW t \in Tasks, NEW h \in Handles, NEW g \in {0, Default},
             Go(t, h) \/ StopOnReceive(t, h, g)
      PROVE  UNCHANGED <<mode, asked>> /\ TasksInv'
  <2>1. h \in made
    BY <1>9 DEF Go, StopOnReceive, start
  <2>2. handle[h].inner \in Handles
    BY <2>1 DEF CInv, HandlesInv, Handle, made
  <2>3. /\ on' = [on EXCEPT ![t] = handle[h].inner] /\ UNCHANGED <<mode, asked>>
        /\ receives' = receives \/ receives' = [receives EXCEPT ![t] = g]
    BY <1>9 DEF Go, StopOnReceive, start, life
  <2> QED
    BY <2>2, <2>3 DEF TasksInv
<1>10. \/ \E h, p \in Handles : From(h, p) \/ With(h, p)
       \/ \E h \in Handles, p \in Handles \cup {nil} : WithContext(h, p) \/ WithInvoker(h, p)
       \/ UNCHANGED vars
       => UNCHANGED <<mode, asked>> /\ TasksInv'
  BY DEF From, With, WithContext, WithInvoker, life, tasks, vars, TasksInv
<1>11. ASSUME NEW t \in Tasks, NEW h \in Handles, Go(t, h)
       PROVE  UNCHANGED <<mode, asked>> /\ TasksInv'
  BY <1>9, <1>11
<1> QED
  BY <1>1, <1>2, <1>3, <1>4, <1>5, <1>6, <1>7, <1>8, <1>9, <1>10, <1>11 DEF Next

\* A v1 grace period of zero waits for ever: of every number of handles, tasks
\* and contexts below each other.
THEOREM ZeroIsForever == Spec => ZeroWaits
<1>1. Init => CInv /\ ZInv
  <2> SUFFICES ASSUME Init PROVE TasksInv /\ TimersAreAsked
    BY InitInv DEF ZInv
  <2> QED
    BY DEF Init, TasksInv, TimersAreAsked
<1>2. CInv /\ ZInv /\ [Next]_vars => (CInv /\ ZInv)'
  BY CInvKept, AskedInvKept, StepWaits DEF ZInv
<1>3. CInv /\ ZInv /\ [Next]_vars =>
        [\A c \in Handles :
           asked'[c] = Account.zero /\ mode[c] # "hard" /\ mode'[c] = "hard" =>
             live(c)' = {}]_vars
  BY StepWaits DEF Waits
<1> QED
  BY <1>1, <1>2, <1>3, PTL DEF Spec, ZeroWaits
=============================================================================
