---------------------------- MODULE StateProofs ----------------------------
(* Theorems about State, for every hierarchy, set of tasks, goroutines,    *)
(* callbacks and grace periods.                                            *)
EXTENDS StateProps, TLAPS, FiniteSetTheorems, SequenceTheorems

-----------------------------------------------------------------------------
(* The hierarchy.                                                          *)

\* A level of a task's path is a State whose depth is that level.
LEMMA PathLevel ==
  ASSUME NEW s \in States, NEW i \in 1 .. Depth(s)
  PROVE  /\ Path[s] \in Seq(States)
         /\ Path[s][i] \in States
         /\ Depth(Path[s][i]) = i
<1>1. Path[s] \in Seq(States)
  BY PathAssumption
<1>2. Path[s][i] \in States
  BY <1>1 DEF Depth
<1>3. Path[Path[s][i]] = SubSeq(Path[s], 1, i)
  BY PathAssumption
<1>4. Len(SubSeq(Path[s], 1, i)) = i
  BY <1>1 DEF Depth
<1> QED
  BY <1>1, <1>2, <1>3, <1>4 DEF Depth

\* Hence no State occurs twice on a path.
LEMMA LevelsDiffer ==
  ASSUME NEW t \in Tasks, NEW i \in 1 .. Depth(Home[t]), NEW j \in 1 .. Depth(Home[t]),
         At(t, i) = At(t, j)
  PROVE  i = j
BY PathLevel, TaskAssumption DEF At

LEMMA AtType ==
  ASSUME NEW t \in Tasks
  PROVE  /\ Home[t] \in States /\ Depth(Home[t]) \in Nat \ {0}
         /\ \A i \in 1 .. Depth(Home[t]) : At(t, i) \in States
         /\ At(t, Depth(Home[t])) = Home[t]
<1>1. Home[t] \in States
  BY TaskAssumption
<1>2. Depth(Home[t]) \in Nat
  BY <1>1, PathAssumption DEF Depth
<1> QED
  BY <1>1, <1>2, PathLevel, PathAssumption DEF At
-----------------------------------------------------------------------------
(* What the helpers leave behind, with the types of their results.         *)

LEMMA PushType ==
  ASSUME NEW c \in Call, NEW rest \in Seq(Call)
  PROVE  Push(c, rest) \in Seq(Call)
BY DEF Push

LEMMA EmptyList == <<>> \in Seq(Callbacks)
OBVIOUS

LEMMA ListType ==
  ASSUME NEW s \in States, NEW hooks \in SUBSET States, NEW cancel \in BOOLEAN,
         NEW fns \in Seq(Callbacks)
  PROVE  List(s, hooks, cancel, fns) \in Call
BY DEF List, Call

\* What hardStopLocked changes, and that it keeps the types.
LEMMA HardStopType ==
  ASSUME TypeOK, NEW a \in Actors, NEW s \in States,
         NEW err \in {"stopped", "expired"}, NEW hooks \in SUBSET States,
         NEW rest \in Seq(Call), hardStopLocked(a, s, err, hooks, rest)
  PROVE  /\ cause' \in [States -> {"none", "stopped", "expired"}]
         /\ deferred' \in [States -> Seq(Callbacks)]
         /\ stopAt' \in [States -> Nat \cup {NoTime}]
         /\ todo' \in [Actors -> Seq(Call)]
<1>1. CASE captured(s)
  <2>1. List(s, hooks, FALSE, <<>>) \in Call
    BY ListType, EmptyList
  <2>2. Push(List(s, hooks, FALSE, <<>>), rest) \in Seq(Call)
    BY <2>1, PushType
  <2> QED
    BY <1>1, <2>2 DEF TypeOK, hardStopLocked
<1>2. CASE ~captured(s)
  <2>1. List(s, hooks, TRUE, deferred[s]) \in Call
    BY ListType DEF TypeOK
  <2>2. Push(List(s, hooks, TRUE, deferred[s]), rest) \in Seq(Call)
    BY <2>1, PushType
  <2>3. /\ cause' = [cause EXCEPT ![s] = err]
        /\ stopAt' = [stopAt EXCEPT ![s] = NoTime]
        /\ deferred' = [deferred EXCEPT ![s] = <<>>]
        /\ todo' = [todo EXCEPT ![a] = Push(List(s, hooks, TRUE, deferred[s]), rest)]
    BY <1>2 DEF hardStopLocked
  <2> QED
    BY <2>2, <2>3, EmptyList DEF TypeOK
<1> QED
  BY <1>1, <1>2

LEMMA SoftStopType ==
  ASSUME TypeOK, NEW a \in Actors, NEW s \in States, NEW n \in Int, NEW g \in Nat,
         NEW rest \in Seq(Call), softStopLocked(a, s, n, g, rest)
  PROVE  /\ stopping' \in [States -> BOOLEAN]
         /\ stopHooks' \in [States -> SUBSET States]
         /\ cause' \in [States -> {"none", "stopped", "expired"}]
         /\ deferred' \in [States -> Seq(Callbacks)]
         /\ stopAt' \in [States -> Nat \cup {NoTime}]
         /\ todo' \in [Actors -> Seq(Call)]
<1>1. stopHooks[s] \in SUBSET States
  BY DEF TypeOK
<1>2. /\ stopping' \in [States -> BOOLEAN]
      /\ stopHooks' \in [States -> SUBSET States]
  BY DEF TypeOK, softStopLocked
<1>3. CASE hardStopLocked(a, s, "stopped", stopHooks[s], rest)
  BY <1>1, <1>2, <1>3, HardStopType
<1>4. CASE hardStopLocked(a, s, "expired", stopHooks[s], rest)
  BY <1>1, <1>2, <1>4, HardStopType
<1>5. CASE /\ updateGraceTimerLocked(s, g)
           /\ todo' = [todo EXCEPT ![a] = Push(List(s, stopHooks[s], FALSE, <<>>), rest)]
           /\ UNCHANGED <<cause, deferred>>
  <2>1. List(s, stopHooks[s], FALSE, <<>>) \in Call
    BY <1>1, ListType, EmptyList
  <2>2. Push(List(s, stopHooks[s], FALSE, <<>>), rest) \in Seq(Call)
    BY <2>1, PushType
  <2>3. stopAt' \in [States -> Nat \cup {NoTime}]
    BY <1>5 DEF TypeOK, updateGraceTimerLocked
  <2> QED
    BY <1>2, <1>5, <2>2, <2>3 DEF TypeOK
<1> QED
  BY <1>3, <1>4, <1>5 DEF softStopLocked

\* The list that goroutine a is working through, and those below it.
LEMMA HeadType ==
  ASSUME TypeOK, NEW a \in Actors, todo[a] # <<>>
  PROVE  /\ Head(todo[a]) \in Call
         /\ Tail(todo[a]) \in Seq(Call)
BY DEF TypeOK

LEMMA SingletonType ==
  ASSUME NEW c \in Call
  PROVE  <<c>> \in Seq(Call)
OBVIOUS

\* SpanOK read phase by phase.
LEMMA Span ==
  ASSUME TypeOK, NEW t \in Tasks
  PROVE  /\ lo[t] \in 1 .. Depth(Home[t]) /\ hi[t] \in 0 .. Depth(Home[t])
         /\ phase[t] \in {"idle", "checking"} => hi[t] = 0
         /\ phase[t] = "entering" => lo[t] = 1 /\ hi[t] + 1 \in 1 .. Depth(Home[t])
         /\ phase[t] = "running" => lo[t] = 1 /\ hi[t] = Depth(Home[t])
         /\ phase[t] = "leaving" => lo[t] <= hi[t] /\ hi[t] \in 1 .. Depth(Home[t])
<1>1. Depth(Home[t]) \in Nat \ {0} /\ SpanOK(t)
  BY AtType DEF TypeOK
<1> QED
  BY <1>1 DEF SpanOK

-----------------------------------------------------------------------------
(* Type correctness.                                                       *)

LEMMA TypeInit == Init => TypeOK
<1> SUFFICES ASSUME Init PROVE TypeOK
  OBVIOUS
<1>1. \A t \in Tasks : SpanOK(t)
  BY DEF Init, SpanOK
<1>2. /\ todo \in [Actors -> Seq(Call)]
      /\ deferred \in [States -> Seq(Callbacks)]
      /\ kept \in [States -> Seq(Callbacks)]
      /\ ran \in [States -> Seq(Callbacks)]
  BY DEF Init
<1> QED
  BY <1>1, <1>2 DEF Init, TypeOK, NoTime

\* One step per action; what an action leaves alone keeps its type.
LEMMA TypeNext == TypeOK /\ [Next]_vars => TypeOK'
<1> SUFFICES ASSUME TypeOK, [Next]_vars PROVE TypeOK'
  OBVIOUS
<1> USE DEF locks, applys, seen
<1>1. ASSUME NEW p \in Procs, NEW s \in States, AddStopHook(p, s) PROVE TypeOK'
  <2>1. s \in created' /\ Parent(s) \in States /\ Parent(s) \in created
    BY <1>1 DEF AddStopHook, TypeOK
  <2>2. List(Parent(s), {s}, FALSE, <<>>) \in Call
    BY <2>1, ListType, EmptyList
  <2>3. <<List(Parent(s), {s}, FALSE, <<>>)>> \in Seq(Call)
    BY <2>2, SingletonType
  <2>4. todo' \in [Actors -> Seq(Call)]
    BY <1>1, <2>3 DEF AddStopHook, TypeOK
  <2>5. stopHooks' \in [States -> SUBSET States]
    <3>1. stopHooks[Parent(s)] \cup {s} \in SUBSET States
      BY <2>1 DEF TypeOK
    <3>2. \/ stopHooks' = stopHooks
          \/ stopHooks' = [stopHooks EXCEPT ![Parent(s)] = stopHooks[Parent(s)] \cup {s}]
      BY <1>1 DEF AddStopHook
    <3> QED
      BY <3>1, <3>2 DEF TypeOK
  <2>6. created' \subseteq States
    BY <1>1 DEF AddStopHook, TypeOK
  <2>7. UNCHANGED <<count, stopping, stopOnIdle, deferred, cause, stopAt, errs,
                    phase, lo, hi, done, fresh, kept, ran>>
    BY <1>1 DEF AddStopHook
  <2> QED
    BY <2>4, <2>5, <2>6, <2>7 DEF TypeOK, SpanOK
<1>2. ASSUME NEW p \in Procs, NEW s \in States, NEW g \in Graces, Stop(p, s, g)
      PROVE  TypeOK'
  <2>1. /\ softStopLocked(p, s, count[s], g, <<>>)
        /\ UNCHANGED <<created, count, stopOnIdle, errs, phase, lo, hi, done, fresh, kept, ran>>
    BY <1>2 DEF Stop
  <2>2. /\ p \in Actors /\ g \in Nat /\ count[s] \in Int /\ <<>> \in Seq(Call)
    BY GraceAssumption DEF Actors, TypeOK
  <2> QED
    BY <2>1, <2>2, SoftStopType DEF TypeOK, SpanOK
<1>3. ASSUME NEW p \in Procs, NEW s \in States, StopOnIdle(p, s) PROVE TypeOK'
  <2>1. /\ stopOnIdle' \in [States -> BOOLEAN]
        /\ UNCHANGED <<created, count, errs, phase, lo, hi, done, fresh, kept, ran>>
    BY <1>3 DEF StopOnIdle, TypeOK
  <2>2. CASE softStopLocked(p, s, 0, 0, <<>>)
    <3>1. p \in Actors /\ 0 \in Nat /\ 0 \in Int /\ <<>> \in Seq(Call)
      BY DEF Actors
    <3> QED
      BY <2>1, <2>2, <3>1, SoftStopType DEF TypeOK, SpanOK
  <2>3. CASE UNCHANGED <<stopping, stopHooks, cause, deferred, stopAt, todo>>
    BY <2>1, <2>3 DEF TypeOK, SpanOK
  <2> QED
    BY <1>3, <2>2, <2>3 DEF StopOnIdle
<1>4. ASSUME NEW p \in Procs, NEW s \in States, NEW f \in Callbacks, AddDeferred(p, s, f)
      PROVE  TypeOK'
  <2>1. <<f>> \in Seq(Callbacks)
    OBVIOUS
  <2>2. List(s, {}, FALSE, <<f>>) \in Call
    BY <2>1, ListType
  <2>3. <<List(s, {}, FALSE, <<f>>)>> \in Seq(Call)
    BY <2>2, SingletonType
  <2>4. todo' \in [Actors -> Seq(Call)]
    BY <1>4, <2>3 DEF AddDeferred, TypeOK
  <2>5. retain(s, f) \in Seq(Callbacks) /\ Append(kept[s], f) \in Seq(Callbacks)
    BY DEF retain, TypeOK
  <2>6. deferred' \in [States -> Seq(Callbacks)] /\ kept' \in [States -> Seq(Callbacks)]
    <3>1. \/ deferred' = deferred /\ kept' = kept
          \/ /\ deferred' = [deferred EXCEPT ![s] = retain(s, f)]
             /\ kept' = [kept EXCEPT ![s] = Append(kept[s], f)]
      BY <1>4 DEF AddDeferred
    <3>2. deferred' \in [States -> Seq(Callbacks)]
      BY <2>5, <3>1 DEF TypeOK
    <3>3. kept' \in [States -> Seq(Callbacks)]
      BY <2>5, <3>1 DEF TypeOK
    <3> QED
      BY <3>2, <3>3
  <2>7. /\ fresh' \subseteq Callbacks
        /\ UNCHANGED <<created, count, stopping, stopOnIdle, stopHooks, cause, stopAt, errs,
                       phase, lo, hi, done, ran>>
    BY <1>4 DEF AddDeferred, TypeOK
  <2> QED
    BY <2>4, <2>6, <2>7 DEF TypeOK, SpanOK
<1>5. CASE Tick
  <2>1. stopAt' \in [States -> Nat \cup {NoTime}]
    BY <1>5 DEF Tick, TypeOK, NoTime
  <2> QED
    BY <1>5, <2>1 DEF Tick, TypeOK, SpanOK
<1>6. ASSUME NEW p \in Procs, NEW s \in States, graceTimer(p, s) PROVE TypeOK'
  <2>1. p \in Actors /\ {} \in SUBSET States /\ <<>> \in Seq(Call)
    BY DEF Actors
  <2>2. hardStopLocked(p, s, "expired", {}, <<>>)
    BY <1>6 DEF graceTimer
  <2>3. /\ cause' \in [States -> {"none", "stopped", "expired"}]
        /\ deferred' \in [States -> Seq(Callbacks)]
        /\ stopAt' \in [States -> Nat \cup {NoTime}]
        /\ todo' \in [Actors -> Seq(Call)]
    BY <2>1, <2>2, HardStopType
  <2> QED
    BY <1>6, <2>3 DEF graceTimer, TypeOK, SpanOK
<1>7. ASSUME NEW t \in Tasks, Apply(t) PROVE TypeOK'
  BY <1>7, AtType DEF Apply, TypeOK, SpanOK
<1>8. ASSUME NEW t \in Tasks, ApplyCheck(t) PROVE TypeOK'
  <2>1. /\ phase' \in [Tasks -> {"idle", "checking", "entering", "running", "leaving"}]
        /\ lo' \in [Tasks -> Nat]
        /\ UNCHANGED <<locks, errs, todo, hi, seen>>
    <3>1. lo[t] \in 1 .. Depth(Home[t]) /\ Depth(Home[t]) \in Nat
      BY Span, AtType
    <3>2. \/ lo' = lo
          \/ lo' = [lo EXCEPT ![t] = 1]
          \/ lo' = [lo EXCEPT ![t] = lo[t] - 1] /\ lo[t] > 1
      BY <1>8 DEF ApplyCheck
    <3>3. lo' \in [Tasks -> Nat]
      <4>1. lo \in [Tasks -> Nat] /\ 1 \in Nat /\ (lo[t] > 1 => lo[t] - 1 \in Nat)
        BY <3>1 DEF TypeOK
      <4> QED
        BY <3>2, <4>1
    <3>4. phase' \in [Tasks -> {"idle", "checking", "entering", "running", "leaving"}]
      BY <1>8 DEF ApplyCheck, TypeOK
    <3> QED
      BY <1>8, <3>3, <3>4 DEF ApplyCheck
  <2>2. SpanOK(t)'
    <3>1. /\ lo[t] \in 1 .. Depth(Home[t]) /\ Depth(Home[t]) \in Nat \ {0} /\ hi'[t] = 0
          /\ phase \in [Tasks -> {"idle", "checking", "entering", "running", "leaving"}]
          /\ lo \in [Tasks -> Nat] /\ phase[t] = "checking"
      BY <1>8, Span, AtType DEF ApplyCheck, TypeOK
    <3>2. \/ phase' = [phase EXCEPT ![t] = "idle"] /\ lo' = [lo EXCEPT ![t] = 1]
          \/ lo[t] > 1 /\ lo' = [lo EXCEPT ![t] = lo[t] - 1] /\ phase' = phase
          \/ lo[t] = 1 /\ phase' = [phase EXCEPT ![t] = "entering"] /\ lo' = lo
      BY <1>8 DEF ApplyCheck
    <3>3. \/ phase'[t] = "idle" /\ lo'[t] = 1
          \/ phase'[t] = "checking" /\ lo'[t] \in 1 .. Depth(Home[t])
          \/ phase'[t] = "entering" /\ lo'[t] = 1
      BY <3>1, <3>2
    <3> QED
      BY <3>1, <3>3 DEF SpanOK
  <2>3. \A u \in Tasks \ {t} : SpanOK(u)'
    BY <1>8 DEF ApplyCheck, TypeOK, SpanOK
  <2> QED
    BY <2>1, <2>2, <2>3 DEF TypeOK
<1>9. ASSUME NEW t \in Tasks, ApplyAdd(t) PROVE TypeOK'
  <2> DEFINE s == At(t, hi[t] + 1)
  <2>1. /\ Depth(Home[t]) \in Nat /\ hi[t] + 1 \in 1 .. Depth(Home[t]) /\ lo[t] = 1
        /\ s \in States
        /\ s = Home[t] => hi[t] + 1 = Depth(Home[t])
        /\ s # Home[t] => hi[t] + 1 # Depth(Home[t])
    BY <1>9, Span, AtType, LevelsDiffer DEF ApplyAdd
  <2>2. /\ \/ /\ count' = [count EXCEPT ![s] = @ + 1]
              /\ hi' = [hi EXCEPT ![t] = @ + 1]
              /\ phase' = [phase EXCEPT ![t] = IF s = Home[t] THEN "running" ELSE "entering"]
           \/ /\ UNCHANGED <<count, hi>>
              /\ phase' = [phase EXCEPT ![t] = IF hi[t] = 0 THEN "idle" ELSE "leaving"]
        /\ UNCHANGED <<created, stopping, stopOnIdle, deferred, stopHooks, cause, stopAt,
                       errs, todo, lo, seen>>
    BY <1>9 DEF ApplyAdd, reject
  <2> HIDE DEF s
  <2>3. count' \in [States -> Int] /\ hi' \in [Tasks -> Nat]
    <3>1. count[s] + 1 \in Int /\ hi[t] + 1 \in Nat
      BY <2>1 DEF TypeOK
    <3>2. count' \in [States -> Int]
      BY <2>2, <3>1 DEF TypeOK
    <3>3. hi' \in [Tasks -> Nat]
      BY <2>2, <3>1 DEF TypeOK
    <3> QED
      BY <3>2, <3>3
  <2>4. phase' \in [Tasks -> {"idle", "checking", "entering", "running", "leaving"}]
    BY <2>2 DEF TypeOK
  <2>5. SpanOK(t)'
    BY <2>1, <2>2 DEF TypeOK, SpanOK
  <2>6. \A u \in Tasks \ {t} : SpanOK(u)'
    BY <2>2 DEF TypeOK, SpanOK
  <2> QED
    BY <2>2, <2>3, <2>4, <2>5, <2>6 DEF TypeOK
<1>10. ASSUME NEW t \in Tasks, ApplySub(t) PROVE TypeOK'
  <2> DEFINE s == At(t, lo[t])
  <2>1. /\ Depth(Home[t]) \in Nat \ {0} /\ lo[t] \in 1 .. hi[t] /\ hi[t] \in 1 .. Depth(Home[t])
        /\ s \in States /\ t \in Actors
    BY <1>10, Span, AtType DEF ApplySub, Actors
  <2>2. count[s] - 1 \in Int
    BY <2>1 DEF TypeOK
  <2>3. /\ count' = [count EXCEPT ![s] = @ - 1]
        /\ applyIdle(t, s, count[s] - 1)
        /\ \/ /\ lo[t] = hi[t]
              /\ phase' = [phase EXCEPT ![t] = "idle"]
              /\ lo' = [lo EXCEPT ![t] = 1]
              /\ hi' = [hi EXCEPT ![t] = 0]
           \/ /\ lo[t] # hi[t]
              /\ phase' = [phase EXCEPT ![t] = "leaving"]
              /\ lo' = [lo EXCEPT ![t] = @ + 1]
              /\ UNCHANGED hi
        /\ UNCHANGED <<created, stopOnIdle, errs, seen>>
    BY <1>10 DEF ApplySub
  <2> HIDE DEF s
  <2>4. phase' \in [Tasks -> {"idle", "checking", "entering", "running", "leaving"}]
    BY <2>3 DEF TypeOK
  <2>5. lo' \in [Tasks -> Nat] /\ hi' \in [Tasks -> Nat]
    <3>1. lo \in [Tasks -> Nat] /\ hi \in [Tasks -> Nat] /\ lo[t] + 1 \in Nat
      BY <2>1 DEF TypeOK
    <3>2. lo' = [lo EXCEPT ![t] = 1] \/ lo' = [lo EXCEPT ![t] = lo[t] + 1]
      BY <2>3
    <3>3. hi' = hi \/ hi' = [hi EXCEPT ![t] = 0]
      BY <2>3
    <3>4. lo' \in [Tasks -> Nat]
      BY <3>1, <3>2
    <3> QED
      BY <3>1, <3>3, <3>4
  <2>6. SpanOK(t)'
    BY <2>1, <2>3 DEF TypeOK, SpanOK
  <2>7. \A u \in Tasks \ {t} : SpanOK(u)'
    BY <2>3 DEF TypeOK, SpanOK
  <2>8. count' \in [States -> Int]
    BY <2>1, <2>3 DEF TypeOK
  <2>9. /\ stopping' \in [States -> BOOLEAN]
        /\ stopHooks' \in [States -> SUBSET States]
        /\ cause' \in [States -> {"none", "stopped", "expired"}]
        /\ deferred' \in [States -> Seq(Callbacks)]
        /\ stopAt' \in [States -> Nat \cup {NoTime}]
        /\ todo' \in [Actors -> Seq(Call)]
    <3>1. {} \in SUBSET States /\ <<>> \in Seq(Call) /\ 0 \in Nat /\ 0 \in Int
      OBVIOUS
    <3>2. CASE softStopLocked(t, s, 0, 0, <<>>)
      BY <2>1, <3>1, <3>2, SoftStopType
    <3>3. CASE /\ hardStopLocked(t, s, "stopped", {}, <<>>)
               /\ UNCHANGED <<stopping, stopHooks>>
      <4>1. /\ cause' \in [States -> {"none", "stopped", "expired"}]
            /\ deferred' \in [States -> Seq(Callbacks)]
            /\ stopAt' \in [States -> Nat \cup {NoTime}]
            /\ todo' \in [Actors -> Seq(Call)]
        BY <2>1, <3>1, <3>3, HardStopType
      <4> QED
        BY <3>3, <4>1 DEF TypeOK
    <3>4. CASE UNCHANGED <<stopping, stopHooks, cause, deferred, stopAt, todo>>
      BY <3>4 DEF TypeOK
    <3> QED
      BY <2>3, <3>2, <3>3, <3>4 DEF applyIdle
  <2> QED
    BY <2>3, <2>4, <2>5, <2>6, <2>7, <2>8, <2>9 DEF TypeOK
<1>11. ASSUME NEW t \in Tasks, AddErrors(t) PROVE TypeOK'
  BY <1>11, AtType DEF AddErrors, TypeOK, SpanOK
<1>12. ASSUME NEW a \in Actors, callDeferredFn(a) PROVE TypeOK'
  <2> DEFINE c == Head(todo[a])
             f == Last(c.fns)
  <2>1. c \in Call /\ Tail(todo[a]) \in Seq(Call) /\ c.fns # <<>>
    BY <1>12, HeadType DEF callDeferredFn
  <2>2. c.fns \in Seq(Callbacks) /\ c.st \in States
    BY <2>1 DEF Call
  <2>3. f \in Callbacks /\ Front(c.fns) \in Seq(Callbacks)
    BY <2>1, <2>2 DEF Last, Front
  <2>4. [c EXCEPT !.fns = Front(@)] \in Call
    BY <2>1, <2>3 DEF Call
  <2>5. Push([c EXCEPT !.fns = Front(@)], Tail(todo[a])) \in Seq(Call)
    BY <2>1, <2>4, PushType
  <2>6. /\ ran' = [ran EXCEPT ![c.st] = Append(@, f)]
        /\ errs' \in {errs, [errs EXCEPT ![c.st] = @ \cup {f}]}
        /\ todo' = [todo EXCEPT ![a] = Push([c EXCEPT !.fns = Front(@)], Tail(@))]
        /\ UNCHANGED <<locks, applys, done, fresh, kept>>
    BY <1>12 DEF callDeferredFn
  <2> HIDE DEF c, f
  <2>7. todo' \in [Actors -> Seq(Call)]
    BY <2>5, <2>6 DEF TypeOK
  <2>8. Append(ran[c.st], f) \in Seq(Callbacks)
    BY <2>2, <2>3 DEF TypeOK
  <2>9. ran' \in [States -> Seq(Callbacks)]
    BY <2>2, <2>6, <2>8 DEF TypeOK
  <2>10. errs' \in [States -> SUBSET (Tasks \cup Callbacks)]
    <3>1. errs[c.st] \cup {f} \in SUBSET (Tasks \cup Callbacks)
      BY <2>2, <2>3 DEF TypeOK
    <3>2. errs' = errs \/ errs' = [errs EXCEPT ![c.st] = errs[c.st] \cup {f}]
      BY <2>6
    <3> QED
      BY <3>1, <3>2 DEF TypeOK
  <2> QED
    BY <2>6, <2>7, <2>9, <2>10 DEF TypeOK, SpanOK
<1>13. ASSUME NEW a \in Actors, callDeferredCancel(a) PROVE TypeOK'
  <2> DEFINE c == Head(todo[a])
  <2>1. c \in Call /\ Tail(todo[a]) \in Seq(Call)
    BY <1>13, HeadType DEF callDeferredCancel
  <2>2. [c EXCEPT !.cancel = FALSE] \in Call /\ c.st \in States
    BY <2>1 DEF Call
  <2>3. Push([c EXCEPT !.cancel = FALSE], Tail(todo[a])) \in Seq(Call)
    BY <2>1, <2>2, PushType
  <2>4. /\ done' = [done EXCEPT ![c.st] = TRUE]
        /\ stopHooks' = IF HasParent(c.st)
                          THEN [stopHooks EXCEPT ![Parent(c.st)] = @ \ {c.st}]
                          ELSE stopHooks
        /\ todo' = [todo EXCEPT ![a] = Push([c EXCEPT !.cancel = FALSE], Tail(@))]
        /\ UNCHANGED <<created, count, stopping, stopOnIdle, deferred, cause, stopAt,
                       errs, applys, fresh, kept, ran>>
    BY <1>13 DEF callDeferredCancel
  <2> HIDE DEF c
  <2>5. todo' \in [Actors -> Seq(Call)]
    BY <2>3, <2>4 DEF TypeOK
  <2>6. stopHooks' \in [States -> SUBSET States]
    BY <2>4 DEF TypeOK
  <2>7. done' \in [States -> BOOLEAN]
    BY <2>2, <2>4 DEF TypeOK
  <2> QED
    BY <2>4, <2>5, <2>6, <2>7 DEF TypeOK, SpanOK
<1>14. ASSUME NEW a \in Actors, callDeferredHook(a) PROVE TypeOK'
  <2> DEFINE c == Head(todo[a])
  <2>1. c \in Call /\ Tail(todo[a]) \in Seq(Call)
    BY <1>14, HeadType DEF callDeferredHook
  <2>2. PICK k \in c.hooks :
          softStopLocked(a, k, count[k], Grace[k],
                         Push([c EXCEPT !.hooks = @ \ {k}], Tail(todo[a])))
    BY <1>14 DEF callDeferredHook
  <2>3. k \in States /\ [c EXCEPT !.hooks = @ \ {k}] \in Call
    BY <2>1 DEF Call
  <2>4. Push([c EXCEPT !.hooks = @ \ {k}], Tail(todo[a])) \in Seq(Call)
    BY <2>1, <2>3, PushType
  <2>5. count[k] \in Int /\ Grace[k] \in Nat
    BY <2>3, GraceAssumption DEF TypeOK
  <2>6. UNCHANGED <<created, count, stopOnIdle, errs, applys, seen>>
    BY <1>14 DEF callDeferredHook
  <2> HIDE DEF c
  <2> QED
    BY <2>2, <2>3, <2>4, <2>5, <2>6, SoftStopType DEF TypeOK, SpanOK
<1>15. CASE UNCHANGED vars
  BY <1>15 DEF vars, TypeOK, SpanOK
<1> QED
  BY <1>1, <1>2, <1>3, <1>4, <1>5, <1>6, <1>7, <1>8, <1>9, <1>10, <1>11, <1>12, <1>13,
     <1>14, <1>15 DEF Next

(* The variables keep their types and each task is counted on a contiguous *)
(* stretch of its path, in every behaviour of Apply, Stop, StopOnIdle,     *)
(* AddDeferred, AddStopHook, callDeferred and the grace timer.             *)
THEOREM TypeCorrect == Spec => []TypeOK
<1>1. Init => TypeOK
  BY TypeInit
<1>2. TypeOK /\ [Next]_vars => TypeOK'
  BY TypeNext
<1> QED
  BY <1>1, <1>2, PTL DEF Spec
-----------------------------------------------------------------------------
(* The tasks counted at a State.                                           *)

LEMMA HoldersFinite ==
  ASSUME NEW s \in States
  PROVE  IsFiniteSet(Holders(s)) /\ Cardinality(Holders(s)) \in Nat
BY TaskAssumption, FS_Subset, FS_CardinalityType DEF Holders

\* An accepted Apply(1) adds the task at one State.
LEMMA HoldersAdd ==
  ASSUME TypeOK, NEW t \in Tasks, phase[t] = "entering",
         hi' = [hi EXCEPT ![t] = @ + 1], lo' = lo
  PROVE  LET s == At(t, hi[t] + 1) IN
         /\ s \in States /\ t \notin Holders(s)
         /\ \A r \in States :
              Holders(r)' = IF r = s THEN Holders(r) \cup {t} ELSE Holders(r)
<1> DEFINE s == At(t, hi[t] + 1)
<1>1. /\ Depth(Home[t]) \in Nat /\ lo[t] = 1 /\ hi[t] \in Nat
      /\ hi[t] + 1 \in 1 .. Depth(Home[t]) /\ s \in States
  BY Span, AtType
<1>2. hi'[t] = hi[t] + 1 /\ lo'[t] = 1
  BY <1>1 DEF TypeOK
<1>3. \A i \in 1 .. hi[t] : At(t, i) # s
  BY <1>1, LevelsDiffer
<1>4. t \notin Holders(s)
  BY <1>1, <1>3 DEF Holders, Holds
<1>5. ASSUME NEW r \in States, NEW u \in Tasks
      PROVE  Holds(u, r)' <=> Holds(u, r) \/ (u = t /\ r = s)
  <2>1. CASE u = t
    <3>1. 1 .. hi[t] + 1 = (1 .. hi[t]) \cup {hi[t] + 1}
      BY <1>1
    <3> QED
      BY <1>1, <1>2, <2>1, <3>1 DEF Holds, At
  <2>2. CASE u # t
    BY <2>2 DEF Holds, At, TypeOK
  <2> QED
    BY <2>1, <2>2
<1> QED
  BY <1>1, <1>4, <1>5 DEF Holders

\* Apply(-1) removes it at one State.
LEMMA HoldersSub ==
  ASSUME TypeOK, NEW t \in Tasks, ApplySub(t)
  PROVE  LET s == At(t, lo[t]) IN
         /\ s \in States /\ t \in Holders(s)
         /\ \A r \in States :
              Holders(r)' = IF r = s THEN Holders(r) \ {t} ELSE Holders(r)
<1> DEFINE s == At(t, lo[t])
<1>1. /\ Depth(Home[t]) \in Nat /\ lo[t] \in 1 .. hi[t] /\ hi[t] \in 1 .. Depth(Home[t])
      /\ s \in States
  BY Span, AtType DEF ApplySub
<1>2. \/ lo[t] = hi[t] /\ lo' = [lo EXCEPT ![t] = 1] /\ hi' = [hi EXCEPT ![t] = 0]
      \/ lo[t] # hi[t] /\ lo' = [lo EXCEPT ![t] = lo[t] + 1] /\ hi' = hi
  BY DEF ApplySub
<1>3. t \in Holders(s)
  BY <1>1 DEF Holders, Holds
<1>4. \A i \in lo[t] .. hi[t] : At(t, i) = s => i = lo[t]
  BY <1>1, LevelsDiffer
<1>5. \A i \in Int : i \in lo'[t] .. hi'[t] <=> i \in lo[t] .. hi[t] /\ i # lo[t]
  BY <1>1, <1>2 DEF TypeOK
<1>6. ASSUME NEW r \in States, NEW u \in Tasks
      PROVE  Holds(u, r)' <=> Holds(u, r) /\ ~(u = t /\ r = s)
  <2>1. CASE u = t
    <3>1. Holds(t, r)' <=> \E i \in Int : i \in lo'[t] .. hi'[t] /\ At(t, i) = r
      BY DEF Holds, At
    <3>2. Holds(t, r) <=> \E i \in Int : i \in lo[t] .. hi[t] /\ At(t, i) = r
      BY DEF Holds
    <3>3. \A i \in Int : i \in lo[t] .. hi[t] /\ At(t, i) = r => (i = lo[t] <=> r = s)
      BY <1>4
    <3> QED
      BY <1>5, <2>1, <3>1, <3>2, <3>3
  <2>2. CASE u # t
    <3>1. lo'[u] = lo[u] /\ hi'[u] = hi[u]
      BY <1>2, <2>2 DEF TypeOK
    <3> QED
      BY <2>2, <3>1 DEF Holds, At
  <2> QED
    BY <2>1, <2>2
<1> QED
  BY <1>1, <1>3, <1>6 DEF Holders

\* The first look at the flags counts nowhere.
LEMMA HoldersCheck ==
  ASSUME TypeOK, NEW t \in Tasks, Apply(t) \/ ApplyCheck(t), NEW r \in States
  PROVE  Holders(r)' = Holders(r)
<1>1. hi[t] = 0 /\ lo[t] \in Nat \ {0} /\ hi' = hi /\ lo'[t] \in Nat \ {0}
  <2>1. lo[t] \in Nat \ {0} /\ Depth(Home[t]) \in Nat \ {0} /\ lo \in [Tasks -> Nat]
    <3>1. lo[t] \in 1 .. Depth(Home[t]) /\ Depth(Home[t]) \in Nat \ {0}
      BY Span, AtType
    <3> QED
      BY <3>1 DEF TypeOK
  <2>2. hi[t] = 0 /\ hi' = hi
    BY Span DEF Apply, ApplyCheck
  <2>3. \/ lo' = lo
        \/ lo' = [lo EXCEPT ![t] = 1]
        \/ lo' = [lo EXCEPT ![t] = Depth(Home[t])]
        \/ lo[t] > 1 /\ lo' = [lo EXCEPT ![t] = lo[t] - 1]
    BY DEF Apply, ApplyCheck
  <2> QED
    BY <2>1, <2>2, <2>3
<1>2. \A u \in Tasks \ {t} : lo'[u] = lo[u]
  BY DEF Apply, ApplyCheck, TypeOK
<1>3. ASSUME NEW u \in Tasks PROVE Holds(u, r)' <=> Holds(u, r)
  <2>1. CASE u = t
    BY <1>1, <2>1 DEF Holds
  <2>2. CASE u # t
    BY <1>1, <1>2, <2>2 DEF Holds, At
  <2> QED
    BY <2>1, <2>2
<1> QED
  BY <1>3 DEF Holders

LEMMA CountNext == TypeOK /\ CountMatchesHolders /\ [Next]_vars => CountMatchesHolders'
<1> SUFFICES ASSUME TypeOK, CountMatchesHolders, [Next]_vars, NEW r \in States
             PROVE  count'[r] = Cardinality(Holders(r)')
  BY DEF CountMatchesHolders
<1>1. count \in [States -> Int] /\ count[r] = Cardinality(Holders(r))
  BY DEF TypeOK, CountMatchesHolders
<1>2. CASE UNCHANGED <<count, lo, hi>>
  <2>1. Holders(r)' = Holders(r)
    BY <1>2 DEF Holders, Holds, At
  <2> QED
    BY <1>1, <1>2, <2>1
<1>3. ASSUME NEW t \in Tasks, Apply(t) \/ ApplyCheck(t)
      PROVE  count'[r] = Cardinality(Holders(r)')
  <2>1. count' = count
    BY <1>3 DEF Apply, ApplyCheck, locks
  <2> QED
    BY <1>1, <1>3, <2>1, HoldersCheck
<1>4. ASSUME NEW t \in Tasks, ApplyAdd(t)
      PROVE  count'[r] = Cardinality(Holders(r)')
  <2> DEFINE s == At(t, hi[t] + 1)
  <2>1. CASE UNCHANGED <<count, hi>>
    BY <1>2, <1>4, <2>1 DEF ApplyAdd
  <2>2. CASE count' = [count EXCEPT ![s] = @ + 1] /\ hi' = [hi EXCEPT ![t] = @ + 1]
    <3>1. phase[t] = "entering" /\ lo' = lo
      BY <1>4 DEF ApplyAdd
    <3>2. /\ s \in States /\ t \notin Holders(s)
          /\ Holders(r)' = IF r = s THEN Holders(r) \cup {t} ELSE Holders(r)
      BY <2>2, <3>1, HoldersAdd
    <3> HIDE DEF s
    <3>3. CASE r = s
      <4>1. Cardinality(Holders(r) \cup {t}) = Cardinality(Holders(r)) + 1
        BY <3>2, <3>3, HoldersFinite, FS_AddElement
      <4> QED
        BY <1>1, <2>2, <3>2, <3>3, <4>1
    <3>4. CASE r # s
      BY <1>1, <2>2, <3>2, <3>4
    <3> QED
      BY <3>3, <3>4
  <2> QED
    BY <1>4, <2>1, <2>2 DEF ApplyAdd
<1>5. ASSUME NEW t \in Tasks, ApplySub(t)
      PROVE  count'[r] = Cardinality(Holders(r)')
  <2> DEFINE s == At(t, lo[t])
  <2>1. count' = [count EXCEPT ![s] = @ - 1]
    BY <1>5 DEF ApplySub
  <2>2. /\ s \in States /\ t \in Holders(s)
        /\ Holders(r)' = IF r = s THEN Holders(r) \ {t} ELSE Holders(r)
    BY <1>5, HoldersSub
  <2> HIDE DEF s
  <2>3. CASE r = s
    <3>1. Cardinality(Holders(r) \ {t}) = Cardinality(Holders(r)) - 1
      BY <2>2, <2>3, HoldersFinite, FS_RemoveElement
    <3> QED
      BY <1>1, <2>1, <2>2, <2>3, <3>1
  <2>4. CASE r # s
    BY <1>1, <2>1, <2>2, <2>4
  <2> QED
    BY <2>3, <2>4
<1> QED
  <2> USE DEF applys
  <2>1. ASSUME NEW p \in Procs, NEW s \in States, AddStopHook(p, s)
        PROVE  UNCHANGED <<count, lo, hi>>
    BY <2>1 DEF AddStopHook
  <2>2. ASSUME NEW p \in Procs, NEW s \in States, NEW g \in Graces, Stop(p, s, g)
        PROVE  UNCHANGED <<count, lo, hi>>
    BY <2>2 DEF Stop
  <2>3. ASSUME NEW p \in Procs, NEW s \in States, StopOnIdle(p, s)
        PROVE  UNCHANGED <<count, lo, hi>>
    BY <2>3 DEF StopOnIdle
  <2>4. ASSUME NEW p \in Procs, NEW s \in States, NEW f \in Callbacks, AddDeferred(p, s, f)
        PROVE  UNCHANGED <<count, lo, hi>>
    BY <2>4 DEF AddDeferred
  <2>5. ASSUME NEW p \in Procs, NEW s \in States, graceTimer(p, s)
        PROVE  UNCHANGED <<count, lo, hi>>
    BY <2>5 DEF graceTimer
  <2>6. ASSUME NEW a \in Actors, callDeferredFn(a) \/ callDeferredCancel(a) \/ callDeferredHook(a)
        PROVE  UNCHANGED <<count, lo, hi>>
    BY <2>6 DEF callDeferredFn, callDeferredCancel, callDeferredHook, locks
  <2>7. CASE Tick \/ \E t \in Tasks : AddErrors(t)
    BY <1>2, <2>7 DEF Tick, AddErrors, locks
  <2>8. CASE UNCHANGED vars
    BY <1>2, <2>8 DEF vars, locks
  <2> QED
    BY <1>2, <1>3, <1>4, <1>5, <2>1, <2>2, <2>3, <2>4, <2>5, <2>6, <2>7, <2>8 DEF Next

-----------------------------------------------------------------------------
(* Stops.                                                                  *)

LEMMA HardStopEffect ==
  ASSUME TypeOK, NEW a \in Actors, NEW s \in States,
         NEW err \in {"stopped", "expired"}, NEW hooks, NEW rest,
         hardStopLocked(a, s, err, hooks, rest)
  PROVE  /\ \A r \in States \ {s} : cause'[r] = cause[r] /\ stopAt'[r] = stopAt[r]
         /\ captured(s) => cause'[s] = cause[s] /\ stopAt'[s] = stopAt[s]
         /\ ~captured(s) => cause'[s] = err /\ stopAt'[s] = NoTime
BY DEF hardStopLocked, TypeOK

LEMMA SoftStopEffect ==
  ASSUME TypeOK, NEW a \in Actors, NEW s \in States, NEW n \in Nat, NEW g \in Nat,
         NEW rest, softStopLocked(a, s, n, g, rest)
  PROVE  /\ stopping' = [stopping EXCEPT ![s] = TRUE]
         /\ \A r \in States \ {s} : cause'[r] = cause[r] /\ stopAt'[r] = stopAt[r]
         /\ captured(s) => cause'[s] = cause[s]
         /\ ~captured(s) => cause'[s] = IF n = 0 THEN "stopped"
                                        ELSE IF g = 0 THEN "expired" ELSE "none"
         /\ cause'[s] # "none" \/ stopAt'[s] # NoTime
         /\ stopAt[s] # NoTime =>
              \/ stopAt'[s] # NoTime /\ stopAt'[s] <= stopAt[s]
              \/ stopAt'[s] = NoTime /\ cause'[s] # "none"
<1>1. /\ stopAt \in [States -> Nat \cup {NoTime}]
      /\ cause \in [States -> {"none", "stopped", "expired"}]
      /\ stopping' = [stopping EXCEPT ![s] = TRUE]
  BY DEF TypeOK, softStopLocked
<1>2. CASE n = 0 /\ hardStopLocked(a, s, "stopped", stopHooks[s], rest)
  BY <1>1, <1>2, HardStopEffect DEF captured, NoTime
<1>3. CASE n # 0 /\ g <= 0 /\ hardStopLocked(a, s, "expired", stopHooks[s], rest)
  BY <1>1, <1>3, HardStopEffect DEF captured, NoTime
<1>4. CASE n # 0 /\ g > 0 /\ updateGraceTimerLocked(s, g) /\ cause' = cause
  BY <1>1, <1>4 DEF captured, updateGraceTimerLocked, NoTime
<1> QED
  BY <1>2, <1>3, <1>4 DEF softStopLocked

\* What one step can do to a State r that is stopping or gets stopped.
Guarded(r) ==
  /\ count'[r] = 0 /\ (stopping'[r] \/ stopOnIdle'[r]) => cause'[r] # "none"
  /\ stopping'[r] => cause'[r] # "none" \/ stopAt'[r] # NoTime
  /\ cause'[r] # "none" \/ stopAt'[r] # NoTime => stopping'[r]
  /\ cause'[r] = "stopped" => count'[r] = 0
  /\ cause'[r] # cause[r] => (cause'[r] = "stopped" <=> count'[r] = 0)
  /\ stopAt[r] # NoTime =>
       \/ stopAt'[r] # NoTime /\ stopAt'[r] <= stopAt[r]
       \/ stopAt'[r] = NoTime /\ cause'[r] # "none"

\* A State's share of the induction hypothesis.
LEMMA Hypothesis ==
  ASSUME IInv, NEW r \in States
  PROVE  /\ count[r] \in Nat /\ stopping[r] \in BOOLEAN /\ stopOnIdle[r] \in BOOLEAN
         /\ stopAt[r] \in Nat \cup {NoTime} /\ cause[r] \in {"none", "stopped", "expired"}
         /\ count[r] = 0 /\ (stopping[r] \/ stopOnIdle[r]) => cause[r] # "none"
         /\ stopping[r] => cause[r] # "none" \/ stopAt[r] # NoTime
         /\ cause[r] # "none" \/ stopAt[r] # NoTime => stopping[r]
         /\ cause[r] = "stopped" => count[r] = 0
BY HoldersFinite
   DEF IInv, TypeOK, CountMatchesHolders, IdleIsStopped, StopsAreFirm, captured

\* The parts of a step that leave these variables alone.
LEMMA Untouched ==
  ASSUME IInv, NEW r \in States,
         count'[r] = count[r], stopping'[r] = stopping[r], stopOnIdle'[r] = stopOnIdle[r],
         cause'[r] = cause[r], stopAt'[r] = stopAt[r]
  PROVE  Guarded(r)
<1>1. stopAt[r] # NoTime => stopAt[r] \in Nat
  BY Hypothesis
<1> QED
  BY <1>1, Hypothesis DEF Guarded

\* Stop, StopOnIdle and the hooks of a State: g is the grace period.
LEMMA SoftStopGuarded ==
  ASSUME IInv, NEW a \in Actors, NEW s \in States, NEW g \in Nat, NEW rest,
         softStopLocked(a, s, count[s], g, rest), count' = count,
         \/ stopOnIdle' = stopOnIdle
         \/ stopOnIdle' = [stopOnIdle EXCEPT ![s] = TRUE] /\ count[s] = 0,
         NEW r \in States
  PROVE  Guarded(r)
<1>1. TypeOK /\ count[s] \in Nat
  BY Hypothesis DEF IInv
<1>2. /\ stopping' = [stopping EXCEPT ![s] = TRUE] /\ stopping \in [States -> BOOLEAN]
      /\ \A q \in States \ {s} : cause'[q] = cause[q] /\ stopAt'[q] = stopAt[q]
      /\ captured(s) => cause'[s] = cause[s]
      /\ ~captured(s) => cause'[s] = IF count[s] = 0 THEN "stopped"
                                     ELSE IF g = 0 THEN "expired" ELSE "none"
      /\ cause'[s] # "none" \/ stopAt'[s] # NoTime
      /\ stopAt[s] # NoTime =>
           \/ stopAt'[s] # NoTime /\ stopAt'[s] <= stopAt[s]
           \/ stopAt'[s] = NoTime /\ cause'[s] # "none"
  <2>1. stopping \in [States -> BOOLEAN]
    BY <1>1 DEF TypeOK
  <2> QED
    BY <1>1, <2>1, SoftStopEffect
<1>3. CASE r = s
  <2>1. stopping'[s] = TRUE
    BY <1>2
  <2> QED
    BY <1>1, <1>2, <1>3, <2>1, Hypothesis DEF Guarded, captured
<1>4. CASE r # s
  <2>1. stopping'[r] = stopping[r] /\ cause'[r] = cause[r] /\ stopAt'[r] = stopAt[r]
    BY <1>2, <1>4
  <2> QED
    BY <1>1, <1>4, <2>1, Untouched DEF TypeOK
<1> QED
  BY <1>3, <1>4

LEMMA StopsNext == IInv /\ [Next]_vars => \A r \in States : Guarded(r)
<1> SUFFICES ASSUME IInv, [Next]_vars, NEW r \in States PROVE Guarded(r)
  OBVIOUS
<1> TypeOK
  BY DEF IInv
<1> USE DEF locks
<1>1. CASE UNCHANGED <<count, stopping, stopOnIdle, cause, stopAt>>
  BY <1>1, Untouched
<1>2. ASSUME NEW p \in Procs, NEW s \in States, NEW g \in Graces, Stop(p, s, g)
      PROVE  Guarded(r)
  <2>1. p \in Actors /\ g \in Nat
    BY GraceAssumption DEF Actors
  <2>2. /\ softStopLocked(p, s, count[s], g, <<>>)
        /\ count' = count /\ stopOnIdle' = stopOnIdle
    BY <1>2 DEF Stop
  <2> QED
    BY <2>1, <2>2, SoftStopGuarded
<1>3. ASSUME NEW p \in Procs, NEW s \in States, StopOnIdle(p, s)
      PROVE  Guarded(r)
  <2>1. p \in Actors /\ 0 \in Nat
    BY DEF Actors
  <2>2. stopOnIdle' = [stopOnIdle EXCEPT ![s] = TRUE] /\ count' = count
    BY <1>3 DEF StopOnIdle
  <2>3. CASE count[s] = 0 /\ softStopLocked(p, s, 0, 0, <<>>)
    <3>1. softStopLocked(p, s, count[s], 0, <<>>)
      BY <2>3
    <3> QED
      BY <2>1, <2>2, <2>3, <3>1, SoftStopGuarded
  <2>4. CASE count[s] # 0 /\ UNCHANGED <<stopping, cause, stopAt>>
    <3>1. stopOnIdle'[r] = IF r = s THEN TRUE ELSE stopOnIdle[r]
      BY <2>2 DEF TypeOK
    <3>2. stopAt[r] # NoTime => stopAt[r] \in Nat
      BY Hypothesis
    <3> QED
      BY <2>2, <2>4, <3>1, <3>2, Hypothesis DEF Guarded
  <2> QED
    BY <1>3, <2>3, <2>4 DEF StopOnIdle
<1>4. CASE Tick
  <2>1. /\ UNCHANGED <<count, stopping, stopOnIdle, cause>>
        /\ stopAt'[r] = IF stopAt[r] > 0 THEN stopAt[r] - 1 ELSE stopAt[r]
    BY <1>4 DEF Tick
  <2>2. /\ stopAt[r] = NoTime => stopAt'[r] = NoTime
        /\ stopAt[r] # NoTime => stopAt'[r] # NoTime /\ stopAt'[r] <= stopAt[r]
    BY <2>1, Hypothesis DEF NoTime
  <2> QED
    BY <2>1, <2>2, Hypothesis DEF Guarded
<1>5. ASSUME NEW p \in Procs, NEW s \in States, graceTimer(p, s)
      PROVE  Guarded(r)
  <2>1. /\ hardStopLocked(p, s, "expired", {}, <<>>) /\ stopAt[s] = 0
        /\ UNCHANGED <<count, stopping, stopOnIdle>>
    BY <1>5 DEF graceTimer
  <2>2. /\ \A q \in States \ {s} : cause'[q] = cause[q] /\ stopAt'[q] = stopAt[q]
        /\ captured(s) => cause'[s] = cause[s] /\ stopAt'[s] = stopAt[s]
        /\ ~captured(s) => cause'[s] = "expired" /\ stopAt'[s] = NoTime
    BY <2>1, HardStopEffect DEF Actors
  <2>3. CASE r # s \/ captured(s)
    BY <2>1, <2>2, <2>3, Untouched
  <2>4. CASE r = s /\ ~captured(s)
    <3>1. stopping[s] /\ count[s] # 0
      BY <2>1, <2>4, Hypothesis DEF captured, NoTime
    <3> QED
      BY <2>1, <2>2, <2>4, <3>1 DEF Guarded
  <2> QED
    BY <2>3, <2>4
<1>6. ASSUME NEW t \in Tasks, ApplyAdd(t) PROVE Guarded(r)
  <2> DEFINE s == At(t, hi[t] + 1)
  <2>1. UNCHANGED <<stopping, stopOnIdle, cause, stopAt>>
    BY <1>6 DEF ApplyAdd
  <2>2. CASE UNCHANGED count
    BY <1>1, <2>1, <2>2
  <2>3. CASE ~stopping[s] /\ count' = [count EXCEPT ![s] = @ + 1]
    <3>1. count'[r] = IF r = s THEN count[r] + 1 ELSE count[r]
      BY <2>3 DEF TypeOK
    <3>2. stopAt[r] # NoTime => stopAt[r] \in Nat
      BY Hypothesis
    <3> HIDE DEF s
    <3> QED
      BY <2>1, <2>3, <3>1, <3>2, Hypothesis DEF Guarded
  <2> QED
    BY <1>6, <2>2, <2>3 DEF ApplyAdd, accepts
<1>7. ASSUME NEW t \in Tasks, ApplySub(t) PROVE Guarded(r)
  <2> DEFINE s == At(t, lo[t])
  <2>1. /\ count' = [count EXCEPT ![s] = @ - 1]
        /\ applyIdle(t, s, count[s] - 1)
        /\ UNCHANGED stopOnIdle
    BY <1>7 DEF ApplySub
  <2>2. s \in States /\ t \in Holders(s)
    BY <1>7, HoldersSub
  <2>3. t \in Actors
    BY DEF Actors
  <2> HIDE DEF s
  <2>4. count[s] # 0
    <3>1. Holders(s) # {}
      BY <2>2
    <3>2. Cardinality(Holders(s)) # 0
      BY <2>2, <3>1, HoldersFinite, FS_EmptySet
    <3> QED
      BY <2>2, <3>2 DEF IInv, CountMatchesHolders
  <2>5. /\ count'[s] = count[s] - 1 /\ count[s] \in Nat
        /\ r # s => count'[r] = count[r]
    BY <2>1, <2>2, Hypothesis DEF TypeOK
  <2>6. CASE /\ count[s] - 1 = 0 /\ softStopLocked(t, s, 0, 0, <<>>)
    <3>1. /\ stopping' = [stopping EXCEPT ![s] = TRUE]
          /\ \A q \in States \ {s} : cause'[q] = cause[q] /\ stopAt'[q] = stopAt[q]
          /\ captured(s) => cause'[s] = cause[s]
          /\ ~captured(s) => cause'[s] = "stopped"
          /\ stopAt[s] # NoTime =>
               \/ stopAt'[s] # NoTime /\ stopAt'[s] <= stopAt[s]
               \/ stopAt'[s] = NoTime /\ cause'[s] # "none"
      BY <2>2, <2>3, <2>6, SoftStopEffect
    <3>2. stopping'[s] = TRUE /\ (r # s => stopping'[r] = stopping[r])
      BY <2>2, <3>1 DEF TypeOK
    <3>3. CASE r = s
      BY <2>1, <2>2, <2>4, <2>5, <2>6, <3>1, <3>2, <3>3, Hypothesis DEF Guarded, captured
    <3>4. CASE r # s
      BY <2>1, <2>2, <2>5, <3>1, <3>2, <3>4, Untouched
    <3> QED
      BY <3>3, <3>4
  <2>7. CASE /\ count[s] - 1 = 0 /\ stopping[s] /\ hardStopLocked(t, s, "stopped", {}, <<>>)
             /\ UNCHANGED stopping
    <3>1. /\ \A q \in States \ {s} : cause'[q] = cause[q] /\ stopAt'[q] = stopAt[q]
          /\ captured(s) => cause'[s] = cause[s] /\ stopAt'[s] = stopAt[s]
          /\ ~captured(s) => cause'[s] = "stopped" /\ stopAt'[s] = NoTime
      BY <2>2, <2>3, <2>7, HardStopEffect
    <3>2. CASE r = s
      BY <2>1, <2>2, <2>4, <2>5, <2>7, <3>1, <3>2, Hypothesis DEF Guarded, captured
    <3>3. CASE r # s
      BY <2>1, <2>2, <2>5, <2>7, <3>1, <3>3, Untouched
    <3> QED
      BY <3>2, <3>3
  <2>8. CASE /\ count[s] - 1 # 0 \/ (~stopOnIdle[s] /\ ~stopping[s])
             /\ UNCHANGED <<stopping, cause, stopAt>>
    <3>1. CASE r = s
      <4>1. stopAt[s] # NoTime => stopAt[s] \in Nat
        BY <2>2, Hypothesis
      <4> QED
        BY <2>1, <2>2, <2>4, <2>5, <2>8, <3>1, <4>1, Hypothesis DEF Guarded
    <3>2. CASE r # s
      BY <2>1, <2>2, <2>5, <2>8, <3>2, Untouched
    <3> QED
      BY <3>1, <3>2
  <2> QED
    BY <2>1, <2>6, <2>7, <2>8 DEF applyIdle
<1>8. ASSUME NEW a \in Actors, callDeferredHook(a) PROVE Guarded(r)
  <2> DEFINE c == Head(todo[a])
  <2>1. c \in Call
    BY <1>8, HeadType DEF callDeferredHook
  <2>2. PICK k \in c.hooks :
          softStopLocked(a, k, count[k], Grace[k],
                         Push([c EXCEPT !.hooks = @ \ {k}], Tail(todo[a])))
    BY <1>8 DEF callDeferredHook
  <2>3. k \in States /\ Grace[k] \in Nat
    BY <2>1, GraceAssumption DEF Call
  <2>4. count' = count /\ stopOnIdle' = stopOnIdle
    BY <1>8 DEF callDeferredHook
  <2> QED
    BY <2>2, <2>3, <2>4, SoftStopGuarded
<1>9. ASSUME NEW p \in Procs, NEW s \in States, AddStopHook(p, s) PROVE Guarded(r)
  BY <1>1, <1>9 DEF AddStopHook
<1>10. ASSUME NEW p \in Procs, NEW s \in States, NEW f \in Callbacks, AddDeferred(p, s, f)
       PROVE  Guarded(r)
  BY <1>1, <1>10 DEF AddDeferred
<1>11. ASSUME NEW t \in Tasks, Apply(t) \/ ApplyCheck(t) \/ AddErrors(t) PROVE Guarded(r)
  BY <1>1, <1>11 DEF Apply, ApplyCheck, AddErrors
<1>12. ASSUME NEW a \in Actors, callDeferredFn(a) \/ callDeferredCancel(a) PROVE Guarded(r)
  BY <1>1, <1>12 DEF callDeferredFn, callDeferredCancel
<1>13. CASE UNCHANGED vars
  BY <1>1, <1>13 DEF vars
<1> QED
  BY <1>2, <1>3, <1>4, <1>5, <1>6, <1>7, <1>8, <1>9, <1>10, <1>11, <1>12, <1>13 DEF Next

LEMMA InvInit == Init => IInv
<1> SUFFICES ASSUME Init PROVE IInv
  OBVIOUS
<1>1. TypeOK
  BY TypeInit
<1>2. CountMatchesHolders
  <2>1. \A s \in States : Holders(s) = {}
    BY DEF Init, Holders, Holds
  <2> QED
    BY <2>1, FS_EmptySet DEF Init, CountMatchesHolders
<1>3. IdleIsStopped /\ StopsAreFirm
  BY DEF Init, IdleIsStopped, StopsAreFirm, captured, NoTime
<1> QED
  BY <1>1, <1>2, <1>3 DEF IInv

LEMMA InvNext == IInv /\ [Next]_vars => IInv'
<1> SUFFICES ASSUME IInv, [Next]_vars PROVE IInv'
  OBVIOUS
<1>1. TypeOK'
  BY TypeNext DEF IInv
<1>2. CountMatchesHolders'
  BY CountNext DEF IInv
<1>3. (IdleIsStopped /\ StopsAreFirm)'
  BY StopsNext DEF Guarded, IdleIsStopped, StopsAreFirm, captured
<1> QED
  BY <1>1, <1>2, <1>3 DEF IInv

THEOREM Invariance == Spec => []IInv
<1>1. Init => IInv
  BY InvInit
<1>2. IInv /\ [Next]_vars => IInv'
  BY InvNext
<1> QED
  BY <1>1, <1>2, PTL DEF Spec

(* mu.count is at every instant the number of tasks counted at the State,  *)
(* itself or through a descendant: Apply never over-releases and never     *)
(* leaks, whatever the depth of the hierarchy and the number of tasks.     *)
THEOREM CountsAreExact == Spec => []CountMatchesHolders
<1>1. IInv => CountMatchesHolders
  BY DEF IInv
<1> QED
  BY <1>1, Invariance, PTL

(* A stop request never rests on an idle State, and a State that waits has *)
(* a deadline.                                                             *)
THEOREM NoStopRequestIsLost == Spec => []IdleIsStopped
<1>1. IInv => IdleIsStopped
  BY DEF IInv
<1> QED
  BY <1>1, Invariance, PTL

(* After ErrStopped was captured for a State no task runs on it or on any  *)
(* descendant.                                                             *)
THEOREM CleanStops == Spec => []CleanStopHasNoTasks
<1>1. ASSUME IInv PROVE CleanStopHasNoTasks
  <2> SUFFICES ASSUME NEW s \in States, NEW t \in Tasks,
                      cause[s] = "stopped", phase[t] = "running", Covers(s, Home[t])
               PROVE  FALSE
    BY DEF CleanStopHasNoTasks
  <2>1. Holders(s) = {}
    <3>1. Cardinality(Holders(s)) = 0
      BY <1>1, Hypothesis DEF IInv, CountMatchesHolders
    <3> QED
      BY <3>1, HoldersFinite, FS_EmptySet
  <2>2. lo[t] = 1 /\ hi[t] = Depth(Home[t])
    BY <1>1, Span DEF IInv
  <2>3. At(t, Depth(s)) = s /\ Depth(s) \in 1 .. Depth(Home[t])
    <3>1. Depth(s) \in Nat /\ Depth(s) > 0 /\ Depth(Home[t]) \in Nat
      BY PathAssumption, AtType DEF Depth
    <3> QED
      BY <3>1 DEF Covers, At
  <2>4. t \in Holders(s)
    BY <2>2, <2>3 DEF Holders, Holds
  <2> QED
    BY <2>1, <2>4
<1> QED
  BY <1>1, Invariance, PTL

(* Only the hard stop clears a deadline, and no call of Stop extends it.   *)
THEOREM GraceShortens == Spec => GraceOnlyShortens
<1>1. IInv /\ [Next]_vars =>
        [\A s \in States :
           stopAt[s] # NoTime =>
             \/ stopAt'[s] # NoTime /\ stopAt'[s] <= stopAt[s]
             \/ stopAt'[s] = NoTime /\ captured(s)']_vars
  BY StopsNext DEF Guarded, captured
<1> QED
  BY <1>1, Invariance, PTL DEF Spec, GraceOnlyShortens

(* ErrGracePeriodExpired is captured only while tasks remain, ErrStopped   *)
(* only when none do.                                                      *)
THEOREM CauseTruth == Spec => CauseIsTruthful
<1>1. IInv /\ [Next]_vars =>
        [\A s \in States :
           cause'[s] # cause[s] => (cause'[s] = "stopped" <=> count'[s] = 0)]_vars
  BY StopsNext DEF Guarded
<1> QED
  BY <1>1, Invariance, PTL DEF Spec, CauseIsTruthful

-----------------------------------------------------------------------------
(* State implements Lifecycle.                                             *)

\* The parent of a level of a task's path is the level before it.
LEMMA ParentLevel ==
  ASSUME NEW t \in Tasks, NEW i \in 1 .. Depth(Home[t])
  PROVE  /\ Depth(At(t, i)) = i
         /\ HasParent(At(t, i)) <=> i > 1
         /\ i > 1 => Parent(At(t, i)) = At(t, i - 1)
         /\ Covers(At(t, i), Home[t])
<1>1. /\ Home[t] \in States /\ Depth(Home[t]) \in Nat
      /\ Path[Home[t]] \in Seq(States) /\ At(t, i) = Path[Home[t]][i]
      /\ Depth(At(t, i)) = i
  BY AtType, PathLevel DEF At
<1>2. Path[At(t, i)] = SubSeq(Path[Home[t]], 1, i)
  BY <1>1, PathAssumption
<1>3. i > 1 => SubSeq(Path[Home[t]], 1, i)[i - 1] = Path[Home[t]][i - 1]
  BY <1>1 DEF Depth
<1> QED
  BY <1>1, <1>2, <1>3 DEF HasParent, Parent, Covers, At

\* Lifecycle is about the same tree.
LEMMA SameTree ==
  /\ \A s : Abstract!HasParent(s) <=> HasParent(s)
  /\ \A s : Abstract!Parent(s) = Parent(s)
  /\ \A s, d : Abstract!Covers(s, d) <=> Covers(s, d)
BY DEF Abstract!HasParent, Abstract!Parent, Abstract!Covers, Abstract!Depth,
       HasParent, Parent, Covers, Depth

LEMMA Stutters ==
  ASSUME UNCHANGED <<stopping, cause>>, UNCHANGED <<lo, hi>>
  PROVE  UNCHANGED Abstract!vars
BY DEF Abstract!vars, modeBar, liveBar, captured, Holders, Holds, At

\* What a step on one State s does to what Lifecycle sees.
LEMMA ModeStep ==
  ASSUME IInv, IInv', NEW s \in States,
         \A r \in States \ {s} : stopping'[r] = stopping[r] /\ cause'[r] = cause[r]
  PROVE  /\ cause' = [cause EXCEPT ![s] = cause'[s]]
         /\ modeBar' = [modeBar EXCEPT ![s] = modeBar'[s]]
         /\ modeBar'[s] = IF cause'[s] # "none" THEN "hard"
                          ELSE IF stopping'[s] THEN "soft" ELSE "open"
         /\ modeBar[s] = IF cause[s] # "none" THEN "hard"
                         ELSE IF stopping[s] THEN "soft" ELSE "open"
         /\ liveBar[s] = Holders(s) /\ (count[s] = 0 <=> Holders(s) = {})
<1>1. cause' \in [States -> {"none", "stopped", "expired"}]
      /\ cause \in [States -> {"none", "stopped", "expired"}]
  BY DEF IInv, TypeOK
<1>2. count[s] = 0 <=> Holders(s) = {}
  <2>1. count[s] = Cardinality(Holders(s))
    BY DEF IInv, CountMatchesHolders
  <2> QED
    BY <2>1, HoldersFinite, FS_EmptySet
<1> QED
  BY <1>1, <1>2 DEF modeBar, liveBar, captured

LEMMA SoftStopMaps ==
  ASSUME IInv, IInv', NEW a \in Actors, NEW s \in States, NEW g \in Nat, NEW rest,
         softStopLocked(a, s, count[s], g, rest), UNCHANGED <<count, lo, hi>>
  PROVE  [Abstract!Next]_(Abstract!vars)
<1>1. TypeOK /\ count[s] \in Nat
  BY Hypothesis DEF IInv
<1>2. /\ stopping' = [stopping EXCEPT ![s] = TRUE]
      /\ \A r \in States \ {s} : cause'[r] = cause[r]
      /\ captured(s) => cause'[s] = cause[s]
      /\ ~captured(s) => cause'[s] = IF count[s] = 0 THEN "stopped"
                                     ELSE IF g = 0 THEN "expired" ELSE "none"
  BY <1>1, SoftStopEffect
<1>3. stopping'[s] = TRUE /\ \A r \in States \ {s} : stopping'[r] = stopping[r]
  BY <1>1, <1>2 DEF TypeOK
<1>4. /\ cause' = [cause EXCEPT ![s] = cause'[s]]
      /\ modeBar' = [modeBar EXCEPT ![s] = modeBar'[s]]
      /\ modeBar'[s] = IF cause'[s] # "none" THEN "hard"
                       ELSE IF stopping'[s] THEN "soft" ELSE "open"
      /\ modeBar[s] = IF cause[s] # "none" THEN "hard"
                      ELSE IF stopping[s] THEN "soft" ELSE "open"
      /\ liveBar[s] = Holders(s) /\ (count[s] = 0 <=> Holders(s) = {})
  BY <1>2, <1>3, ModeStep
<1>5. liveBar' = liveBar
  BY DEF liveBar, Holders, Holds, At
<1>6. CASE captured(s) \/ (count[s] # 0 /\ g # 0 /\ stopping[s])
  <2>1. stopping[s] = TRUE /\ cause'[s] = cause[s]
    BY <1>1, <1>2, <1>6, Hypothesis DEF captured
  <2>2. UNCHANGED <<stopping, cause>>
    BY <1>1, <1>2, <1>4, <2>1 DEF TypeOK
  <2> QED
    BY <2>2, Stutters
<1>7. CASE ~captured(s) /\ count[s] = 0
  <2>1. modeBar[s] = "open" /\ liveBar[s] = {}
    BY <1>4, <1>7, Hypothesis DEF captured
  <2>2. Abstract!StopIdle(s)
    BY <1>2, <1>4, <1>5, <1>7, <2>1 DEF Abstract!StopIdle, Abstract!Settle
  <2> QED
    BY <2>2 DEF Abstract!Next
<1>8. CASE ~captured(s) /\ count[s] # 0 /\ g = 0
  <2>1. Abstract!Expire(s)
    BY <1>2, <1>4, <1>5, <1>8 DEF Abstract!Expire, Abstract!Settle, captured
  <2> QED
    BY <2>1 DEF Abstract!Next
<1>9. CASE ~captured(s) /\ count[s] # 0 /\ g # 0 /\ ~stopping[s]
  <2>1. cause'[s] = "none" /\ cause[s] = "none" /\ cause' = cause
    BY <1>1, <1>2, <1>4, <1>9 DEF captured, TypeOK
  <2>2. Abstract!Drain(s)
    BY <1>3, <1>4, <1>5, <1>9, <2>1 DEF Abstract!Drain
  <2> QED
    BY <2>2 DEF Abstract!Next
<1> QED
  BY <1>6, <1>7, <1>8, <1>9

LEMMA AddMaps ==
  ASSUME IInv, NEW t \in Tasks, ApplyAdd(t)
  PROVE  [Abstract!Next]_(Abstract!vars)
<1> DEFINE s == At(t, hi[t] + 1)
<1> TypeOK
  BY DEF IInv
<1>1. UNCHANGED <<stopping, cause, lo>> /\ phase[t] = "entering"
  BY DEF ApplyAdd
<1>2. CASE UNCHANGED hi
  BY <1>1, <1>2, Stutters
<1>3. CASE ~stopping[s] /\ hi' = [hi EXCEPT ![t] = @ + 1]
  <2>1. /\ s \in States /\ t \notin Holders(s)
        /\ \A r \in States : Holders(r)' = IF r = s THEN Holders(r) \cup {t} ELSE Holders(r)
    BY <1>1, <1>3, HoldersAdd
  <2>2. /\ Depth(Home[t]) \in Nat /\ hi[t] \in Nat /\ lo[t] = 1
        /\ hi[t] + 1 \in 1 .. Depth(Home[t])
    BY <1>1, Span, AtType
  <2>3. /\ Depth(s) = hi[t] + 1 /\ Covers(s, Home[t])
        /\ HasParent(s) <=> hi[t] + 1 > 1
        /\ HasParent(s) => Parent(s) = At(t, hi[t])
    BY <2>2, ParentLevel
  <2>4. ASSUME HasParent(s) PROVE t \in liveBar[Parent(s)]
    <3>1. hi[t] \in 1 .. Depth(Home[t]) /\ hi[t] \in lo[t] .. hi[t]
      BY <2>2, <2>3, <2>4
    <3>2. Parent(s) \in States
      BY <2>3, <2>4, <3>1, AtType
    <3> QED
      BY <2>3, <2>4, <3>1, <3>2 DEF liveBar, Holders, Holds
  <2>5. ASSUME NEW d \in States, Covers(s, d) PROVE t \notin liveBar[d]
    <3> SUFFICES ASSUME t \in Holders(d) PROVE FALSE
      BY DEF liveBar
    <3>1. PICK i \in lo[t] .. hi[t] : At(t, i) = d
      BY DEF Holders, Holds
    <3>2. i \in 1 .. Depth(Home[t]) /\ i <= hi[t] /\ i \in Nat
      BY <2>2, <3>1
    <3>3. Depth(d) = i
      BY <3>1, <3>2, ParentLevel
    <3> QED
      BY <2>2, <2>3, <2>5, <3>2, <3>3 DEF Covers
  <2>6. modeBar[s] = "open"
    BY <1>3, <2>1, Hypothesis DEF modeBar, captured
  <2>7. liveBar' = [liveBar EXCEPT ![s] = @ \cup {t}]
    BY <2>1 DEF liveBar
  <2>8. modeBar' = modeBar
    BY <1>1 DEF modeBar, captured
  <2> HIDE DEF s
  <2>9. Abstract!Enter(t, s)
    BY <1>1, <2>3, <2>4, <2>5, <2>6, <2>7, <2>8, SameTree DEF Abstract!Enter
  <2> QED
    BY <2>1, <2>9 DEF Abstract!Next
<1> QED
  BY <1>2, <1>3 DEF ApplyAdd, accepts

LEMMA SubMaps ==
  ASSUME IInv, IInv', NEW t \in Tasks, ApplySub(t)
  PROVE  [Abstract!Next]_(Abstract!vars)
<1> DEFINE s == At(t, lo[t])
<1> TypeOK
  BY DEF IInv
<1>1. /\ s \in States /\ t \in Holders(s)
      /\ \A r \in States : Holders(r)' = IF r = s THEN Holders(r) \ {t} ELSE Holders(r)
  BY HoldersSub
<1>2. applyIdle(t, s, count[s] - 1)
  BY DEF ApplySub
<1>3. /\ Depth(Home[t]) \in Nat /\ lo[t] \in 1 .. hi[t] /\ hi[t] \in 1 .. Depth(Home[t])
  BY Span, AtType DEF ApplySub
<1>4. ASSUME HasParent(s) PROVE t \notin liveBar[Parent(s)]
  <2>1. lo[t] - 1 \in 1 .. Depth(Home[t]) /\ Parent(s) = At(t, lo[t] - 1)
    BY <1>3, <1>4, ParentLevel
  <2>2. Parent(s) \in States
    BY <2>1, AtType
  <2>3. \A i \in lo[t] .. hi[t] : At(t, i) # Parent(s)
    BY <1>3, <2>1, LevelsDiffer
  <2> QED
    BY <2>2, <2>3 DEF liveBar, Holders, Holds
<1> HIDE DEF s
<1>5. liveBar' = [liveBar EXCEPT ![s] = @ \ {t}] /\ liveBar[s] = Holders(s)
  BY <1>1 DEF liveBar
<1>6. count[s] \in Nat /\ (count[s] - 1 = 0 <=> Holders(s) = {t})
  <2>1. count[s] = Cardinality(Holders(s)) /\ count[s] \in Nat
    BY <1>1, Hypothesis DEF IInv, CountMatchesHolders
  <2>2. Cardinality(Holders(s) \ {t}) = count[s] - 1 /\ IsFiniteSet(Holders(s) \ {t})
    BY <1>1, <2>1, HoldersFinite, FS_RemoveElement
  <2>3. count[s] - 1 = 0 <=> Holders(s) \ {t} = {}
    BY <2>2, FS_EmptySet
  <2> QED
    BY <1>1, <2>1, <2>3
<1>7. CASE /\ count[s] - 1 = 0
           /\ \A r \in States \ {s} : stopping'[r] = stopping[r] /\ cause'[r] = cause[r]
           /\ captured(s) => stopping' = stopping /\ cause'[s] = cause[s]
           /\ ~captured(s) => cause'[s] = "stopped"
  <2>1. /\ cause' = [cause EXCEPT ![s] = cause'[s]]
        /\ modeBar' = [modeBar EXCEPT ![s] = modeBar'[s]]
        /\ modeBar'[s] = IF cause'[s] # "none" THEN "hard"
                         ELSE IF stopping'[s] THEN "soft" ELSE "open"
        /\ modeBar[s] = IF cause[s] # "none" THEN "hard"
                        ELSE IF stopping[s] THEN "soft" ELSE "open"
    BY <1>1, <1>7, ModeStep
  <2>2. CASE captured(s)
    <3>1. cause' = cause
      BY <1>1, <1>7, <2>1, <2>2 DEF TypeOK
    <3>2. modeBar' = modeBar
      BY <1>7, <2>2, <3>1 DEF modeBar, captured
    <3>3. modeBar[s] = "hard"
      BY <2>1, <2>2 DEF captured
    <3>4. Abstract!Leave(t, s)
      BY <1>1, <1>4, <1>5, <3>1, <3>2, <3>3, SameTree DEF Abstract!Leave
    <3> QED
      BY <1>1, <3>4 DEF Abstract!Next
  <2>3. CASE ~captured(s)
    <3>1. modeBar[s] # "hard" /\ modeBar'[s] = "hard" /\ cause'[s] = "stopped"
      BY <1>7, <2>1, <2>3 DEF captured
    <3>2. Abstract!Settle(s, "stopped")
      BY <2>1, <3>1 DEF Abstract!Settle
    <3>3. liveBar[s] = {t}
      BY <1>5, <1>6, <1>7
    <3>4. Abstract!Leave(t, s)
      BY <1>1, <1>4, <1>5, <3>1, <3>2, <3>3, SameTree DEF Abstract!Leave
    <3> QED
      BY <1>1, <3>4 DEF Abstract!Next
  <2> QED
    BY <2>2, <2>3
<1>8. CASE /\ count[s] - 1 # 0 \/ ~stopping[s]
           /\ UNCHANGED <<stopping, cause>>
  <2>1. modeBar' = modeBar
    BY <1>8 DEF modeBar, captured
  <2>2. liveBar[s] = {t} => modeBar[s] # "soft"
    BY <1>1, <1>5, <1>6, <1>8 DEF modeBar
  <2>3. Abstract!Leave(t, s)
    BY <1>1, <1>4, <1>5, <1>8, <2>1, <2>2, SameTree DEF Abstract!Leave
  <2> QED
    BY <1>1, <2>3 DEF Abstract!Next
<1>9. t \in Actors
  BY DEF Actors
<1>10. CASE count[s] - 1 = 0 /\ softStopLocked(t, s, 0, 0, <<>>)
  <2>1. /\ stopping' = [stopping EXCEPT ![s] = TRUE]
        /\ \A r \in States \ {s} : cause'[r] = cause[r]
        /\ captured(s) => cause'[s] = cause[s]
        /\ ~captured(s) => cause'[s] = "stopped"
    BY <1>1, <1>9, <1>10, SoftStopEffect
  <2>2. captured(s) => stopping[s] = TRUE
    BY <1>1, Hypothesis DEF captured
  <2>3. /\ captured(s) => stopping' = stopping
        /\ \A r \in States \ {s} : stopping'[r] = stopping[r]
    BY <1>1, <2>1, <2>2 DEF TypeOK
  <2> QED
    BY <1>7, <1>10, <2>1, <2>3
<1>11. CASE /\ count[s] - 1 = 0 /\ hardStopLocked(t, s, "stopped", {}, <<>>)
            /\ UNCHANGED stopping
  <2>1. /\ \A r \in States \ {s} : cause'[r] = cause[r]
        /\ captured(s) => cause'[s] = cause[s]
        /\ ~captured(s) => cause'[s] = "stopped"
    BY <1>1, <1>9, <1>11, HardStopEffect
  <2> QED
    BY <1>7, <1>11, <2>1
<1> QED
  BY <1>2, <1>8, <1>10, <1>11 DEF applyIdle

LEMMA StepMaps == IInv /\ IInv' /\ [Next]_vars => [Abstract!Next]_(Abstract!vars)
<1> SUFFICES ASSUME IInv, IInv', [Next]_vars PROVE [Abstract!Next]_(Abstract!vars)
  OBVIOUS
<1> TypeOK
  BY DEF IInv
<1> USE DEF locks, applys
<1>1. ASSUME NEW p \in Procs, NEW s \in States, NEW g \in Graces, Stop(p, s, g)
      PROVE  [Abstract!Next]_(Abstract!vars)
  <2>1. p \in Actors /\ g \in Nat
    BY GraceAssumption DEF Actors
  <2> QED
    BY <1>1, <2>1, SoftStopMaps DEF Stop
<1>2. ASSUME NEW p \in Procs, NEW s \in States, StopOnIdle(p, s)
      PROVE  [Abstract!Next]_(Abstract!vars)
  <2>1. UNCHANGED <<count, lo, hi>>
    BY <1>2 DEF StopOnIdle
  <2>2. CASE count[s] = 0 /\ softStopLocked(p, s, 0, 0, <<>>)
    <3>1. softStopLocked(p, s, count[s], 0, <<>>) /\ 0 \in Nat /\ p \in Actors
      BY <2>2 DEF Actors
    <3> QED
      BY <2>1, <3>1, SoftStopMaps
  <2>3. CASE UNCHANGED <<stopping, cause>>
    BY <2>1, <2>3, Stutters
  <2> QED
    BY <1>2, <2>2, <2>3 DEF StopOnIdle
<1>3. ASSUME NEW p \in Procs, NEW s \in States, graceTimer(p, s)
      PROVE  [Abstract!Next]_(Abstract!vars)
  <2>1. /\ hardStopLocked(p, s, "expired", {}, <<>>) /\ stopAt[s] = 0
        /\ UNCHANGED <<count, stopping, lo, hi>>
    BY <1>3 DEF graceTimer
  <2>2. /\ \A r \in States \ {s} : cause'[r] = cause[r]
        /\ captured(s) => cause'[s] = cause[s]
        /\ ~captured(s) => cause'[s] = "expired"
    BY <2>1, HardStopEffect DEF Actors
  <2>3. /\ cause' = [cause EXCEPT ![s] = cause'[s]]
        /\ modeBar' = [modeBar EXCEPT ![s] = modeBar'[s]]
        /\ modeBar'[s] = IF cause'[s] # "none" THEN "hard"
                         ELSE IF stopping'[s] THEN "soft" ELSE "open"
        /\ modeBar[s] = IF cause[s] # "none" THEN "hard"
                        ELSE IF stopping[s] THEN "soft" ELSE "open"
        /\ liveBar[s] = Holders(s) /\ (count[s] = 0 <=> Holders(s) = {})
    BY <2>1, <2>2, ModeStep
  <2>4. CASE captured(s)
    <3>1. cause' = cause
      BY <2>2, <2>3, <2>4 DEF TypeOK
    <3> QED
      BY <2>1, <3>1, Stutters
  <2>5. CASE ~captured(s)
    <3>1. count[s] # 0
      BY <2>1, <2>5, Hypothesis DEF captured, NoTime
    <3>2. liveBar' = liveBar
      BY <2>1 DEF liveBar, Holders, Holds, At
    <3>3. Abstract!Expire(s)
      BY <2>2, <2>3, <2>5, <3>1, <3>2 DEF Abstract!Expire, Abstract!Settle, captured
    <3> QED
      BY <3>3 DEF Abstract!Next
  <2> QED
    BY <2>4, <2>5
<1>4. ASSUME NEW t \in Tasks, ApplyAdd(t) PROVE [Abstract!Next]_(Abstract!vars)
  BY <1>4, AddMaps
<1>5. ASSUME NEW t \in Tasks, ApplySub(t) PROVE [Abstract!Next]_(Abstract!vars)
  BY <1>5, SubMaps
<1>6. ASSUME NEW t \in Tasks, Apply(t) \/ ApplyCheck(t)
      PROVE  [Abstract!Next]_(Abstract!vars)
  <2>1. UNCHANGED <<stopping, cause>>
    BY <1>6 DEF Apply, ApplyCheck
  <2>2. liveBar' = liveBar
    BY <1>6, HoldersCheck DEF liveBar
  <2>3. modeBar' = modeBar
    BY <2>1 DEF modeBar, captured
  <2> QED
    BY <2>1, <2>2, <2>3 DEF Abstract!vars
<1>7. ASSUME NEW a \in Actors, callDeferredHook(a) PROVE [Abstract!Next]_(Abstract!vars)
  <2> DEFINE c == Head(todo[a])
  <2>1. c \in Call
    BY <1>7, HeadType DEF callDeferredHook
  <2>2. PICK k \in c.hooks :
          softStopLocked(a, k, count[k], Grace[k],
                         Push([c EXCEPT !.hooks = @ \ {k}], Tail(todo[a])))
    BY <1>7 DEF callDeferredHook
  <2>3. k \in States /\ Grace[k] \in Nat
    BY <2>1, GraceAssumption DEF Call
  <2>4. UNCHANGED <<count, lo, hi>>
    BY <1>7 DEF callDeferredHook
  <2> QED
    BY <2>2, <2>3, <2>4, SoftStopMaps
<1>8. ASSUME NEW p \in Procs, NEW s \in States, AddStopHook(p, s)
      PROVE  [Abstract!Next]_(Abstract!vars)
  BY <1>8, Stutters DEF AddStopHook
<1>9. ASSUME NEW p \in Procs, NEW s \in States, NEW f \in Callbacks, AddDeferred(p, s, f)
      PROVE  [Abstract!Next]_(Abstract!vars)
  BY <1>9, Stutters DEF AddDeferred
<1>10. ASSUME NEW a \in Actors, callDeferredFn(a) \/ callDeferredCancel(a)
       PROVE  [Abstract!Next]_(Abstract!vars)
  BY <1>10, Stutters DEF callDeferredFn, callDeferredCancel
<1>11. CASE Tick \/ \E t \in Tasks : AddErrors(t)
  BY <1>11, Stutters DEF Tick, AddErrors
<1>12. CASE UNCHANGED vars
  BY <1>12, Stutters DEF vars
<1> QED
  BY <1>1, <1>2, <1>3, <1>4, <1>5, <1>6, <1>7, <1>8, <1>9, <1>10, <1>11, <1>12 DEF Next

(* With its locks, unlocked steps, timers, hooks and callDeferred lists    *)
(* the hierarchy of States does only what Lifecycle allows.                *)
THEOREM Refinement == Spec => Implements
<1>1. Init => Abstract!Init
  BY DEF Init, Abstract!Init, modeBar, liveBar, Holders, Holds, captured
<1>2. IInv /\ IInv' /\ [Next]_vars => [Abstract!Next]_(Abstract!vars)
  BY StepMaps
<1> QED
  BY <1>1, <1>2, Invariance, PTL DEF Spec, Implements, Abstract!Spec

-----------------------------------------------------------------------------
(* Stacks of callDeferred lists.                                           *)

\* Some list of the stack still has s's cancel function to run; two never do.
Owes(stk, s) == \E l \in ToSet(stk) : l.cancel /\ l.st = s

OwesOnce(stk, s) ==
  \A i, j \in DOMAIN stk :
    stk[i].cancel /\ stk[i].st = s /\ stk[j].cancel /\ stk[j].st = s => i = j

Hooked(stk, c) == \E l \in ToSet(stk) : c \in l.hooks

LEMMA ConsList ==
  ASSUME NEW c \in Call, NEW rest \in Seq(Call), NEW s
  PROVE  /\ ToSet(<<c>> \o rest) = {c} \cup ToSet(rest)
         /\ OwesOnce(<<c>> \o rest, s) <=>
              OwesOnce(rest, s) /\ ~(c.cancel /\ c.st = s /\ Owes(rest, s))
<1> DEFINE stk == <<c>> \o rest
<1>1. /\ DOMAIN stk = 1 .. Len(rest) + 1 /\ DOMAIN rest = 1 .. Len(rest) /\ Len(rest) \in Nat
      /\ stk[1] = c
      /\ \A i \in 1 .. Len(rest) : stk[i + 1] = rest[i]
  OBVIOUS
<1> HIDE DEF stk
<1>2. \A i \in DOMAIN stk : i = 1 \/ (i - 1 \in DOMAIN rest /\ stk[i] = rest[i - 1])
  <2> SUFFICES ASSUME NEW i \in DOMAIN stk, i # 1
               PROVE  i - 1 \in DOMAIN rest /\ stk[i] = rest[i - 1]
    OBVIOUS
  <2>1. i - 1 \in 1 .. Len(rest) /\ (i - 1) + 1 = i
    BY <1>1
  <2> QED
    BY <1>1, <2>1
<1>3. ToSet(stk) = {c} \cup ToSet(rest)
  <2>1. \A x \in ToSet(stk) : x = c \/ x \in ToSet(rest)
    BY <1>1, <1>2 DEF ToSet
  <2>2. c \in ToSet(stk)
    BY <1>1 DEF ToSet
  <2>3. \A x \in ToSet(rest) : x \in ToSet(stk)
    <3> SUFFICES ASSUME NEW i \in DOMAIN rest PROVE rest[i] \in ToSet(stk)
      BY DEF ToSet
    <3>1. i + 1 \in DOMAIN stk /\ stk[i + 1] = rest[i]
      BY <1>1
    <3> QED
      BY <3>1 DEF ToSet
  <2> QED
    BY <2>1, <2>2, <2>3
<1>4. ASSUME OwesOnce(stk, s) PROVE OwesOnce(rest, s)
  <2> SUFFICES ASSUME NEW i \in DOMAIN rest, NEW j \in DOMAIN rest,
                      rest[i].cancel, rest[i].st = s, rest[j].cancel, rest[j].st = s
               PROVE  i = j
    BY DEF OwesOnce
  <2>1. /\ i + 1 \in DOMAIN stk /\ stk[i + 1] = rest[i] /\ i \in Nat
        /\ j + 1 \in DOMAIN stk /\ stk[j + 1] = rest[j] /\ j \in Nat
    BY <1>1
  <2>2. i + 1 = j + 1
    BY <1>4, <2>1 DEF OwesOnce
  <2> QED
    BY <2>1, <2>2
<1>5. ASSUME OwesOnce(stk, s), c.cancel, c.st = s PROVE ~Owes(rest, s)
  <2> SUFFICES ASSUME NEW i \in DOMAIN rest, rest[i].cancel, rest[i].st = s PROVE FALSE
    BY DEF Owes, ToSet
  <2>1. i + 1 \in DOMAIN stk /\ stk[i + 1] = rest[i] /\ 1 \in DOMAIN stk /\ i + 1 # 1
    BY <1>1
  <2> QED
    BY <1>1, <1>5, <2>1 DEF OwesOnce
<1>6. ASSUME OwesOnce(rest, s), ~(c.cancel /\ c.st = s /\ Owes(rest, s))
      PROVE  OwesOnce(stk, s)
  <2> SUFFICES ASSUME NEW i \in DOMAIN stk, NEW j \in DOMAIN stk,
                      stk[i].cancel, stk[i].st = s, stk[j].cancel, stk[j].st = s
               PROVE  i = j
    BY DEF OwesOnce
  <2>1. \A k \in DOMAIN rest : rest[k].cancel /\ rest[k].st = s => Owes(rest, s)
    BY DEF Owes, ToSet
  <2>2. i - 1 = j - 1 => i = j
    BY <1>1
  <2> QED
    BY <1>1, <1>2, <1>6, <2>1, <2>2 DEF OwesOnce
<1> QED
  BY <1>3, <1>4, <1>5, <1>6 DEF stk

\* A stack is its topmost list on the others.
LEMMA TopList ==
  ASSUME NEW stk \in Seq(Call), stk # <<>>, NEW s
  PROVE  /\ Head(stk) \in Call /\ Tail(stk) \in Seq(Call)
         /\ ToSet(stk) = {Head(stk)} \cup ToSet(Tail(stk))
         /\ OwesOnce(stk, s) <=>
              /\ OwesOnce(Tail(stk), s)
              /\ ~(Head(stk).cancel /\ Head(stk).st = s /\ Owes(Tail(stk), s))
<1>1. PICK c \in Call, rest \in Seq(Call) :
        c = Head(stk) /\ rest = Tail(stk) /\ stk = <<c>> \o rest
  <2>1. /\ Head(stk) \in Call /\ Tail(stk) \in Seq(Call) /\ Head(stk) = stk[1]
        /\ Len(stk) \in Nat /\ Len(stk) = Len(Tail(stk)) + 1 /\ Len(Tail(stk)) \in Nat
        /\ \A i \in 1 .. Len(Tail(stk)) : Tail(stk)[i] = stk[i + 1]
    BY HeadTailProperties
  <2> DEFINE st2 == <<Head(stk)>> \o Tail(stk)
  <2>2. st2 \in Seq(Call) /\ Len(st2) = Len(stk) /\ st2[1] = Head(stk)
    BY <2>1
  <2>3. \A i \in 1 .. Len(stk) : i # 1 => st2[i] = stk[i]
    <3> SUFFICES ASSUME NEW i \in 1 .. Len(stk), i # 1 PROVE st2[i] = stk[i]
      OBVIOUS
    <3>1. i - 1 \in 1 .. Len(Tail(stk)) /\ (i - 1) + 1 = i
      BY <2>1
    <3>2. st2[i] = Tail(stk)[i - 1]
      BY <2>1, <3>1
    <3>3. Tail(stk)[i - 1] = stk[(i - 1) + 1]
      BY <2>1, <3>1
    <3> QED
      BY <3>1, <3>2, <3>3
  <2> HIDE DEF st2
  <2>4. stk = st2
    BY <2>1, <2>2, <2>3, SeqEqual
  <2> QED
    BY <2>1, <2>4 DEF st2
<1>2. /\ ToSet(stk) = {c} \cup ToSet(rest)
      /\ OwesOnce(stk, s) <=>
           OwesOnce(rest, s) /\ ~(c.cancel /\ c.st = s /\ Owes(rest, s))
  <2>1. /\ ToSet(<<c>> \o rest) = {c} \cup ToSet(rest)
        /\ OwesOnce(<<c>> \o rest, s) <=>
             OwesOnce(rest, s) /\ ~(c.cancel /\ c.st = s /\ Owes(rest, s))
    BY ConsList
  <2> QED
    BY <1>1, <2>1, Zenon
<1> QED
  BY <1>1, <1>2

LEMMA NoList == \A s : ToSet(<<>>) = {} /\ OwesOnce(<<>>, s)
BY DEF ToSet, OwesOnce

\* Push drops a list that has nothing left to do.
LEMMA PushList ==
  ASSUME NEW c \in Call, NEW rest \in Seq(Call), NEW s
  PROVE  /\ ToSet(rest) \subseteq ToSet(Push(c, rest))
         /\ ToSet(Push(c, rest)) \subseteq {c} \cup ToSet(rest)
         /\ c \in ToSet(Push(c, rest)) \/ (c.hooks = {} /\ ~c.cancel /\ c.fns = <<>>)
         /\ OwesOnce(Push(c, rest), s) <=>
              OwesOnce(rest, s) /\ ~(c.cancel /\ c.st = s /\ Owes(rest, s))
<1>1. CASE c.hooks = {} /\ ~c.cancel /\ c.fns = <<>>
  <2>1. Push(c, rest) = rest
    BY <1>1 DEF Push
  <2> QED
    BY <1>1, <2>1
<1>2. CASE ~(c.hooks = {} /\ ~c.cancel /\ c.fns = <<>>)
  <2>1. Push(c, rest) = <<c>> \o rest
    BY <1>2 DEF Push
  <2> QED
    BY <2>1, ConsList
<1> QED
  BY <1>1, <1>2

-----------------------------------------------------------------------------
(* The steps that matter to the lists.                                     *)

\* What a stop of s leaves of goroutine a's stack: nothing lies below the
\* list it returns, or the list whose hook it is, which goes on without it.
Beneath(a, s, rest) ==
  \/ todo[a] = <<>> /\ rest = <<>>
  \/ /\ todo[a] # <<>> /\ Head(todo[a]).fns = <<>> /\ ~Head(todo[a]).cancel
     /\ rest = Push([Head(todo[a]) EXCEPT !.hooks = @ \ {s}], Tail(todo[a]))

\* A critical section of s that ends in a hard or soft stop: it takes the
\* stop hooks, or none, and the cancel function unless it was captured before.
Stops(a, s, hooks, takes, rest) ==
  /\ Beneath(a, s, rest)
  /\ todo' = [todo EXCEPT ![a] =
                Push(List(s, hooks, takes, IF takes THEN deferred[s] ELSE <<>>), rest)]
  /\ \/ /\ stopping' = [stopping EXCEPT ![s] = TRUE]
        /\ hooks = stopHooks[s] /\ stopHooks' = [stopHooks EXCEPT ![s] = {}]
     \/ todo[a] = <<>> /\ hooks = {} /\ UNCHANGED <<stopping, stopHooks>>
  /\ \/ ~takes /\ UNCHANGED <<cause, deferred>>
     \/ /\ takes /\ ~captured(s) /\ deferred' = [deferred EXCEPT ![s] = <<>>]
        /\ \E err \in {"stopped", "expired"} : cause' = [cause EXCEPT ![s] = err]
  /\ UNCHANGED <<created, done, fresh, kept, ran>>

Quiet ==
  UNCHANGED <<created, stopping, stopHooks, cause, deferred, todo, done, fresh, kept, ran>>

LEMMA HardStops ==
  ASSUME NEW a, NEW s, NEW err \in {"stopped", "expired"}, NEW hooks, NEW rest,
         hardStopLocked(a, s, err, hooks, rest), Beneath(a, s, rest),
         \/ /\ stopping' = [stopping EXCEPT ![s] = TRUE]
            /\ hooks = stopHooks[s] /\ stopHooks' = [stopHooks EXCEPT ![s] = {}]
         \/ todo[a] = <<>> /\ hooks = {} /\ UNCHANGED <<stopping, stopHooks>>,
         UNCHANGED <<created, done, fresh, kept, ran>>
  PROVE  \E takes \in BOOLEAN : Stops(a, s, hooks, takes, rest)
<1>1. CASE captured(s)
  <2>1. Stops(a, s, hooks, FALSE, rest)
    BY <1>1 DEF hardStopLocked, Stops
  <2> QED
    BY <2>1
<1>2. CASE ~captured(s)
  <2>1. Stops(a, s, hooks, TRUE, rest)
    BY <1>2 DEF hardStopLocked, Stops
  <2> QED
    BY <2>1
<1> QED
  BY <1>1, <1>2

LEMMA SoftStops ==
  ASSUME NEW a, NEW s, NEW n, NEW g, NEW rest,
         softStopLocked(a, s, n, g, rest), Beneath(a, s, rest),
         UNCHANGED <<created, done, fresh, kept, ran>>
  PROVE  \E takes \in BOOLEAN : Stops(a, s, stopHooks[s], takes, rest)
<1>1. /\ stopping' = [stopping EXCEPT ![s] = TRUE]
      /\ stopHooks' = [stopHooks EXCEPT ![s] = {}]
  BY DEF softStopLocked
<1>2. CASE \E err \in {"stopped", "expired"} : hardStopLocked(a, s, err, stopHooks[s], rest)
  BY <1>1, <1>2, HardStops
<1>3. CASE /\ todo' = [todo EXCEPT ![a] = Push(List(s, stopHooks[s], FALSE, <<>>), rest)]
           /\ UNCHANGED <<cause, deferred>>
  <2>1. Stops(a, s, stopHooks[s], FALSE, rest)
    BY <1>1, <1>3 DEF Stops
  <2> QED
    BY <2>1
<1> QED
  BY <1>2, <1>3 DEF softStopLocked

LEMMA StepKinds ==
  ASSUME TypeOK, [Next]_vars
  PROVE  \/ Quiet
         \/ \E a \in Actors, s \in States, hooks \in SUBSET States, takes \in BOOLEAN,
               rest \in Seq(Call) : Stops(a, s, hooks, takes, rest)
         \/ \E p \in Procs, s \in States : AddStopHook(p, s)
         \/ \E p \in Procs, s \in States, f \in Callbacks : AddDeferred(p, s, f)
         \/ \E a \in Actors : callDeferredFn(a) \/ callDeferredCancel(a)
<1> DEFINE Stopped == \E a \in Actors, s \in States, hooks \in SUBSET States,
                         takes \in BOOLEAN, rest \in Seq(Call) : Stops(a, s, hooks, takes, rest)
<1> USE DEF locks, applys, seen
<1>1. ASSUME NEW a \in Actors, NEW s \in States, NEW n, NEW g, NEW rest \in Seq(Call),
             softStopLocked(a, s, n, g, rest), Beneath(a, s, rest),
             UNCHANGED <<created, done, fresh, kept, ran>>
      PROVE  Stopped
  <2>1. stopHooks[s] \in SUBSET States
    BY DEF TypeOK
  <2> QED
    BY <1>1, <2>1, SoftStops
<1>2. ASSUME NEW a \in Actors, NEW s \in States, NEW err \in {"stopped", "expired"},
             todo[a] = <<>>, hardStopLocked(a, s, err, {}, <<>>),
             UNCHANGED <<created, stopping, stopHooks, done, fresh, kept, ran>>
      PROVE  Stopped
  <2>1. Beneath(a, s, <<>>) /\ {} \in SUBSET States /\ <<>> \in Seq(Call)
    BY <1>2 DEF Beneath
  <2>2. \E takes \in BOOLEAN : Stops(a, s, {}, takes, <<>>)
    BY <1>2, <2>1, HardStops
  <2> QED
    BY <2>1, <2>2
<1> HIDE DEF Stopped
<1>3. \A a, s : todo[a] = <<>> => Beneath(a, s, <<>>)
  BY DEF Beneath
<1>4. <<>> \in Seq(Call)
  OBVIOUS
<1>5. ASSUME NEW p \in Procs, NEW s \in States, NEW g \in Graces, Stop(p, s, g)
      PROVE  Stopped
  BY <1>1, <1>3, <1>4, <1>5 DEF Stop, Actors
<1>6. ASSUME NEW p \in Procs, NEW s \in States, StopOnIdle(p, s) PROVE Stopped \/ Quiet
  BY <1>1, <1>3, <1>4, <1>6 DEF StopOnIdle, Actors, Quiet
<1>7. ASSUME NEW p \in Procs, NEW s \in States, graceTimer(p, s) PROVE Stopped
  BY <1>2, <1>7 DEF graceTimer, Actors
<1>8. ASSUME NEW t \in Tasks, ApplySub(t) PROVE Stopped \/ Quiet
  <2> DEFINE s == At(t, lo[t])
  <2>1. s \in States /\ t \in Actors
    BY <1>8, Span, AtType DEF Actors
  <2>2. todo[t] = <<>> /\ UNCHANGED <<created, done, fresh, kept, ran>>
    BY <1>8 DEF ApplySub
  <2>3. applyIdle(t, s, count[s] - 1)
    BY <1>8 DEF ApplySub
  <2> HIDE DEF s
  <2> QED
    BY <1>1, <1>2, <1>3, <1>4, <2>1, <2>2, <2>3 DEF applyIdle, Quiet
<1>9. ASSUME NEW a \in Actors, callDeferredHook(a) PROVE Stopped
  <2> DEFINE c == Head(todo[a])
             rest(k) == Push([c EXCEPT !.hooks = @ \ {k}], Tail(todo[a]))
  <2>1. c \in Call /\ Tail(todo[a]) \in Seq(Call)
    BY <1>9, HeadType DEF callDeferredHook
  <2>2. PICK k \in c.hooks : softStopLocked(a, k, count[k], Grace[k], rest(k))
    BY <1>9 DEF callDeferredHook
  <2>3. k \in States
    BY <2>1 DEF Call
  <2>4. [c EXCEPT !.hooks = @ \ {k}] \in Call
    BY <2>1 DEF Call
  <2>5. rest(k) \in Seq(Call)
    BY <2>1, <2>4, PushType
  <2>6. Beneath(a, k, rest(k)) /\ UNCHANGED <<created, done, fresh, kept, ran>>
    BY <1>9 DEF callDeferredHook, Beneath
  <2> HIDE DEF c, rest
  <2> QED
    BY <1>1, <2>2, <2>3, <2>5, <2>6
<1>10. Tick \/ (\E t \in Tasks : Apply(t) \/ ApplyCheck(t) \/ ApplyAdd(t) \/ AddErrors(t))
         => Quiet
  BY DEF Tick, Apply, ApplyCheck, ApplyAdd, AddErrors, Quiet
<1>11. UNCHANGED vars => Quiet
  BY DEF vars, Quiet
<1> QED
  BY <1>5, <1>6, <1>7, <1>8, <1>9, <1>10, <1>11 DEF Next, Stopped

-----------------------------------------------------------------------------
(* The cancel function.                                                   *)

\* Who owes the cancel function of s: nobody before the capture or after the
\* call, one list of one goroutine in between.
CancelInv ==
  \A s \in States :
    /\ \A a \in Actors : OwesOnce(todo[a], s)
    /\ \A a, b \in Actors : Owes(todo[a], s) /\ Owes(todo[b], s) => a = b
    /\ (\E a \in Actors : Owes(todo[a], s)) <=> captured(s) /\ ~done[s]
    /\ done[s] => captured(s)

\* Replacing goroutine a's stack by one that owes the same.
LEMMA CancelKept ==
  ASSUME CancelInv, NEW a \in Actors, NEW stk, todo \in [Actors -> Seq(Call)],
         todo' = [todo EXCEPT ![a] = stk],
         \A s \in States : /\ Owes(stk, s) <=> Owes(todo[a], s)
                           /\ OwesOnce(todo[a], s) => OwesOnce(stk, s),
         UNCHANGED <<cause, done>>
  PROVE  CancelInv'
<1> SUFFICES ASSUME NEW s \in States
             PROVE  /\ \A b \in Actors : OwesOnce(todo'[b], s)
                    /\ \A b, c \in Actors : Owes(todo'[b], s) /\ Owes(todo'[c], s) => b = c
                    /\ (\E b \in Actors : Owes(todo'[b], s)) <=> cause'[s] # "none" /\ ~done'[s]
                    /\ done'[s] => cause'[s] # "none"
  BY DEF CancelInv, captured
<1>1. /\ \A b \in Actors : OwesOnce(todo[b], s)
      /\ \A b, c \in Actors : Owes(todo[b], s) /\ Owes(todo[c], s) => b = c
      /\ (\E b \in Actors : Owes(todo[b], s)) <=> cause[s] # "none" /\ ~done[s]
      /\ done[s] => cause[s] # "none"
  BY DEF CancelInv, captured
<1>2. \A b \in Actors : /\ OwesOnce(todo'[b], s)
                        /\ Owes(todo'[b], s) <=> Owes(todo[b], s)
  <2> SUFFICES ASSUME NEW b \in Actors
               PROVE  OwesOnce(todo'[b], s) /\ (Owes(todo'[b], s) <=> Owes(todo[b], s))
    OBVIOUS
  <2>1. todo'[b] = IF b = a THEN stk ELSE todo[b]
    OBVIOUS
  <2> QED
    BY <1>1, <2>1
<1> QED
  BY <1>1, <1>2

\* What lies beneath the list of a stop owes what the stack owed before, and
\* still has every hook but the one being run.
LEMMA BeneathKeeps ==
  ASSUME TypeOK, NEW a \in Actors, NEW s \in States, NEW rest, Beneath(a, s, rest)
  PROVE  /\ \A r : /\ Owes(rest, r) <=> Owes(todo[a], r)
                   /\ OwesOnce(rest, r) <=> OwesOnce(todo[a], r)
         /\ \A c : c # s /\ Hooked(todo[a], c) => Hooked(rest, c)
         /\ \A l \in ToSet(rest) :
              \E m \in ToSet(todo[a]) :
                l.st = m.st /\ l.fns = m.fns /\ l.cancel = m.cancel /\ l.hooks \subseteq m.hooks
<1>1. CASE todo[a] = <<>> /\ rest = <<>>
  BY <1>1, NoList
<1>2. CASE /\ todo[a] # <<>> /\ Head(todo[a]).fns = <<>> /\ ~Head(todo[a]).cancel
           /\ rest = Push([Head(todo[a]) EXCEPT !.hooks = @ \ {s}], Tail(todo[a]))
  <2> DEFINE c == Head(todo[a])
             d == [c EXCEPT !.hooks = @ \ {s}]
             tail == Tail(todo[a])
  <2>1. todo[a] \in Seq(Call)
    BY DEF TypeOK
  <2>2. /\ c \in Call /\ tail \in Seq(Call) /\ ToSet(todo[a]) = {c} \cup ToSet(tail)
        /\ \A r : OwesOnce(todo[a], r) <=>
                    OwesOnce(tail, r) /\ ~(c.cancel /\ c.st = r /\ Owes(tail, r))
    BY <1>2, <2>1, TopList
  <2>3. /\ d \in Call /\ d.st = c.st /\ d.fns = c.fns /\ d.cancel = c.cancel
        /\ d.hooks = c.hooks \ {s} /\ ~c.cancel /\ c.fns = <<>>
    BY <1>2, <2>2 DEF Call
  <2>4. rest = Push(d, tail)
    BY <1>2
  <2> HIDE DEF c, d, tail
  <2>5. /\ ToSet(tail) \subseteq ToSet(rest)
        /\ ToSet(rest) \subseteq {d} \cup ToSet(tail)
        /\ d \in ToSet(rest) \/ (d.hooks = {} /\ ~d.cancel /\ d.fns = <<>>)
        /\ \A r : OwesOnce(rest, r) <=>
                    OwesOnce(tail, r) /\ ~(d.cancel /\ d.st = r /\ Owes(tail, r))
    BY <2>2, <2>3, <2>4, PushList
  <2>6. \A r : /\ Owes(rest, r) <=> Owes(todo[a], r)
               /\ OwesOnce(rest, r) <=> OwesOnce(todo[a], r)
    BY <2>2, <2>3, <2>5 DEF Owes
  <2>7. \A x : x # s /\ Hooked(todo[a], x) => Hooked(rest, x)
    BY <2>2, <2>3, <2>5 DEF Hooked
  <2>8. \A l \in ToSet(rest) :
          \E m \in ToSet(todo[a]) :
            l.st = m.st /\ l.fns = m.fns /\ l.cancel = m.cancel /\ l.hooks \subseteq m.hooks
    <3> SUFFICES ASSUME NEW l \in ToSet(rest)
                 PROVE  \E m \in ToSet(todo[a]) :
                          /\ l.st = m.st /\ l.fns = m.fns /\ l.cancel = m.cancel
                          /\ l.hooks \subseteq m.hooks
      OBVIOUS
    <3>1. CASE l = d
      BY <2>2, <2>3, <3>1
    <3>2. CASE l \in ToSet(tail)
      BY <2>2, <3>2
    <3> QED
      BY <2>5, <3>1, <3>2
  <2> QED
    BY <2>6, <2>7, <2>8
<1> QED
  BY <1>1, <1>2 DEF Beneath

LEMMA CancelStops ==
  ASSUME TypeOK, CancelInv, NEW a \in Actors, NEW s \in States, NEW hooks \in SUBSET States,
         NEW takes \in BOOLEAN, NEW rest \in Seq(Call), Stops(a, s, hooks, takes, rest)
  PROVE  CancelInv'
<1> DEFINE c == List(s, hooks, takes, IF takes THEN deferred[s] ELSE <<>>)
<1>1. /\ Beneath(a, s, rest) /\ todo' = [todo EXCEPT ![a] = Push(c, rest)] /\ done' = done
      /\ todo \in [Actors -> Seq(Call)]
  BY DEF Stops, TypeOK
<1>2. c \in Call /\ c.st = s /\ c.cancel = takes
  <2>1. (IF takes THEN deferred[s] ELSE <<>>) \in Seq(Callbacks)
    BY EmptyList DEF TypeOK
  <2> QED
    BY <2>1, ListType DEF List
<1>3. \A r : /\ Owes(rest, r) <=> Owes(todo[a], r)
             /\ OwesOnce(rest, r) <=> OwesOnce(todo[a], r)
  BY <1>1, BeneathKeeps
<1> HIDE DEF c
<1>4. /\ ToSet(rest) \subseteq ToSet(Push(c, rest))
      /\ ToSet(Push(c, rest)) \subseteq {c} \cup ToSet(rest)
      /\ c \in ToSet(Push(c, rest)) \/ ~c.cancel
      /\ \A r : OwesOnce(Push(c, rest), r) <=>
                  OwesOnce(rest, r) /\ ~(c.cancel /\ c.st = r /\ Owes(rest, r))
  BY <1>2, PushList
<1>5. \A r : Owes(Push(c, rest), r) <=> Owes(todo[a], r) \/ (takes /\ r = s)
  BY <1>2, <1>3, <1>4 DEF Owes
<1>6. CASE ~takes
  <2>1. UNCHANGED <<cause, done>>
    BY <1>6 DEF Stops
  <2> QED
    BY <1>1, <1>2, <1>3, <1>4, <1>5, <1>6, <2>1, CancelKept
<1>7. CASE takes
  <2>1. PICK err \in {"stopped", "expired"} : cause' = [cause EXCEPT ![s] = err]
    BY <1>7 DEF Stops
  <2>2. ~captured(s) /\ cause \in [States -> {"none", "stopped", "expired"}]
    BY <1>7 DEF Stops, TypeOK
  <2> SUFFICES ASSUME NEW r \in States
               PROVE  /\ \A b \in Actors : OwesOnce(todo'[b], r)
                      /\ \A b, d \in Actors : Owes(todo'[b], r) /\ Owes(todo'[d], r) => b = d
                      /\ (\E b \in Actors : Owes(todo'[b], r)) <=> cause'[r] # "none" /\ ~done'[r]
                      /\ done'[r] => cause'[r] # "none"
    BY DEF CancelInv, captured
  <2>3. /\ \A b \in Actors : OwesOnce(todo[b], r)
        /\ \A b, d \in Actors : Owes(todo[b], r) /\ Owes(todo[d], r) => b = d
        /\ (\E b \in Actors : Owes(todo[b], r)) <=> cause[r] # "none" /\ ~done[r]
        /\ done[r] => cause[r] # "none"
    BY DEF CancelInv, captured
  <2>4. \A b \in Actors : todo'[b] = IF b = a THEN Push(c, rest) ELSE todo[b]
    BY <1>1
  <2>5. CASE r # s
    <3>1. cause'[r] = cause[r]
      BY <2>1, <2>2, <2>5
    <3>2. \A b \in Actors : /\ OwesOnce(todo'[b], r)
                            /\ Owes(todo'[b], r) <=> Owes(todo[b], r)
      <4> TAKE b \in Actors
      <4>1. CASE b = a
        BY <1>2, <1>3, <1>4, <1>5, <2>3, <2>4, <2>5, <4>1
      <4>2. CASE b # a
        BY <2>3, <2>4, <4>2
      <4> QED
        BY <4>1, <4>2
    <3> QED
      BY <1>1, <2>3, <3>1, <3>2
  <2>6. CASE r = s
    <3>1. /\ cause'[r] # "none" /\ ~done[r]
          /\ \A b \in Actors : ~Owes(todo[b], r)
      BY <2>1, <2>2, <2>3, <2>6 DEF captured
    <3>2. \A b \in Actors : /\ OwesOnce(todo'[b], r)
                            /\ Owes(todo'[b], r) <=> b = a
      <4> TAKE b \in Actors
      <4>1. CASE b = a
        BY <1>2, <1>3, <1>4, <1>5, <1>7, <2>3, <2>4, <2>6, <3>1, <4>1
      <4>2. CASE b # a
        BY <2>3, <2>4, <3>1, <4>2
      <4> QED
        BY <4>1, <4>2
    <3> QED
      BY <1>1, <2>3, <3>1, <3>2
  <2> QED
    BY <2>5, <2>6
<1> QED
  BY <1>6, <1>7

\* The list on top, before and after one step of callDeferred.
LEMMA TopStep ==
  ASSUME TypeOK, NEW a \in Actors, todo[a] # <<>>, NEW d \in Call,
         todo' = [todo EXCEPT ![a] = Push(d, Tail(todo[a]))]
  PROVE  LET c == Head(todo[a])
             tail == Tail(todo[a])
         IN /\ c \in Call /\ tail \in Seq(Call)
            /\ \A b \in Actors \ {a} : todo'[b] = todo[b]
            /\ ToSet(todo[a]) = {c} \cup ToSet(tail)
            /\ ToSet(tail) \subseteq ToSet(todo'[a])
            /\ ToSet(todo'[a]) \subseteq {d} \cup ToSet(tail)
            /\ d \in ToSet(todo'[a]) \/ (d.hooks = {} /\ ~d.cancel /\ d.fns = <<>>)
            /\ \A r : OwesOnce(todo[a], r) <=>
                        OwesOnce(tail, r) /\ ~(c.cancel /\ c.st = r /\ Owes(tail, r))
            /\ \A r : OwesOnce(todo'[a], r) <=>
                        OwesOnce(tail, r) /\ ~(d.cancel /\ d.st = r /\ Owes(tail, r))
<1> DEFINE c == Head(todo[a])
           tail == Tail(todo[a])
<1>1. todo[a] \in Seq(Call) /\ todo \in [Actors -> Seq(Call)]
  BY DEF TypeOK
<1>2. /\ c \in Call /\ tail \in Seq(Call) /\ ToSet(todo[a]) = {c} \cup ToSet(tail)
      /\ \A r : OwesOnce(todo[a], r) <=>
                  OwesOnce(tail, r) /\ ~(c.cancel /\ c.st = r /\ Owes(tail, r))
  BY <1>1, TopList
<1>3. todo'[a] = Push(d, tail) /\ \A b \in Actors \ {a} : todo'[b] = todo[b]
  BY <1>1
<1> HIDE DEF c, tail
<1>4. /\ ToSet(tail) \subseteq ToSet(todo'[a])
      /\ ToSet(todo'[a]) \subseteq {d} \cup ToSet(tail)
      /\ d \in ToSet(todo'[a]) \/ (d.hooks = {} /\ ~d.cancel /\ d.fns = <<>>)
      /\ \A r : OwesOnce(todo'[a], r) <=>
                  OwesOnce(tail, r) /\ ~(d.cancel /\ d.st = r /\ Owes(tail, r))
  BY <1>2, <1>3, PushList
<1> QED
  BY <1>2, <1>3, <1>4 DEF c, tail

\* callDeferred's two other steps, on a list c.
LEMMA FnStep ==
  ASSUME TypeOK, NEW a \in Actors, callDeferredFn(a)
  PROVE  LET c == Head(todo[a])
             d == [c EXCEPT !.fns = Front(@)]
         IN /\ todo[a] # <<>> /\ c \in Call /\ c.fns # <<>> /\ c.st \in States
            /\ c.fns \in Seq(Callbacks) /\ d \in Call
            /\ d.st = c.st /\ d.cancel = c.cancel /\ d.hooks = c.hooks /\ d.fns = Front(c.fns)
            /\ todo' = [todo EXCEPT ![a] = Push(d, Tail(todo[a]))]
            /\ ran' = [ran EXCEPT ![c.st] = Append(@, Last(c.fns))]
            /\ UNCHANGED <<created, stopping, stopHooks, cause, deferred, done, fresh, kept>>
<1> DEFINE c == Head(todo[a])
<1>1. /\ todo[a] # <<>> /\ c.fns # <<>>
      /\ todo' = [todo EXCEPT ![a] = Push([c EXCEPT !.fns = Front(@)], Tail(todo[a]))]
      /\ ran' = [ran EXCEPT ![c.st] = Append(@, Last(c.fns))]
      /\ UNCHANGED <<created, stopping, stopHooks, cause, deferred, done, fresh, kept>>
  BY DEF callDeferredFn, locks
<1>2. c \in Call
  BY <1>1, HeadType
<1> HIDE DEF c
<1>3. c.fns \in Seq(Callbacks) /\ Front(c.fns) \in Seq(Callbacks) /\ c.st \in States
  BY <1>1, <1>2 DEF Call, Front
<1>4. [c EXCEPT !.fns = Front(@)] \in Call
  BY <1>2, <1>3 DEF Call
<1> QED
  BY <1>1, <1>2, <1>3, <1>4 DEF c, Call

LEMMA CancelStep ==
  ASSUME TypeOK, NEW a \in Actors, callDeferredCancel(a)
  PROVE  LET c == Head(todo[a])
             d == [c EXCEPT !.cancel = FALSE]
         IN /\ todo[a] # <<>> /\ c \in Call /\ c.fns = <<>> /\ c.cancel /\ c.st \in States
            /\ d \in Call
            /\ d.st = c.st /\ ~d.cancel /\ d.hooks = c.hooks /\ d.fns = c.fns
            /\ todo' = [todo EXCEPT ![a] = Push(d, Tail(todo[a]))]
            /\ done' = [done EXCEPT ![c.st] = TRUE]
            /\ stopHooks' = IF HasParent(c.st)
                              THEN [stopHooks EXCEPT ![Parent(c.st)] = @ \ {c.st}]
                              ELSE stopHooks
            /\ UNCHANGED <<created, stopping, cause, deferred, fresh, kept, ran>>
<1>1. todo[a] # <<>> /\ Head(todo[a]) \in Call
  BY HeadType DEF callDeferredCancel
<1> QED
  BY <1>1 DEF callDeferredCancel, cancelTurn, Call

LEMMA CancelNext == TypeOK /\ CancelInv /\ [Next]_vars => CancelInv'
<1> SUFFICES ASSUME TypeOK, CancelInv, [Next]_vars PROVE CancelInv'
  OBVIOUS
<1>1. todo \in [Actors -> Seq(Call)] /\ done \in [States -> BOOLEAN]
  BY DEF TypeOK
<1>2. CASE Quiet
  BY <1>2 DEF Quiet, CancelInv, captured
<1>3. ASSUME NEW p \in Procs, NEW s \in States, AddStopHook(p, s) PROVE CancelInv'
  <2>1. p \in Actors /\ todo[p] = <<>> /\ UNCHANGED <<cause, done>>
    BY <1>3 DEF AddStopHook, seen, Actors
  <2>2. CASE todo' = todo
    BY <2>1, <2>2 DEF CancelInv, captured
  <2>3. CASE todo' = [todo EXCEPT ![p] = <<List(Parent(s), {s}, FALSE, <<>>)>>]
    <3>1. \A r : /\ ~Owes(<<List(Parent(s), {s}, FALSE, <<>>)>>, r)
                 /\ OwesOnce(<<List(Parent(s), {s}, FALSE, <<>>)>>, r)
      BY DEF Owes, OwesOnce, ToSet, List
    <3> QED
      BY <1>1, <2>1, <2>3, <3>1, CancelKept, NoList DEF Owes
  <2> QED
    BY <1>3, <2>2, <2>3 DEF AddStopHook
<1>4. ASSUME NEW p \in Procs, NEW s \in States, NEW f \in Callbacks, AddDeferred(p, s, f)
      PROVE  CancelInv'
  <2>1. p \in Actors /\ todo[p] = <<>> /\ UNCHANGED <<cause, done>>
    BY <1>4 DEF AddDeferred, Actors
  <2>2. CASE todo' = todo
    BY <2>1, <2>2 DEF CancelInv, captured
  <2>3. CASE todo' = [todo EXCEPT ![p] = <<List(s, {}, FALSE, <<f>>)>>]
    <3>1. \A r : /\ ~Owes(<<List(s, {}, FALSE, <<f>>)>>, r)
                 /\ OwesOnce(<<List(s, {}, FALSE, <<f>>)>>, r)
      BY DEF Owes, OwesOnce, ToSet, List
    <3> QED
      BY <1>1, <2>1, <2>3, <3>1, CancelKept, NoList DEF Owes
  <2> QED
    BY <1>4, <2>2, <2>3 DEF AddDeferred
<1>5. ASSUME NEW a \in Actors, callDeferredFn(a) PROVE CancelInv'
  <2> DEFINE c == Head(todo[a])
             d == [c EXCEPT !.fns = Front(@)]
             tail == Tail(todo[a])
  <2>1. /\ todo[a] # <<>> /\ d \in Call /\ d.st = c.st /\ d.cancel = c.cancel
        /\ todo' = [todo EXCEPT ![a] = Push(d, tail)] /\ UNCHANGED <<cause, done>>
    BY <1>5, FnStep
  <2> HIDE DEF d
  <2>2. /\ c \in Call /\ tail \in Seq(Call)
        /\ ToSet(todo[a]) = {c} \cup ToSet(tail)
        /\ ToSet(tail) \subseteq ToSet(todo'[a])
        /\ ToSet(todo'[a]) \subseteq {d} \cup ToSet(tail)
        /\ d \in ToSet(todo'[a]) \/ ~d.cancel
        /\ \A r : OwesOnce(todo[a], r) <=>
                    OwesOnce(tail, r) /\ ~(c.cancel /\ c.st = r /\ Owes(tail, r))
        /\ \A r : OwesOnce(todo'[a], r) <=>
                    OwesOnce(tail, r) /\ ~(d.cancel /\ d.st = r /\ Owes(tail, r))
    BY <2>1, TopStep
  <2>3. todo'[a] = Push(d, tail)
    BY <1>1, <2>1
  <2> HIDE DEF c, tail
  <2>4. \A r : /\ Owes(Push(d, tail), r) <=> Owes(todo[a], r)
               /\ OwesOnce(todo[a], r) => OwesOnce(Push(d, tail), r)
    BY <2>1, <2>2, <2>3 DEF Owes
  <2> QED
    BY <1>1, <2>1, <2>4, CancelKept
<1>6. ASSUME NEW a \in Actors, callDeferredCancel(a) PROVE CancelInv'
  <2> DEFINE c == Head(todo[a])
             d == [c EXCEPT !.cancel = FALSE]
             tail == Tail(todo[a])
             s == c.st
  <2>1. /\ todo[a] # <<>> /\ d \in Call /\ ~d.cancel /\ c.cancel /\ s \in States
        /\ todo' = [todo EXCEPT ![a] = Push(d, tail)] /\ cause' = cause
        /\ done' = [done EXCEPT ![s] = TRUE]
    BY <1>6, CancelStep
  <2> HIDE DEF d
  <2>2. /\ \A b \in Actors \ {a} : todo'[b] = todo[b]
        /\ ToSet(todo[a]) = {c} \cup ToSet(tail)
        /\ ToSet(tail) \subseteq ToSet(todo'[a])
        /\ ToSet(todo'[a]) \subseteq {d} \cup ToSet(tail)
        /\ \A r : OwesOnce(todo[a], r) <=>
                    OwesOnce(tail, r) /\ ~(c.cancel /\ s = r /\ Owes(tail, r))
        /\ \A r : OwesOnce(todo'[a], r) <=>
                    OwesOnce(tail, r) /\ ~(d.cancel /\ d.st = r /\ Owes(tail, r))
    BY <2>1, TopStep
  <2>3. \A r : Owes(todo[a], r) <=> s = r \/ Owes(tail, r)
    BY <2>1, <2>2 DEF Owes
  <2> HIDE DEF c, s
  <2>4. \A r : Owes(todo'[a], r) <=> Owes(tail, r)
    BY <2>1, <2>2 DEF Owes
  <2> HIDE DEF tail
  <2> SUFFICES ASSUME NEW r \in States
               PROVE  /\ \A b \in Actors : OwesOnce(todo'[b], r)
                      /\ \A b, e \in Actors : Owes(todo'[b], r) /\ Owes(todo'[e], r) => b = e
                      /\ (\E b \in Actors : Owes(todo'[b], r)) <=> cause'[r] # "none" /\ ~done'[r]
                      /\ done'[r] => cause'[r] # "none"
    BY DEF CancelInv, captured
  <2>5. /\ \A b \in Actors : OwesOnce(todo[b], r)
        /\ \A b, e \in Actors : Owes(todo[b], r) /\ Owes(todo[e], r) => b = e
        /\ (\E b \in Actors : Owes(todo[b], r)) <=> cause[r] # "none" /\ ~done[r]
        /\ done[r] => cause[r] # "none"
    BY DEF CancelInv, captured
  <2>6. CASE r # s
    <3>1. done'[r] = done[r]
      BY <1>1, <2>1, <2>6
    <3>2. \A b \in Actors : /\ OwesOnce(todo'[b], r)
                            /\ Owes(todo'[b], r) <=> Owes(todo[b], r)
      BY <2>1, <2>2, <2>3, <2>4, <2>5, <2>6
    <3> QED
      BY <2>1, <2>5, <3>1, <3>2
  <2>7. CASE r = s
    <3>1. done'[r] /\ cause'[r] # "none" /\ Owes(todo[a], r)
      BY <1>1, <2>1, <2>3, <2>5, <2>7
    <3>2. \A b \in Actors : OwesOnce(todo'[b], r) /\ ~Owes(todo'[b], r)
      BY <2>1, <2>2, <2>3, <2>4, <2>5, <2>7, <3>1
    <3> QED
      BY <3>1, <3>2
  <2> QED
    BY <2>6, <2>7
<1> QED
  BY <1>2, <1>3, <1>4, <1>5, <1>6, StepKinds, CancelStops

\* Stated with cardinalities, as CancelOwedOnce does.
LEMMA OwedOnce == TypeOK /\ CancelInv => CancelOwedOnce
<1> SUFFICES ASSUME TypeOK, CancelInv, NEW s \in States
             PROVE  Cardinality(CancelsPending(s)) + (IF done[s] THEN 1 ELSE 0)
                      = IF captured(s) THEN 1 ELSE 0
  BY DEF CancelOwedOnce
<1> DEFINE X == CancelsPending(s)
<1>1. /\ \A a \in Actors : OwesOnce(todo[a], s)
      /\ \A a, b \in Actors : Owes(todo[a], s) /\ Owes(todo[b], s) => a = b
      /\ (\E a \in Actors : Owes(todo[a], s)) <=> captured(s) /\ ~done[s]
      /\ done[s] => captured(s)
  BY DEF CancelInv
<1>2. \A x : x \in X <=>
        \E a \in Actors : \E i \in DOMAIN todo[a] :
          x = <<a, i>> /\ todo[a][i].cancel /\ todo[a][i].st = s
  BY DEF CancelsPending
<1> HIDE DEF X
<1>3. \A a \in Actors : Owes(todo[a], s) <=>
        \E i \in DOMAIN todo[a] : todo[a][i].cancel /\ todo[a][i].st = s
  BY DEF Owes, ToSet
<1>4. CASE \E a \in Actors : Owes(todo[a], s)
  <2>1. PICK a \in Actors : Owes(todo[a], s)
    BY <1>4
  <2>2. PICK i \in DOMAIN todo[a] : todo[a][i].cancel /\ todo[a][i].st = s
    BY <1>3, <2>1
  <2>3. \A x \in X : x = <<a, i>>
    <3> SUFFICES ASSUME NEW b \in Actors, NEW j \in DOMAIN todo[b],
                        todo[b][j].cancel, todo[b][j].st = s
                 PROVE  a = b /\ i = j
      BY <1>2
    <3>1. a = b
      BY <1>1, <1>3, <2>1
    <3> QED
      BY <1>1, <2>2, <3>1 DEF OwesOnce
  <2>4. X = {<<a, i>>}
    BY <1>2, <2>2, <2>3
  <2>5. Cardinality(X) = 1
    BY <2>4, FS_Singleton
  <2> QED
    BY <1>1, <1>4, <2>5 DEF X
<1>5. CASE ~\E a \in Actors : Owes(todo[a], s)
  <2>1. X = {}
    BY <1>2, <1>3, <1>5
  <2>2. Cardinality(X) = 0
    BY <2>1, FS_EmptySet
  <2> QED
    BY <1>1, <1>5, <2>2 DEF X
<1> QED
  BY <1>4, <1>5

LEMMA CancelInit == Init => CancelInv
<1> SUFFICES ASSUME Init, NEW s \in States
             PROVE  /\ \A a \in Actors : OwesOnce(todo[a], s) /\ ~Owes(todo[a], s)
                    /\ ~captured(s) /\ ~done[s]
  BY DEF CancelInv
<1> QED
  BY NoList DEF Init, Owes, captured

LEMMA CancelAlways == Spec => []CancelInv
<1> QED
  BY CancelInit, CancelNext, TypeCorrect, PTL DEF Spec

(* hardStopLocked is a one-shot: whatever Stop, StopOnIdle, the last task, *)
(* the parent's hook and the grace timer do, the cancel function of a      *)
(* State is called once, and one goroutine is on its way to call it as     *)
(* soon as it was captured.                                                *)
THEOREM CancelOnce == Spec => []CancelOwedOnce
BY CancelAlways, TypeCorrect, OwedOnce, PTL

-----------------------------------------------------------------------------
(* Stop hooks.                                                             *)

LEMMA Pending == \A c : HookPending(c) <=> \E a \in Actors : Hooked(todo[a], c)
BY DEF HookPending, Hooked, ToSet

LEMMA NotOwnParent ==
  ASSUME NEW c \in States, HasParent(c)
  PROVE  Parent(c) \in States /\ Parent(c) # c
<1>1. Depth(c) \in Nat /\ Depth(c) - 1 \in 1 .. Depth(c)
  BY PathAssumption DEF Depth, HasParent
<1>2. Path[c][Depth(c) - 1] \in States /\ Depth(Path[c][Depth(c) - 1]) = Depth(c) - 1
  BY <1>1, PathLevel
<1> QED
  BY <1>1, <1>2 DEF Parent

\* NoLostStop for a child c that exists before the step.
Reached(c) ==
  IF stopping[Parent(c)] THEN stopping[c] \/ HookPending(c)
                         ELSE done[c] \/ c \in stopHooks[Parent(c)]

LEMMA ReachedStops ==
  ASSUME IInv, CancelInv, NEW a \in Actors, NEW s \in States, NEW hooks \in SUBSET States,
         NEW takes \in BOOLEAN, NEW rest \in Seq(Call), Stops(a, s, hooks, takes, rest),
         NEW c \in States, HasParent(c), Reached(c)
  PROVE  Reached(c)'
<1> DEFINE l == List(s, hooks, takes, IF takes THEN deferred[s] ELSE <<>>)
           q == Parent(c)
<1>1. /\ TypeOK /\ todo \in [Actors -> Seq(Call)] /\ stopping \in [States -> BOOLEAN]
      /\ stopHooks \in [States -> SUBSET States] /\ done' = done
      /\ q \in States /\ q # c
  BY NotOwnParent DEF IInv, TypeOK, Stops
<1>2. /\ Beneath(a, s, rest) /\ todo' = [todo EXCEPT ![a] = Push(l, rest)]
      /\ \/ /\ stopping' = [stopping EXCEPT ![s] = TRUE]
            /\ hooks = stopHooks[s] /\ stopHooks' = [stopHooks EXCEPT ![s] = {}]
         \/ todo[a] = <<>> /\ hooks = {} /\ UNCHANGED <<stopping, stopHooks>>
  BY DEF Stops
<1>3. l \in Call /\ l.hooks = hooks
  <2>1. (IF takes THEN deferred[s] ELSE <<>>) \in Seq(Callbacks)
    BY <1>1, EmptyList DEF TypeOK
  <2> QED
    BY <2>1, ListType DEF List
<1> HIDE DEF l
<1>4. /\ ToSet(rest) \subseteq ToSet(Push(l, rest))
      /\ l \in ToSet(Push(l, rest)) \/ l.hooks = {}
  BY <1>3, PushList
<1>5. todo'[a] = Push(l, rest) /\ \A b \in Actors \ {a} : todo'[b] = todo[b]
  BY <1>1, <1>2
<1>6. \A x \in hooks : \E b \in Actors : Hooked(todo'[b], x)
  BY <1>3, <1>4, <1>5 DEF Hooked
<1>7. \A x : x # s \/ todo[a] = <<>> =>
        ((\E b \in Actors : Hooked(todo[b], x)) => \E b \in Actors : Hooked(todo'[b], x))
  <2> SUFFICES ASSUME NEW x, x # s \/ todo[a] = <<>>, NEW b \in Actors, Hooked(todo[b], x)
               PROVE  \E e \in Actors : Hooked(todo'[e], x)
    OBVIOUS
  <2>1. CASE b # a
    BY <1>5, <2>1
  <2>2. CASE b = a
    <3>1. todo[a] # <<>>
      BY <2>2, NoList DEF Hooked
    <3>2. Hooked(rest, x)
      BY <1>1, <1>2, <2>2, <3>1, BeneathKeeps
    <3> QED
      BY <1>4, <1>5, <3>2 DEF Hooked
  <2> QED
    BY <2>1, <2>2
<1>8. HookPending(c) <=> \E b \in Actors : Hooked(todo[b], c)
  BY Pending
<1>9. HookPending(c)' <=> \E b \in Actors : Hooked(todo'[b], c)
  BY DEF HookPending, Hooked, ToSet
<1>10. CASE todo[a] = <<>> /\ hooks = {} /\ UNCHANGED <<stopping, stopHooks>>
  BY <1>1, <1>7, <1>8, <1>9, <1>10 DEF Reached
<1>11. CASE /\ stopping' = [stopping EXCEPT ![s] = TRUE]
            /\ hooks = stopHooks[s] /\ stopHooks' = [stopHooks EXCEPT ![s] = {}]
  <2>1. stopping[c] => stopping'[c]
    BY <1>1, <1>11
  <2>2. CASE q = s /\ stopping[q]
    <3>1. stopping'[q] /\ c # s
      BY <1>1, <1>11, <2>2
    <3> QED
      BY <1>7, <1>8, <1>9, <2>1, <2>2, <3>1 DEF Reached
  <2>3. CASE q = s /\ ~stopping[q]
    <3>1. stopping'[q]
      BY <1>1, <1>11, <2>3
    <3>2. done[c] => stopping[c]
      BY Hypothesis DEF CancelInv, captured
    <3>3. c \in stopHooks[q] => HookPending(c)'
      BY <1>6, <1>9, <1>11, <2>3
    <3> QED
      BY <2>1, <2>3, <3>1, <3>2, <3>3 DEF Reached
  <2>4. CASE q # s /\ stopping[q]
    <3>1. stopping'[q]
      BY <1>1, <1>11, <2>4
    <3>2. c = s => stopping'[c]
      BY <1>1, <1>11
    <3> QED
      BY <1>7, <1>8, <1>9, <2>1, <2>4, <3>1, <3>2 DEF Reached
  <2>5. CASE q # s /\ ~stopping[q]
    <3>1. stopping'[q] = stopping[q] /\ stopHooks'[q] = stopHooks[q]
      BY <1>1, <1>11, <2>5
    <3> QED
      BY <1>1, <2>5, <3>1 DEF Reached
  <2> QED
    BY <2>2, <2>3, <2>4, <2>5
<1> QED
  BY <1>2, <1>10, <1>11

\* Steps that only add to what is stored and pending.
LEMMA ReachedGrows ==
  ASSUME NEW c, Reached(c), UNCHANGED stopping,
         \A x : HookPending(x) => HookPending(x)',
         done[c] => done'[c],
         c \in stopHooks[Parent(c)] => c \in stopHooks'[Parent(c)] \/ done'[c]
  PROVE  Reached(c)'
BY DEF Reached

LEMMA ReachedNext ==
  ASSUME IInv, CancelInv, NoLostStop, [Next]_vars
  PROVE  NoLostStop'
<1>1. /\ TypeOK /\ todo \in [Actors -> Seq(Call)] /\ created \subseteq States
      /\ done \in [States -> BOOLEAN] /\ stopHooks \in [States -> SUBSET States]
  BY DEF IInv, TypeOK
<1>2. \A c \in created : HasParent(c) => Reached(c)
  BY DEF NoLostStop, Reached
<1> SUFFICES ASSUME NEW c \in created', HasParent(c) PROVE Reached(c)'
  BY DEF NoLostStop, Reached
<1>3. CASE Quiet
  BY <1>2, <1>3 DEF Quiet, Reached, HookPending
<1>4. ASSUME NEW a \in Actors, NEW s \in States, NEW hooks \in SUBSET States,
             NEW takes \in BOOLEAN, NEW rest \in Seq(Call), Stops(a, s, hooks, takes, rest)
      PROVE  Reached(c)'
  <2>1. c \in created /\ c \in States
    BY <1>1, <1>4 DEF Stops
  <2> QED
    BY <1>2, <1>4, <2>1, ReachedStops
<1>5. ASSUME NEW p \in Procs, NEW s \in States, AddStopHook(p, s) PROVE Reached(c)'
  <2>1. /\ p \in Actors /\ todo[p] = <<>> /\ created' = created \cup {s}
        /\ HasParent(s) /\ UNCHANGED <<stopping, done>>
    BY <1>5 DEF AddStopHook, seen, Actors
  <2>2. c \in States /\ Parent(s) \in States
    BY <1>1, <2>1, NotOwnParent
  <2>3. CASE /\ stopping[Parent(s)] /\ stopHooks' = stopHooks
             /\ todo' = [todo EXCEPT ![p] = <<List(Parent(s), {s}, FALSE, <<>>)>>]
    <3>1. /\ todo'[p] = <<List(Parent(s), {s}, FALSE, <<>>)>>
          /\ \A b \in Actors \ {p} : todo'[b] = todo[b]
      BY <1>1, <2>1, <2>3
    <3>2. HookPending(s)'
      <4>1. 1 \in DOMAIN todo'[p] /\ s \in todo'[p][1].hooks
        BY <3>1 DEF List
      <4> QED
        BY <2>1, <4>1 DEF HookPending
    <3>3. \A x : HookPending(x) => HookPending(x)'
      BY <2>1, <3>1 DEF HookPending
    <3>4. CASE c = s
      BY <2>1, <2>3, <3>2, <3>4 DEF Reached
    <3>5. CASE c # s
      <4>1. Reached(c)
        BY <1>2, <2>1, <3>5
      <4> QED
        BY <2>1, <2>3, <3>3, <4>1, ReachedGrows
    <3> QED
      BY <3>4, <3>5
  <2>4. CASE /\ ~stopping[Parent(s)] /\ todo' = todo
             /\ stopHooks' = [stopHooks EXCEPT ![Parent(s)] = @ \cup {s}]
    <3>1. \A x : HookPending(x) => HookPending(x)'
      BY <2>4 DEF HookPending
    <3>2. s \in stopHooks'[Parent(s)] /\ \A r \in States : stopHooks[r] \subseteq stopHooks'[r]
      BY <1>1, <2>2, <2>4
    <3>3. CASE c = s
      BY <2>1, <2>4, <3>2, <3>3 DEF Reached
    <3>4. CASE c # s
      <4>1. Reached(c) /\ Parent(c) \in States
        BY <1>2, <2>1, <2>2, <3>4, NotOwnParent
      <4> QED
        BY <2>1, <3>1, <3>2, <4>1, ReachedGrows
    <3> QED
      BY <3>3, <3>4
  <2> QED
    BY <1>5, <2>3, <2>4 DEF AddStopHook, alreadyStopping
<1>6. ASSUME NEW p \in Procs, NEW s \in States, NEW f \in Callbacks, AddDeferred(p, s, f)
      PROVE  Reached(c)'
  <2>1. /\ todo[p] = <<>> /\ UNCHANGED <<created, stopping, stopHooks, done>>
        /\ \E stk : todo' = [todo EXCEPT ![p] = stk] \/ todo' = todo
    BY <1>6 DEF AddDeferred
  <2>2. \A b \in Actors : todo[b] # <<>> => todo'[b] = todo[b]
    BY <1>1, <2>1
  <2>3. \A x : HookPending(x) => HookPending(x)'
    BY <2>2 DEF HookPending
  <2>4. Reached(c)
    BY <1>2, <2>1
  <2> QED
    BY <2>1, <2>3, <2>4, ReachedGrows
<1>7. ASSUME NEW a \in Actors, NEW d \in Call, todo[a] # <<>>,
             todo' = [todo EXCEPT ![a] = Push(d, Tail(todo[a]))],
             d.hooks = Head(todo[a]).hooks
      PROVE  \A x : HookPending(x) => HookPending(x)'
  <2> DEFINE e == Head(todo[a])
             tail == Tail(todo[a])
  <2>1. /\ \A b \in Actors \ {a} : todo'[b] = todo[b]
        /\ ToSet(todo[a]) = {e} \cup ToSet(tail)
        /\ ToSet(tail) \subseteq ToSet(todo'[a])
        /\ d \in ToSet(todo'[a]) \/ d.hooks = {}
    BY <1>1, <1>7, TopStep
  <2>2. d.hooks = e.hooks
    BY <1>7
  <2> HIDE DEF e, tail
  <2>3. \A x : Hooked(todo[a], x) => Hooked(todo'[a], x)
    BY <2>1, <2>2 DEF Hooked
  <2>4. \A x : HookPending(x)' <=> \E b \in Actors : Hooked(todo'[b], x)
    BY DEF HookPending, Hooked, ToSet
  <2> QED
    BY <2>1, <2>3, <2>4, Pending
<1>8. ASSUME NEW a \in Actors, callDeferredFn(a) PROVE Reached(c)'
  <2>1. UNCHANGED <<created, stopping, stopHooks, done>>
    BY <1>1, <1>8, FnStep
  <2>2. \A x : HookPending(x) => HookPending(x)'
    BY <1>1, <1>7, <1>8, FnStep
  <2>3. Reached(c)
    BY <1>2, <2>1
  <2> QED
    BY <2>1, <2>2, <2>3, ReachedGrows
<1>9. ASSUME NEW a \in Actors, callDeferredCancel(a) PROVE Reached(c)'
  <2> DEFINE s == Head(todo[a]).st
  <2>1. /\ UNCHANGED <<created, stopping>> /\ s \in States
        /\ done' = [done EXCEPT ![s] = TRUE]
        /\ stopHooks' = IF HasParent(s) THEN [stopHooks EXCEPT ![Parent(s)] = @ \ {s}]
                                        ELSE stopHooks
    BY <1>1, <1>9, CancelStep
  <2>2. \A x : HookPending(x) => HookPending(x)'
    BY <1>1, <1>7, <1>9, CancelStep
  <2> HIDE DEF s
  <2>3. Reached(c) /\ c \in States /\ Parent(c) \in States
    BY <1>1, <1>2, <2>1, NotOwnParent
  <2>4. (done[c] => done'[c]) /\ done'[s]
    BY <1>1, <2>1, <2>3
  <2>5. c # s /\ c \in stopHooks[Parent(c)] => c \in stopHooks'[Parent(c)]
    BY <1>1, <2>1, <2>3
  <2> QED
    BY <2>1, <2>2, <2>3, <2>4, <2>5, ReachedGrows
<1> QED
  BY <1>1, <1>3, <1>4, <1>5, <1>6, <1>8, <1>9, StepKinds

(* A stop request reaches every child, whichever of AddStopHook, the       *)
(* parent's stop and the child's cleanup comes first: no critical section  *)
(* loses a hook that was stored or is about to be called.                  *)
THEOREM StopsReachChildren == Spec => []NoLostStop
<1>1. Init => NoLostStop
  <2> SUFFICES ASSUME Init, NEW c \in created, HasParent(c) PROVE FALSE
    BY DEF NoLostStop
  <2> QED
    BY DEF Init
<1>2. IInv /\ CancelInv /\ NoLostStop /\ [Next]_vars => NoLostStop'
  BY ReachedNext
<1> QED
  BY <1>1, <1>2, Invariance, CancelAlways, PTL DEF Spec

-----------------------------------------------------------------------------
(* Deferred callbacks.                                                     *)

\* AddDeferred retains a callback once.
KeptOnce(s) == \A i, j \in DOMAIN kept[s] : kept[s][i] = kept[s][j] => i = j

\* A callback that was not yet handed to AddDeferred is nowhere.
FreshUnused(s) == \A f \in fresh : f \notin ToSet(kept[s]) /\ f \notin ToSet(ran[s])

FreshUnlisted == \A a \in Actors : \A l \in ToSet(todo[a]) : fresh \cap ToSet(l.fns) = {}

\* A list without a cancel function has no retained callback.
InvokedNotKept ==
  \A a \in Actors : \A l \in ToSet(todo[a]) :
    ~l.cancel => ToSet(l.fns) \cap ToSet(kept[l.st]) = {}

\* Before the capture the retained callbacks all wait in mu.deferred.
StillDeferred(s) ==
  ~captured(s) => deferred[s] = kept[s] /\ ToSet(kept[s]) \cap ToSet(ran[s]) = {}

\* After a clean one the last of them have run, in reverse order, and the
\* first n are in the list that owes the cancel function.
Unwound(s, n) ==
  /\ \A i \in 1 .. n : kept[s][i] \notin ToSet(ran[s])
  /\ \A i \in n + 1 .. Len(kept[s]) : kept[s][i] \in ToSet(ran[s])
  /\ \A k, l \in DOMAIN ran[s], i, j \in DOMAIN kept[s] :
       ran[s][k] = kept[s][i] /\ ran[s][l] = kept[s][j] => (k < l <=> j < i)
  /\ done[s] => n = 0
  /\ \A a \in Actors : \A l \in ToSet(todo[a]) :
       l.cancel /\ l.st = s => l.fns = SubSeq(kept[s], 1, n)

Unwinding(s) == cause[s] = "stopped" => \E n \in 0 .. Len(kept[s]) : Unwound(s, n)

DeferInv ==
  /\ FreshUnlisted /\ InvokedNotKept
  /\ \A s \in States : KeptOnce(s) /\ FreshUnused(s) /\ StillDeferred(s) /\ Unwinding(s)

LEMMA OneElement == \A x : ToSet(<<x>>) = {x}
<1> TAKE x
<1>1. DOMAIN <<x>> = {1} /\ <<x>>[1] = x
  OBVIOUS
<1> QED
  BY <1>1 DEF ToSet

LEMMA AppendElement ==
  ASSUME NEW S, NEW q \in Seq(S), NEW f \in S
  PROVE  /\ ToSet(Append(q, f)) = ToSet(q) \cup {f}
         /\ Len(q) \in Nat /\ DOMAIN q = 1 .. Len(q)
         /\ DOMAIN Append(q, f) = 1 .. Len(q) + 1
         /\ Append(q, f)[Len(q) + 1] = f
         /\ \A i \in 1 .. Len(q) : Append(q, f)[i] = q[i]
<1> DEFINE r == Append(q, f)
<1>1. /\ Len(q) \in Nat /\ DOMAIN q = 1 .. Len(q)
      /\ DOMAIN r = 1 .. Len(q) + 1
      /\ r[Len(q) + 1] = f
      /\ \A i \in 1 .. Len(q) : r[i] = q[i]
  BY AppendProperties
<1> HIDE DEF r
<1>2. \A i \in DOMAIN r : i = Len(q) + 1 \/ i \in 1 .. Len(q)
  BY <1>1
<1>3. \A i \in DOMAIN q : i \in DOMAIN r
  BY <1>1
<1>4. Len(q) + 1 \in DOMAIN r
  BY <1>1
<1>5. ToSet(r) = ToSet(q) \cup {f}
  BY <1>1, <1>2, <1>3, <1>4 DEF ToSet
<1> QED
  BY <1>1, <1>5 DEF r

\* A step that leaves the callbacks of s alone and brings no new list for it.
LEMMA SameCallbacks ==
  ASSUME NEW s, KeptOnce(s), FreshUnused(s), StillDeferred(s), Unwinding(s),
         fresh' \subseteq fresh,
         kept'[s] = kept[s], ran'[s] = ran[s], cause'[s] = cause[s],
         ~captured(s) => deferred'[s] = deferred[s],
         done'[s] = done[s],
         \A a \in Actors : \A l \in ToSet(todo'[a]) :
           l.cancel /\ l.st = s =>
             \E b \in Actors : \E m \in ToSet(todo[b]) :
               m.cancel /\ m.st = s /\ m.fns = l.fns
  PROVE  KeptOnce(s)' /\ FreshUnused(s)' /\ StillDeferred(s)' /\ Unwinding(s)'
<1>1. KeptOnce(s)' /\ FreshUnused(s)' /\ StillDeferred(s)'
  BY DEF KeptOnce, FreshUnused, StillDeferred, captured
<1>2. ASSUME cause'[s] = "stopped"
      PROVE  \E n \in 0 .. Len(kept'[s]) : Unwound(s, n)'
  <2>1. PICK n \in 0 .. Len(kept[s]) : Unwound(s, n)
    BY <1>2 DEF Unwinding
  <2>2. /\ \A i \in 1 .. n : kept'[s][i] \notin ToSet(ran'[s])
        /\ \A i \in n + 1 .. Len(kept'[s]) : kept'[s][i] \in ToSet(ran'[s])
        /\ \A k, l \in DOMAIN ran'[s], i, j \in DOMAIN kept'[s] :
             ran'[s][k] = kept'[s][i] /\ ran'[s][l] = kept'[s][j] => (k < l <=> j < i)
        /\ done'[s] => n = 0
    BY <2>1 DEF Unwound
  <2>3. \A a \in Actors : \A l \in ToSet(todo'[a]) :
          l.cancel /\ l.st = s => l.fns = SubSeq(kept'[s], 1, n)
    <3> SUFFICES ASSUME NEW a \in Actors, NEW l \in ToSet(todo'[a]), l.cancel, l.st = s
                 PROVE  l.fns = SubSeq(kept[s], 1, n)
      OBVIOUS
    <3>1. PICK b \in Actors : \E m \in ToSet(todo[b]) : m.cancel /\ m.st = s /\ m.fns = l.fns
      OBVIOUS
    <3> QED
      BY <2>1, <3>1 DEF Unwound
  <2>4. Unwound(s, n)'
    BY <2>2, <2>3 DEF Unwound
  <2> QED
    BY <2>1, <2>4
<1> QED
  BY <1>1, <1>2 DEF Unwinding

LEMMA DeferStops ==
  ASSUME TypeOK, CancelInv, DeferInv, NEW a \in Actors, NEW s \in States,
         NEW hooks \in SUBSET States, NEW takes \in BOOLEAN, NEW rest \in Seq(Call),
         Stops(a, s, hooks, takes, rest)
  PROVE  DeferInv'
<1> DEFINE c == List(s, hooks, takes, IF takes THEN deferred[s] ELSE <<>>)
<1>1. /\ Beneath(a, s, rest) /\ todo' = [todo EXCEPT ![a] = Push(c, rest)]
      /\ UNCHANGED <<done, fresh, kept, ran>>
      /\ todo \in [Actors -> Seq(Call)]
      /\ cause \in [States -> {"none", "stopped", "expired"}]
      /\ deferred \in [States -> Seq(Callbacks)] /\ kept \in [States -> Seq(Callbacks)]
  BY DEF Stops, TypeOK
<1>2. /\ c \in Call /\ c.st = s /\ c.cancel = takes
      /\ c.fns = IF takes THEN deferred[s] ELSE <<>>
  <2>1. (IF takes THEN deferred[s] ELSE <<>>) \in Seq(Callbacks)
    BY EmptyList DEF TypeOK
  <2> QED
    BY <2>1, ListType DEF List
<1> HIDE DEF c
<1>3. ToSet(todo'[a]) \subseteq {c} \cup ToSet(rest)
  BY <1>1, <1>2, PushList
<1>4. \A b \in Actors : \A l \in ToSet(todo'[b]) :
        \/ b = a /\ l = c
        \/ \E m \in ToSet(todo[b]) : l.st = m.st /\ l.fns = m.fns /\ l.cancel = m.cancel
  <2> TAKE b \in Actors
  <2> TAKE l \in ToSet(todo'[b])
  <2>1. CASE b # a
    <3>1. todo'[b] = todo[b]
      BY <1>1, <2>1
    <3> QED
      BY <3>1
  <2>2. CASE b = a
    BY <1>1, <1>3, <2>2, BeneathKeeps
  <2> QED
    BY <2>1, <2>2
<1>5. takes => ~captured(s) /\ deferred[s] = kept[s] /\ ToSet(kept[s]) \cap ToSet(ran[s]) = {}
  BY DEF Stops, DeferInv, StillDeferred
<1>6. FreshUnlisted'
  <2> SUFFICES ASSUME NEW b \in Actors, NEW l \in ToSet(todo'[b])
               PROVE  fresh \cap ToSet(l.fns) = {}
    BY <1>1 DEF FreshUnlisted
  <2>1. CASE l = c
    <3>1. fresh \cap ToSet(kept[s]) = {} /\ ToSet(<<>>) = {}
      BY NoList DEF DeferInv, FreshUnused
    <3> QED
      BY <1>2, <1>5, <2>1, <3>1
  <2>2. CASE \E m \in ToSet(todo[b]) : l.st = m.st /\ l.fns = m.fns /\ l.cancel = m.cancel
    BY <2>2 DEF DeferInv, FreshUnlisted
  <2> QED
    BY <1>4, <2>1, <2>2
<1>7. InvokedNotKept'
  <2> SUFFICES ASSUME NEW b \in Actors, NEW l \in ToSet(todo'[b]), ~l.cancel
               PROVE  ToSet(l.fns) \cap ToSet(kept[l.st]) = {}
    BY <1>1 DEF InvokedNotKept
  <2>1. CASE l = c
    BY <1>2, <2>1, NoList
  <2>2. CASE \E m \in ToSet(todo[b]) : l.st = m.st /\ l.fns = m.fns /\ l.cancel = m.cancel
    BY <2>2 DEF DeferInv, InvokedNotKept
  <2> QED
    BY <1>4, <2>1, <2>2
<1>8. ASSUME NEW r \in States
      PROVE  KeptOnce(r)' /\ FreshUnused(r)' /\ StillDeferred(r)' /\ Unwinding(r)'
  <2>1. KeptOnce(r) /\ FreshUnused(r) /\ StillDeferred(r) /\ Unwinding(r)
    BY DEF DeferInv
  <2>2. CASE ~(takes /\ r = s)
    <3>1. cause'[r] = cause[r] /\ deferred'[r] = deferred[r]
      BY <1>1, <2>2 DEF Stops
    <3>2. \A b \in Actors : \A l \in ToSet(todo'[b]) :
            l.cancel /\ l.st = r =>
              \E e \in Actors : \E m \in ToSet(todo[e]) :
                m.cancel /\ m.st = r /\ m.fns = l.fns
      BY <1>2, <1>4, <2>2
    <3> QED
      BY <1>1, <2>1, <3>1, <3>2, SameCallbacks
  <2>3. CASE takes /\ r = s
    <3>1. ~captured(r) /\ cause'[r] # "none" /\ c.fns = kept[r] /\ ~done[r]
      BY <1>1, <1>2, <1>5, <2>3 DEF Stops, CancelInv, captured
    <3>2. KeptOnce(r)' /\ FreshUnused(r)' /\ StillDeferred(r)'
      BY <1>1, <2>1, <3>1 DEF KeptOnce, FreshUnused, StillDeferred, captured
    <3>3. \A b \in Actors : \A l \in ToSet(todo'[b]) : l.cancel /\ l.st = r => l.fns = kept[r]
      <4>1. \A b \in Actors : ~Owes(todo[b], r)
        BY <3>1 DEF CancelInv
      <4> QED
        BY <1>4, <3>1, <4>1 DEF Owes
    <3>4. kept[r] \in Seq(Callbacks) /\ Len(kept[r]) \in Nat
      BY <1>1
    <3>5. SubSeq(kept[r], 1, Len(kept[r])) = kept[r]
      BY <3>4
    <3>6. ToSet(kept[r]) \cap ToSet(ran[r]) = {}
      BY <1>5, <2>3
    <3>7. Unwound(r, Len(kept[r]))'
      <4>1. \A i \in DOMAIN kept[r] : kept[r][i] \notin ToSet(ran[r])
        BY <3>6 DEF ToSet
      <4>2. /\ \A i \in 1 .. Len(kept[r]) : kept[r][i] \notin ToSet(ran[r])
            /\ \A i \in Len(kept[r]) + 1 .. Len(kept[r]) : kept[r][i] \in ToSet(ran[r])
        BY <3>4, <4>1
      <4>3. \A k \in DOMAIN ran[r], i \in DOMAIN kept[r] : ran[r][k] # kept[r][i]
        BY <4>1 DEF ToSet
      <4> QED
        BY <1>1, <3>1, <3>3, <3>5, <4>2, <4>3 DEF Unwound
    <3>8. Len(kept'[r]) \in 0 .. Len(kept'[r]) /\ Len(kept'[r]) = Len(kept[r])
      BY <1>1, <3>4
    <3>9. Unwinding(r)'
      BY <3>7, <3>8 DEF Unwinding
    <3> QED
      BY <3>2, <3>9
  <2> QED
    BY <2>2, <2>3
<1> QED
  BY <1>6, <1>7, <1>8 DEF DeferInv

\* AddDeferred: after a clean capture the State is stopping without tasks, so
\* it retains nothing more.
LEMMA DeferAdds ==
  ASSUME IInv, DeferInv, NEW p \in Procs, NEW s \in States, NEW f \in Callbacks,
         AddDeferred(p, s, f)
  PROVE  DeferInv'
<1>1. /\ TypeOK /\ p \in Actors /\ todo[p] = <<>> /\ f \in fresh /\ fresh' = fresh \ {f}
      /\ UNCHANGED <<cause, done, ran>>
      /\ todo \in [Actors -> Seq(Call)] /\ kept \in [States -> Seq(Callbacks)]
      /\ deferred \in [States -> Seq(Callbacks)]
  BY DEF AddDeferred, IInv, TypeOK, Actors
<1>2. /\ FreshUnlisted /\ InvokedNotKept
      /\ \A r \in States : KeptOnce(r) /\ FreshUnused(r) /\ StillDeferred(r) /\ Unwinding(r)
  BY DEF DeferInv
<1>3. CASE /\ todo' = [todo EXCEPT ![p] = <<List(s, {}, FALSE, <<f>>)>>]
           /\ UNCHANGED <<deferred, kept>>
  <2> DEFINE c == List(s, {}, FALSE, <<f>>)
  <2>1. c.st = s /\ ~c.cancel /\ ToSet(c.fns) = {f} /\ ToSet(<<c>>) = {c}
    BY OneElement DEF List
  <2>2. \A b \in Actors : IF b = p THEN todo'[b] = <<c>> ELSE todo'[b] = todo[b]
    BY <1>1, <1>3
  <2> HIDE DEF c
  <2>3. \A b \in Actors : \A l \in ToSet(todo'[b]) : l = c \/ l \in ToSet(todo[b])
    BY <2>1, <2>2
  <2>4. FreshUnlisted'
    BY <1>1, <1>2, <2>1, <2>3 DEF FreshUnlisted
  <2>5. InvokedNotKept'
    <3>1. f \notin ToSet(kept[s])
      BY <1>1, <1>2 DEF FreshUnused
    <3> QED
      BY <1>2, <1>3, <2>1, <2>3, <3>1 DEF InvokedNotKept
  <2>6. ASSUME NEW r \in States
        PROVE  KeptOnce(r)' /\ FreshUnused(r)' /\ StillDeferred(r)' /\ Unwinding(r)'
    <3>1. KeptOnce(r) /\ FreshUnused(r) /\ StillDeferred(r) /\ Unwinding(r)
      BY <1>2
    <3>2. \A b \in Actors : \A l \in ToSet(todo'[b]) :
            l.cancel /\ l.st = r =>
              \E e \in Actors : \E m \in ToSet(todo[e]) :
                m.cancel /\ m.st = r /\ m.fns = l.fns
      BY <2>1, <2>3
    <3> QED
      BY <1>1, <1>3, <3>1, <3>2, SameCallbacks
  <2> QED
    BY <2>4, <2>5, <2>6 DEF DeferInv
<1>4. CASE /\ ~invokeNow(s) /\ todo' = todo
           /\ deferred' = [deferred EXCEPT ![s] = retain(s, f)]
           /\ kept' = [kept EXCEPT ![s] = Append(@, f)]
  <2>1. cause[s] # "stopped"
    BY <1>4, Hypothesis DEF invokeNow
  <2>2. /\ kept'[s] = Append(kept[s], f) /\ deferred'[s] = Append(deferred[s], f)
        /\ \A r \in States \ {s} : kept'[r] = kept[r] /\ deferred'[r] = deferred[r]
    BY <1>1, <1>4 DEF retain
  <2>3. f \notin ToSet(kept[s]) /\ f \notin ToSet(ran[s])
    BY <1>1, <1>2 DEF FreshUnused
  <2>4. /\ ToSet(kept'[s]) = ToSet(kept[s]) \cup {f}
        /\ DOMAIN kept'[s] = 1 .. Len(kept[s]) + 1 /\ Len(kept[s]) \in Nat
        /\ kept'[s][Len(kept[s]) + 1] = f
        /\ DOMAIN kept[s] = 1 .. Len(kept[s])
        /\ \A i \in 1 .. Len(kept[s]) : kept'[s][i] = kept[s][i]
    <3>1. kept[s] \in Seq(Callbacks)
      BY <1>1
    <3> QED
      BY <2>2, <3>1, AppendElement
  <2>5. FreshUnlisted'
    BY <1>1, <1>2, <1>4 DEF FreshUnlisted
  <2>6. InvokedNotKept'
    <3> SUFFICES ASSUME NEW b \in Actors, NEW l \in ToSet(todo[b]), ~l.cancel
                 PROVE  ToSet(l.fns) \cap ToSet(kept'[l.st]) = {}
      BY <1>4 DEF InvokedNotKept
    <3>1. f \notin ToSet(l.fns) /\ ToSet(l.fns) \cap ToSet(kept[l.st]) = {}
      BY <1>1, <1>2 DEF FreshUnlisted, InvokedNotKept
    <3>2. l.st \in States
      <4>1. todo[b] \in Seq(Call)
        BY <1>1
      <4>2. l \in Call
        BY <4>1 DEF ToSet
      <4> QED
        BY <4>2 DEF Call
    <3>3. CASE l.st = s
      BY <2>4, <3>1, <3>3
    <3>4. CASE l.st # s
      BY <2>2, <3>1, <3>2, <3>4
    <3> QED
      BY <3>3, <3>4
  <2>7. ASSUME NEW r \in States
        PROVE  KeptOnce(r)' /\ FreshUnused(r)' /\ StillDeferred(r)' /\ Unwinding(r)'
    <3>1. CASE r # s
      BY <1>1, <1>2, <1>4, <2>2, <3>1, SameCallbacks
    <3>2. CASE r = s
      <4>1. KeptOnce(s)'
        <5> SUFFICES ASSUME NEW i \in DOMAIN kept'[s], NEW j \in DOMAIN kept'[s],
                            kept'[s][i] = kept'[s][j]
                     PROVE  i = j
          BY DEF KeptOnce
        <5>1. \A k \in DOMAIN kept[s] : kept[s][k] # f
          BY <2>3 DEF ToSet
        <5>2. KeptOnce(s)
          BY <1>2
        <5> QED
          BY <2>4, <5>1, <5>2 DEF KeptOnce
      <4>2. FreshUnused(s)'
        BY <1>1, <1>2, <2>4 DEF FreshUnused
      <4>3. StillDeferred(s)'
        BY <1>1, <1>2, <2>2, <2>3, <2>4 DEF StillDeferred, captured
      <4>4. Unwinding(s)'
        BY <1>1, <2>1 DEF Unwinding
      <4> QED
        BY <3>2, <4>1, <4>2, <4>3, <4>4
    <3> QED
      BY <3>1, <3>2
  <2> QED
    BY <2>5, <2>6, <2>7 DEF DeferInv
<1> QED
  BY <1>3, <1>4 DEF AddDeferred

\* callDeferred runs the last callback of the list c.
LEMMA DeferRuns ==
  ASSUME TypeOK, CancelInv, DeferInv, NEW a \in Actors, callDeferredFn(a)
  PROVE  DeferInv'
<1>0. PICK c, d, tail, s, f :
        /\ c = Head(todo[a]) /\ d = [c EXCEPT !.fns = Front(@)] /\ tail = Tail(todo[a])
        /\ s = c.st /\ f = Last(c.fns)
  OBVIOUS
<1>1. /\ todo[a] # <<>> /\ c \in Call /\ c.fns # <<>> /\ s \in States
      /\ c.fns \in Seq(Callbacks) /\ d \in Call
      /\ d.st = s /\ d.cancel = c.cancel /\ d.fns = Front(c.fns)
      /\ todo' = [todo EXCEPT ![a] = Push(d, tail)]
      /\ ran' = [ran EXCEPT ![s] = Append(@, f)]
      /\ UNCHANGED <<cause, deferred, done, fresh, kept>>
  BY <1>0, FnStep
<1>2. /\ \A b \in Actors \ {a} : todo'[b] = todo[b]
      /\ ToSet(todo[a]) = {c} \cup ToSet(tail)
      /\ ToSet(todo'[a]) \subseteq {d} \cup ToSet(tail)
      /\ \A r : OwesOnce(todo[a], r) <=>
                  OwesOnce(tail, r) /\ ~(c.cancel /\ s = r /\ Owes(tail, r))
  BY <1>0, <1>1, TopStep
<1> DEFINE m == Len(c.fns)
<1>3. /\ m \in Nat \ {0} /\ f = c.fns[m] /\ DOMAIN c.fns = 1 .. m
      /\ Front(c.fns) = SubSeq(c.fns, 1, m - 1)
  BY <1>0, <1>1 DEF Last, Front
<1>4. Front(c.fns) \in Seq(Callbacks) /\ Len(Front(c.fns)) = m - 1
      /\ \A i \in 1 .. m - 1 : Front(c.fns)[i] = c.fns[i]
  BY <1>1, <1>3
<1> HIDE DEF m
<1>5. f \in ToSet(c.fns) /\ ToSet(d.fns) \subseteq ToSet(c.fns)
  <2>1. f \in ToSet(c.fns)
    BY <1>3 DEF ToSet
  <2>2. ASSUME NEW i \in DOMAIN Front(c.fns) PROVE Front(c.fns)[i] \in ToSet(c.fns)
    <3>1. i \in 1 .. m - 1 /\ i \in 1 .. m
      BY <1>3, <1>4
    <3> QED
      BY <1>3, <1>4, <3>1 DEF ToSet
  <2> QED
    BY <1>1, <2>1, <2>2 DEF ToSet
<1>6. \A b \in Actors : \A l \in ToSet(todo'[b]) : (b = a /\ l = d) \/ l \in ToSet(todo[b])
  BY <1>2
<1>7. c \in ToSet(todo[a]) /\ f \notin fresh
  BY <1>2, <1>5 DEF DeferInv, FreshUnlisted
<1>8. FreshUnlisted'
  BY <1>1, <1>5, <1>6, <1>7 DEF DeferInv, FreshUnlisted
<1>9. InvokedNotKept'
  BY <1>0, <1>1, <1>5, <1>6, <1>7 DEF DeferInv, InvokedNotKept
<1>10. kept[s] \in Seq(Callbacks) /\ ran \in [States -> Seq(Callbacks)]
  BY <1>1 DEF TypeOK
<1>11. /\ \A r \in States \ {s} : ran'[r] = ran[r]
       /\ Len(ran[s]) \in Nat /\ DOMAIN ran[s] = 1 .. Len(ran[s])
       /\ DOMAIN ran'[s] = 1 .. Len(ran[s]) + 1
       /\ \A k \in 1 .. Len(ran[s]) : ran'[s][k] = ran[s][k]
       /\ ran'[s][Len(ran[s]) + 1] = f
       /\ ToSet(ran'[s]) = ToSet(ran[s]) \cup {f}
  <2>1. ran[s] \in Seq(Callbacks) /\ ran'[s] = Append(ran[s], f) /\ f \in Callbacks
    BY <1>1, <1>3, <1>10
  <2>2. \A r \in States \ {s} : ran'[r] = ran[r]
    BY <1>1, <1>10
  <2> QED
    BY <2>1, <2>2, AppendElement
<1>13. ASSUME NEW r \in States, r # s
       PROVE  KeptOnce(r)' /\ FreshUnused(r)' /\ StillDeferred(r)' /\ Unwinding(r)'
  <2>1. KeptOnce(r) /\ FreshUnused(r) /\ StillDeferred(r) /\ Unwinding(r)
    BY DEF DeferInv
  <2>2. \A b \in Actors : \A l \in ToSet(todo'[b]) :
          l.cancel /\ l.st = r =>
            \E e \in Actors : \E x \in ToSet(todo[e]) :
              x.cancel /\ x.st = r /\ x.fns = l.fns
    BY <1>1, <1>6, <1>13
  <2> QED
    BY <1>1, <1>11, <1>13, <2>1, <2>2, SameCallbacks
<1>14. KeptOnce(s) /\ FreshUnused(s) /\ StillDeferred(s) /\ Unwinding(s)
  BY <1>1 DEF DeferInv
<1>15. ~c.cancel => f \notin ToSet(kept[s])
  BY <1>0, <1>5, <1>7 DEF DeferInv, InvokedNotKept
<1>16. c.cancel => captured(s) /\ ~done[s] /\ Owes(todo[a], s)
  BY <1>0, <1>1, <1>7 DEF CancelInv, Owes
<1>17. KeptOnce(s)' /\ FreshUnused(s)' /\ StillDeferred(s)'
  <2>1. KeptOnce(s)' /\ FreshUnused(s)'
    BY <1>1, <1>7, <1>11, <1>14 DEF KeptOnce, FreshUnused
  <2>2. StillDeferred(s)'
    BY <1>1, <1>11, <1>14, <1>15, <1>16 DEF StillDeferred, captured
  <2> QED
    BY <2>1, <2>2
<1>18. Unwinding(s)'
  <2> SUFFICES ASSUME cause[s] = "stopped"
               PROVE  \E n \in 0 .. Len(kept[s]) : Unwound(s, n)'
    BY <1>1 DEF Unwinding
  <2>1. PICK n \in 0 .. Len(kept[s]) : Unwound(s, n)
    BY <1>14 DEF Unwinding
  <2>2. /\ \A i \in 1 .. n : kept[s][i] \notin ToSet(ran[s])
        /\ \A i \in n + 1 .. Len(kept[s]) : kept[s][i] \in ToSet(ran[s])
        /\ \A k, l \in DOMAIN ran[s], i, j \in DOMAIN kept[s] :
             ran[s][k] = kept[s][i] /\ ran[s][l] = kept[s][j] => (k < l <=> j < i)
        /\ done[s] => n = 0
        /\ \A b \in Actors : \A l \in ToSet(todo[b]) :
             l.cancel /\ l.st = s => l.fns = SubSeq(kept[s], 1, n)
    BY <2>1 DEF Unwound
  <2>3. DOMAIN kept[s] = 1 .. Len(kept[s]) /\ Len(kept[s]) \in Nat
    BY <1>10
  <2>4. CASE ~c.cancel
    <3>1. \A i \in DOMAIN kept[s] : kept[s][i] # f
      BY <1>15, <2>4 DEF ToSet
    <3>2. \A i \in 1 .. n : kept[s][i] \notin ToSet(ran'[s])
      <4>1. \A i \in 1 .. n : i \in DOMAIN kept[s]
        BY <2>1, <2>3
      <4>2. ToSet(ran'[s]) = ToSet(ran[s]) \cup {f}
        BY <1>11
      <4> QED
        BY <2>2, <3>1, <4>1, <4>2
    <3>3. \A i \in n + 1 .. Len(kept[s]) : kept[s][i] \in ToSet(ran'[s])
      BY <1>11, <2>2
    <3>4. \A k, l \in DOMAIN ran'[s], i, j \in DOMAIN kept[s] :
            ran'[s][k] = kept[s][i] /\ ran'[s][l] = kept[s][j] => (k < l <=> j < i)
      <4> SUFFICES ASSUME NEW k \in DOMAIN ran'[s], NEW l \in DOMAIN ran'[s],
                          NEW i \in DOMAIN kept[s], NEW j \in DOMAIN kept[s],
                          ran'[s][k] = kept[s][i], ran'[s][l] = kept[s][j]
                   PROVE  k < l <=> j < i
        OBVIOUS
      <4>1. k \in DOMAIN ran[s] /\ l \in DOMAIN ran[s]
        <5>1. ran'[s][k] # f /\ ran'[s][l] # f
          BY <3>1
        <5>2. k # Len(ran[s]) + 1 /\ l # Len(ran[s]) + 1
          BY <1>11, <5>1
        <5> QED
          BY <1>11, <5>2
      <4>2. ran[s][k] = kept[s][i] /\ ran[s][l] = kept[s][j]
        BY <1>11, <4>1
      <4> QED
        BY <2>2, <4>1, <4>2
    <3>5. \A b \in Actors : \A l \in ToSet(todo'[b]) :
            l.cancel /\ l.st = s => l.fns = SubSeq(kept[s], 1, n)
      BY <1>1, <1>6, <2>2, <2>4
    <3>6. kept'[s] = kept[s] /\ (done'[s] => n = 0)
      BY <1>1, <2>2
    <3>7. Unwound(s, n)'
      BY <3>2, <3>3, <3>4, <3>5, <3>6 DEF Unwound
    <3> QED
      BY <2>1, <3>7
  <2>5. CASE c.cancel
    <3>1. c.fns = SubSeq(kept[s], 1, n)
      BY <1>0, <1>7, <2>2, <2>5
    <3>2. m = n /\ n \in 1 .. Len(kept[s]) /\ f = kept[s][n]
      <4>1. Len(SubSeq(kept[s], 1, n)) = n /\ \A i \in 1 .. n : SubSeq(kept[s], 1, n)[i] = kept[s][i]
        BY <1>10, <2>1, <2>3
      <4>2. m = n
        BY <3>1, <4>1 DEF m
      <4> QED
        BY <1>3, <2>3, <3>1, <4>1, <4>2
    <3>3. Front(c.fns) = SubSeq(kept[s], 1, n - 1)
      <4>1. c.fns \in Seq(Callbacks) /\ n - 1 \in 0 .. Len(kept[s])
        BY <1>1, <2>3, <3>2
      <4>2. SubSeq(SubSeq(kept[s], 1, n), 1, n - 1) = SubSeq(kept[s], 1, n - 1)
        BY <1>10, <2>3, <3>2
      <4> QED
        BY <1>3, <3>1, <3>2, <4>2
    <3>4. \A i \in 1 .. n - 1 : kept[s][i] \notin ToSet(ran'[s])
      <4>1. \A i \in 1 .. n - 1 : i \in DOMAIN kept[s] /\ n \in DOMAIN kept[s] /\ i # n /\ i \in 1 .. n
        BY <2>3, <3>2
      <4> QED
        BY <1>11, <1>14, <2>2, <3>2, <4>1 DEF KeptOnce
    <3>5. \A i \in (n - 1) + 1 .. Len(kept[s]) : kept[s][i] \in ToSet(ran'[s])
      <4>1. \A i \in (n - 1) + 1 .. Len(kept[s]) : i = n \/ i \in n + 1 .. Len(kept[s])
        BY <2>3, <3>2
      <4> QED
        BY <1>11, <2>2, <3>2, <4>1
    <3>6. \A k \in DOMAIN ran'[s], i \in DOMAIN kept[s] :
            ran'[s][k] = kept[s][i] =>
              \/ k = Len(ran[s]) + 1 /\ i = n
              \/ k \in 1 .. Len(ran[s]) /\ ran[s][k] = kept[s][i] /\ i > n
      <4> SUFFICES ASSUME NEW k \in DOMAIN ran'[s], NEW i \in DOMAIN kept[s],
                          ran'[s][k] = kept[s][i]
                   PROVE  \/ k = Len(ran[s]) + 1 /\ i = n
                          \/ k \in 1 .. Len(ran[s]) /\ ran[s][k] = kept[s][i] /\ i > n
        OBVIOUS
      <4>1. CASE k = Len(ran[s]) + 1
        BY <1>11, <1>14, <2>3, <3>2, <4>1 DEF KeptOnce
      <4>2. CASE k \in 1 .. Len(ran[s])
        <5>1. ran[s][k] = kept[s][i] /\ kept[s][i] \in ToSet(ran[s])
          BY <1>11, <4>2 DEF ToSet
        <5>2. i \notin 1 .. n
          BY <2>2, <5>1
        <5> QED
          BY <2>3, <3>2, <4>2, <5>1, <5>2
      <4> QED
        BY <1>11, <4>1, <4>2
    <3>7. \A k, l \in DOMAIN ran'[s], i, j \in DOMAIN kept[s] :
            ran'[s][k] = kept[s][i] /\ ran'[s][l] = kept[s][j] => (k < l <=> j < i)
      <4> SUFFICES ASSUME NEW k \in DOMAIN ran'[s], NEW l \in DOMAIN ran'[s],
                          NEW i \in DOMAIN kept[s], NEW j \in DOMAIN kept[s],
                          ran'[s][k] = kept[s][i], ran'[s][l] = kept[s][j]
                   PROVE  k < l <=> j < i
        OBVIOUS
      <4>1. \/ k = Len(ran[s]) + 1 /\ i = n
            \/ k \in 1 .. Len(ran[s]) /\ ran[s][k] = kept[s][i] /\ i > n
        BY <3>6
      <4>2. \/ l = Len(ran[s]) + 1 /\ j = n
            \/ l \in 1 .. Len(ran[s]) /\ ran[s][l] = kept[s][j] /\ j > n
        BY <3>6
      <4>3. CASE k \in 1 .. Len(ran[s]) /\ l \in 1 .. Len(ran[s])
        BY <1>11, <2>2, <4>1, <4>2, <4>3
      <4> QED
        BY <1>11, <2>3, <3>2, <4>1, <4>2, <4>3
    <3>8. \A b \in Actors : \A l \in ToSet(todo'[b]) :
            l.cancel /\ l.st = s => l.fns = SubSeq(kept[s], 1, n - 1)
      <4> SUFFICES ASSUME NEW b \in Actors, NEW l \in ToSet(todo'[b]), l.cancel, l.st = s
                   PROVE  l = d
        BY <1>1, <3>3
      <4>1. CASE b # a
        <5>1. Owes(todo[b], s)
          BY <1>2, <4>1 DEF Owes
        <5> QED
          BY <1>1, <1>16, <2>5, <4>1, <5>1 DEF CancelInv
      <4>2. CASE b = a
        <5>1. l \in ToSet(tail) => Owes(tail, s)
          BY DEF Owes
        <5>2. OwesOnce(todo[a], s)
          BY <1>1 DEF CancelInv
        <5> QED
          BY <1>2, <2>5, <4>2, <5>1, <5>2
      <4> QED
        BY <4>1, <4>2
    <3>9. Unwound(s, n - 1)'
      BY <1>1, <1>16, <2>5, <3>4, <3>5, <3>7, <3>8 DEF Unwound
    <3>10. n - 1 \in 0 .. Len(kept[s])
      BY <2>3, <3>2
    <3> QED
      BY <3>9, <3>10
  <2> QED
    BY <2>4, <2>5
<1> QED
  BY <1>8, <1>9, <1>13, <1>17, <1>18 DEF DeferInv

LEMMA DeferCancels ==
  ASSUME TypeOK, DeferInv, NEW a \in Actors, callDeferredCancel(a)
  PROVE  DeferInv'
<1> DEFINE c == Head(todo[a])
           d == [c EXCEPT !.cancel = FALSE]
           tail == Tail(todo[a])
           s == c.st
<1>1. /\ todo[a] # <<>> /\ c.fns = <<>> /\ c.cancel /\ s \in States
      /\ d \in Call /\ ~d.cancel /\ d.fns = c.fns
      /\ todo' = [todo EXCEPT ![a] = Push(d, tail)]
      /\ done' = [done EXCEPT ![s] = TRUE]
      /\ UNCHANGED <<cause, deferred, fresh, kept, ran>>
  BY CancelStep
<1> HIDE DEF d
<1>2. /\ \A b \in Actors \ {a} : todo'[b] = todo[b]
      /\ ToSet(todo[a]) = {c} \cup ToSet(tail)
      /\ ToSet(todo'[a]) \subseteq {d} \cup ToSet(tail)
  BY <1>1, TopStep
<1> HIDE DEF c, tail
<1>3. \A b \in Actors : \A l \in ToSet(todo'[b]) : l = d \/ l \in ToSet(todo[b])
  BY <1>2
<1>4. ToSet(d.fns) = {} /\ c \in ToSet(todo[a])
  BY <1>1, <1>2, NoList
<1>5. FreshUnlisted'
  BY <1>1, <1>3, <1>4 DEF DeferInv, FreshUnlisted
<1>6. InvokedNotKept'
  BY <1>1, <1>3, <1>4 DEF DeferInv, InvokedNotKept
<1>7. ASSUME NEW r \in States
      PROVE  KeptOnce(r)' /\ FreshUnused(r)' /\ StillDeferred(r)' /\ Unwinding(r)'
  <2>1. KeptOnce(r) /\ FreshUnused(r) /\ StillDeferred(r) /\ Unwinding(r)
    BY DEF DeferInv
  <2>2. \A b \in Actors : \A l \in ToSet(todo'[b]) :
          l.cancel /\ l.st = r =>
            \E e \in Actors : \E x \in ToSet(todo[e]) :
              x.cancel /\ x.st = r /\ x.fns = l.fns
    BY <1>1, <1>3
  <2>3. CASE r # s
    <3>1. done'[r] = done[r]
      BY <1>1, <2>3 DEF TypeOK
    <3> QED
      BY <1>1, <2>1, <2>2, <3>1, SameCallbacks
  <2>4. CASE r = s
    <3>1. KeptOnce(r)' /\ FreshUnused(r)' /\ StillDeferred(r)'
      BY <1>1, <2>1 DEF KeptOnce, FreshUnused, StillDeferred, captured
    <3>2. Unwinding(r)'
      <4> SUFFICES ASSUME cause[r] = "stopped"
                   PROVE  \E n \in 0 .. Len(kept[r]) : Unwound(r, n)'
        BY <1>1 DEF Unwinding
      <4>1. PICK n \in 0 .. Len(kept[r]) : Unwound(r, n)
        BY <2>1 DEF Unwinding
      <4>2. SubSeq(kept[r], 1, n) = <<>>
        BY <1>1, <1>4, <2>4, <4>1 DEF Unwound, s
      <4>3. n = 0
        <5>1. kept[r] \in Seq(Callbacks)
          BY DEF TypeOK
        <5>2. Len(SubSeq(kept[r], 1, n)) = n
          BY <4>1, <5>1
        <5> QED
          BY <4>2, <5>2
      <4>4. \A b \in Actors : \A l \in ToSet(todo'[b]) :
              l.cancel /\ l.st = r => l.fns = SubSeq(kept[r], 1, n)
        BY <2>2, <4>1 DEF Unwound
      <4>5. Unwound(r, n)'
        BY <1>1, <4>1, <4>3, <4>4 DEF Unwound
      <4> QED
        BY <4>5
    <3> QED
      BY <3>1, <3>2
  <2> QED
    BY <2>3, <2>4
<1> QED
  BY <1>5, <1>6, <1>7 DEF DeferInv

LEMMA DeferNext == IInv /\ CancelInv /\ DeferInv /\ [Next]_vars => DeferInv'
<1> SUFFICES ASSUME IInv, CancelInv, DeferInv, [Next]_vars PROVE DeferInv'
  OBVIOUS
<1>1. TypeOK
  BY DEF IInv
<1>2. CASE Quiet
  <2>1. UNCHANGED <<cause, deferred, todo, done, fresh, kept, ran>>
    BY <1>2 DEF Quiet
  <2>2. FreshUnlisted' /\ InvokedNotKept'
    BY <2>1 DEF DeferInv, FreshUnlisted, InvokedNotKept
  <2>3. \A r \in States : KeptOnce(r)' /\ FreshUnused(r)' /\ StillDeferred(r)' /\ Unwinding(r)'
    BY <2>1, SameCallbacks DEF DeferInv
  <2> QED
    BY <2>2, <2>3 DEF DeferInv
<1>3. ASSUME NEW p \in Procs, NEW s \in States, AddStopHook(p, s) PROVE DeferInv'
  <2>1. /\ p \in Actors /\ todo[p] = <<>>
        /\ UNCHANGED <<cause, deferred, done, fresh, kept, ran>>
    BY <1>3 DEF AddStopHook, seen, Actors
  <2> DEFINE c == List(Parent(s), {s}, FALSE, <<>>)
  <2>2. todo' = todo \/ todo' = [todo EXCEPT ![p] = <<c>>]
    BY <1>3 DEF AddStopHook
  <2>3. ~c.cancel /\ ToSet(c.fns) = {} /\ ToSet(<<c>>) = {c}
    BY NoList, OneElement DEF List
  <2> HIDE DEF c
  <2>4. \A b \in Actors : todo'[b] = todo[b] \/ todo'[b] = <<c>>
    BY <1>1, <2>1, <2>2 DEF TypeOK
  <2>5. \A b \in Actors : \A l \in ToSet(todo'[b]) : l = c \/ l \in ToSet(todo[b])
    BY <2>3, <2>4
  <2>6. FreshUnlisted' /\ InvokedNotKept'
    BY <2>1, <2>3, <2>5 DEF DeferInv, FreshUnlisted, InvokedNotKept
  <2>7. ASSUME NEW r \in States
        PROVE  KeptOnce(r)' /\ FreshUnused(r)' /\ StillDeferred(r)' /\ Unwinding(r)'
    <3>1. KeptOnce(r) /\ FreshUnused(r) /\ StillDeferred(r) /\ Unwinding(r)
      BY DEF DeferInv
    <3>2. \A b \in Actors : \A l \in ToSet(todo'[b]) :
            l.cancel /\ l.st = r =>
              \E e \in Actors : \E m \in ToSet(todo[e]) :
                m.cancel /\ m.st = r /\ m.fns = l.fns
      BY <2>3, <2>5
    <3> QED
      BY <2>1, <3>1, <3>2, SameCallbacks
  <2> QED
    BY <2>6, <2>7 DEF DeferInv
<1> QED
  BY <1>1, <1>2, <1>3, StepKinds, DeferStops, DeferAdds, DeferRuns, DeferCancels

LEMMA DeferInit == Init => DeferInv
<1> SUFFICES ASSUME Init PROVE DeferInv
  OBVIOUS
<1>1. /\ \A a \in Actors : ToSet(todo[a]) = {}
      /\ \A s \in States : /\ kept[s] = <<>> /\ ran[s] = <<>> /\ deferred[s] = <<>>
                           /\ cause[s] = "none" /\ ToSet(kept[s]) = {} /\ ToSet(ran[s]) = {}
                           /\ DOMAIN kept[s] = {}
  BY NoList DEF Init
<1> QED
  BY <1>1 DEF DeferInv, FreshUnlisted, InvokedNotKept, KeptOnce, FreshUnused,
              StillDeferred, Unwinding, captured

LEMMA DeferAlways == Spec => []DeferInv
BY DeferInit, DeferNext, Invariance, CancelAlways, PTL DEF Spec

(* After a clean stop every callback that Defer retained has run, in LIFO  *)
(* order, when the State's own cancel function has been called.            *)
THEOREM DeferredLIFO == Spec => []DeferredAreLIFO
<1>1. TypeOK /\ DeferInv => DeferredAreLIFO
  <2> SUFFICES ASSUME TypeOK, DeferInv, NEW s \in States, done[s], cause[s] = "stopped"
               PROVE  /\ ToSet(kept[s]) \subseteq ToSet(ran[s])
                      /\ \A k, l \in DOMAIN ran[s], i, j \in DOMAIN kept[s] :
                           ran[s][k] = kept[s][i] /\ ran[s][l] = kept[s][j] => (k < l <=> j < i)
    BY DEF DeferredAreLIFO
  <2>1. PICK n \in 0 .. Len(kept[s]) : Unwound(s, n)
    BY DEF DeferInv, Unwinding
  <2>2. n = 0 /\ \A i \in n + 1 .. Len(kept[s]) : kept[s][i] \in ToSet(ran[s])
    BY <2>1 DEF Unwound
  <2>3. kept[s] \in Seq(Callbacks)
    BY DEF TypeOK
  <2>4. ToSet(kept[s]) \subseteq ToSet(ran[s])
    BY <2>2, <2>3 DEF ToSet
  <2> QED
    BY <2>1, <2>4 DEF Unwound
<1> QED
  BY <1>1, TypeCorrect, DeferAlways, PTL

(* After a clean stop, of s or of an ancestor, no task adds an error to s  *)
(* any more; and once s's own cancel function has been called no retained  *)
(* callback of s does.                                                     *)
THEOREM ErrorsSettle == Spec => CleanStopSettlesErrors
<1>1. TypeOK /\ CancelInv /\ DeferInv /\ CleanStopHasNoTasks /\ [Next]_vars =>
        [\A s \in States :
           /\ (\E a \in States : Covers(a, s) /\ done[a] /\ cause[a] = "stopped")
                => NewErrors(s) \cap Tasks = {}
           /\ done[s] /\ cause[s] = "stopped"
                => NewErrors(s) \cap ToSet(kept[s]) = {}]_vars
  <2> SUFFICES ASSUME TypeOK, CancelInv, DeferInv, CleanStopHasNoTasks, [Next]_vars,
                      NEW s \in States
               PROVE  /\ \A b \in States : Covers(b, s) /\ cause[b] = "stopped"
                           => NewErrors(s) \cap Tasks = {}
                      /\ done[s] /\ cause[s] = "stopped"
                           => NewErrors(s) \cap ToSet(kept[s]) = {}
    OBVIOUS
  <2>1. errs \in [States -> SUBSET (Tasks \cup Callbacks)] /\ ToSet(kept[s]) \subseteq Callbacks
    BY DEF TypeOK, ToSet
  <2>2. ASSUME NEW t \in Tasks, AddErrors(t)
        PROVE  /\ \A b \in States : Covers(b, s) /\ cause[b] = "stopped" => NewErrors(s) = {}
               /\ NewErrors(s) \subseteq Tasks
    <3>1. Home[t] = s \/ NewErrors(s) = {}
      BY <2>1, <2>2 DEF AddErrors, NewErrors
    <3>2. NewErrors(s) \subseteq Tasks
      BY <2>1, <2>2 DEF AddErrors, NewErrors
    <3>3. ASSUME NEW b \in States, Covers(b, s), cause[b] = "stopped" PROVE Home[t] # s
      BY <2>2, <3>3 DEF AddErrors, CleanStopHasNoTasks
    <3> QED
      BY <3>1, <3>2, <3>3
  <2>3. ASSUME NEW a \in Actors, callDeferredFn(a)
        PROVE  /\ NewErrors(s) \cap Tasks = {}
               /\ done[s] /\ cause[s] = "stopped" => NewErrors(s) \cap ToSet(kept[s]) = {}
    <3> DEFINE c == Head(todo[a])
               f == Last(c.fns)
    <3>1. /\ c \in Call /\ c.fns # <<>> /\ c.fns \in Seq(Callbacks) /\ todo[a] # <<>>
      BY <2>3, FnStep
    <3>2. errs' \in {errs, [errs EXCEPT ![c.st] = @ \cup {f}]}
      BY <2>3 DEF callDeferredFn
    <3>3. f \in Callbacks /\ f \in ToSet(c.fns)
      BY <3>1 DEF Last, ToSet
    <3>4. c \in ToSet(todo[a])
      <4>1. todo[a] \in Seq(Call)
        BY DEF TypeOK
      <4> QED
        BY <3>1, <4>1, TopList
    <3> HIDE DEF c, f
    <3>5. NewErrors(s) \subseteq {f} /\ (c.st # s => NewErrors(s) = {})
      BY <2>1, <3>2 DEF NewErrors
    <3>6. ASSUME done[s], cause[s] = "stopped", c.st = s PROVE f \notin ToSet(kept[s])
      <4>1. ~c.cancel
        BY <3>4, <3>6 DEF CancelInv, Owes
      <4> QED
        BY <3>3, <3>4, <3>6, <4>1 DEF DeferInv, InvokedNotKept
    <3> QED
      BY <3>3, <3>5, <3>6, CallbacksAssumption
  <2>4. errs' = errs => NewErrors(s) = {}
    BY DEF NewErrors
  <2>5. \/ \E t \in Tasks : AddErrors(t)
        \/ \E a \in Actors : callDeferredFn(a)
        \/ errs' = errs
    BY DEF Next, vars, locks, seen, AddStopHook, Stop, StopOnIdle, AddDeferred, Tick, graceTimer,
           Apply, ApplyCheck, ApplyAdd, ApplySub, callDeferredCancel, callDeferredHook
  <2>6. CASE \E t \in Tasks : AddErrors(t)
    BY <2>1, <2>2, <2>6, CallbacksAssumption
  <2>7. CASE \E a \in Actors : callDeferredFn(a)
    BY <2>3, <2>7
  <2>8. CASE errs' = errs
    BY <2>4, <2>8
  <2> QED
    BY <2>5, <2>6, <2>7, <2>8
<1> QED
  BY <1>1, TypeCorrect, CancelAlways, DeferAlways, CleanStops, PTL DEF Spec, CleanStopSettlesErrors

=============================================================================
