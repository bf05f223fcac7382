--------------------------- MODULE ContextsProofs ---------------------------
(* What contexts take over from each other, for every hierarchy and every  *)
(* set of options, with any number of tasks that come, fail and go while   *)
(* contexts are created and stopped.                                       *)
EXTENDS Contexts, SlicesProofs

Owners == States \cup Tasks

\* Arrays hold names of middleware, or nothing yet.
Name == Owners \cup {Blank}

-----------------------------------------------------------------------------
(* The tree of contexts.                                                   *)

LEMMA PathTypes ==
  ASSUME NEW c \in States
  PROVE  /\ Path[c] \in Seq(States) /\ Depth(c) \in Nat \ {0}
         /\ Path[c][Depth(c)] = c
         /\ \A i \in 1 .. Depth(c) :
              /\ Path[c][i] \in States /\ Depth(Path[c][i]) = i
              /\ \A j \in 1 .. i : Path[Path[c][i]][j] = Path[c][j]
<1>0. Path[c] \in Seq(States) /\ Depth(c) = Len(Path[c])
  BY PathAssumption DEF Depth
<1>1. /\ Path[c] \in Seq(States) /\ Depth(c) \in Nat \ {0} /\ Depth(c) = Len(Path[c])
      /\ Path[c][Depth(c)] = c
      /\ \A i \in 1 .. Depth(c) : Path[Path[c][i]] = SubSeq(Path[c], 1, i)
  <2>1. Depth(c) > 0 /\ Path[c][Depth(c)] = c
    BY PathAssumption
  <2>2. Depth(c) \in Nat
    BY <1>0, LenProperties
  <2>3. \A i \in 1 .. Depth(c) : Path[Path[c][i]] = SubSeq(Path[c], 1, i)
    BY PathAssumption
  <2> QED
    BY <1>0, <2>1, <2>2, <2>3
<1>2. ASSUME NEW i \in 1 .. Depth(c)
      PROVE  /\ Path[c][i] \in States /\ Depth(Path[c][i]) = i
             /\ \A j \in 1 .. i : Path[Path[c][i]][j] = Path[c][j]
  <2>1. Path[c][i] \in States
    BY <1>1, ElementOfSeq
  <2>2. \A j \in 1 .. i : j \in 1 .. Depth(c)
    BY <1>1
  <2>3. /\ Len(SubSeq(Path[c], 1, i)) = i
        /\ \A j \in 1 .. i : SubSeq(Path[c], 1, i)[j] = Path[c][j]
    BY <1>1, <2>2
  <2> QED
    BY <1>1, <2>1, <2>3 DEF Depth
<1> QED
  BY <1>1, <1>2

LEMMA CoversSelf ==
  ASSUME NEW c \in States
  PROVE  Covers(c, c)
BY PathTypes DEF Covers

\* The order of the contexts on one path.
LEMMA CoversOnce ==
  ASSUME NEW a \in States, NEW c \in States, Covers(a, c), Covers(c, a)
  PROVE  a = c
BY PathTypes DEF Covers

\* The contexts around c are c and those around its parent.
LEMMA CoversParent ==
  ASSUME NEW c \in States, HasParent(c)
  PROVE  /\ Parent(c) \in States /\ ~Covers(c, Parent(c))
         /\ \A a \in States : Covers(a, c) <=> a = c \/ Covers(a, Parent(c))
<1> DEFINE p == Parent(c)
<1>1. /\ Depth(c) - 1 \in 1 .. Depth(c) /\ p = Path[c][Depth(c) - 1] /\ Depth(c) \in Nat
      /\ Path[c][Depth(c)] = c
  BY PathTypes DEF HasParent, Parent
<1>2. /\ p \in States /\ Depth(p) = Depth(c) - 1
      /\ \A j \in 1 .. Depth(c) - 1 : Path[p][j] = Path[c][j]
  BY <1>1, PathTypes
<1> HIDE DEF p
<1>3. ~Covers(c, p)
  BY <1>1, <1>2 DEF Covers
<1>4. ASSUME NEW a \in States PROVE Covers(a, c) <=> a = c \/ Covers(a, p)
  <2>1. Depth(a) \in Nat \ {0}
    BY PathTypes
  <2>2. CASE Depth(a) <= Depth(c) - 1
    <3>1. a # c
      BY <1>1, <2>2
    <3> QED
      BY <1>1, <1>2, <2>1, <2>2, <3>1 DEF Covers
  <2>3. CASE Depth(a) = Depth(c)
    BY <1>1, <1>2, <2>3 DEF Covers
  <2>4. CASE Depth(a) > Depth(c)
    BY <1>1, <1>2, <2>1, <2>4 DEF Covers
  <2> QED
    BY <1>1, <2>1, <2>2, <2>3, <2>4
<1> QED
  BY <1>2, <1>3, <1>4 DEF p

LEMMA CoversTop ==
  ASSUME NEW c \in States, ~HasParent(c)
  PROVE  \A a \in States : Covers(a, c) <=> a = c
<1>1. Depth(c) = 1 /\ Path[c][1] = c
  BY PathTypes DEF HasParent
<1> QED
  BY <1>1, PathTypes DEF Covers

LEMMA InnermostIs ==
  ASSUME NEW S \in SUBSET States, NEW c \in S, \A a \in S : Covers(a, c)
  PROVE  innermost(S) = c
<1>1. \A d \in S : (\A a \in S : Covers(a, d)) => d = c
  BY CoversOnce
<1> QED
  BY <1>1 DEF innermost

-----------------------------------------------------------------------------
(* Middleware.                                                             *)

\* Memory for the middleware of contexts and tasks.
Heap == [Owners -> Seq(Name)]

\* Task options, kept for owner o in an array of its own.
Owned(h, x, o) == x \in TaskConfig /\ x.mw.arr = o /\ Fits(h, x.mw)

LEMMA NothingYet ==
  ASSUME NEW h \in Heap, NEW o \in Owners
  PROVE  /\ NoSlice(o) \in Slice(Owners) /\ NoSlice(o).arr = o
         /\ Fits(h, NoSlice(o)) /\ Elems(h, NoSlice(o)) = <<>>
<1>1. NoSlice(o) \in Slice(Owners) /\ NoSlice(o).arr = o /\ NoSlice(o).len = 0
  BY DEF NoSlice, Slice
<1>2. h[o] \in Seq(Name) /\ Len(h[o]) \in Nat
  BY LenProperties DEF Heap
<1> QED
  BY <1>1, <1>2, SubSeqEmpty DEF Fits, Elems

LEMMA BroughtType ==
  ASSUME NEW opts, NEW o \in Owners
  PROVE  brought(opts, o) \in Seq(Name)
<1>1. o \in Name
  BY DEF Name
<1> QED
  BY <1>1, EmptySeq DEF brought

\* How options are applied: for owner o a fresh array with the middleware of
\* base, if that is inherited, and then its own.
Applied(base, opts, o, made) ==
  LET alone == base = nil \/ opts.noInherit
  IN /\ made.heap \in Heap /\ \A a \in Owners \ {o} : made.heap[a] = heap[a]
     /\ Owned(made.heap, made.task, o)
     /\ Elems(made.heap, made.task.mw) =
          (IF alone THEN <<>> ELSE Elems(heap, base.mw)) \o brought(opts, o)
     /\ made.task.errHandler =
          Sanitize(IF alone THEN opts.errHandler ELSE orElse(opts.errHandler, base.errHandler))

LEMMA AppliedIs ==
  ASSUME NEW o \in Owners, NEW base, NEW opts, NEW m,
         /\ m.heap \in Heap /\ \A a \in Owners \ {o} : m.heap[a] = heap[a]
         /\ m.slice \in Slice(Owners) /\ Fits(m.heap, m.slice) /\ m.slice.arr = o
         /\ Elems(m.heap, m.slice) =
              (IF base = nil \/ opts.noInherit THEN <<>> ELSE Elems(heap, base.mw))
                \o brought(opts, o),
         NEW h \in {"Stop", "Record"},
         h = Sanitize(IF base = nil \/ opts.noInherit THEN opts.errHandler
                        ELSE orElse(opts.errHandler, base.errHandler))
  PROVE  Applied(base, opts, o, [heap |-> m.heap, task |-> [errHandler |-> h, mw |-> m.slice]])
<1> DEFINE x == [errHandler |-> h, mw |-> m.slice]
<1>1. x \in TaskConfig /\ x.mw = m.slice /\ x.errHandler = h
  BY DEF TaskConfig, Slice, Owners
<1> HIDE DEF x
<1>2. Owned(m.heap, x, o)
  BY <1>1 DEF Owned
<1> DEFINE made == [heap |-> m.heap, task |-> x]
<1>3. made.heap = m.heap /\ made.task = x
  OBVIOUS
<1> HIDE DEF made
<1>4. Applied(base, opts, o, made)
  BY <1>1, <1>2, <1>3 DEF Applied
<1> QED
  BY <1>4 DEF made, x

LEMMA FreshIsApplied ==
  ASSUME heap \in Heap, NEW o \in Owners, NEW base, NEW opts,
         opts.errHandler \in {nil, "Stop", "Record"}, base = nil \/ opts.noInherit
  PROVE  Applied(base, opts, o, freshTask(opts, o))
<1> DEFINE h == [heap EXCEPT ![o] = <<>>]
           m == Extend(h, NoSlice(o), brought(opts, o), o)
<1>1. h \in Heap /\ \A a \in Owners \ {o} : h[a] = heap[a]
  BY EmptySeq DEF Heap
<1>2. /\ NoSlice(o) \in Slice(Owners) /\ NoSlice(o).arr = o
      /\ Fits(h, NoSlice(o)) /\ Elems(h, NoSlice(o)) = <<>>
  BY <1>1, NothingYet
<1>3. Extends(Name, Owners, h, NoSlice(o), brought(opts, o), o, m)
  <2> HIDE DEF h
  <2>1. brought(opts, o) \in Seq(Name) /\ Room \in [Owners -> Nat] /\ Blank \in Name
    BY BroughtType, OptionsAssumption DEF Owners, Name
  <2> QED
    BY <1>1, <1>2, <2>1, ExtendElems DEF Heap
<1>4. freshTask(opts, o) =
        [heap |-> m.heap, task |-> [errHandler |-> Sanitize(opts.errHandler), mw |-> m.slice]]
  BY DEF freshTask
<1>5. Sanitize(opts.errHandler) \in {"Stop", "Record"}
  BY DEF Sanitize, orElse
<1> HIDE DEF h, m
<1>6. /\ m.heap \in Heap /\ \A a \in Owners \ {o} : m.heap[a] = heap[a]
      /\ m.slice \in Slice(Owners) /\ Fits(m.heap, m.slice) /\ m.slice.arr = o
      /\ Elems(m.heap, m.slice) = <<>> \o brought(opts, o)
  BY <1>1, <1>2, <1>3 DEF Extends, Heap
<1> QED
  BY <1>4, <1>5, <1>6, AppliedIs

LEMMA MergeIsApplied ==
  ASSUME heap \in Heap, NEW o \in Owners, NEW base \in TaskConfig, Fits(heap, base.mw), NEW opts,
         opts.errHandler \in {nil, "Stop", "Record"}, base # nil, ~opts.noInherit
  PROVE  Applied(base, opts, o, mergedTask(base, opts, o))
<1> DEFINE k == cloneMiddleware(heap, base.mw, o)
           m == Extend(k.heap, k.slice, brought(opts, o), o)
<1>1. Room \in [Owners -> Nat] /\ Blank \in Name /\ base.mw \in Slice(Owners)
  BY OptionsAssumption DEF Owners, Name, TaskConfig, Slice
<1>2. Copies(Name, Owners, heap, base.mw, o, k)
  BY <1>1, CopyElems DEF cloneMiddleware, Heap
<1>3. Extends(Name, Owners, k.heap, k.slice, brought(opts, o), o, m)
  <2>1. brought(opts, o) \in Seq(Name)
    BY BroughtType
  <2> HIDE DEF k
  <2> QED
    BY <1>1, <1>2, <2>1, ExtendElems DEF Copies
<1>4. mergedTask(base, opts, o) =
        [heap |-> m.heap,
         task |-> [errHandler |-> Sanitize(orElse(opts.errHandler, base.errHandler)),
                   mw         |-> m.slice]]
  BY DEF mergedTask
<1>5. Sanitize(orElse(opts.errHandler, base.errHandler)) \in {"Stop", "Record"}
  BY DEF Sanitize, orElse, TaskConfig
<1> HIDE DEF k, m
<1>6. /\ m.heap \in Heap /\ \A a \in Owners \ {o} : m.heap[a] = heap[a]
      /\ m.slice \in Slice(Owners) /\ Fits(m.heap, m.slice) /\ m.slice.arr = o
      /\ Elems(m.heap, m.slice) = Elems(heap, base.mw) \o brought(opts, o)
  BY <1>2, <1>3 DEF Copies, Extends, Heap
<1> QED
  BY <1>4, <1>5, <1>6, AppliedIs

LEMMA ApplyTaskOpts ==
  ASSUME heap \in Heap, NEW o \in Owners, NEW base,
         base = nil \/ (base \in TaskConfig /\ Fits(heap, base.mw)), NEW opts,
         opts.errHandler \in {nil, "Stop", "Record"}
  PROVE  Applied(base, opts, o, applyTaskOpts(base, opts, o))
<1>1. CASE base = nil \/ opts.noInherit
  BY <1>1, FreshIsApplied DEF applyTaskOpts
<1>2. CASE ~(base = nil \/ opts.noInherit)
  BY <1>2, MergeIsApplied DEF applyTaskOpts
<1> QED
  BY <1>1, <1>2

\* Whoever has an array of its own keeps its middleware while others are set up.
LEMMA OwnedKept ==
  ASSUME NEW h, NEW k, NEW x, NEW o, Owned(h, x, o), k[o] = h[o]
  PROVE  Owned(k, x, o) /\ Elems(k, x.mw) = Elems(h, x.mw)
BY DEF Owned, Fits, Elems

LEMMA OwnedType ==
  ASSUME NEW h \in Heap, NEW x, NEW o, Owned(h, x, o)
  PROVE  Elems(h, x.mw) \in Seq(Name)
<1>1. x.mw \in Slice(Owners) /\ Fits(h, x.mw)
  BY DEF Owned, TaskConfig, Slice, Owners
<1> QED
  BY <1>1, ElemsType DEF Heap

LEMMA ConcatParts ==
  ASSUME NEW a \in Seq(Name), NEW b \in Seq(Name)
  PROVE  /\ Len(a) \in 0 .. Len(a \o b)
         /\ SubSeq(a \o b, 1, Len(a)) = a
         /\ SubSeq(a \o b, Len(a) + 1, Len(a \o b)) = b
<1>1. /\ a \o b \in Seq(Name) /\ Len(a \o b) = Len(a) + Len(b)
      /\ Len(a) \in Nat /\ Len(b) \in Nat
  BY ConcatProperties, LenProperties
<1>2. CASE Len(a) = 0
  <2>1. a = <<>> /\ a \o b = b
    BY <1>2, EmptySeq, ConcatEmptySeq
  <2> QED
    BY <1>1, <1>2, <2>1, SubSeqEmpty, SubSeqFull
<1>3. CASE Len(a) # 0
  <2>1. SubSeq(a \o b, 1, Len(a)) = SubSeq(a, 1, Len(a)) /\ SubSeq(a, 1, Len(a)) = a
    BY <1>1, <1>3, SubSeqOfConcat1, SubSeqFull
  <2>2. CASE Len(b) = 0
    <3>1. b = <<>>
      BY <2>2, EmptySeq
    <3> QED
      BY <1>1, <2>1, <2>2, <3>1, SubSeqEmpty
  <2>3. CASE Len(b) # 0
    <3>1. SubSeq(a \o b, Len(a) + 1, Len(a) + Len(b)) =
            SubSeq(b, (Len(a) + 1) - Len(a), (Len(a) + Len(b)) - Len(a))
      BY <1>1, <2>3, SubSeqOfConcat2
    <3>2. (Len(a) + 1) - Len(a) = 1 /\ (Len(a) + Len(b)) - Len(a) = Len(b)
      BY <1>1
    <3> QED
      BY <1>1, <2>1, <3>1, <3>2, SubSeqFull
  <2> QED
    BY <2>2, <2>3
<1> QED
  BY <1>2, <1>3

LEMMA OutsideInEmpty == OutsideIn(<<>>, {})
BY DEF OutsideIn

\* The middleware of an inner context comes last.
LEMMA OutsideInMore ==
  ASSUME NEW m \in Seq(Name), NEW S, OutsideIn(m, S), NEW c,
         \A a \in S : a # c /\ Covers(a, c)
  PROVE  OutsideIn(m \o <<c>>, S \cup {c})
<1> DEFINE n == m \o <<c>>
<1>1. /\ Len(m) \in Nat /\ DOMAIN m = 1 .. Len(m) /\ DOMAIN n = 1 .. Len(m) + 1
      /\ n[Len(m) + 1] = c /\ \A i \in 1 .. Len(m) : n[i] = m[i]
  OBVIOUS
<1> HIDE DEF n
<1>2. /\ {m[i] : i \in 1 .. Len(m)} = S
      /\ \A i, j \in 1 .. Len(m) : i < j => m[i] # m[j] /\ Covers(m[i], m[j])
  BY <1>1 DEF OutsideIn
<1>3. \A i \in 1 .. Len(m) + 1 : i \in 1 .. Len(m) \/ i = Len(m) + 1
  BY <1>1
<1>4. {n[i] : i \in 1 .. Len(m) + 1} = S \cup {c}
  BY <1>1, <1>2, <1>3
<1>5. ASSUME NEW i \in 1 .. Len(m) + 1, NEW j \in 1 .. Len(m) + 1, i < j
      PROVE  n[i] # n[j] /\ Covers(n[i], n[j])
  <2>1. i \in 1 .. Len(m) /\ n[i] = m[i] /\ m[i] \in S
    BY <1>1, <1>2, <1>5
  <2>2. CASE j = Len(m) + 1
    BY <1>1, <2>1, <2>2
  <2>3. CASE j \in 1 .. Len(m)
    BY <1>1, <1>2, <1>5, <2>1, <2>3
  <2> QED
    BY <1>3, <2>2, <2>3
<1> QED
  BY <1>1, <1>4, <1>5 DEF OutsideIn, n

-----------------------------------------------------------------------------
(* The invariant.                                                          *)

Config ==
  [noTaskInfo : BOOLEAN, gracePeriod : Nat \cup {nil}, group : States \cup {nil},
   parentGroup : States \cup {nil}, taskOpts : TaskConfig \cup {nil}]

Types ==
  /\ created \subseteq States /\ heap \in Heap
  /\ cfg \in [States -> Config] /\ given \in [States -> ConfigOption \cup {nil}]
  /\ run \in [Tasks -> TaskConfig \cup {nil}] /\ asked \in [Tasks -> TaskOption \cup {nil}]
  /\ at \in [Tasks -> {"idle", "running", "failed"}]
  /\ mode \in [States -> {"open", "ending", "soft", "hard"}] /\ done \in [States -> BOOLEAN]
  /\ children \in [States -> SUBSET States]

\* Contexts are created from the outside in.
Upward ==
  \A c \in created :
    given[c] \in ConfigOption /\ \A a \in States : Covers(a, c) => a \in created

\* Those among the contexts that count for c that were given a period, or task
\* options: one of them is the innermost.
GraceGiven(c) == {a \in heirloom(c) : given[a].gracePeriod # nil}
OptsGiven(c)  == {a \in heirloom(c) : given[a].taskOpts # nil}

HasInnermost(S) == S = {} \/ \E d \in S : \A a \in S : Covers(a, d)

\* c has the settings its options mean, and its middleware has its own array.
Configured(c) ==
  /\ Owned(heap, cfg[c].taskOpts, c)
  /\ cfg[c].gracePeriod \in Nat /\ cfg[c].gracePeriod = gracePeriodOf(c)
  /\ cfg[c].noTaskInfo <=> \E a \in heirloom(c) : given[a].noTaskInfo
  /\ cfg[c].group = groupOf(c)
  /\ cfg[c].taskOpts.errHandler = handlerOf(c)
  /\ OutsideIn(Elems(heap, cfg[c].taskOpts.mw), middlewareOf(c))
  /\ HasInnermost(GraceGiven(c)) /\ HasInnermost(OptsGiven(c))

\* TaskSettings for the task t, with its middleware in an array of its own.
SetUp(t) ==
  LET alone == asked[t].noInherit
      mw    == Elems(heap, run[t].mw)
  IN /\ Home[t] \in created /\ Owned(heap, run[t], t)
     /\ \E n \in 0 .. Len(mw) :
          /\ OutsideIn(SubSeq(mw, 1, n), IF alone THEN {} ELSE middlewareOf(Home[t]))
          /\ SubSeq(mw, n + 1, Len(mw)) = brought(asked[t], t)
     /\ run[t].errHandler =
          (IF asked[t].errHandler # nil THEN asked[t].errHandler
           ELSE IF alone THEN "Stop" ELSE handlerOf(Home[t]))

\* A context is in the tree from its creation to its cleanup.
Linked ==
  /\ \A c \in created :
       /\ done[c] => mode[c] = "hard"
       /\ ~done[c] /\ cfg[c].parentGroup # nil => c \in children[cfg[c].parentGroup]
  /\ \A c \in States \ created : mode[c] = "open" /\ ~done[c]

ContextsInv ==
  /\ Types /\ Upward /\ Linked
  /\ \A c \in created : Configured(c)
  /\ \A t \in Tasks : at[t] # "idle" => SetUp(t)

-----------------------------------------------------------------------------
(* What options mean is settled when a context is created.                 *)

\* c's settings mean the same whatever is created later.
LEMMA HeirloomKept ==
  ASSUME Upward, NEW c \in created, created \subseteq States,
         \A a \in created : given'[a] = given[a]
  PROVE  heirloom(c)' = heirloom(c) /\ heirloom(c) \subseteq created
BY DEF Upward, heirloom

LEMMA InnermostKept ==
  ASSUME NEW S \in SUBSET created, created \subseteq States, HasInnermost(S), S # {},
         \A a \in created : given'[a] = given[a]
  PROVE  given'[innermost(S)] = given[innermost(S)]
<1>1. PICK d \in S : \A a \in S : Covers(a, d)
  BY DEF HasInnermost
<1>2. innermost(S) = d
  BY <1>1, InnermostIs
<1> QED
  BY <1>2

LEMMA MeaningKept ==
  ASSUME Upward, NEW c \in created, created \subseteq States, Configured(c),
         \A a \in created : given'[a] = given[a]
  PROVE  /\ heirloom(c)' = heirloom(c) /\ heirloom(c) \subseteq created
         /\ GraceGiven(c)' = GraceGiven(c) /\ OptsGiven(c)' = OptsGiven(c)
         /\ gracePeriodOf(c)' = gracePeriodOf(c) /\ handlerOf(c)' = handlerOf(c)
         /\ middlewareOf(c)' = middlewareOf(c) /\ groupOf(c)' = groupOf(c)
<1>1. heirloom(c)' = heirloom(c) /\ heirloom(c) \subseteq created
  BY HeirloomKept
<1>2. GraceGiven(c)' = GraceGiven(c) /\ OptsGiven(c)' = OptsGiven(c)
  BY <1>1 DEF GraceGiven, OptsGiven
<1>3. GraceGiven(c) \subseteq created /\ OptsGiven(c) \subseteq created
  BY <1>1 DEF GraceGiven, OptsGiven
<1>4. /\ HasInnermost(GraceGiven(c)) /\ HasInnermost(OptsGiven(c))
  BY DEF Configured
<1>5. gracePeriodOf(c)' = gracePeriodOf(c)
  <2>1. GraceGiven(c) # {} =>
          given'[innermost(GraceGiven(c))] = given[innermost(GraceGiven(c))]
    BY <1>3, <1>4, InnermostKept
  <2>2. gracePeriodOf(c) = IF GraceGiven(c) = {} THEN DefaultGracePeriod
                             ELSE given[innermost(GraceGiven(c))].gracePeriod
    BY DEF gracePeriodOf, GraceGiven
  <2>3. gracePeriodOf(c)' = IF GraceGiven(c)' = {} THEN DefaultGracePeriod
                              ELSE given'[innermost(GraceGiven(c)')].gracePeriod
    BY DEF gracePeriodOf, GraceGiven
  <2> QED
    BY <1>2, <2>1, <2>2, <2>3
<1>6. handlerOf(c)' = handlerOf(c)
  <2>1. OptsGiven(c) # {} =>
          given'[innermost(OptsGiven(c))] = given[innermost(OptsGiven(c))]
    BY <1>3, <1>4, InnermostKept
  <2>2. handlerOf(c) = IF OptsGiven(c) = {} THEN "Stop"
                         ELSE Sanitize(given[innermost(OptsGiven(c))].taskOpts.errHandler)
    BY DEF handlerOf, OptsGiven
  <2>3. handlerOf(c)' = IF OptsGiven(c)' = {} THEN "Stop"
                          ELSE Sanitize(given'[innermost(OptsGiven(c)')].taskOpts.errHandler)
    BY DEF handlerOf, OptsGiven
  <2> QED
    BY <1>2, <2>1, <2>2, <2>3
<1>7. middlewareOf(c)' = middlewareOf(c) /\ groupOf(c)' = groupOf(c)
  BY <1>1 DEF middlewareOf, groupOf
<1> QED
  BY <1>1, <1>2, <1>5, <1>6, <1>7

LEMMA ConfiguredKept ==
  ASSUME Upward, NEW c \in created, created \subseteq States, Configured(c),
         \A a \in created : given'[a] = given[a],
         cfg'[c] = cfg[c], heap'[c] = heap[c]
  PROVE  Configured(c)'
<1>1. Owned(heap', cfg[c].taskOpts, c) /\
      Elems(heap', cfg[c].taskOpts.mw) = Elems(heap, cfg[c].taskOpts.mw)
  BY OwnedKept DEF Configured
<1>2. \A a \in heirloom(c) : given'[a] = given[a]
  BY MeaningKept
<1> QED
  BY <1>1, <1>2, MeaningKept DEF Configured

LEMMA SetUpKept ==
  ASSUME ContextsInv, NEW t \in Tasks, at[t] # "idle",
         created \subseteq created', \A a \in created : given'[a] = given[a],
         run'[t] = run[t], asked'[t] = asked[t], heap'[t] = heap[t]
  PROVE  SetUp(t)'
<1>1. SetUp(t) /\ Home[t] \in created /\ Configured(Home[t]) /\ Upward /\ created \subseteq States
  BY DEF ContextsInv, SetUp, Types
<1>2. /\ Owned(heap', run[t], t)
      /\ Elems(heap', run[t].mw) = Elems(heap, run[t].mw)
  BY <1>1, OwnedKept DEF SetUp
<1>3. /\ middlewareOf(Home[t])' = middlewareOf(Home[t])
      /\ handlerOf(Home[t])' = handlerOf(Home[t])
  BY <1>1, MeaningKept
<1> QED
  BY <1>1, <1>2, <1>3 DEF SetUp

-----------------------------------------------------------------------------
(* The settings of a new context.                                          *)

\* The contexts whose options c takes over from its parent when it is given o.
Handed(c, o) == IF HasParent(c) /\ ~o.noInherit THEN heirloom(Parent(c)) ELSE {}

LEMMA HandedType ==
  ASSUME ContextsInv, NEW c \in States, c \notin created, HasParent(c) => Parent(c) \in created,
         NEW o
  PROVE  /\ Handed(c, o) \subseteq created
         /\ \A a \in Handed(c, o) : a \in States /\ a # c /\ Covers(a, c)
         /\ \A a \in States : Covers(a, c) => a = c \/ a \in created
<1>1. CASE HasParent(c)
  <2>1. Parent(c) \in created /\ Upward /\ created \subseteq States
    BY <1>1 DEF ContextsInv, Types
  <2> QED
    BY <1>1, <2>1, CoversParent DEF Upward, Handed, heirloom
<1>2. CASE ~HasParent(c)
  BY <1>2, CoversTop DEF Handed
<1> QED
  BY <1>1, <1>2

LEMMA NewHeirloom ==
  ASSUME ContextsInv, NEW c \in States, c \notin created, HasParent(c) => Parent(c) \in created,
         NEW o, given' = [given EXCEPT ![c] = o]
  PROVE  heirloom(c)' = {c} \cup Handed(c, o)
<1>1. given'[c] = o /\ \A a \in States : a # c => given'[a] = given[a]
  BY DEF ContextsInv, Types
<1>2. heirloom(c)' = {a \in States : /\ Covers(a, c)
                                     /\ \A b \in States : /\ Covers(a, b) /\ Covers(b, c) /\ b # a
                                                           => ~given'[b].noInherit}
  BY DEF heirloom
<1>3. c \in heirloom(c)'
  BY <1>2, CoversSelf, CoversOnce
<1>4. ASSUME NEW a \in States, a # c
      PROVE  a \in heirloom(c)' <=> a \in Handed(c, o)
  <2>1. CASE ~HasParent(c)
    BY <1>2, <1>4, <2>1, CoversTop DEF Handed
  <2>2. CASE HasParent(c) /\ o.noInherit
    BY <1>1, <1>2, <1>4, <2>2, CoversSelf DEF Handed
  <2>3. CASE HasParent(c) /\ ~o.noInherit
    <3> DEFINE p == Parent(c)
    <3>1. /\ p \in States /\ ~Covers(c, p)
          /\ \A b \in States : Covers(b, c) <=> b = c \/ Covers(b, p)
      BY <2>3, CoversParent
    <3>2. a \in heirloom(p) <=>
            /\ Covers(a, p)
            /\ \A b \in States : Covers(a, b) /\ Covers(b, p) /\ b # a => ~given[b].noInherit
      BY DEF heirloom
    <3> HIDE DEF p
    <3>3. a \in heirloom(c)' <=>
            /\ Covers(a, p)
            /\ \A b \in States : Covers(a, b) /\ (b = c \/ Covers(b, p)) /\ b # a
                                   => ~given'[b].noInherit
      BY <1>2, <1>4, <3>1
    <3>4. \A b \in States : Covers(b, p) => given'[b] = given[b]
      BY <1>1, <3>1
    <3>5. a \in heirloom(c)' <=> a \in heirloom(p)
      BY <1>1, <2>3, <3>1, <3>2, <3>3, <3>4
    <3> QED
      BY <2>3, <3>5 DEF Handed, p
  <2> QED
    BY <2>1, <2>2, <2>3
<1>5. heirloom(c)' \subseteq States /\ Handed(c, o) \subseteq States
  BY <1>2, HandedType
<1> QED
  BY <1>3, <1>4, <1>5

\* Of the contexts that count for c, those that were given something: c itself,
\* which is then the innermost, or those that count for its parent.
LEMMA NewInnermost ==
  ASSUME NEW c \in States, NEW H \in SUBSET States, NEW S,
         HasInnermost(H), \A a \in H : Covers(a, c),
         S = H \/ S = {c} \cup H
  PROVE  /\ HasInnermost(S)
         /\ S = {c} \cup H => innermost(S) = c
<1>1. CASE S = {c} \cup H
  <2>1. S \in SUBSET States /\ c \in S /\ \A a \in S : Covers(a, c)
    BY <1>1, CoversSelf
  <2> QED
    BY <2>1, InnermostIs DEF HasInnermost
<1>2. CASE S = H /\ S # {c} \cup H
  BY <1>2
<1> QED
  BY <1>1, <1>2

Inherits(c, o) == HasParent(c) /\ ~o.noInherit

\* What the config that c starts from is.
LEMMA InheritedIs ==
  ASSUME ContextsInv, NEW c \in States, HasParent(c) => Parent(c) \in created, NEW o
  PROVE  /\ Inherits(c, o) =>
              /\ Parent(c) \in created /\ Configured(Parent(c))
              /\ inherited(c, o) = cfg[Parent(c)] /\ cfg[Parent(c)] \in Config
              /\ Handed(c, o) = heirloom(Parent(c))
         /\ ~Inherits(c, o) => inherited(c, o) = zero /\ Handed(c, o) = {}
BY DEF ContextsInv, Types, Inherits, inherited, Handed

LEMMA OptionsType ==
  ASSUME ContextsInv, NEW c \in States, NEW o \in ConfigOptions[c]
  PROVE  /\ o \in ConfigOption
         /\ WithTaskOptions(o.taskOpts).errHandler \in {nil, "Stop", "Record"}
         /\ ~WithTaskOptions(o.taskOpts).noInherit
         /\ o.taskOpts = nil => /\ WithTaskOptions(o.taskOpts).errHandler = nil
                                /\ ~WithTaskOptions(o.taskOpts).mw
         /\ o.taskOpts # nil =>
              /\ WithTaskOptions(o.taskOpts).errHandler = Sanitize(o.taskOpts.errHandler)
              /\ WithTaskOptions(o.taskOpts).errHandler \in {"Stop", "Record"}
              /\ WithTaskOptions(o.taskOpts).mw = o.taskOpts.mw
<1>1. o \in ConfigOption
  BY OptionsAssumption
<1>2. CASE o.taskOpts = nil
  BY <1>1, <1>2 DEF WithTaskOptions
<1>3. CASE o.taskOpts # nil
  <2>1. o.taskOpts \in TaskOption
    BY <1>1, <1>3 DEF ConfigOption
  <2>2. Sanitize(o.taskOpts.errHandler) \in {"Stop", "Record"}
    BY <2>1 DEF TaskOption, Sanitize, orElse
  <2> QED
    BY <1>1, <1>3, <2>1, <2>2 DEF WithTaskOptions, TaskOption
<1> QED
  BY <1>2, <1>3

\* The task options of a new context, and all else that is changed for it.
LEMMA NewContextMakes ==
  ASSUME ContextsInv, NEW c \in States, NEW o \in ConfigOptions[c], newContext(c, o)
  PROVE  /\ c \notin created /\ (HasParent(c) => Parent(c) \in created)
         /\ created' = created \cup {c} /\ given' = [given EXCEPT ![c] = o]
         /\ \E made :
              /\ Applied(inherited(c, o).taskOpts, WithTaskOptions(o.taskOpts), c, made)
              /\ heap' = made.heap
              /\ cfg' = [cfg EXCEPT ![c] = merge(c, o, made.task)]
              /\ children' =
                   IF merge(c, o, made.task).parentGroup = nil THEN children
                     ELSE [children EXCEPT ![merge(c, o, made.task).parentGroup] = @ \cup {c}]
<1>1. /\ c \notin created /\ (HasParent(c) => Parent(c) \in created)
      /\ created' = created \cup {c} /\ given' = [given EXCEPT ![c] = o]
  BY DEF newContext
<1> DEFINE made == applyTaskOpts(inherited(c, o).taskOpts, WithTaskOptions(o.taskOpts), c)
<1>2. /\ heap' = made.heap
      /\ cfg' = [cfg EXCEPT ![c] = merge(c, o, made.task)]
      /\ children' =
           IF merge(c, o, made.task).parentGroup = nil THEN children
             ELSE [children EXCEPT ![merge(c, o, made.task).parentGroup] = @ \cup {c}]
  BY DEF newContext
<1>3. \/ inherited(c, o).taskOpts = nil
      \/ /\ inherited(c, o).taskOpts \in TaskConfig
         /\ Fits(heap, inherited(c, o).taskOpts.mw)
  BY <1>1, InheritedIs DEF zero, Configured, Owned
<1>4. Applied(inherited(c, o).taskOpts, WithTaskOptions(o.taskOpts), c, made)
  <2>1. heap \in Heap /\ c \in Owners
    BY DEF ContextsInv, Types, Owners
  <2>2. WithTaskOptions(o.taskOpts).errHandler \in {nil, "Stop", "Record"}
    BY OptionsType
  <2> QED
    BY <1>3, <2>1, <2>2, ApplyTaskOpts
<1> QED
  BY <1>1, <1>2, <1>4

LEMMA NewGrace ==
  ASSUME ContextsInv, NEW c \in States, NEW o \in ConfigOptions[c], newContext(c, o), NEW x
  PROVE  /\ merge(c, o, x).gracePeriod \in Nat
         /\ merge(c, o, x).gracePeriod = gracePeriodOf(c)'
         /\ HasInnermost(GraceGiven(c)')
<1>1. /\ c \notin created /\ (HasParent(c) => Parent(c) \in created)
      /\ given' = [given EXCEPT ![c] = o]
  BY NewContextMakes
<1>2. heirloom(c)' = {c} \cup Handed(c, o)
  BY <1>1, NewHeirloom
<1>3. /\ Handed(c, o) \subseteq created /\ created \subseteq States
      /\ \A a \in Handed(c, o) : a \in States /\ a # c /\ Covers(a, c)
  BY <1>1, HandedType DEF ContextsInv, Types
<1>4. given'[c] = o /\ \A a \in created : given'[a] = given[a]
  BY <1>1 DEF ContextsInv, Types
<1> DEFINE G == {a \in Handed(c, o) : given[a].gracePeriod # nil}
           b == inherited(c, o).gracePeriod
<1>5. GraceGiven(c)' = {a \in {c} \cup Handed(c, o) : given'[a].gracePeriod # nil}
  BY <1>2 DEF GraceGiven
<1>6. GraceGiven(c)' = IF o.gracePeriod # nil THEN {c} \cup G ELSE G
  BY <1>3, <1>4, <1>5
<1>7. gracePeriodOf(c)' = IF GraceGiven(c)' = {} THEN DefaultGracePeriod
                            ELSE given'[innermost(GraceGiven(c)')].gracePeriod
  BY DEF gracePeriodOf, GraceGiven
<1>8. merge(c, o, x).gracePeriod = orElse(orElse(o.gracePeriod, b), DefaultGracePeriod)
  BY DEF merge
<1>9. /\ HasInnermost(G)
      /\ b \in Nat \cup {nil}
      /\ b = nil => G = {}
      /\ b # nil => b = IF G = {} THEN DefaultGracePeriod ELSE given[innermost(G)].gracePeriod
  <2>1. CASE Inherits(c, o)
    <3>1. G = GraceGiven(Parent(c)) /\ b = cfg[Parent(c)].gracePeriod /\ Configured(Parent(c))
      BY <1>1, <2>1, InheritedIs DEF GraceGiven
    <3>2. gracePeriodOf(Parent(c)) =
            IF GraceGiven(Parent(c)) = {} THEN DefaultGracePeriod
              ELSE given[innermost(GraceGiven(Parent(c)))].gracePeriod
      BY DEF gracePeriodOf, GraceGiven
    <3> HIDE DEF G, b
    <3>3. b \in Nat /\ b # nil /\ HasInnermost(G) /\ b = gracePeriodOf(Parent(c))
      BY <3>1, OptionsAssumption DEF Configured
    <3> QED
      BY <3>1, <3>2, <3>3
  <2>2. CASE ~Inherits(c, o)
    BY <1>1, <2>2, InheritedIs DEF zero, HasInnermost
  <2> QED
    BY <2>1, <2>2
<1>10. G \subseteq created /\ G \in SUBSET States /\ \A a \in G : Covers(a, c)
  BY <1>3
<1> HIDE DEF G, b
<1>11. o.gracePeriod \in Nat \cup {nil} /\ DefaultGracePeriod \in Nat
  BY OptionsType, OptionsAssumption DEF ConfigOption
<1>12. CASE o.gracePeriod # nil
  <2>1. GraceGiven(c)' = {c} \cup G
    BY <1>6, <1>12
  <2>2. HasInnermost(GraceGiven(c)') /\ innermost(GraceGiven(c)') = c
    BY <1>9, <1>10, <2>1, NewInnermost
  <2>3. gracePeriodOf(c)' = o.gracePeriod
    BY <1>4, <1>7, <2>1, <2>2
  <2> QED
    BY <1>8, <1>11, <1>12, <2>2, <2>3 DEF orElse
<1>13. CASE o.gracePeriod = nil
  <2>1. GraceGiven(c)' = G
    BY <1>6, <1>13
  <2>2. G # {} => given'[innermost(G)] = given[innermost(G)]
    BY <1>3, <1>4, <1>9, <1>10, InnermostKept
  <2>3. gracePeriodOf(c)' = orElse(b, DefaultGracePeriod)
    BY <1>7, <1>9, <2>1, <2>2 DEF orElse
  <2> QED
    BY <1>8, <1>9, <1>11, <1>13, <2>1, <2>3 DEF orElse
<1> QED
  BY <1>12, <1>13

LEMMA NewHandler ==
  ASSUME ContextsInv, NEW c \in States, NEW o \in ConfigOptions[c], newContext(c, o), NEW made,
         Applied(inherited(c, o).taskOpts, WithTaskOptions(o.taskOpts), c, made)
  PROVE  /\ made.task.errHandler = handlerOf(c)'
         /\ HasInnermost(OptsGiven(c)')
<1>1. /\ c \notin created /\ (HasParent(c) => Parent(c) \in created)
      /\ given' = [given EXCEPT ![c] = o]
  BY NewContextMakes
<1>2. heirloom(c)' = {c} \cup Handed(c, o)
  BY <1>1, NewHeirloom
<1>3. /\ Handed(c, o) \subseteq created /\ created \subseteq States
      /\ \A a \in Handed(c, o) : a \in States /\ a # c /\ Covers(a, c)
  BY <1>1, HandedType DEF ContextsInv, Types
<1>4. given'[c] = o /\ \A a \in created : given'[a] = given[a]
  BY <1>1 DEF ContextsInv, Types
<1> DEFINE T == {a \in Handed(c, o) : given[a].taskOpts # nil}
           b == inherited(c, o).taskOpts
           w == WithTaskOptions(o.taskOpts)
<1>5. OptsGiven(c)' = {a \in {c} \cup Handed(c, o) : given'[a].taskOpts # nil}
  BY <1>2 DEF OptsGiven
<1>6. OptsGiven(c)' = IF o.taskOpts # nil THEN {c} \cup T ELSE T
  BY <1>3, <1>4, <1>5
<1>7. handlerOf(c)' = IF OptsGiven(c)' = {} THEN "Stop"
                        ELSE Sanitize(given'[innermost(OptsGiven(c)')].taskOpts.errHandler)
  BY DEF handlerOf, OptsGiven
<1>8. made.task.errHandler = Sanitize(IF b = nil THEN w.errHandler
                                        ELSE orElse(w.errHandler, b.errHandler))
  BY OptionsType DEF Applied
<1>9. /\ HasInnermost(T)
      /\ b = nil => T = {}
      /\ b # nil => /\ b.errHandler \in {"Stop", "Record"}
                    /\ b.errHandler =
                         IF T = {} THEN "Stop"
                           ELSE Sanitize(given[innermost(T)].taskOpts.errHandler)
  <2>1. CASE Inherits(c, o)
    <3>1. T = OptsGiven(Parent(c)) /\ b = cfg[Parent(c)].taskOpts /\ Configured(Parent(c))
      BY <1>1, <2>1, InheritedIs DEF OptsGiven
    <3>2. handlerOf(Parent(c)) =
            IF OptsGiven(Parent(c)) = {} THEN "Stop"
              ELSE Sanitize(given[innermost(OptsGiven(Parent(c)))].taskOpts.errHandler)
      BY DEF handlerOf, OptsGiven
    <3> HIDE DEF T, b
    <3>3. b \in TaskConfig /\ b # nil /\ HasInnermost(T) /\ b.errHandler = handlerOf(Parent(c))
      BY <3>1, OptionsAssumption DEF Configured, Owned
    <3> QED
      BY <3>1, <3>2, <3>3 DEF TaskConfig
  <2>2. CASE ~Inherits(c, o)
    BY <1>1, <2>2, InheritedIs DEF zero, HasInnermost
  <2> QED
    BY <2>1, <2>2
<1>10. T \subseteq created /\ T \in SUBSET States /\ \A a \in T : Covers(a, c)
  BY <1>3
<1>11. /\ o.taskOpts = nil => w.errHandler = nil
       /\ o.taskOpts # nil => /\ w.errHandler = Sanitize(o.taskOpts.errHandler)
                              /\ w.errHandler \in {"Stop", "Record"}
       /\ nil \notin {"Stop", "Record"}
  BY OptionsType, OptionsAssumption
<1> HIDE DEF T, b, w
<1>12. CASE o.taskOpts # nil
  <2>1. OptsGiven(c)' = {c} \cup T
    BY <1>6, <1>12
  <2>2. HasInnermost(OptsGiven(c)') /\ innermost(OptsGiven(c)') = c
    BY <1>9, <1>10, <2>1, NewInnermost
  <2>3. handlerOf(c)' = Sanitize(o.taskOpts.errHandler)
    BY <1>4, <1>7, <2>1, <2>2
  <2> QED
    BY <1>8, <1>11, <1>12, <2>2, <2>3 DEF orElse, Sanitize
<1>13. CASE o.taskOpts = nil
  <2>1. OptsGiven(c)' = T
    BY <1>6, <1>13
  <2>2. T # {} => given'[innermost(T)] = given[innermost(T)]
    BY <1>3, <1>4, <1>9, <1>10, InnermostKept
  <2>3. handlerOf(c)' = IF b = nil THEN "Stop" ELSE b.errHandler
    BY <1>7, <1>9, <2>1, <2>2
  <2> QED
    BY <1>8, <1>9, <1>11, <1>13, <2>1, <2>3 DEF orElse, Sanitize
<1> QED
  BY <1>12, <1>13

LEMMA NewMiddleware ==
  ASSUME ContextsInv, NEW c \in States, NEW o \in ConfigOptions[c], newContext(c, o), NEW made,
         Applied(inherited(c, o).taskOpts, WithTaskOptions(o.taskOpts), c, made)
  PROVE  OutsideIn(Elems(made.heap, made.task.mw), middlewareOf(c)')
<1>1. /\ c \notin created /\ (HasParent(c) => Parent(c) \in created)
      /\ given' = [given EXCEPT ![c] = o]
  BY NewContextMakes
<1>2. heirloom(c)' = {c} \cup Handed(c, o)
  BY <1>1, NewHeirloom
<1>3. /\ Handed(c, o) \subseteq created /\ created \subseteq States
      /\ \A a \in Handed(c, o) : a \in States /\ a # c /\ Covers(a, c)
  BY <1>1, HandedType DEF ContextsInv, Types
<1>4. given'[c] = o /\ \A a \in created : given'[a] = given[a]
  BY <1>1 DEF ContextsInv, Types
<1> DEFINE M == {a \in Handed(c, o) : given[a].taskOpts # nil /\ given[a].taskOpts.mw}
           b == inherited(c, o).taskOpts
           w == WithTaskOptions(o.taskOpts)
           m == IF b = nil THEN <<>> ELSE Elems(heap, b.mw)
<1>5. middlewareOf(c)' = {a \in {c} \cup Handed(c, o) :
                             given'[a].taskOpts # nil /\ given'[a].taskOpts.mw}
  BY <1>2 DEF middlewareOf
<1>6. middlewareOf(c)' = IF w.mw THEN {c} \cup M ELSE M
  <2>1. w.mw <=> o.taskOpts # nil /\ o.taskOpts.mw
    BY OptionsType
  <2>2. \A a \in Handed(c, o) : given'[a] = given[a]
    BY <1>3, <1>4
  <2> HIDE DEF w
  <2> QED
    BY <1>4, <1>5, <2>1, <2>2
<1>7. Elems(made.heap, made.task.mw) = m \o brought(w, c)
  BY OptionsType DEF Applied
<1>8. m \in Seq(Name) /\ OutsideIn(m, M)
  <2>1. CASE Inherits(c, o)
    <3>1. M = middlewareOf(Parent(c)) /\ b = cfg[Parent(c)].taskOpts /\ Configured(Parent(c))
      BY <1>1, <2>1, InheritedIs DEF middlewareOf
    <3> HIDE DEF M
    <3>2. b # nil /\ Owned(heap, b, Parent(c)) /\ heap \in Heap
      BY <3>1, OptionsAssumption DEF Configured, Owned, ContextsInv, Types
    <3>3. Elems(heap, b.mw) \in Seq(Name)
      BY <3>2, OwnedType
    <3> QED
      BY <3>1, <3>2, <3>3 DEF Configured
  <2>2. CASE ~Inherits(c, o)
    <3>1. b = nil /\ M = {}
      BY <1>1, <2>2, InheritedIs DEF zero
    <3> QED
      BY <3>1, EmptySeq, OutsideInEmpty
  <2> QED
    BY <2>1, <2>2
<1>9. \A a \in M : a # c /\ Covers(a, c)
  BY <1>3
<1> HIDE DEF M, m, w
<1>10. CASE w.mw
  BY <1>6, <1>7, <1>8, <1>9, <1>10, OutsideInMore DEF brought
<1>11. CASE ~w.mw
  <2>1. m \o <<>> = m
    BY <1>8, ConcatEmptySeq
  <2> QED
    BY <1>6, <1>7, <1>8, <1>11, <2>1 DEF brought
<1> QED
  BY <1>10, <1>11

LEMMA NewGroup ==
  ASSUME ContextsInv, NEW c \in States, NEW o \in ConfigOptions[c], newContext(c, o), NEW x
  PROVE  /\ merge(c, o, x).noTaskInfo <=> (\E a \in heirloom(c) : given[a].noTaskInfo)'
         /\ merge(c, o, x).group = groupOf(c)'
         /\ merge(c, o, x).parentGroup \in States \cup {nil}
<1>1. /\ c \notin created /\ (HasParent(c) => Parent(c) \in created)
      /\ given' = [given EXCEPT ![c] = o]
  BY NewContextMakes
<1>2. heirloom(c)' = {c} \cup Handed(c, o)
  BY <1>1, NewHeirloom
<1>3. \A a \in Handed(c, o) : a \in created
  BY <1>1, HandedType
<1>4. given'[c] = o /\ \A a \in created : given'[a] = given[a]
  BY <1>1 DEF ContextsInv, Types
<1> DEFINE b == inherited(c, o)
<1>5. (\E a \in heirloom(c) : given[a].noTaskInfo)' <=>
        o.noTaskInfo \/ \E a \in Handed(c, o) : given[a].noTaskInfo
  BY <1>2, <1>3, <1>4
<1>6. /\ b.noTaskInfo <=> \E a \in Handed(c, o) : given[a].noTaskInfo
      /\ b.group \in States \cup {nil}
  <2>1. CASE Inherits(c, o)
    BY <1>1, <2>1, InheritedIs DEF Configured, Config
  <2>2. CASE ~Inherits(c, o)
    BY <1>1, <2>2, InheritedIs DEF zero
  <2> QED
    BY <2>1, <2>2
<1> HIDE DEF b
<1>7. /\ merge(c, o, x).noTaskInfo = (b.noTaskInfo \/ o.noTaskInfo)
      /\ merge(c, o, x).group = IF b.noTaskInfo \/ o.noTaskInfo THEN nil ELSE c
      /\ merge(c, o, x).parentGroup = IF b.noTaskInfo \/ o.noTaskInfo THEN nil ELSE b.group
  BY DEF merge, b
<1>8. groupOf(c)' = IF (\E a \in heirloom(c) : given[a].noTaskInfo)' THEN nil ELSE c
  BY DEF groupOf
<1> QED
  BY <1>5, <1>6, <1>7, <1>8

LEMMA NewContextInv ==
  ASSUME ContextsInv, NEW c \in States, NEW o \in ConfigOptions[c], newContext(c, o)
  PROVE  ContextsInv'
<1>1. /\ c \notin created /\ (HasParent(c) => Parent(c) \in created)
      /\ created' = created \cup {c} /\ given' = [given EXCEPT ![c] = o]
  BY NewContextMakes
<1>2. PICK made :
         /\ Applied(inherited(c, o).taskOpts, WithTaskOptions(o.taskOpts), c, made)
         /\ heap' = made.heap
         /\ cfg' = [cfg EXCEPT ![c] = merge(c, o, made.task)]
         /\ children' =
              IF merge(c, o, made.task).parentGroup = nil THEN children
                ELSE [children EXCEPT ![merge(c, o, made.task).parentGroup] = @ \cup {c}]
  BY NewContextMakes
<1>3. UNCHANGED <<run, asked, at, mode, done>>
  BY DEF newContext, tasks, life
<1>4. PICK new : new = merge(c, o, made.task)
  OBVIOUS
<1>5. /\ new.taskOpts = made.task /\ new.noTaskInfo \in BOOLEAN
      /\ new = [noTaskInfo |-> new.noTaskInfo, gracePeriod |-> new.gracePeriod,
                group |-> new.group, parentGroup |-> new.parentGroup, taskOpts |-> new.taskOpts]
  BY <1>4 DEF merge
<1>6. /\ new.gracePeriod \in Nat /\ new.gracePeriod = gracePeriodOf(c)'
      /\ HasInnermost(GraceGiven(c)')
  BY <1>4, NewGrace
<1>7. made.task.errHandler = handlerOf(c)' /\ HasInnermost(OptsGiven(c)')
  BY <1>2, NewHandler
<1>8. OutsideIn(Elems(made.heap, made.task.mw), middlewareOf(c)')
  BY <1>2, NewMiddleware
<1>9. /\ new.noTaskInfo <=> (\E a \in heirloom(c) : given[a].noTaskInfo)'
      /\ new.group = groupOf(c)' /\ new.parentGroup \in States \cup {nil}
  BY <1>4, NewGroup
<1>10. /\ heap' \in Heap /\ \A a \in Owners \ {c} : heap'[a] = heap[a]
       /\ Owned(heap', made.task, c)
  BY <1>2 DEF Applied
<1>11. cfg \in [States -> Config] /\ cfg'[c] = new /\ \A d \in States : d # c => cfg'[d] = cfg[d]
  BY <1>2, <1>4 DEF ContextsInv, Types
<1>12. given'[c] = o /\ \A a \in created : given'[a] = given[a]
  BY <1>1 DEF ContextsInv, Types
<1>13. Configured(c)'
  BY <1>2, <1>5, <1>6, <1>7, <1>8, <1>9, <1>10, <1>11 DEF Configured
<1>14. \A d \in created' : Configured(d)'
  <2> SUFFICES ASSUME NEW d \in created PROVE Configured(d)'
    BY <1>1, <1>13
  <2>1. d # c /\ d \in Owners \ {c}
    BY <1>1 DEF ContextsInv, Types, Owners
  <2> QED
    BY <1>10, <1>11, <1>12, <2>1, ConfiguredKept DEF ContextsInv, Types
<1>15. \A t \in Tasks : at'[t] # "idle" => SetUp(t)'
  <2> SUFFICES ASSUME NEW t \in Tasks, at[t] # "idle" PROVE SetUp(t)'
    BY <1>3
  <2>1. t \in Owners \ {c}
    BY OptionsAssumption DEF Owners
  <2> QED
    BY <1>1, <1>3, <1>10, <1>12, <2>1, SetUpKept
<1>16. Types'
  <2>1. new.group \in States \cup {nil}
    BY <1>9 DEF groupOf
  <2>2. new.taskOpts \in TaskConfig
    BY <1>5, <1>10 DEF Owned
  <2>3. new \in Config
    BY <1>5, <1>6, <1>9, <2>1, <2>2 DEF Config
  <2>4. cfg' \in [States -> Config] /\ cfg' = [cfg EXCEPT ![c] = new]
    BY <1>2, <1>4, <1>11, <2>3
  <2>5. children' \in [States -> SUBSET States]
    BY <1>2, <1>4, <1>9 DEF ContextsInv, Types
  <2>6. given' \in [States -> ConfigOption \cup {nil}]
    BY <1>1, OptionsType DEF ContextsInv, Types
  <2> QED
    BY <1>1, <1>3, <1>10, <2>4, <2>5, <2>6 DEF ContextsInv, Types
<1>17. Upward'
  <2>1. \A a \in States : Covers(a, c) => a \in created'
    BY <1>1, HandedType
  <2>2. o \in ConfigOption
    BY OptionsType
  <2> QED
    BY <1>1, <1>12, <2>1, <2>2 DEF ContextsInv, Upward
<1>18. Linked'
  <2>1. \A g \in States : children[g] \subseteq children'[g]
    BY <1>2, <1>4, <1>9 DEF ContextsInv, Types
  <2>2. new.parentGroup # nil => c \in children'[new.parentGroup]
    BY <1>2, <1>4, <1>9 DEF ContextsInv, Types
  <2>3. \A d \in created : d # c /\ cfg'[d] = cfg[d] /\ cfg[d].parentGroup \in States \cup {nil}
    BY <1>1, <1>11 DEF ContextsInv, Types, Config
  <2> QED
    BY <1>1, <1>3, <1>11, <2>1, <2>2, <2>3 DEF ContextsInv, Linked
<1> QED
  BY <1>14, <1>15, <1>16, <1>17, <1>18 DEF ContextsInv

-----------------------------------------------------------------------------
(* The other steps.                                                        *)

\* What no step but newContext changes, and how the lifecycle moves: a
\* context that is hard-stopped stays so.
LifeKept ==
  /\ mode' \in [States -> {"open", "ending", "soft", "hard"}]
  /\ \A c \in States : mode[c] = "hard" => mode'[c] = "hard"
  /\ \A c \in States \ created : mode'[c] = mode[c]

LEMMA SettingsKept ==
  ASSUME ContextsInv, UNCHANGED config, heap' \in Heap,
         \A a \in States : heap'[a] = heap[a]
  PROVE  Upward' /\ \A c \in created' : Configured(c)'
<1>1. UNCHANGED <<created, cfg, given>>
  BY DEF config
<1>2. Upward'
  BY <1>1 DEF ContextsInv, Upward
<1>3. \A c \in created : Configured(c)'
  BY <1>1, ConfiguredKept DEF ContextsInv, Types
<1> QED
  BY <1>1, <1>2, <1>3

\* Stops.
LEMMA LifeInv ==
  ASSUME ContextsInv, UNCHANGED <<config, run, asked, heap>>, LifeKept,
         at' \in [Tasks -> {"idle", "running", "failed"}],
         \A t \in Tasks : at'[t] # "idle" => at[t] # "idle",
         \/ UNCHANGED <<done, children>>
         \/ \E c \in created : mode[c] = "hard" /\ done' = [done EXCEPT ![c] = TRUE]
                               /\ children' = unlink(c)
  PROVE  ContextsInv'
<1>1. UNCHANGED <<created, cfg, given, run, asked, heap>>
  BY DEF config
<1>2. Upward' /\ \A c \in created' : Configured(c)'
  BY <1>1, SettingsKept DEF ContextsInv, Types
<1>3. \A t \in Tasks : at'[t] # "idle" => SetUp(t)'
  BY <1>1, SetUpKept
<1>4. CASE UNCHANGED <<done, children>>
  <2>1. Types'
    BY <1>1, <1>4 DEF LifeKept, ContextsInv, Types
  <2>2. Linked'
    BY <1>1, <1>4 DEF LifeKept, ContextsInv, Types, Linked
  <2> QED
    BY <1>2, <1>3, <2>1, <2>2 DEF ContextsInv
<1>5. ASSUME NEW c \in created, mode[c] = "hard", done' = [done EXCEPT ![c] = TRUE],
             children' = unlink(c)
      PROVE  ContextsInv'
  <2>1. /\ children \in [States -> SUBSET States] /\ done \in [States -> BOOLEAN]
        /\ c \in States /\ cfg[c].parentGroup \in States \cup {nil}
        /\ \A d \in States : cfg[d].parentGroup \in States \cup {nil}
    BY DEF ContextsInv, Types, Config
  <2>2. children' \in [States -> SUBSET States] /\ done' \in [States -> BOOLEAN]
    BY <1>5, <2>1 DEF unlink
  <2>3. \A d, g \in States : d # c /\ d \in children[g] => d \in children'[g]
    BY <1>5, <2>1 DEF unlink
  <2>4. done'[c] /\ \A d \in States : d # c => done'[d] = done[d]
    BY <1>5, <2>1
  <2>5. Types'
    BY <1>1, <2>2 DEF LifeKept, ContextsInv, Types
  <2>6. Linked'
    BY <1>1, <1>5, <2>1, <2>3, <2>4 DEF LifeKept, ContextsInv, Types, Linked
  <2> QED
    BY <1>2, <1>3, <2>5, <2>6 DEF ContextsInv
<1> QED
  BY <1>4, <1>5

LEMMA StopNowKept ==
  ASSUME ContextsInv, NEW c \in created, NEW g, stopNow(c, g)
  PROVE  LifeKept
BY DEF stopNow, LifeKept, ContextsInv, Types

LEMMA GoInv ==
  ASSUME ContextsInv, NEW t \in Tasks, NEW o \in TaskOptions, Go(t, o)
  PROVE  ContextsInv'
<1> DEFINE h == Home[t]
           b == cfg[h].taskOpts
<1>1. /\ at[t] = "idle" /\ h \in created /\ at' = [at EXCEPT ![t] = "running"]
      /\ asked' = [asked EXCEPT ![t] = o] /\ UNCHANGED <<config, children, life>>
      /\ heap' = applyTaskOpts(b, o, t).heap
      /\ run' = [run EXCEPT ![t] = applyTaskOpts(b, o, t).task]
  BY DEF Go
<1>2. UNCHANGED <<created, cfg, given, children, mode, done>>
  BY <1>1 DEF config, life
<1>3. Configured(h) /\ h \in States /\ Upward /\ created \subseteq States
  BY <1>1 DEF ContextsInv, Types
<1>4. b \in TaskConfig /\ b # nil /\ Owned(heap, b, h) /\ Fits(heap, b.mw)
  BY <1>3, OptionsAssumption DEF Configured, Owned
<1>5. o \in TaskOption /\ o.errHandler \in {nil, "Stop", "Record"}
  BY OptionsAssumption DEF TaskOption
<1>6. PICK made : made = applyTaskOpts(b, o, t)
  OBVIOUS
<1>7. Applied(b, o, t, made)
  <2>1. heap \in Heap /\ t \in Owners
    BY DEF ContextsInv, Types, Owners
  <2> QED
    BY <1>4, <1>5, <1>6, <2>1, ApplyTaskOpts
<1>8. /\ heap' = made.heap /\ made.heap \in Heap
      /\ \A a \in Owners \ {t} : heap'[a] = heap[a]
      /\ Owned(heap', made.task, t)
      /\ Elems(heap', made.task.mw) =
           (IF o.noInherit THEN <<>> ELSE Elems(heap, b.mw)) \o brought(o, t)
      /\ made.task.errHandler =
           Sanitize(IF o.noInherit THEN o.errHandler ELSE orElse(o.errHandler, b.errHandler))
  BY <1>1, <1>4, <1>6, <1>7 DEF Applied
<1>9. /\ asked'[t] = o /\ run'[t] = made.task
      /\ \A u \in Tasks : u # t => /\ asked'[u] = asked[u] /\ run'[u] = run[u]
                                   /\ at'[u] = at[u]
  BY <1>1, <1>6 DEF ContextsInv, Types
<1>10. Types'
  <2>1. made.task \in TaskConfig
    BY <1>8 DEF Owned
  <2> QED
    BY <1>1, <1>2, <1>5, <1>6, <1>8, <2>1 DEF ContextsInv, Types
<1>11. \A a \in States : heap'[a] = heap[a]
  BY <1>8, OptionsAssumption DEF Owners
<1>12. Upward' /\ \A c \in created' : Configured(c)'
  BY <1>1, <1>8, <1>11, SettingsKept
<1>13. Linked'
  BY <1>2 DEF ContextsInv, Linked
<1>14. ASSUME NEW u \in Tasks, u # t, at[u] # "idle" PROVE SetUp(u)'
  BY <1>2, <1>8, <1>9, <1>14, SetUpKept DEF Owners
<1>15. SetUp(t)'
  <2>1. /\ middlewareOf(h)' = middlewareOf(h) /\ handlerOf(h)' = handlerOf(h)
    BY <1>1, <1>2, <1>3, MeaningKept
  <2>2. run'[t].errHandler =
          IF o.errHandler # nil THEN o.errHandler
            ELSE IF o.noInherit THEN "Stop" ELSE handlerOf(h)'
    <3>1. b.errHandler = handlerOf(h) /\ b.errHandler # nil /\ nil # "Stop"
      BY <1>3, <1>4, OptionsAssumption DEF Configured, TaskConfig
    <3> QED
      BY <1>8, <1>9, <2>1, <3>1 DEF Sanitize, orElse
  <2> DEFINE m == IF o.noInherit THEN <<>> ELSE Elems(heap, b.mw)
             r == brought(o, t)
  <2>3. /\ m \in Seq(Name) /\ r \in Seq(Name)
        /\ OutsideIn(m, IF o.noInherit THEN {} ELSE middlewareOf(h))
    <3>1. Elems(heap, b.mw) \in Seq(Name) /\ r \in Seq(Name)
      BY <1>4, OwnedType, BroughtType DEF ContextsInv, Types, Owners
    <3> QED
      BY <1>3, <3>1, EmptySeq, OutsideInEmpty DEF Configured
  <2> HIDE DEF m, r
  <2>4. /\ Len(m) \in 0 .. Len(m \o r)
        /\ SubSeq(m \o r, 1, Len(m)) = m
        /\ SubSeq(m \o r, Len(m) + 1, Len(m \o r)) = r
    BY <2>3, ConcatParts
  <2>5. Elems(heap', run'[t].mw) = m \o r
    BY <1>8, <1>9 DEF m, r
  <2>6. \E n \in 0 .. Len(Elems(heap', run'[t].mw)) :
          /\ OutsideIn(SubSeq(Elems(heap', run'[t].mw), 1, n),
                       IF o.noInherit THEN {} ELSE middlewareOf(h)')
          /\ SubSeq(Elems(heap', run'[t].mw), n + 1, Len(Elems(heap', run'[t].mw)))
               = brought(o, t)
    BY <2>1, <2>3, <2>4, <2>5 DEF r
  <2> QED
    BY <1>1, <1>2, <1>8, <1>9, <2>2, <2>6 DEF SetUp
<1> QED
  BY <1>1, <1>10, <1>12, <1>13, <1>14, <1>15 DEF ContextsInv

LEMMA EndInv ==
  ASSUME ContextsInv, NEW t \in Tasks, End(t)
  PROVE  ContextsInv'
<1>1. /\ at' = [at EXCEPT ![t] = "idle"] /\ heap' = [heap EXCEPT ![t] = <<>>]
      /\ run' = [run EXCEPT ![t] = nil] /\ asked' = [asked EXCEPT ![t] = nil]
      /\ UNCHANGED <<created, cfg, given, children, done>>
  BY DEF End, config
<1>2. /\ mode' \in [States -> {"open", "ending", "soft", "hard"}]
      /\ \A c \in States : /\ mode[c] = "hard" => mode'[c] = "hard"
                           /\ mode'[c] = mode[c] \/ mode[c] \in {"ending", "soft"}
  BY DEF End, ContextsInv, Types
<1>3. heap' \in Heap /\ \A a \in Owners \ {t} : heap'[a] = heap[a]
  BY <1>1, EmptySeq DEF ContextsInv, Types, Heap
<1>4. Types'
  BY <1>1, <1>2, <1>3 DEF ContextsInv, Types
<1>5. \A a \in States : heap'[a] = heap[a]
  BY <1>3, OptionsAssumption DEF Owners
<1>6. Upward' /\ \A c \in created' : Configured(c)'
  BY <1>1, <1>3, <1>5, SettingsKept DEF config
<1>7. Linked'
  BY <1>1, <1>2 DEF ContextsInv, Types, Linked
<1>8. ASSUME NEW u \in Tasks, at'[u] # "idle" PROVE SetUp(u)'
  <2>1. u # t /\ at[u] # "idle" /\ run'[u] = run[u] /\ asked'[u] = asked[u]
    BY <1>1, <1>8 DEF ContextsInv, Types
  <2> QED
    BY <1>1, <1>3, <2>1, SetUpKept DEF Owners
<1> QED
  BY <1>4, <1>6, <1>7, <1>8 DEF ContextsInv

LEMMA StepContexts ==
  ASSUME ContextsInv, [Next]_vars
  PROVE  ContextsInv'
<1>1. ASSUME NEW c \in States, NEW o \in ConfigOptions[c], newContext(c, o) PROVE ContextsInv'
  BY <1>1, NewContextInv
<1>2. ASSUME NEW c \in States, NEW g, Stop(c, g) PROVE ContextsInv'
  BY <1>2, StopNowKept, LifeInv DEF Stop, stopNow, tasks, ContextsInv, Types
<1>3. ASSUME NEW c \in States, StopOnIdle(c) PROVE ContextsInv'
  <2>1. LifeKept
    BY <1>3 DEF StopOnIdle, LifeKept, ContextsInv, Types
  <2> QED
    BY <1>3, <2>1, LifeInv DEF StopOnIdle, tasks, ContextsInv, Types
<1>4. ASSUME NEW c \in States, StopHook(c) PROVE ContextsInv'
  BY <1>4, StopNowKept, LifeInv DEF StopHook, stopNow, tasks, ContextsInv, Types
<1>5. ASSUME NEW c \in States, Expire(c) PROVE ContextsInv'
  <2>1. LifeKept
    BY <1>5 DEF Expire, LifeKept, ContextsInv, Types, Linked
  <2> QED
    BY <1>5, <2>1, LifeInv DEF Expire, tasks, ContextsInv, Types
<1>6. ASSUME NEW c \in States, cleanup(c) PROVE ContextsInv'
  <2>1. c \in created /\ mode[c] = "hard"
    BY <1>6 DEF cleanup, cleanupDue, ContextsInv, Linked
  <2>2. LifeKept
    BY <1>6 DEF cleanup, LifeKept, ContextsInv, Types
  <2> QED
    BY <1>6, <2>1, <2>2, LifeInv DEF cleanup, tasks, ContextsInv, Types
<1>7. ASSUME NEW t \in Tasks, NEW o \in TaskOptions, Go(t, o) PROVE ContextsInv'
  BY <1>7, GoInv
<1>8. ASSUME NEW t \in Tasks, handleError(t) PROVE ContextsInv'
  <2>1. /\ Home[t] \in created /\ at' = [at EXCEPT ![t] = "failed"] /\ at[t] # "idle"
        /\ UNCHANGED <<config, run, asked, heap, children>>
    BY <1>8 DEF handleError, ContextsInv, SetUp
  <2>2. LifeKept /\ done' = done
    <3>1. CASE stopNow(Home[t], cfg[Home[t]].gracePeriod)
      BY <2>1, <3>1, StopNowKept DEF stopNow
    <3>2. CASE UNCHANGED life
      BY <3>2 DEF life, LifeKept, ContextsInv, Types
    <3> QED
      BY <1>8, <3>1, <3>2 DEF handleError
  <2> QED
    BY <2>1, <2>2, LifeInv DEF ContextsInv, Types
<1>9. ASSUME NEW t \in Tasks, End(t) PROVE ContextsInv'
  BY <1>9, EndInv
<1>10. CASE UNCHANGED vars
  BY <1>10, LifeInv DEF vars, tasks, life, LifeKept, ContextsInv, Types
<1> QED
  BY <1>1, <1>2, <1>3, <1>4, <1>5, <1>6, <1>7, <1>8, <1>9, <1>10 DEF Next

LEMMA InitContexts == Init => ContextsInv
<1> SUFFICES ASSUME Init PROVE ContextsInv
  OBVIOUS
<1> USE DEF Init
<1>1. Types
  BY EmptySeq, OptionsAssumption DEF Types, Heap, Owners, Config, zero
<1>2. Upward /\ Linked
  BY DEF Upward, Linked
<1> QED
  BY <1>1, <1>2 DEF ContextsInv

THEOREM ContextsInvariance == Spec => []ContextsInv
BY InitContexts, StepContexts, PTL DEF Spec

-----------------------------------------------------------------------------
(* What follows for the properties.                                        *)

(* A context's grace period, TaskGroup, error handler and middleware are   *)
(* those its own options and its ancestors' mean, however deep it is       *)
(* nested, and no other context or task ever overwrites them               *)
(* (options.go:83-124).                                                    *)
THEOREM SettingsAreOwn == Spec => []ContextSettings
<1>1. ContextsInv => ContextSettings
  BY DEF ContextsInv, Configured, ContextSettings
<1> QED
  BY <1>1, ContextsInvariance, PTL

(* Every task runs through the middleware of its context and then its own, *)
(* and reports to the handler that was asked for: tasks set up side by     *)
(* side share no array that either writes (options.go:224).                *)
THEOREM TasksAreSetUp == Spec => []TaskSettings
<1>1. ContextsInv => TaskSettings
  BY DEF ContextsInv, SetUp, TaskSettings
<1> QED
  BY <1>1, ContextsInvariance, PTL

(* A context is in the tree of TaskGroups for as long as anybody waits for *)
(* a task below it, unless its own grace period ran out (task_info.go:42). *)
THEOREM TreeIsLinked == Spec => []TreeShowsTasks
<1>1. ContextsInv => TreeShowsTasks
  BY DEF ContextsInv, Linked, Types, TreeShowsTasks
<1> QED
  BY <1>1, ContextsInvariance, PTL

-----------------------------------------------------------------------------
(* Who may cut tasks short.                                                *)

\* What GraceIsOwn says of one context.
CutShort(c) == ~stopping(c) /\ mode'[c] = "hard" /\ live(c)' # {}

OwnGrace(c) == gracePeriodOf(c) = 0 \/ 0 \in StopOptions[c]

\* A stop with a period of its own, or a zero one.
LEMMA StopNowGrace ==
  ASSUME ContextsInv, NEW d \in created, NEW g, stopNow(d, g),
         \A t \in Tasks : at'[t] # "idle" <=> at[t] # "idle",
         g = 0 => OwnGrace(d), NEW c \in States, CutShort(c)
  PROVE  OwnGrace(c)
<1>1. live(c)' = live(c)
  BY DEF live
<1>2. mode'[c] # mode[c]
  BY DEF CutShort, stopping
<1>3. c = d
  BY <1>2 DEF stopNow, ContextsInv, Types
<1>4. mode'[d] = "hard" => live(d) = {} \/ g = 0 \/ mode[d] = "hard"
  BY DEF stopNow, ContextsInv, Types
<1> QED
  BY <1>1, <1>3, <1>4 DEF CutShort, stopping

LEMMA StepGrace ==
  ASSUME ContextsInv, Next, NEW c \in States, CutShort(c)
  PROVE  OwnGrace(c)
<1>1. mode'[c] # mode[c]
  BY DEF CutShort, stopping
<1>2. \A d \in created : cfg[d].gracePeriod = gracePeriodOf(d)
  BY DEF ContextsInv, Configured
<1>3. ASSUME NEW d \in States, NEW g \in {nil} \cup StopOptions[d], Stop(d, g) PROVE OwnGrace(c)
  <2>1. d \in created /\ stopNow(d, orElse(g, cfg[d].gracePeriod)) /\ at' = at
    BY <1>3 DEF Stop, tasks
  <2>2. orElse(g, cfg[d].gracePeriod) = 0 => OwnGrace(d)
    BY <1>2, <1>3, <2>1 DEF orElse, OwnGrace
  <2> QED
    BY <2>1, <2>2, StopNowGrace
<1>4. ASSUME NEW d \in States, StopOnIdle(d) PROVE OwnGrace(c)
  <2>1. live(c)' = live(c)
    BY <1>4 DEF StopOnIdle, tasks, live
  <2>2. mode'[c] = "hard" => mode[c] = "hard" \/ live(c) = {}
    BY <1>4 DEF StopOnIdle, ContextsInv, Types
  <2> QED
    BY <2>1, <2>2 DEF CutShort, stopping
<1>5. ASSUME NEW d \in States, StopHook(d) PROVE OwnGrace(c)
  <2>1. d \in created /\ stopNow(d, cfg[d].gracePeriod) /\ at' = at
    BY <1>5 DEF StopHook, hookGrace, tasks
  <2>2. cfg[d].gracePeriod = 0 => OwnGrace(d)
    BY <1>2, <2>1 DEF OwnGrace
  <2> QED
    BY <2>1, <2>2, StopNowGrace
<1>6. ASSUME NEW d \in States, Expire(d) PROVE OwnGrace(c)
  BY <1>1, <1>6 DEF Expire, ContextsInv, Types, CutShort, stopping
<1>7. ASSUME NEW t \in Tasks, handleError(t) PROVE OwnGrace(c)
  <2>1. Home[t] \in created /\ at' = [at EXCEPT ![t] = "failed"] /\ at[t] # "idle"
    BY <1>7 DEF handleError, ContextsInv, SetUp
  <2>2. stopNow(Home[t], cfg[Home[t]].gracePeriod)
    BY <1>1, <1>7 DEF handleError, life
  <2>3. cfg[Home[t]].gracePeriod = 0 => OwnGrace(Home[t])
    BY <1>2, <2>1 DEF OwnGrace
  <2>4. \A u \in Tasks : at'[u] # "idle" <=> at[u] # "idle"
    BY <2>1 DEF ContextsInv, Types
  <2> QED
    BY <2>1, <2>2, <2>3, <2>4, StopNowGrace
<1>8. ASSUME NEW t \in Tasks, End(t) PROVE OwnGrace(c)
  <2>1. live(c) = {t} /\ at'[t] = "idle" /\ \A u \in Tasks : u # t => at'[u] = at[u]
    BY <1>1, <1>8 DEF End, ContextsInv, Types
  <2>2. live(c)' = {}
    BY <2>1 DEF live
  <2> QED
    BY <2>2 DEF CutShort
<1>9. mode' # mode
  BY <1>1
<1> QED
  BY <1>3, <1>4, <1>5, <1>6, <1>7, <1>8, <1>9 DEF Next, newContext, cleanup, Go, life

(* A context that is stopped with its parent, or by a failing task, waits  *)
(* for its tasks as long as its own configuration says, whatever its       *)
(* parent was stopped with (stopper.go:293, stopper.go:357).               *)
THEOREM GraceStaysOwn == Spec => GraceIsOwn
<1>1. ContextsInv /\ [Next]_vars =>
        [\A c \in States :
           ~stopping(c) /\ mode'[c] = "hard" /\ live(c)' # {} =>
             gracePeriodOf(c) = 0 \/ 0 \in StopOptions[c]]_vars
  BY StepGrace DEF CutShort, OwnGrace
<1> QED
  BY <1>1, ContextsInvariance, PTL DEF Spec, GraceIsOwn
=============================================================================
