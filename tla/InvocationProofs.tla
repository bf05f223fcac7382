------------------------- MODULE InvocationProofs -------------------------
(* Theorems about Invocation, for every chain of middleware, set of tasks,  *)
(* limit and number of attempts.                                            *)
EXTENDS Invocation, TLAPS, FiniteSetTheorems

-----------------------------------------------------------------------------
(* What a step of task t leaves to be shown.                               *)

LEMMA ChainType == /\ Len(Chain) \in Nat
                   /\ \A k \in 1 .. Len(Chain) :
                        Chain[k] \in {"record", "limit", "rate", "retry", "custom"}
BY InvocationAssumption

\* Nothing that is known of task u changes; stops and cancelations stay.
Same(u) ==
  /\ stage'[u] = stage[u] /\ at'[u] = at[u] /\ inv'[u] = inv[u]
  /\ tries'[u] = tries[u] /\ runs'[u] = runs[u] /\ res'[u] = res[u]
  /\ outcome'[u] = outcome[u] /\ closed'[u] = closed[u]
  /\ u \in live' <=> u \in live
  /\ u \in infos' <=> u \in infos
  /\ u \in recorded' <=> u \in recorded
  /\ stopping => stopping'
  /\ canceled => canceled'

\* A slot is taken, given back, or neither.
Balanced(t) ==
  \/ (Holds(t)' <=> Holds(t)) /\ slots' = slots
  \/ ~Holds(t) /\ Holds(t)' /\ slots' = slots + 1
  \/ Holds(t) /\ ~Holds(t)' /\ slots' = slots - 1

LEMMA SameKept ==
  ASSUME IInv, NEW u \in Tasks, Same(u)
  PROVE  TaskInv(u)' /\ (Holds(u)' <=> Holds(u))
<1>1. TaskInv(u)
  BY DEF IInv
<1>2. Positioned(u)' /\ Built(u)'
  BY <1>1 DEF TaskInv, Same, Positioned, Built
<1>3. Counted(u)' /\ Attempted(u)'
  BY <1>1 DEF TaskInv, Same, Counted, Attempted
<1>4. RecorderIsSafe => Entered(u)'
  BY <1>1 DEF TaskInv, Same, Entered
<1>5. RateIsSafe => Excused(u)'
  BY <1>1 DEF TaskInv, Same, Excused
<1>6. Holds(u)' <=> Holds(u)
  BY DEF Same, Holds, HoldsAt
<1> QED
  BY <1>2, <1>3, <1>4, <1>5, <1>6 DEF TaskInv, RecorderIsSafe, RateIsSafe

\* The tasks that have a slot, before and after a step of t.
LEMMA SlotsCounted ==
  ASSUME IInv, NEW t \in Tasks, Balanced(t), SlotsMatch,
         \A u \in Tasks \ {t} : Holds(u)' <=> Holds(u)
  PROVE  SlotsMatch'
<1> DEFINE H == {u \in Tasks : Holds(u)}
           G == {u \in Tasks : Holds(u)'}
<1>1. IsFiniteSet(H) /\ IsFiniteSet(G)
  BY FS_Subset, InvocationAssumption
<1>2. Cardinality(H) = slots /\ slots \in Nat
  BY DEF SlotsMatch, IInv, TypeOK
<1>3. CASE (Holds(t)' <=> Holds(t)) /\ slots' = slots
  <2>1. G = H
    BY <1>3
  <2> QED
    BY <1>2, <1>3, <2>1 DEF SlotsMatch
<1>4. CASE ~Holds(t) /\ Holds(t)' /\ slots' = slots + 1
  <2>1. G = H \cup {t} /\ t \notin H
    BY <1>4
  <2>2. Cardinality(G) = Cardinality(H) + 1
    BY <1>1, <2>1, FS_AddElement
  <2> QED
    BY <1>2, <1>4, <2>2 DEF SlotsMatch
<1>5. CASE Holds(t) /\ ~Holds(t)' /\ slots' = slots - 1
  <2>1. G = H \ {t} /\ t \in H
    BY <1>5
  <2>2. Cardinality(G) = Cardinality(H) - 1
    BY <1>1, <2>1, FS_RemoveElement
  <2> QED
    BY <1>2, <1>5, <2>2 DEF SlotsMatch
<1> QED
  BY <1>3, <1>4, <1>5 DEF Balanced

LEMMA StepKeeps ==
  ASSUME IInv, TypeOK', NEW t \in Tasks, \A u \in Tasks \ {t} : Same(u),
         TaskInv(t)', LimitIsSafe => Balanced(t)
  PROVE  IInv'
<1>1. ASSUME NEW u \in Tasks PROVE TaskInv(u)'
  <2>1. CASE u = t
    BY <2>1
  <2>2. CASE u # t
    BY <2>2, SameKept
  <2> QED
    BY <2>1, <2>2
<1>2. ASSUME LimitIsSafe PROVE SlotsMatch'
  <2>1. \A u \in Tasks \ {t} : Holds(u)' <=> Holds(u)
    BY SameKept
  <2>2. SlotsMatch /\ Balanced(t)
    BY <1>2 DEF IInv
  <2> QED
    BY <2>1, <2>2, SlotsCounted
<1> QED
  BY <1>1, <1>2 DEF IInv, LimitIsSafe

-----------------------------------------------------------------------------

-----------------------------------------------------------------------------
(* Setup.                                                                  *)

\* The middleware of this position returns Invoker i.
LEMMA ReturnKeeps ==
  ASSUME IInv, NEW t \in Tasks, stage[t] \in InSetup, at[t] \in 1 .. Len(Chain),
         NEW i \in Kinds(Chain[at[t]]), return(t, i),
         UNCHANGED <<ctx, infos, tries, runs, res, outcome, closed>>,
         slots' = IF i = "slot" THEN slots + 1 ELSE slots, slots' <= Limit,
         recorded' = IF i = "record" THEN recorded \cup {t} ELSE recorded,
         i = "drop" => stopping,
         i = "err" /\ Chain[at[t]] = "limit" => canceled
  PROVE  IInv'
<1> USE ChainType, InvocationAssumption DEF return, goto, ctx, stopping, InSetup, After
<1>1. TypeOK /\ TaskInv(t)
  BY DEF IInv
<1>2. i \in {"record", "retry", "slot", "call", "drop", "err"}
  BY DEF Kinds
<1>3. /\ stage'[t] = "setup" /\ at'[t] = at[t] + 1 /\ inv'[t][at[t]] = i
      /\ \A k \in 1 .. Len(Chain) : k # at[t] => inv'[t][k] = inv[t][k]
  BY <1>1, <1>2 DEF TypeOK
<1>4. TypeOK'
  <2>1. stage' \in [Tasks -> Stages] /\ at' \in [Tasks -> 0 .. Len(Chain) + 1]
    BY <1>1 DEF TypeOK, Stages
  <2>2. inv' \in [Tasks -> [1 .. Len(Chain) ->
                     {"none", "record", "retry", "slot", "call", "drop", "err"}]]
    BY <1>1, <1>2 DEF TypeOK
  <2>3. slots' \in 0 .. Limit /\ recorded' \subseteq Tasks
    BY <1>1 DEF TypeOK
  <2> QED
    BY <1>1, <2>1, <2>2, <2>3 DEF TypeOK
<1>5. \A u \in Tasks \ {t} : Same(u)
  BY <1>1 DEF TypeOK, Same
<1>6. at[t] \in Nat /\ inv[t][at[t]] = "none"
  BY <1>1 DEF TypeOK, TaskInv, Built
<1>7. Positioned(t)'
  BY <1>1, <1>3, <1>6 DEF Positioned
<1>8. Built(t)'
  <2>1. ASSUME NEW k \in 1 .. Len(Chain)
        PROVE  /\ inv'[t][k] \in Kinds(Chain[k]) \cup {"none"}
               /\ k >= at[t] + 1 => inv'[t][k] = "none"
    <3>1. CASE k = at[t]
      BY <1>3, <1>6, <3>1
    <3>2. CASE k # at[t]
      BY <1>1, <1>3, <1>6, <3>2 DEF TaskInv, Built
    <3> QED
      BY <3>1, <3>2
  <2> QED
    BY <1>3, <2>1 DEF Built
<1>9. Counted(t)' /\ Attempted(t)'
  BY <1>1, <1>3 DEF TaskInv, Counted, Attempted, InChain
<1>10. ASSUME LimitIsSafe PROVE Balanced(t)
  <2> PICK p \in 1 .. Len(Chain) : p = at[t]
    OBVIOUS
  <2>1. \A k \in 1 .. Len(Chain) : k # p => (HoldsAt(t, k)' <=> HoldsAt(t, k))
    BY <1>3 DEF HoldsAt
  <2>2. ~HoldsAt(t, p) /\ (HoldsAt(t, p)' <=> i = "slot")
    BY <1>3, <1>6 DEF HoldsAt
  <2>3. CASE i # "slot"
    <3>1. Holds(t)' <=> Holds(t)
      BY <2>1, <2>2, <2>3 DEF Holds
    <3> QED
      BY <2>3, <3>1 DEF Balanced
  <2>4. CASE i = "slot"
    <3>1. Chain[at[t]] = "limit"
      BY <2>4 DEF Kinds
    <3>2. ASSUME NEW k \in 1 .. Len(Chain), HoldsAt(t, k) PROVE FALSE
      <4>1. inv[t][k] = "slot" /\ Chain[k] = "limit"
        BY <1>1, <3>2 DEF HoldsAt, TaskInv, Built, Kinds
      <4>2. k # at[t]
        BY <1>6, <4>1
      <4>3. k < at[t] /\ at[t] < k
        BY <1>10, <3>1, <4>1, <4>2 DEF LimitIsSafe
      <4> QED
        BY <1>6, <4>3
    <3>3. ~Holds(t) /\ Holds(t)'
      BY <2>2, <2>4, <3>2 DEF Holds
    <3> QED
      BY <2>4, <3>3 DEF Balanced
  <2> QED
    BY <2>3, <2>4
<1>11. RecorderIsSafe => Entered(t)'
  <2>1. CASE i = "record"
    BY <1>3, <2>1 DEF Entered
  <2>2. CASE i # "record"
    BY <1>1, <1>3, <1>6, <2>2 DEF TaskInv, Entered
  <2> QED
    BY <2>1, <2>2
<1>12. RateIsSafe => Excused(t)'
  BY <1>1, <1>3, <1>6 DEF TaskInv, Excused
<1>13. TaskInv(t)'
  BY <1>7, <1>8, <1>9, <1>11, <1>12 DEF TaskInv, RecorderIsSafe, RateIsSafe
<1> QED
  BY <1>4, <1>5, <1>10, <1>13, StepKeeps

\* The slow path: the task waits for a slot or a token.
LEMMA WaitKeeps ==
  ASSUME IInv, NEW t \in Tasks, stage[t] = "setup", at[t] \in 1 .. Len(Chain),
         NEW s \in {"blocked", "throttled"}, goto(t, s, at[t]),
         s = "blocked" => Chain[at[t]] = "limit",
         s = "throttled" => Chain[at[t]] = "rate",
         UNCHANGED <<ctx, shared, inv, tries, runs, res, outcome, closed>>
  PROVE  IInv'
<1> USE ChainType DEF goto, ctx, shared, stopping, InSetup, After
<1>1. TypeOK /\ TaskInv(t)
  BY DEF IInv
<1>2. TypeOK' /\ stage'[t] = s /\ at'[t] = at[t]
  BY <1>1 DEF TypeOK, Stages
<1>3. \A u \in Tasks \ {t} : Same(u)
  BY <1>1 DEF TypeOK, Same
<1>4. Positioned(t)' /\ Counted(t)' /\ Attempted(t)'
  BY <1>1, <1>2 DEF TaskInv, Positioned, Counted, Attempted, InChain
<1>5. Built(t)'
  BY <1>1, <1>2 DEF TaskInv, Built
<1>6. Balanced(t)
  BY <1>2 DEF Balanced, Holds, HoldsAt
<1>7. RecorderIsSafe => Entered(t)'
  BY <1>1, <1>2 DEF TaskInv, Entered
<1>8. RateIsSafe => Excused(t)'
  BY <1>1, <1>2 DEF TaskInv, Excused
<1>9. TaskInv(t)'
  BY <1>4, <1>5, <1>7, <1>8 DEF TaskInv, RecorderIsSafe, RateIsSafe
<1> QED
  BY <1>2, <1>3, <1>6, <1>9, StepKeeps

\* What a setup phase returns without waiting, or that it has to wait.
LEMMA SetupKeeps ==
  ASSUME IInv, NEW t \in Tasks, Setup(t)
  PROVE  IInv'
<1> DEFINE m == Chain[at[t]]
<1>1. /\ at[t] \in 1 .. Len(Chain) /\ slots \in Nat /\ slots <= Limit
      /\ stage[t] \in InSetup /\ Limit \in Nat
  BY ChainType, InvocationAssumption DEF IInv, TypeOK, TaskInv, Positioned, Setup, InSetup
<1>2. UNCHANGED <<ctx, infos, tries, runs, res, outcome, closed>>
  BY DEF Setup
<1>3. CASE m \in {"record", "retry", "rate", "custom"} /\ (\E i \in Kinds(m) :
             return(t, i) /\ i \notin {"slot", "drop", "err"} /\ UNCHANGED slots
             /\ recorded' = IF i = "record" THEN recorded \cup {t} ELSE recorded)
  BY <1>1, <1>2, <1>3, ReturnKeeps
<1>4. CASE m = "limit" /\ hasSlot /\ slots' = slots + 1 /\ return(t, "slot")
           /\ UNCHANGED recorded
  BY <1>1, <1>2, <1>4, ReturnKeeps DEF Kinds, hasSlot
<1>5. CASE /\ \/ m = "rate" /\ goto(t, "throttled", at[t])
              \/ m = "limit" /\ goto(t, "blocked", at[t])
           /\ UNCHANGED <<inv, slots, recorded>>
  BY <1>1, <1>2, <1>5, WaitKeeps DEF Setup, shared
<1> QED
  BY <1>3, <1>4, <1>5 DEF Setup, Middleware, Kinds

\* What the second select returns depends on the case that it takes.
LEMMA BlockedKeeps ==
  ASSUME IInv, NEW t \in Tasks, Blocked(t)
  PROVE  IInv'
<1>1. /\ at[t] \in 1 .. Len(Chain) /\ slots \in Nat /\ slots <= Limit
      /\ stage[t] \in InSetup /\ Limit \in Nat /\ Chain[at[t]] = "limit"
  BY InvocationAssumption DEF IInv, TypeOK, TaskInv, Positioned, Blocked, InSetup
<1>2. UNCHANGED <<ctx, recorded, infos, tries, runs, res, outcome, closed>>
  BY DEF Blocked
<1>3. CASE hasSlot /\ slots' = slots + 1 /\ return(t, "slot")
  BY <1>1, <1>2, <1>3, ReturnKeeps DEF Kinds, hasSlot
<1>4. CASE drops /\ return(t, "drop") /\ UNCHANGED slots
  BY <1>1, <1>2, <1>4, ReturnKeeps DEF Kinds, drops
<1>5. CASE canceled /\ return(t, "err") /\ UNCHANGED slots
  BY <1>1, <1>2, <1>5, ReturnKeeps DEF Kinds
<1> QED
  BY <1>3, <1>4, <1>5 DEF Blocked

\* A token comes, none can, or the stop does.
LEMMA ThrottledKeeps ==
  ASSUME IInv, NEW t \in Tasks, Token(t) \/ GiveUp(t)
  PROVE  IInv'
<1>1. /\ at[t] \in 1 .. Len(Chain) /\ slots \in Nat /\ slots <= Limit
      /\ stage[t] \in InSetup /\ Chain[at[t]] = "rate"
  BY DEF IInv, TypeOK, TaskInv, Positioned, Token, GiveUp, InSetup
<1>2. UNCHANGED <<ctx, shared, tries, runs, res, outcome, closed>>
  BY DEF Token, GiveUp
<1>3. \E i \in {"call", "drop", "err"} : return(t, i) /\ (i = "drop" => stopping)
  BY DEF Token, GiveUp
<1> QED
  BY <1>1, <1>2, <1>3, ReturnKeeps DEF Kinds, shared

\* A panic leaves the slot and the entries as they are.
LEMMA SetupPanicsKeeps ==
  ASSUME IInv, NEW t \in Tasks, SetupPanics(t)
  PROVE  IInv'
<1> USE ChainType, InvocationAssumption
    DEF SetupPanics, Middleware, goto, shared, stopping, ctx, task, InSetup, InChain,
         After
<1>1. TypeOK /\ TaskInv(t)
  BY DEF IInv
<1>2. TypeOK'
  BY <1>1 DEF TypeOK, TaskInv, Stages, Positioned, Attempted
<1>3. \A u \in Tasks \ {t} : Same(u)
  BY <1>1 DEF TypeOK, Same
<1>4. Positioned(t)'
  BY <1>1 DEF TypeOK, TaskInv, Positioned
<1>5. Built(t)'
  BY <1>1 DEF TypeOK, TaskInv, Positioned, Built, Kinds
<1>6. Counted(t)'
  BY <1>1 DEF TypeOK, TaskInv, Counted
<1>7. Attempted(t)'
  BY <1>1 DEF TypeOK, TaskInv, Attempted
<1>8. LimitIsSafe => Balanced(t)
  <2>1. ASSUME LimitIsSafe, NEW k \in 1 .. Len(Chain)
        PROVE  HoldsAt(t, k)' <=> HoldsAt(t, k)
    BY <1>1, <2>1 DEF TypeOK, TaskInv, Positioned, Built, Kinds, LimitIsSafe, HoldsAt
  <2> QED
    BY <2>1 DEF Balanced, Holds
<1>9. RecorderIsSafe => Entered(t)'
  BY <1>1 DEF TypeOK, TaskInv, Positioned, Built, Kinds, RecorderIsSafe, Entered
<1>10. RateIsSafe => Excused(t)'
  BY <1>1 DEF TypeOK, TaskInv, Positioned, Built, Kinds, RateIsSafe, Excused
<1>11. TaskInv(t)'
  BY <1>4, <1>5, <1>6, <1>7, <1>9, <1>10 DEF TaskInv, RecorderIsSafe, RateIsSafe
<1> QED
  BY <1>2, <1>3, <1>8, <1>11, StepKeeps

\* The steps from setup to the task, and the task itself.
LEMMA InvokeKeeps ==
  ASSUME IInv, NEW t \in Tasks, Invoke(t)
  PROVE  IInv'
<1> USE ChainType, InvocationAssumption
    DEF Invoke, goto, shared, ctx, task, stopping, InSetup, InChain, After
<1>1. TypeOK /\ TaskInv(t)
  BY DEF IInv
<1>2. TypeOK'
  BY <1>1 DEF TypeOK, TaskInv, Stages, Positioned, Attempted
<1>3. \A u \in Tasks \ {t} : Same(u)
  BY <1>1 DEF TypeOK, Same
<1>4. Positioned(t)'
  BY <1>1 DEF TypeOK, TaskInv, Positioned
<1>5. Built(t)'
  BY <1>1 DEF TypeOK, TaskInv, Positioned, Built, Kinds
<1>6. Counted(t)'
  BY <1>1 DEF TypeOK, TaskInv, Counted
<1>7. Attempted(t)'
  BY <1>1 DEF TypeOK, TaskInv, Attempted
<1>8. LimitIsSafe => Balanced(t)
  <2>1. ASSUME LimitIsSafe, NEW k \in 1 .. Len(Chain)
        PROVE  HoldsAt(t, k)' <=> HoldsAt(t, k)
    BY <1>1, <2>1 DEF TypeOK, TaskInv, Positioned, Built, Kinds, LimitIsSafe, HoldsAt
  <2> QED
    BY <2>1 DEF Balanced, Holds
<1>9. RecorderIsSafe => Entered(t)'
  BY <1>1 DEF TypeOK, TaskInv, Positioned, Built, Kinds, RecorderIsSafe, Entered
<1>10. RateIsSafe => Excused(t)'
  BY <1>1 DEF TypeOK, TaskInv, Positioned, Built, Kinds, RateIsSafe, Excused
<1>11. TaskInv(t)'
  BY <1>4, <1>5, <1>6, <1>7, <1>9, <1>10 DEF TaskInv, RecorderIsSafe, RateIsSafe
<1> QED
  BY <1>2, <1>3, <1>8, <1>11, StepKeeps

-----------------------------------------------------------------------------
(* The chain.                                                              *)

\* A call reaches the next position.
LEMMA OnKeeps ==
  ASSUME IInv, NEW t \in Tasks, stage[t] \in {"call", "wait"}, at[t] \in 1 .. Len(Chain),
         inv[t][at[t]] \notin {"none", "drop", "err"}, goto(t, "call", at[t] + 1),
         UNCHANGED <<ctx, shared, inv, tries, runs, res, outcome, closed>>
  PROVE  IInv'
<1> USE ChainType DEF goto, ctx, shared, stopping, InSetup, InChain, After
<1>1. TypeOK /\ TaskInv(t)
  BY DEF IInv
<1>2. TypeOK' /\ stage'[t] = "call" /\ at'[t] = at[t] + 1
  BY <1>1 DEF TypeOK, Stages
<1>3. \A u \in Tasks \ {t} : Same(u)
  BY <1>1 DEF TypeOK, Same
<1>4. Positioned(t)' /\ Counted(t)' /\ Attempted(t)'
  BY <1>1, <1>2 DEF TaskInv, Positioned, Counted, Attempted
<1>5. Built(t)'
  <2>1. ASSUME NEW k \in 1 .. Len(Chain), k < at[t] + 1
        PROVE  inv[t][k] \notin {"none", "drop", "err"}
    <3>1. k = at[t] \/ k < at[t]
      BY <2>1
    <3> QED
      BY <1>1, <3>1 DEF TaskInv, Built
  <2> QED
    BY <1>1, <1>2, <2>1 DEF TaskInv, Built
<1>6. Balanced(t)
  BY <1>2 DEF Balanced, Holds, HoldsAt
<1>7. RecorderIsSafe => Entered(t)'
  BY <1>1, <1>2 DEF TaskInv, Entered
<1>8. RateIsSafe => Excused(t)'
  BY <1>1, <1>2 DEF TaskInv, Excused
<1>9. TaskInv(t)'
  BY <1>4, <1>5, <1>7, <1>8 DEF TaskInv, RecorderIsSafe, RateIsSafe
<1> QED
  BY <1>2, <1>3, <1>6, <1>9, StepKeeps

\* A call returns from a position, with result r.
LEMMA BackKeeps ==
  ASSUME IInv, NEW t \in Tasks, stage[t] \in InChain, at[t] # 0,
         goto(t, "return", at[t] - 1),
         NEW r \in {"ok", "error", "panic"}, res' = [res EXCEPT ![t] = r],
         slots' \in 0 .. Limit, recorded' \in {recorded, recorded \ {t}},
         UNCHANGED <<ctx, infos, inv, tries, runs, outcome, closed>>,
         LimitIsSafe => Balanced(t),
         RecorderIsSafe /\ t \in recorded' =>
           \E k \in 1 .. Len(Chain) : inv[t][k] = "record" /\ k < at[t],
         RateIsSafe /\ runs[t] = 0 =>
           \/ stopping \/ canceled
           \/ r = "error" /\ \E k \in 1 .. Len(Chain) : k >= at[t] /\ Chain[k] = "rate"
  PROVE  IInv'
<1> USE ChainType DEF goto, ctx, stopping, InSetup, InChain, After
<1>1. TypeOK /\ TaskInv(t)
  BY DEF IInv
<1>2. /\ at[t] \in 1 .. Len(Chain) + 1
      /\ stage'[t] = "return" /\ at'[t] = at[t] - 1 /\ res'[t] = r
  BY <1>1 DEF TypeOK
<1>3. TypeOK'
  <2>1. stage' \in [Tasks -> Stages] /\ at' \in [Tasks -> 0 .. Len(Chain) + 1]
    BY <1>1, <1>2 DEF TypeOK, Stages
  <2>2. recorded' \subseteq Tasks /\ res' \in [Tasks -> {"ok", "error", "panic"}]
    BY <1>1 DEF TypeOK
  <2> QED
    BY <1>1, <2>1, <2>2 DEF TypeOK
<1>4. \A u \in Tasks \ {t} : Same(u)
  BY <1>1 DEF TypeOK, Same
<1>5. Positioned(t)' /\ Counted(t)' /\ Attempted(t)'
  BY <1>1, <1>2 DEF TaskInv, TypeOK, Positioned, Counted, Attempted
<1>6. Built(t)'
  BY <1>1, <1>2 DEF TaskInv, Built
<1>7. RecorderIsSafe => Entered(t)'
  BY <1>2 DEF Entered
<1>8. RateIsSafe => Excused(t)'
  BY <1>1, <1>2 DEF TaskInv, Excused
<1>9. TaskInv(t)'
  BY <1>5, <1>6, <1>7, <1>8 DEF TaskInv, RecorderIsSafe, RateIsSafe
<1> QED
  BY <1>3, <1>4, <1>9, StepKeeps

\* A slot that is declared further out is held on.
LEMMA BackBalanced ==
  ASSUME IInv, NEW t \in Tasks, stage[t] \in InChain, at[t] # 0,
         goto(t, "return", at[t] - 1), UNCHANGED <<slots, inv>>,
         \A k \in 1 .. Len(Chain) :
           inv[t][k] = "slot" => k # at[t] /\ (stage[t] # "return" => k < at[t])
  PROVE  Balanced(t)
<1>1. stage'[t] = "return" /\ at'[t] = at[t] - 1 /\ at[t] \in Nat
  BY DEF IInv, TypeOK, goto
<1>2. \A k \in 1 .. Len(Chain) : HoldsAt(t, k)' <=> HoldsAt(t, k)
  BY <1>1, ChainType DEF HoldsAt, InChain, After
<1> QED
  BY <1>2 DEF Balanced, Holds

\* An Invoker calls on, or returns at once what discards the task.
LEMMA CallKeeps ==
  ASSUME IInv, NEW t \in Tasks, Call(t)
  PROVE  IInv'
<1> USE ChainType
<1>1. TypeOK /\ TaskInv(t)
  BY DEF IInv
<1>2. /\ at[t] \in 1 .. Len(Chain) /\ stage[t] = "call"
      /\ UNCHANGED <<ctx, shared, inv, tries, runs, outcome, closed>>
  BY <1>1 DEF TypeOK, TaskInv, Positioned, Call
<1>3. CASE inv[t][at[t]] \in {"record", "slot", "retry", "call"} /\ goto(t, "call", at[t] + 1)
           /\ UNCHANGED res
  BY <1>2, <1>3, OnKeeps
<1>4. CASE /\ inv[t][at[t]] \in {"drop", "err"} /\ goto(t, "return", at[t] - 1)
           /\ \E r \in {"ok", "error"} : res' = [res EXCEPT ![t] = r]
                                         /\ (r = "ok" => inv[t][at[t]] = "drop")
  <2>1. Chain[at[t]] \in {"limit", "rate"}
    BY <1>1, <1>2, <1>4 DEF TaskInv, Built, Kinds
  <2>2. \A k \in 1 .. Len(Chain) : /\ inv[t][k] = "slot" => Chain[k] = "limit"
                                   /\ inv[t][k] = "record" => Chain[k] = "record"
    BY <1>1 DEF TaskInv, Built, Kinds
  <2>3. LimitIsSafe => Balanced(t)
    BY <1>2, <1>4, <2>1, <2>2, BackBalanced DEF LimitIsSafe, InChain, shared
  <2>4. RecorderIsSafe /\ t \in recorded' =>
          \E k \in 1 .. Len(Chain) : inv[t][k] = "record" /\ k < at[t]
    BY <1>1, <1>2, <2>1, <2>2 DEF TaskInv, Entered, RecorderIsSafe, shared
  <2>5. RateIsSafe =>
          /\ inv[t][at[t]] = "drop" => stopping
          /\ inv[t][at[t]] = "err" => canceled \/ Chain[at[t]] = "rate"
    BY <1>1, <1>2, <2>1 DEF TaskInv, Excused
  <2> PICK r \in {"ok", "error"} : res' = [res EXCEPT ![t] = r]
                                   /\ (r = "ok" => inv[t][at[t]] = "drop")
    BY <1>4
  <2>6. RateIsSafe /\ runs[t] = 0 =>
           \/ stopping \/ canceled
           \/ r = "error" /\ \E k \in 1 .. Len(Chain) : k >= at[t] /\ Chain[k] = "rate"
    BY <1>2, <1>4, <2>5
  <2>7. /\ slots' \in 0 .. Limit /\ recorded' = recorded /\ stage[t] \in InChain /\ at[t] # 0
        /\ UNCHANGED <<ctx, infos, inv, tries, runs, outcome, closed>>
        /\ goto(t, "return", at[t] - 1)
    BY <1>1, <1>2, <1>4 DEF TypeOK, shared, InChain
  <2>8. r \in {"ok", "error", "panic"} /\ recorded' \in {recorded, recorded \ {t}}
    BY <2>7
  <2> QED
    BY <2>3, <2>4, <2>6, <2>7, <2>8, BackKeeps
<1> QED
  BY <1>3, <1>4 DEF Call

LEMMA RunKeeps ==
  ASSUME IInv, NEW t \in Tasks, Run(t)
  PROVE  IInv'
<1> USE ChainType, InvocationAssumption
    DEF Run, goto, shared, ctx, task, stopping, InSetup, InChain, After
<1>1. TypeOK /\ TaskInv(t)
  BY DEF IInv
<1>2. TypeOK'
  BY <1>1 DEF TypeOK, TaskInv, Stages, Positioned, Attempted
<1>3. \A u \in Tasks \ {t} : Same(u)
  BY <1>1 DEF TypeOK, Same
<1>4. Positioned(t)'
  BY <1>1 DEF TypeOK, TaskInv, Positioned
<1>5. Built(t)'
  BY <1>1 DEF TypeOK, TaskInv, Positioned, Built, Kinds
<1>6. Counted(t)'
  BY <1>1 DEF TypeOK, TaskInv, Counted
<1>7. Attempted(t)'
  BY <1>1 DEF TypeOK, TaskInv, Attempted
<1>8. LimitIsSafe => Balanced(t)
  <2>1. ASSUME LimitIsSafe, NEW k \in 1 .. Len(Chain)
        PROVE  HoldsAt(t, k)' <=> HoldsAt(t, k)
    BY <1>1, <2>1 DEF TypeOK, TaskInv, Positioned, Built, Kinds, LimitIsSafe, HoldsAt
  <2> QED
    BY <2>1 DEF Balanced, Holds
<1>9. RecorderIsSafe => Entered(t)'
  BY <1>1 DEF TypeOK, TaskInv, Positioned, Built, Kinds, RecorderIsSafe, Entered
<1>10. RateIsSafe => Excused(t)'
  BY <1>1 DEF TypeOK, TaskInv, Positioned, Built, Kinds, RateIsSafe, Excused
<1>11. TaskInv(t)'
  BY <1>4, <1>5, <1>6, <1>7, <1>9, <1>10 DEF TaskInv, RecorderIsSafe, RateIsSafe
<1> QED
  BY <1>2, <1>3, <1>8, <1>11, StepKeeps

\* What the task returned.
LEMMA RunEndsKeeps ==
  ASSUME IInv, NEW t \in Tasks, RunEnds(t)
  PROVE  IInv'
<1> USE ChainType
<1>1. TypeOK /\ TaskInv(t)
  BY DEF IInv
<1>2. /\ stage[t] = "run" /\ at[t] = Len(Chain) + 1 /\ goto(t, "return", at[t] - 1)
      /\ UNCHANGED <<ctx, slots, recorded, infos, inv, tries, runs, outcome, closed>>
  BY <1>1 DEF TaskInv, Positioned, RunEnds, shared
<1>3. stage[t] \in InChain /\ at[t] # 0 /\ slots' \in 0 .. Limit
      /\ recorded' \in {recorded, recorded \ {t}}
  BY <1>1, <1>2 DEF InChain, TypeOK
<1>4. PICK r \in {"ok", "error", "panic"} : res' = [res EXCEPT ![t] = r]
  BY DEF RunEnds
<1>5. Balanced(t)
  BY <1>2, <1>3, BackBalanced
<1>6. RecorderIsSafe /\ t \in recorded' =>
        \E k \in 1 .. Len(Chain) : inv[t][k] = "record" /\ k < at[t]
  BY <1>1, <1>2 DEF TaskInv, Entered
<1>7. runs[t] # 0
  BY <1>1, <1>2 DEF TaskInv, Attempted
<1> QED
  BY <1>2, <1>3, <1>4, <1>5, <1>6, <1>7, BackKeeps

\* An Invoker hands on the result of the task, or another one after the task has
\* run or could not be discarded.
LEMMA PassesOn ==
  ASSUME IInv, NEW t \in Tasks, stage[t] = "return", at[t] > 0,
         goto(t, "return", at[t] - 1),
         UNCHANGED <<ctx, infos, inv, tries, runs, outcome, closed>>,
         \/ res' = [res EXCEPT ![t] = "ok"] /\ Chain[at[t]] = "retry"
         \/ res' = res,
         slots' \in 0 .. Limit, LimitIsSafe => Balanced(t),
         \/ recorded' = recorded /\ inv[t][at[t]] # "record"
         \/ recorded' = recorded \ {t}
  PROVE  IInv'
<1> USE ChainType
<1>1. TypeOK /\ TaskInv(t)
  BY DEF IInv
<1>2. at[t] \in 1 .. Len(Chain) /\ stage[t] \in InChain /\ at[t] # 0
  BY <1>1 DEF TypeOK, TaskInv, Positioned, InChain
<1>3. recorded' \in {recorded, recorded \ {t}}
  OBVIOUS
<1>4. RecorderIsSafe /\ t \in recorded' =>
        \E k \in 1 .. Len(Chain) : inv[t][k] = "record" /\ k < at[t]
  <2>1. CASE recorded' = recorded /\ inv[t][at[t]] # "record"
    <3> SUFFICES ASSUME RecorderIsSafe, t \in recorded
                 PROVE  \E k \in 1 .. Len(Chain) : inv[t][k] = "record" /\ k < at[t]
      BY <2>1
    <3>1. PICK k \in 1 .. Len(Chain) : inv[t][k] = "record" /\ k <= at[t]
      BY <1>1 DEF TaskInv, Entered
    <3>2. k < at[t]
      BY <1>2, <2>1, <3>1
    <3> QED
      BY <3>1, <3>2
  <2>2. CASE recorded' = recorded \ {t}
    BY <2>2
  <2> QED
    BY <2>1, <2>2
<1>5. RateIsSafe /\ runs[t] = 0 =>
        \/ stopping \/ canceled
        \/ res[t] = "error" /\ \E k \in 1 .. Len(Chain) : k > at[t] /\ Chain[k] = "rate"
  BY <1>1 DEF TaskInv, Excused
<1>6. CASE res' = res
  <2>1. res' = [res EXCEPT ![t] = res[t]] /\ res[t] \in {"ok", "error", "panic"}
    BY <1>1, <1>6 DEF TypeOK
  <2>2. RateIsSafe /\ runs[t] = 0 =>
          \/ stopping \/ canceled
          \/ res[t] = "error" /\ \E k \in 1 .. Len(Chain) : k >= at[t] /\ Chain[k] = "rate"
    BY <1>2, <1>5
  <2> QED
    BY <1>2, <1>3, <1>4, <2>1, <2>2, BackKeeps
<1>7. CASE res' = [res EXCEPT ![t] = "ok"] /\ Chain[at[t]] = "retry"
  <2>1. RateIsSafe /\ runs[t] = 0 => stopping \/ canceled
    BY <1>2, <1>5, <1>7 DEF RateIsSafe
  <2> QED
    BY <1>2, <1>3, <1>4, <1>7, <2>1, BackKeeps
<1> QED
  BY <1>6, <1>7

\* Invokers that hold no slot.
LEMMA UnrecordKeeps ==
  ASSUME IInv, NEW t \in Tasks, Unrecord(t) \/ Pass(t)
  PROVE  IInv'
<1>1. TypeOK /\ TaskInv(t)
  BY DEF IInv
<1>2. /\ stage[t] = "return" /\ at[t] > 0 /\ inv[t][at[t]] \in {"record", "call"}
      /\ goto(t, "return", at[t] - 1) /\ slots' = slots
      /\ UNCHANGED <<ctx, infos, inv, tries, runs, res, outcome, closed>>
      /\ \/ recorded' = recorded /\ inv[t][at[t]] # "record"
         \/ recorded' = recorded \ {t}
  BY DEF Unrecord, Pass, returning, shared
<1>3. slots' \in 0 .. Limit /\ stage[t] \in InChain /\ at[t] # 0
  BY <1>1, <1>2 DEF TypeOK, InChain
<1>4. Balanced(t)
  BY <1>2, <1>3, BackBalanced
<1> QED
  BY <1>2, <1>3, <1>4, PassesOn

\* The retry loop returns, or waits for another attempt.
LEMMA ClassifyKeeps ==
  ASSUME IInv, NEW t \in Tasks, Classify(t)
  PROVE  IInv'
<1> USE ChainType
<1>1. TypeOK /\ TaskInv(t)
  BY DEF IInv
<1>2. /\ stage[t] = "return" /\ at[t] > 0 /\ inv[t][at[t]] = "retry"
      /\ UNCHANGED <<ctx, shared, inv, runs, outcome, closed>>
  BY DEF Classify, returning
<1>3. Chain[at[t]] = "retry" /\ at[t] \in 1 .. Len(Chain)
  <2>1. at[t] \in 1 .. Len(Chain)
    BY <1>1, <1>2 DEF TypeOK, TaskInv, Positioned
  <2> QED
    BY <1>1, <1>2, <2>1 DEF TaskInv, Built, Kinds
<1>4. CASE goto(t, "return", at[t] - 1) /\ UNCHANGED tries
           /\ (res' = res \/ res' = [res EXCEPT ![t] = "ok"])
  <2>1. UNCHANGED <<ctx, infos, inv, tries, runs, outcome, closed>>
        /\ slots' = slots /\ recorded' = recorded
    BY <1>2, <1>4 DEF shared
  <2>2. slots' \in 0 .. Limit /\ stage[t] \in InChain /\ at[t] # 0
    BY <1>1, <1>2, <2>1 DEF TypeOK, InChain
  <2>3. Balanced(t)
    BY <1>2, <1>4, <2>1, <2>2, BackBalanced
  <2> QED
    BY <1>2, <1>3, <1>4, <2>1, <2>2, <2>3, PassesOn
<1>5. CASE /\ res[t] = "error" /\ tries[t] + 1 < MaxAttempts
           /\ tries' = [tries EXCEPT ![t] = @ + 1]
           /\ goto(t, "wait", at[t]) /\ UNCHANGED res
  <2> USE InvocationAssumption DEF goto, ctx, shared, stopping, InSetup, InChain, After
  <2>1. /\ stage'[t] = "wait" /\ at'[t] = at[t] /\ tries'[t] = tries[t] + 1
        /\ tries[t] \in Nat /\ runs[t] \in Nat
    BY <1>1, <1>5 DEF TypeOK
  <2>2. TypeOK'
    <3>1. tries' \in [Tasks -> 0 .. MaxAttempts - 1]
      BY <1>1, <1>5 DEF TypeOK
    <3>2. stage' \in [Tasks -> Stages] /\ at' \in [Tasks -> 0 .. Len(Chain) + 1]
      BY <1>1, <1>5 DEF TypeOK, Stages
    <3> QED
      BY <1>1, <1>2, <1>5, <3>1, <3>2 DEF TypeOK
  <2>3. \A u \in Tasks \ {t} : Same(u)
    BY <1>1, <1>2, <1>5 DEF TypeOK, Same
  <2>4. Positioned(t)' /\ Counted(t)' /\ Attempted(t)'
    BY <1>1, <1>2, <1>3, <2>1 DEF TaskInv, Positioned, Counted, Attempted
  <2>5. Built(t)'
    BY <1>1, <1>2, <2>1 DEF TaskInv, Built
  <2>6. LimitIsSafe => Balanced(t)
    <3>1. ASSUME LimitIsSafe, NEW k \in 1 .. Len(Chain)
          PROVE  HoldsAt(t, k)' <=> HoldsAt(t, k)
      <4>1. inv[t][k] = "slot" => Chain[k] = "limit"
        BY <1>1 DEF TaskInv, Built, Kinds
      <4>2. inv[t][k] = "slot" => k < at[t]
        BY <1>3, <3>1, <4>1 DEF LimitIsSafe
      <4> QED
        BY <1>2, <1>3, <2>1, <4>2 DEF HoldsAt
    <3> QED
      BY <1>2, <3>1 DEF Balanced, Holds
  <2>7. RecorderIsSafe => Entered(t)'
    BY <1>1, <1>2, <2>1 DEF TaskInv, Entered
  <2>8. RateIsSafe => Excused(t)'
    BY <1>1, <1>2, <1>5, <2>1 DEF TaskInv, Excused
  <2>9. TaskInv(t)'
    BY <2>4, <2>5, <2>7, <2>8 DEF TaskInv, RecorderIsSafe, RateIsSafe
  <2> QED
    BY <2>2, <2>3, <2>6, <2>9, StepKeeps
<1> QED
  BY <1>4, <1>5 DEF Classify

\* ... which is made, or not.
LEMMA WaitEnds ==
  ASSUME IInv, NEW t \in Tasks, WaitSignal(t) \/ WaitStopped(t)
  PROVE  IInv'
<1> USE ChainType
<1>1. TypeOK /\ TaskInv(t)
  BY DEF IInv
<1>2. /\ stage[t] = "wait" /\ UNCHANGED <<ctx, shared, inv, tries, runs, res, outcome, closed>>
      /\ at[t] \in 1 .. Len(Chain) /\ inv[t][at[t]] = "retry"
  BY <1>1 DEF TaskInv, Positioned, WaitSignal, WaitStopped
<1>3. CASE goto(t, "call", at[t] + 1)
  BY <1>2, <1>3, OnKeeps
<1>4. CASE goto(t, "return", at[t] - 1) /\ retryCutShort
  <2>1. /\ UNCHANGED <<ctx, infos, inv, tries, runs, outcome, closed>>
        /\ slots' = slots /\ slots' \in 0 .. Limit
        /\ recorded' = recorded /\ recorded' \in {recorded, recorded \ {t}}
        /\ stage[t] \in InChain /\ at[t] # 0
        /\ res' = [res EXCEPT ![t] = res[t]] /\ res[t] \in {"ok", "error", "panic"}
    BY <1>1, <1>2 DEF TypeOK, InChain, shared
  <2>2. Chain[at[t]] = "retry"
    BY <1>1, <1>2 DEF TaskInv, Built, Kinds
  <2>3. \A k \in 1 .. Len(Chain) : inv[t][k] = "slot" => Chain[k] = "limit"
    BY <1>1 DEF TaskInv, Built, Kinds
  <2>4. LimitIsSafe => Balanced(t)
    BY <1>2, <1>4, <2>1, <2>2, <2>3, BackBalanced DEF LimitIsSafe
  <2>5. RecorderIsSafe /\ t \in recorded' =>
          \E k \in 1 .. Len(Chain) : inv[t][k] = "record" /\ k < at[t]
    BY <1>1, <1>2, <2>1 DEF TaskInv, Entered
  <2>6. stopping \/ canceled
    BY <1>4 DEF retryCutShort
  <2> QED
    BY <1>4, <2>1, <2>4, <2>5, <2>6, BackKeeps
<1> QED
  BY <1>3, <1>4 DEF WaitSignal, WaitStopped

\* The only step that gives a slot back.
LEMMA ReturnSlotKeeps ==
  ASSUME IInv, NEW t \in Tasks, ReturnSlot(t)
  PROVE  IInv'
<1> USE ChainType
<1>1. TypeOK /\ TaskInv(t)
  BY DEF IInv
<1>2. /\ stage[t] = "return" /\ at[t] > 0 /\ inv[t][at[t]] = "slot" /\ slots > 0
      /\ goto(t, "return", at[t] - 1) /\ slots' = slots - 1
      /\ UNCHANGED <<ctx, recorded, infos, inv, tries, runs, res, outcome, closed>>
  BY DEF ReturnSlot, returning, returnsSlot
<1>3. at[t] \in 1 .. Len(Chain) /\ slots' \in 0 .. Limit
  BY <1>1, <1>2, InvocationAssumption DEF TypeOK, TaskInv, Positioned
<1>4. stage'[t] = "return" /\ at'[t] = at[t] - 1
  BY <1>1, <1>2 DEF TypeOK, goto
<1>5. ASSUME LimitIsSafe PROVE Balanced(t)
  <2>1. \A k \in 1 .. Len(Chain) : inv[t][k] = "slot" => Chain[k] = "limit"
    BY <1>1 DEF TaskInv, Built, Kinds
  <2>2. \A k \in 1 .. Len(Chain) : inv[t][k] = "slot" => k = at[t]
    BY <1>2, <1>3, <1>5, <2>1 DEF LimitIsSafe
  <2>3. Holds(t)
    BY <1>2, <1>3 DEF Holds, HoldsAt, After
  <2>4. ~Holds(t)'
    BY <1>2, <1>3, <1>4, <2>2 DEF Holds, HoldsAt
  <2> QED
    BY <1>2, <2>3, <2>4 DEF Balanced
<1> QED
  BY <1>2, <1>3, <1>5, PassesOn

-----------------------------------------------------------------------------
(* The end, the start and the Context.                                     *)

\* Past the chain nothing is left to give back.
LEMMA OutcomeKeeps ==
  ASSUME IInv, NEW t \in Tasks, Outcome(t)
  PROVE  IInv'
<1> USE ChainType, InvocationAssumption
    DEF Outcome, next, shared, goto, ctx, task, stopping, InSetup, InChain, After
<1>1. TypeOK /\ TaskInv(t)
  BY DEF IInv
<1>2. TypeOK'
  BY <1>1 DEF TypeOK, TaskInv, Stages, Positioned, Attempted
<1>3. \A u \in Tasks \ {t} : Same(u)
  BY <1>1 DEF TypeOK, Same
<1>4. Positioned(t)'
  BY <1>1 DEF TypeOK, TaskInv, Positioned
<1>5. Built(t)'
  BY <1>1 DEF TypeOK, TaskInv, Positioned, Built, Kinds
<1>6. Counted(t)'
  BY <1>1 DEF TypeOK, TaskInv, Counted
<1>7. Attempted(t)'
  BY <1>1 DEF TypeOK, TaskInv, Attempted
<1>8. LimitIsSafe => Balanced(t)
  <2>1. ASSUME LimitIsSafe, NEW k \in 1 .. Len(Chain)
        PROVE  HoldsAt(t, k)' <=> HoldsAt(t, k)
    BY <1>1, <2>1 DEF TypeOK, TaskInv, Positioned, Built, Kinds, LimitIsSafe, HoldsAt
  <2> QED
    BY <2>1 DEF Balanced, Holds
<1>9. RecorderIsSafe => Entered(t)'
  BY <1>1 DEF TypeOK, TaskInv, Positioned, Built, Kinds, RecorderIsSafe, Entered
<1>10. RateIsSafe => Excused(t)'
  BY <1>1 DEF TypeOK, TaskInv, Positioned, Built, Kinds, RateIsSafe, Excused
<1>11. TaskInv(t)'
  BY <1>4, <1>5, <1>6, <1>7, <1>9, <1>10 DEF TaskInv, RecorderIsSafe, RateIsSafe
<1> QED
  BY <1>2, <1>3, <1>8, <1>11, StepKeeps

LEMMA HandleKeeps ==
  ASSUME IInv, NEW t \in Tasks, Handle(t)
  PROVE  IInv'
<1> USE ChainType, InvocationAssumption
    DEF Handle, next, Stop, shared, goto, stopping, ctx, task, InSetup, InChain, After
<1>1. TypeOK /\ TaskInv(t)
  BY DEF IInv
<1>2. TypeOK'
  <2>1. stage' \in [Tasks -> Stages] /\ at' \in [Tasks -> 0 .. Len(Chain) + 1]
    BY <1>1 DEF TypeOK, Stages, TaskInv, Positioned
  <2>2. mode' \in {"open", "soft", "hard"} /\ canceled' \in BOOLEAN
    BY <1>1 DEF TypeOK
  <2> QED
    BY <1>1, <2>1, <2>2 DEF TypeOK
<1>3. \A u \in Tasks \ {t} : Same(u)
  BY <1>1 DEF TypeOK, Same
<1>4. Positioned(t)'
  BY <1>1 DEF TypeOK, TaskInv, Positioned
<1>5. Built(t)'
  BY <1>1 DEF TypeOK, TaskInv, Positioned, Built, Kinds
<1>6. Counted(t)'
  BY <1>1 DEF TypeOK, TaskInv, Counted
<1>7. Attempted(t)'
  BY <1>1 DEF TypeOK, TaskInv, Attempted
<1>8. LimitIsSafe => Balanced(t)
  <2>1. ASSUME LimitIsSafe, NEW k \in 1 .. Len(Chain)
        PROVE  HoldsAt(t, k)' <=> HoldsAt(t, k)
    BY <1>1, <2>1 DEF TypeOK, TaskInv, Positioned, Built, Kinds, LimitIsSafe, HoldsAt
  <2> QED
    BY <2>1 DEF Balanced, Holds
<1>9. RecorderIsSafe => Entered(t)'
  BY <1>1 DEF TypeOK, TaskInv, Positioned, Built, Kinds, RecorderIsSafe, Entered
<1>10. RateIsSafe => Excused(t)'
  BY <1>1 DEF TypeOK, TaskInv, Positioned, Built, Kinds, RateIsSafe, Excused
<1>11. TaskInv(t)'
  BY <1>4, <1>5, <1>6, <1>7, <1>9, <1>10 DEF TaskInv, RecorderIsSafe, RateIsSafe
<1> QED
  BY <1>2, <1>3, <1>8, <1>11, StepKeeps

LEMMA CloseDoneKeeps ==
  ASSUME IInv, NEW t \in Tasks, CloseDone(t)
  PROVE  IInv'
<1> USE ChainType, InvocationAssumption
    DEF CloseDone, next, shared, goto, ctx, task, stopping, InSetup, InChain, After
<1>1. TypeOK /\ TaskInv(t)
  BY DEF IInv
<1>2. TypeOK'
  BY <1>1 DEF TypeOK, TaskInv, Stages, Positioned, Attempted
<1>3. \A u \in Tasks \ {t} : Same(u)
  BY <1>1 DEF TypeOK, Same
<1>4. Positioned(t)'
  BY <1>1 DEF TypeOK, TaskInv, Positioned
<1>5. Built(t)'
  BY <1>1 DEF TypeOK, TaskInv, Positioned, Built, Kinds
<1>6. Counted(t)'
  BY <1>1 DEF TypeOK, TaskInv, Counted
<1>7. Attempted(t)'
  BY <1>1 DEF TypeOK, TaskInv, Attempted
<1>8. LimitIsSafe => Balanced(t)
  <2>1. ASSUME LimitIsSafe, NEW k \in 1 .. Len(Chain)
        PROVE  HoldsAt(t, k)' <=> HoldsAt(t, k)
    BY <1>1, <2>1 DEF TypeOK, TaskInv, Positioned, Built, Kinds, LimitIsSafe, HoldsAt
  <2> QED
    BY <2>1 DEF Balanced, Holds
<1>9. RecorderIsSafe => Entered(t)'
  BY <1>1 DEF TypeOK, TaskInv, Positioned, Built, Kinds, RecorderIsSafe, Entered
<1>10. RateIsSafe => Excused(t)'
  BY <1>1 DEF TypeOK, TaskInv, Positioned, Built, Kinds, RateIsSafe, Excused
<1>11. TaskInv(t)'
  BY <1>4, <1>5, <1>6, <1>7, <1>9, <1>10 DEF TaskInv, RecorderIsSafe, RateIsSafe
<1> QED
  BY <1>2, <1>3, <1>8, <1>11, StepKeeps

LEMMA DeleteInfoKeeps ==
  ASSUME IInv, NEW t \in Tasks, DeleteInfo(t)
  PROVE  IInv'
<1> USE ChainType, InvocationAssumption
    DEF DeleteInfo, next, dropsInfo, goto, ctx, shared, task, stopping, InSetup,
         InChain, After
<1>1. TypeOK /\ TaskInv(t)
  BY DEF IInv
<1>2. TypeOK'
  BY <1>1 DEF TypeOK, TaskInv, Stages, Positioned, Attempted
<1>3. \A u \in Tasks \ {t} : Same(u)
  BY <1>1 DEF TypeOK, Same
<1>4. Positioned(t)'
  BY <1>1 DEF TypeOK, TaskInv, Positioned
<1>5. Built(t)'
  BY <1>1 DEF TypeOK, TaskInv, Positioned, Built, Kinds
<1>6. Counted(t)'
  BY <1>1 DEF TypeOK, TaskInv, Counted
<1>7. Attempted(t)'
  BY <1>1 DEF TypeOK, TaskInv, Attempted
<1>8. LimitIsSafe => Balanced(t)
  <2>1. ASSUME LimitIsSafe, NEW k \in 1 .. Len(Chain)
        PROVE  HoldsAt(t, k)' <=> HoldsAt(t, k)
    BY <1>1, <2>1 DEF TypeOK, TaskInv, Positioned, Built, Kinds, LimitIsSafe, HoldsAt
  <2> QED
    BY <2>1 DEF Balanced, Holds
<1>9. RecorderIsSafe => Entered(t)'
  BY <1>1 DEF TypeOK, TaskInv, Positioned, Built, Kinds, RecorderIsSafe, Entered
<1>10. RateIsSafe => Excused(t)'
  BY <1>1 DEF TypeOK, TaskInv, Positioned, Built, Kinds, RateIsSafe, Excused
<1>11. TaskInv(t)'
  BY <1>4, <1>5, <1>6, <1>7, <1>9, <1>10 DEF TaskInv, RecorderIsSafe, RateIsSafe
<1> QED
  BY <1>2, <1>3, <1>8, <1>11, StepKeeps

LEMMA LeaveKeeps ==
  ASSUME IInv, NEW t \in Tasks, Leave(t)
  PROVE  IInv'
<1> USE ChainType, InvocationAssumption
    DEF Leave, next, shared, goto, stopping, ctx, task, InSetup, InChain, After
<1>1. TypeOK /\ TaskInv(t)
  BY DEF IInv
<1>2. TypeOK'
  <2>1. stage' \in [Tasks -> Stages] /\ at' \in [Tasks -> 0 .. Len(Chain) + 1]
    BY <1>1 DEF TypeOK, Stages, TaskInv, Positioned
  <2>2. mode' \in {"open", "soft", "hard"} /\ canceled' \in BOOLEAN
    BY <1>1 DEF TypeOK
  <2> QED
    BY <1>1, <2>1, <2>2 DEF TypeOK
<1>3. \A u \in Tasks \ {t} : Same(u)
  BY <1>1 DEF TypeOK, Same
<1>4. Positioned(t)'
  BY <1>1 DEF TypeOK, TaskInv, Positioned
<1>5. Built(t)'
  BY <1>1 DEF TypeOK, TaskInv, Positioned, Built, Kinds
<1>6. Counted(t)'
  BY <1>1 DEF TypeOK, TaskInv, Counted
<1>7. Attempted(t)'
  BY <1>1 DEF TypeOK, TaskInv, Attempted
<1>8. LimitIsSafe => Balanced(t)
  <2>1. ASSUME LimitIsSafe, NEW k \in 1 .. Len(Chain)
        PROVE  HoldsAt(t, k)' <=> HoldsAt(t, k)
    BY <1>1, <2>1 DEF TypeOK, TaskInv, Positioned, Built, Kinds, LimitIsSafe, HoldsAt
  <2> QED
    BY <2>1 DEF Balanced, Holds
<1>9. RecorderIsSafe => Entered(t)'
  BY <1>1 DEF TypeOK, TaskInv, Positioned, Built, Kinds, RecorderIsSafe, Entered
<1>10. RateIsSafe => Excused(t)'
  BY <1>1 DEF TypeOK, TaskInv, Positioned, Built, Kinds, RateIsSafe, Excused
<1>11. TaskInv(t)'
  BY <1>4, <1>5, <1>6, <1>7, <1>9, <1>10 DEF TaskInv, RecorderIsSafe, RateIsSafe
<1> QED
  BY <1>2, <1>3, <1>8, <1>11, StepKeeps

LEMMA StartKeeps ==
  ASSUME IInv, NEW t \in Tasks, Start(t)
  PROVE  IInv'
<1> USE ChainType, InvocationAssumption
    DEF Start, goto, ctx, shared, task, stopping, InSetup, InChain, After
<1>1. TypeOK /\ TaskInv(t)
  BY DEF IInv
<1>2. TypeOK'
  <2>1. stage' \in [Tasks -> Stages] /\ at' \in [Tasks -> 0 .. Len(Chain) + 1]
    <3>1. 0 \in 0 .. Len(Chain) + 1 /\ 1 \in 0 .. Len(Chain) + 1
      OBVIOUS
    <3>2. CASE goto(t, "setup", 1)
      BY <1>1, <3>1, <3>2 DEF TypeOK, Stages
    <3>3. CASE goto(t, "rejected", 0)
      BY <1>1, <3>1, <3>3 DEF TypeOK, Stages
    <3> QED
      BY <3>2, <3>3
  <2>2. live' \subseteq Tasks /\ infos' \subseteq Tasks
    BY <1>1 DEF TypeOK
  <2> QED
    BY <1>1, <2>1, <2>2 DEF TypeOK
<1>3. \A u \in Tasks \ {t} : Same(u)
  BY <1>1 DEF TypeOK, Same
<1>4. Positioned(t)'
  BY <1>1 DEF TypeOK, TaskInv, Positioned
<1>5. Built(t)'
  BY <1>1 DEF TypeOK, TaskInv, Positioned, Built, Kinds
<1>6. Counted(t)'
  BY <1>1 DEF TypeOK, TaskInv, Counted
<1>7. Attempted(t)'
  BY <1>1 DEF TypeOK, TaskInv, Attempted
<1>8. LimitIsSafe => Balanced(t)
  <2>1. ASSUME LimitIsSafe, NEW k \in 1 .. Len(Chain)
        PROVE  HoldsAt(t, k)' <=> HoldsAt(t, k)
    BY <1>1, <2>1 DEF TypeOK, TaskInv, Positioned, Built, Kinds, LimitIsSafe, HoldsAt
  <2> QED
    BY <2>1 DEF Balanced, Holds
<1>9. RecorderIsSafe => Entered(t)'
  BY <1>1 DEF TypeOK, TaskInv, Positioned, Built, Kinds, RecorderIsSafe, Entered
<1>10. RateIsSafe => Excused(t)'
  BY <1>1 DEF TypeOK, TaskInv, Positioned, Built, Kinds, RateIsSafe, Excused
<1>11. TaskInv(t)'
  BY <1>4, <1>5, <1>6, <1>7, <1>9, <1>10 DEF TaskInv, RecorderIsSafe, RateIsSafe
<1> QED
  BY <1>2, <1>3, <1>8, <1>11, StepKeeps

\* Stops and cancelations disturb nothing that is known of a task.
LEMMA ContextKeeps ==
  ASSUME IInv, CallStop \/ Expire \/ CancelParent
  PROVE  IInv'
<1> USE DEF CallStop, Expire, CancelParent, Stop, shared, task
<1>1. TypeOK
  BY DEF IInv
<1>2. mode' \in {"open", "soft", "hard"} /\ canceled' \in BOOLEAN
  BY <1>1 DEF TypeOK
<1>3. /\ UNCHANGED <<live, shared, task>> /\ (canceled => canceled')
      /\ stopping => stopping'
  BY DEF stopping
<1> HIDE DEF CallStop, Expire, CancelParent
<1>4. TypeOK'
  BY <1>1, <1>2, <1>3 DEF TypeOK
<1>5. \A u \in Tasks : Same(u)
  BY <1>3 DEF Same
<1>6. \A u \in Tasks : TaskInv(u)' /\ (Holds(u)' <=> Holds(u))
  BY <1>5, SameKept
<1>7. LimitIsSafe => SlotsMatch'
  <2>1. {u \in Tasks : Holds(u)'} = {u \in Tasks : Holds(u)}
    BY <1>6
  <2>2. LimitIsSafe => slots = Cardinality({u \in Tasks : Holds(u)})
    BY DEF IInv, SlotsMatch
  <2> QED
    BY <1>3, <2>1, <2>2 DEF SlotsMatch
<1> QED
  BY <1>4, <1>6, <1>7 DEF IInv, LimitIsSafe

-----------------------------------------------------------------------------
(* The theorems.                                                           *)

\* Nothing has happened yet.
LEMMA InitInvariant == Init => IInv
<1> SUFFICES ASSUME Init PROVE IInv
  OBVIOUS
<1> USE ChainType, InvocationAssumption DEF Init
<1>1. TypeOK
  <2>1. stage \in [Tasks -> Stages] /\ at \in [Tasks -> 0 .. Len(Chain) + 1]
    BY DEF Stages
  <2>2. inv \in [Tasks -> [1 .. Len(Chain) ->
                    {"none", "record", "retry", "slot", "call", "drop", "err"}]]
    OBVIOUS
  <2>3. tries \in [Tasks -> 0 .. MaxAttempts - 1] /\ runs \in [Tasks -> 0 .. MaxAttempts]
    OBVIOUS
  <2>4. mode \in {"open", "soft", "hard"} /\ slots \in 0 .. Limit
    OBVIOUS
  <2>6. /\ canceled \in BOOLEAN
        /\ live \subseteq Tasks /\ recorded \subseteq Tasks /\ infos \subseteq Tasks
    OBVIOUS
  <2>5. /\ res \in [Tasks -> {"ok", "error", "panic"}] /\ closed \in [Tasks -> BOOLEAN]
        /\ outcome \in [Tasks -> {"none", "ok", "error", "panic"}]
    OBVIOUS
  <2> QED
    BY <2>1, <2>2, <2>3, <2>4, <2>5, <2>6 DEF TypeOK
<1>2. ASSUME NEW t \in Tasks PROVE TaskInv(t)
  <2>1. Positioned(t) /\ Built(t) /\ Counted(t) /\ Attempted(t)
    BY DEF Positioned, Built, Counted, Attempted, InSetup, InChain, After
  <2>2. Entered(t) /\ Excused(t)
    BY DEF Entered, Excused, After
  <2> QED
    BY <2>1, <2>2 DEF TaskInv
<1>3. SlotsMatch
  <2>1. {t \in Tasks : Holds(t)} = {}
    BY DEF Holds, HoldsAt
  <2> QED
    BY <2>1, FS_EmptySet DEF SlotsMatch
<1> QED
  BY <1>1, <1>2, <1>3 DEF IInv

\* Whatever the middleware, the limit and the stops: every task of taskInvoker
\* (stopper.go:428) is where its stage says, with the Invokers, entries and
\* counts that belong there.
THEOREM Invariance == Spec => []IInv
<1>1. IInv /\ [Next]_vars => IInv'
  <2> SUFFICES ASSUME IInv, [Next]_vars PROVE IInv'
    OBVIOUS
  <2>1. CASE CallStop \/ Expire \/ CancelParent
    BY <2>1, ContextKeeps
  <2>2. CASE \E t \in Tasks : Start(t) \/ SetupPanics(t) \/ Setup(t) \/ Blocked(t) \/ Invoke(t)
    BY <2>2, StartKeeps, SetupPanicsKeeps, SetupKeeps, BlockedKeeps, InvokeKeeps
  <2>3. CASE \E t \in Tasks : Token(t) \/ GiveUp(t)
    BY <2>3, ThrottledKeeps
  <2>4. CASE \E t \in Tasks : Call(t) \/ Run(t) \/ RunEnds(t) \/ ReturnSlot(t) \/ Classify(t)
    BY <2>4, CallKeeps, RunKeeps, RunEndsKeeps, ReturnSlotKeeps, ClassifyKeeps
  <2>5. CASE \E t \in Tasks : Pass(t) \/ Unrecord(t)
    BY <2>5, UnrecordKeeps
  <2>6. CASE \E t \in Tasks : WaitSignal(t) \/ WaitStopped(t)
    BY <2>6, WaitEnds
  <2>7. CASE \E t \in Tasks : Outcome(t) \/ Handle(t) \/ CloseDone(t) \/ DeleteInfo(t) \/ Leave(t)
    BY <2>7, OutcomeKeeps, HandleKeeps, CloseDoneKeeps, DeleteInfoKeeps, LeaveKeeps
  <2>8. CASE UNCHANGED vars
    <3>1. TypeOK' /\ \A u \in Tasks : Same(u)
      BY <2>8 DEF IInv, TypeOK, Same, vars, ctx, shared, task, stopping
    <3>2. \A u \in Tasks : TaskInv(u)' /\ (Holds(u)' <=> Holds(u))
      BY <3>1, SameKept
    <3>3. LimitIsSafe => SlotsMatch'
      <4>1. {u \in Tasks : Holds(u)'} = {u \in Tasks : Holds(u)}
        BY <3>2
      <4> QED
        BY <2>8, <4>1 DEF IInv, SlotsMatch, vars, shared
    <3> QED
      BY <3>1, <3>2, <3>3 DEF IInv, LimitIsSafe
  <2> QED
    BY <2>1, <2>2, <2>3, <2>4, <2>5, <2>6, <2>7, <2>8 DEF Next, Step
<1> QED
  BY <1>1, InitInvariant, PTL DEF Spec

\* Where nothing that may call it twice or not at all is declared before
\* WithMaxConcurrency, its channel (limit.go:27) holds one value for each task
\* that has a slot, however tasks fail, panic, or are discarded.
THEOREM SlotsExact ==
  ASSUME LimitIsSafe
  PROVE  Spec => []SlotsMatch
<1>1. IInv => SlotsMatch
  BY DEF IInv
<1> QED
  BY <1>1, Invariance, PTL

\* Then the limit of limit.go:19 is kept, for any number of tasks.
THEOREM ConcurrencyLimited ==
  ASSUME LimitIsSafe, \E k \in 1 .. Len(Chain) : Chain[k] = "limit"
  PROVE  Spec => []ConcurrencyBound
<1>1. IInv => ConcurrencyBound
  <2> SUFFICES ASSUME IInv PROVE ConcurrencyBound
    OBVIOUS
  <2> DEFINE R == {t \in Tasks : stage[t] = "run"}
             H == {t \in Tasks : Holds(t)}
  <2>1. PICK k \in 1 .. Len(Chain) : Chain[k] = "limit"
    OBVIOUS
  <2>2. ASSUME NEW t \in Tasks, stage[t] = "run" PROVE Holds(t)
    <3>1. at[t] = Len(Chain) + 1 /\ k < at[t]
      BY <2>2, ChainType DEF IInv, TaskInv, Positioned
    <3>2. /\ inv[t][k] \in Kinds(Chain[k]) \cup {"none"}
          /\ inv[t][k] \notin {"none", "drop", "err"}
      BY <2>2, <3>1 DEF IInv, TaskInv, Built
    <3>3. inv[t][k] = "slot"
      BY <2>1, <3>2 DEF Kinds
    <3> QED
      BY <2>2, <3>3 DEF Holds, HoldsAt, After
  <2>3. R \subseteq H /\ IsFiniteSet(H)
    BY <2>2, FS_Subset, InvocationAssumption
  <2>4. Cardinality(R) <= Cardinality(H) /\ Cardinality(R) \in Nat
    BY <2>3, FS_Subset, FS_CardinalityType
  <2>5. Cardinality(H) <= Limit /\ Cardinality(H) \in Nat
    BY DEF IInv, SlotsMatch, TypeOK
  <2> QED
    BY <2>4, <2>5, InvocationAssumption DEF ConcurrencyBound
<1> QED
  BY <1>1, Invariance, PTL

\* A Recorder declared before all that can discard a task, and the TaskGroup in
\* any case, know only tasks that the Context waits for (linger.go:37).
THEOREM LiveTracked ==
  ASSUME RecorderIsSafe
  PROVE  Spec => []TracksLive
<1>1. IInv => TracksLive
  <2> SUFFICES ASSUME IInv, NEW t \in recorded \cup infos
               PROVE  t \in live \/ stage[t] = "abandoned"
    BY DEF IInv, TypeOK, TracksLive
  <2>1. t \in Tasks /\ TaskInv(t) /\ stage[t] \in Stages
    BY DEF IInv, TypeOK
  <2>2. CASE t \in infos
    BY <2>1, <2>2 DEF TaskInv, Counted, After
  <2>3. CASE t \in recorded
    <3>1. stage[t] \notin After \cup {"idle", "rejected"}
      BY <2>1, <2>3 DEF TaskInv, Entered, Built
    <3> QED
      BY <2>1, <3>1 DEF TaskInv, Counted, Stages, InSetup, InChain
  <2> QED
    BY <2>2, <2>3
<1> QED
  BY <1>1, Invariance, PTL

\* Where no classifier can swallow the error of WithMaxRate, a task whose Done is
\* closed has an outcome (task_info.go:150), and was run, failed by the limiter,
\* or discarded by a stop.
THEOREM NothingDroppedSilently ==
  ASSUME RateIsSafe
  PROVE  Spec => []NoSilentDrop
<1>1. IInv => NoSilentDrop
  <2> SUFFICES ASSUME IInv, NEW t \in Tasks, closed[t]
               PROVE  /\ outcome[t] # "none"
                      /\ runs[t] = 0 => stopping \/ canceled \/ outcome[t] = "error"
    BY DEF NoSilentDrop
  <2>1. Excused(t) /\ res[t] \in {"ok", "error", "panic"}
    BY DEF IInv, TypeOK, TaskInv
  <2> QED
    BY <2>1 DEF Excused
<1> QED
  BY <1>1, Invariance, PTL

=============================================================================
