------------------------ MODULE SeqUnorderedProofs ------------------------
(* What holds of MapUnordered for every number of workers and items,       *)
(* however stops, cancelations, panics and the loop body interfere: no     *)
(* result twice, and none missing as long as nobody gives up.              *)
EXTENDS SeqUnordered, TLAPS, SequenceTheorems

Item == 1 .. NumItems

Labels == {"new", "rejected", "top", "next", "select", "call", "failed", "leave", "ended"}

\* What has left the workers' hands.
Seen == out \o results

Types ==
  /\ results \in Seq(Item) /\ out \in Seq(Item)
  /\ pc \in [Workers -> Labels] /\ item \in [Workers -> 0 .. NumItems] /\ idx \in Nat

\* Items come from below idx, so the next one taken is new.
Counted ==
  /\ \A i \in 1 .. Len(Seen) : Seen[i] <= idx
  /\ \A w \in Workers : inHand(w) => item[w] \in Item /\ item[w] <= idx

\* The iterator is stopped, and the channel closed, only after a hard stop or
\* the end of the consumer's loop.
Endings ==
  /\ closed \/ duty # "none" => mode = "hard"
  /\ pulled => main = "done"
  /\ main \in {"wait", "exit", "lock", "done"} => ending # "no"

\* Item i, once taken, is in somebody's hands.
Placed(i) ==
  \/ i = PanicsAt
  \/ \E j \in 1 .. Len(Seen) : Seen[j] = i
  \/ \E w \in Workers : inHand(w) /\ item[w] = i

AllPlaced ==
  mode # "hard" /\ ending = "no" /\ ~canceled =>
    \A i \in Item : i <= idx => Placed(i)

HandsInv == Types /\ Counted /\ EachOnce /\ Endings /\ AllPlaced

-----------------------------------------------------------------------------
(* What has been sent and yielded.                                         *)

LEMMA SeenType ==
  ASSUME Types
  PROVE  /\ Seen \in Seq(Item) /\ Len(Seen) \in Nat
         /\ Len(out) \in Nat /\ Len(results) \in Nat
         /\ Len(Seen) = Len(out) + Len(results)
         /\ \A i \in 1 .. Len(out) + Len(results) :
              Seen[i] = IF i <= Len(out) THEN out[i] ELSE results[i - Len(out)]
BY ConcatProperties, LenProperties DEF Types, Seen

\* An item was seen if it is in the channel or out.
LEMMA SeenWhere ==
  ASSUME Types, NEW i, NEW j \in 1 .. Len(Seen), Seen[j] = i
  PROVE  \/ \E k \in 1 .. Len(out) : out[k] = i
         \/ \E k \in 1 .. Len(results) : results[k] = i
<1>1. /\ Len(out) \in Nat /\ Len(results) \in Nat
      /\ j \in 1 .. Len(out) + Len(results)
      /\ Seen[j] = IF j <= Len(out) THEN out[j] ELSE results[j - Len(out)]
  BY SeenType
<1>2. CASE j <= Len(out)
  BY <1>1, <1>2
<1>3. CASE ~(j <= Len(out))
  <2>1. j - Len(out) \in 1 .. Len(results)
    BY <1>1, <1>3
  <2> QED
    BY <1>1, <1>3, <2>1
<1> QED
  BY <1>2, <1>3

LEMMA HeadOnTail ==
  ASSUME NEW S, NEW q \in Seq(S), q # <<>>
  PROVE  <<Head(q)>> \o Tail(q) = q
<1>1. /\ Head(q) \in S /\ Tail(q) \in Seq(S) /\ Head(q) = q[1]
      /\ Len(q) \in Nat /\ Len(q) = Len(Tail(q)) + 1 /\ Len(Tail(q)) \in Nat
      /\ \A i \in 1 .. Len(Tail(q)) : Tail(q)[i] = q[i + 1]
  BY HeadTailProperties
<1> DEFINE r == <<Head(q)>> \o Tail(q)
<1>2. r \in Seq(S) /\ Len(r) = Len(q) /\ r[1] = Head(q)
  BY <1>1
<1>3. \A i \in 1 .. Len(q) : i # 1 => r[i] = q[i]
  <2> SUFFICES ASSUME NEW i \in 1 .. Len(q), i # 1 PROVE r[i] = q[i]
    OBVIOUS
  <2>1. i - 1 \in 1 .. Len(Tail(q)) /\ (i - 1) + 1 = i
    BY <1>1
  <2>2. r[i] = Tail(q)[i - 1]
    BY <1>1, <2>1
  <2>3. Tail(q)[i - 1] = q[(i - 1) + 1]
    BY <1>1, <2>1
  <2> QED
    BY <2>1, <2>2, <2>3
<1> HIDE DEF r
<1>4. r = q
  BY <1>1, <1>2, <1>3, SeqEqual
<1> QED
  BY <1>4 DEF r

LEMMA YieldKeepsSeen ==
  ASSUME Types, YieldResult
  PROVE  /\ Seen' = Seen /\ results' \in Seq(Item) /\ out' \in Seq(Item)
         /\ main = "consume"
<1>1. /\ main = "consume" /\ results # <<>>
      /\ results' = Tail(results) /\ out' = Append(out, Head(results))
  BY DEF YieldResult, Yield
<1>2. results \in Seq(Item) /\ out \in Seq(Item)
  BY DEF Types
<1>3. Head(results) \in Item /\ Tail(results) \in Seq(Item) /\ <<Head(results)>> \in Seq(Item)
  BY <1>1, <1>2, HeadTailProperties
<1>4. out' \in Seq(Item) /\ out' = out \o <<Head(results)>>
  BY <1>1, <1>2, <1>3, AppendProperties, AppendIsConcat
<1>5. (out \o <<Head(results)>>) \o Tail(results) = out \o (<<Head(results)>> \o Tail(results))
  BY <1>2, <1>3, ConcatAssociative
<1>6. <<Head(results)>> \o Tail(results) = results
  BY <1>1, <1>2, HeadOnTail
<1> QED
  BY <1>1, <1>3, <1>4, <1>5, <1>6 DEF Seen

LEMMA SendExtendsSeen ==
  ASSUME Types, NEW i \in Item, results' = Append(results, i), out' = out
  PROVE  /\ Seen' = Append(Seen, i) /\ results' \in Seq(Item)
         /\ Len(Seen') = Len(Seen) + 1 /\ Seen'[Len(Seen) + 1] = i
         /\ \A j \in 1 .. Len(Seen) : Seen'[j] = Seen[j]
<1>1. /\ results \in Seq(Item) /\ out \in Seq(Item) /\ <<i>> \in Seq(Item)
      /\ results' = results \o <<i>> /\ results' \in Seq(Item)
  BY AppendProperties, AppendIsConcat DEF Types
<1>2. Seen \in Seq(Item) /\ Append(Seen, i) = Seen \o <<i>>
  BY SeenType, AppendIsConcat
<1>3. out \o (results \o <<i>>) = (out \o results) \o <<i>>
  BY <1>1, ConcatAssociative
<1>4. Seen' = Append(Seen, i)
  BY <1>1, <1>2, <1>3 DEF Seen
<1> QED
  BY <1>1, <1>2, <1>4, AppendProperties

-----------------------------------------------------------------------------
(* Steps that take, send and yield nothing.                                *)

\* They leave the items where they are, but a worker may drop what it holds
\* after somebody gave up.
LEMMA HandsKept ==
  ASSUME HandsInv, Seen' = Seen, results' \in Seq(Item), out' \in Seq(Item),
         pc' \in [Workers -> Labels], UNCHANGED <<item, idx>>,
         \A w \in Workers : inHand(w)' => inHand(w),
         Endings',
         mode' # "hard" /\ ending' = "no" /\ ~canceled' =>
           /\ mode # "hard" /\ ending = "no" /\ ~canceled
           /\ \A w \in Workers : inHand(w) => inHand(w)'
  PROVE  HandsInv'
<1> USE DEF HandsInv
<1>1. Types'
  BY DEF Types
<1>2. Counted'
  BY DEF Counted
<1>3. EachOnce'
  <2>1. (out \o results)' = out \o results
    BY DEF Seen
  <2> QED
    BY <2>1 DEF EachOnce
<1>4. AllPlaced'
  BY DEF AllPlaced, Placed
<1> QED
  BY <1>1, <1>2, <1>3, <1>4

\* Every stop of s keeps what the endings say of it.
LEMMA SoftStopEnds ==
  ASSUME Endings, NEW a, NEW grace, softStop(a, grace)
  PROVE  /\ closed \/ duty' # "none" => mode' = "hard"
         /\ mode' # "hard" => mode # "hard"
BY DEF Endings, softStop, settle, unsettled

LEMMA PoolHands ==
  ASSUME HandsInv, PoolStep
  PROVE  HandsInv'
<1> USE DEF HandsInv
<1>1. /\ UNCHANGED <<results, closed, out, ending>> /\ Seen' = Seen
      /\ pc \in [Workers -> Labels] /\ results \in Seq(Item) /\ out \in Seq(Item)
  BY DEF PoolStep, sink, Seen, Types
<1> DEFINE Still ==
      /\ pc' \in [Workers -> Labels] /\ UNCHANGED <<item, idx>>
      /\ \A w \in Workers : inHand(w)' <=> inHand(w)
      /\ closed \/ duty' # "none" => mode' = "hard"
      /\ mode' # "hard" => mode # "hard"
      /\ canceled => canceled'
      /\ \/ main' = main /\ pulled' = pulled
         \/ <<main, main'>> \in {<<"new", "defer">>, <<"launch", "consume">>, <<"exit", "lock">>}
            /\ pulled' = pulled
         \/ main = "lock" /\ main' = "done"
<1>2. ASSUME Still PROVE HandsInv'
  <2>1. Endings'
    BY <1>1, <1>2 DEF Endings
  <2> QED
    BY <1>1, <1>2, <2>1, HandsKept
<1>3. CASE UNCHANGED pool /\ (Cancel \/ Expire \/ OuterStop \/ (\E e \in OuterEvents : OuterEvent(e))
                              \/ \E w \in Workers, grace \in FnGraces : FnStop(w, grace))
  <2>1. /\ closed \/ duty' # "none" => mode' = "hard"
        /\ mode' # "hard" => mode # "hard"
        /\ canceled => canceled'
    BY <1>1, <1>3, SoftStopEnds
       DEF Cancel, Expire, OuterStop, OuterEvent, FnStop, settle, canceled, Endings
  <2> QED
    BY <1>1, <1>2, <1>3, <2>1 DEF pool, inHand
<1>4. CASE WithContext("defer")
  <2>1. /\ closed \/ duty' # "none" => mode' = "hard"
        /\ mode' # "hard" => mode # "hard"
    BY <1>1, <1>4, SoftStopEnds DEF WithContext, unsettled, Endings
  <2> QED
    BY <1>1, <1>2, <1>4, <2>1 DEF WithContext, inHand, canceled
<1>5. CASE StopOnIdle("consume")
  <2>1. /\ closed \/ duty' # "none" => mode' = "hard"
        /\ mode' # "hard" => mode # "hard"
    BY <1>1, <1>5, SoftStopEnds DEF StopOnIdle, unsettled, Endings
  <2> QED
    BY <1>1, <1>2, <1>5, <2>1 DEF StopOnIdle, inHand, canceled
<1>6. CASE DeferredStop
  <2>1. /\ closed \/ duty' # "none" => mode' = "hard"
        /\ mode' # "hard" => mode # "hard"
    BY <1>1, <1>6, SoftStopEnds DEF DeferredStop
  <2> QED
    BY <1>1, <1>2, <1>6, <2>1 DEF DeferredStop, inHand, canceled
<1>7. CASE Release
  BY <1>1, <1>2, <1>7 DEF Release, ctx, inHand, canceled, Endings
<1>8. ASSUME NEW w \in Workers, Go(w) \/ Top(w) \/ HandlerStop(w) \/ Leave(w) PROVE HandsInv'
  <2>1. /\ UNCHANGED <<main, item, idx, pulled, cause>>
        /\ ~inHand(w)
        /\ \E l \in Labels \ {"call", "select"} : pc' = [pc EXCEPT ![w] = l]
    BY <1>8 DEF Go, Top, HandlerStop, Leave, goto, fail, Labels, inHand
  <2>2. pc' \in [Workers -> Labels] /\ \A v \in Workers : inHand(v)' <=> inHand(v)
    BY <1>1, <2>1 DEF inHand
  <2>3. /\ closed \/ duty' # "none" => mode' = "hard"
        /\ mode' # "hard" => mode # "hard"
    <3>1. CASE HandlerStop(w)
      BY <1>1, <3>1, SoftStopEnds DEF HandlerStop
    <3>2. CASE Go(w) \/ Top(w) \/ Leave(w)
      BY <1>1, <3>2 DEF Go, Top, Leave, settle, unsettled, Endings
    <3> QED
      BY <1>8, <3>1, <3>2
  <2> QED
    BY <1>1, <1>2, <2>1, <2>2, <2>3 DEF canceled
<1> QED
  BY <1>3, <1>4, <1>5, <1>6, <1>7, <1>8
     DEF PoolStep, Cancel, Expire, OuterStop, OuterEvent, FnStop

LEMMA SinkHands ==
  ASSUME HandsInv, Defer \/ Close \/ Drained \/ Wait
  PROVE  HandsInv'
<1> USE DEF HandsInv
<1>1. /\ UNCHANGED <<mode, cause, pc, item, idx, pulled, results, out>>
      /\ Seen' = Seen
  BY DEF Defer, Close, Drained, Wait, ctx, pool, Seen
<1>2. Endings'
  BY DEF Defer, Close, Drained, Wait, ctx, pool, Endings
<1>3. ending' = "no" => ending = "no"
  BY DEF Defer, Close, Drained, Wait
<1> QED
  BY <1>1, <1>2, <1>3, HandsKept DEF Types, inHand, canceled

-----------------------------------------------------------------------------
(* Steps that do.                                                          *)

LEMMA TakeItemHands ==
  ASSUME HandsInv, NEW w \in Workers, TakeItem(w)
  PROVE  HandsInv'
<1> USE DEF HandsInv
<1>1. /\ pc[w] = "next" /\ idx' = idx + 1 /\ idx \in Nat
      /\ pc \in [Workers -> Labels] /\ item \in [Workers -> 0 .. NumItems]
      /\ UNCHANGED <<main, pulled, mode, duty, cause, results, closed, out, ending>>
      /\ Seen' = Seen
  BY DEF TakeItem, next, Types, sink, Seen
<1>2. Len(Seen) \in Nat /\ \A i \in 1 .. Len(Seen) : Seen[i] \in Nat
  <2>1. Seen \in Seq(Item) /\ Len(Seen) \in Nat
    BY SeenType
  <2> DEFINE S == Seen
  <2> HIDE DEF S
  <2>2. S \in Seq(Item) => \A i \in 1 .. Len(S) : S[i] \in Item
    BY ElementOfSeq
  <2>3. Item \subseteq Nat
    BY PoolAssumption DEF Item
  <2> QED
    BY <2>1, <2>2, <2>3 DEF S
<1>3. Endings'
  BY <1>1 DEF Endings
<1>4. EachOnce <=>
        /\ \A i, j \in 1 .. Len(Seen) : Seen[i] = Seen[j] => i = j
        /\ \A u, v \in Workers : inHand(u) /\ inHand(v) /\ u # v => item[u] # item[v]
        /\ \A v \in Workers, i \in 1 .. Len(Seen) : inHand(v) => Seen[i] # item[v]
  BY DEF EachOnce, Seen
<1>5. EachOnce' <=>
        /\ \A i, j \in 1 .. Len(Seen) : Seen[i] = Seen[j] => i = j
        /\ \A u, v \in Workers : inHand(u)' /\ inHand(v)' /\ u # v => item'[u] # item'[v]
        /\ \A v \in Workers, i \in 1 .. Len(Seen) : inHand(v)' => Seen[i] # item'[v]
  BY <1>1 DEF EachOnce, Seen
<1>6. CASE /\ item' = item
           /\ \/ pc' = [pc EXCEPT ![w] = "leave"] /\ (idx >= NumItems \/ pulled)
              \/ pc' = [pc EXCEPT ![w] = "failed"] /\ idx + 1 = PanicsAt
  <2>1. \A v \in Workers : inHand(v)' <=> inHand(v)
    BY <1>1, <1>6 DEF inHand
  <2>2. Types'
    <3>1. pc' \in [Workers -> Labels]
      BY <1>1, <1>6 DEF Labels
    <3>2. idx' \in Nat
      BY <1>1
    <3> QED
      BY <1>1, <1>6, <3>1, <3>2 DEF Types
  <2>3. Counted'
    BY <1>1, <1>2, <1>6, <2>1 DEF Counted, Item
  <2>4. EachOnce'
    BY <1>4, <1>5, <1>6, <2>1
  <2>5. AllPlaced'
    <3> SUFFICES ASSUME mode # "hard", ending = "no", ~canceled,
                        NEW i \in Item, i <= idx + 1
                 PROVE  Placed(i)'
      BY <1>1 DEF AllPlaced, canceled
    <3>1. ~pulled
      BY DEF Endings
    <3>2. i = idx + 1 => idx + 1 = PanicsAt
      BY <1>1, <1>6, <3>1, PoolAssumption DEF Item
    <3>3. i <= idx \/ i = PanicsAt
      BY <1>1, <3>2 DEF Item
    <3>4. i <= idx => Placed(i)
      BY DEF AllPlaced
    <3>5. Placed(i)
      BY <3>3, <3>4 DEF Placed
    <3> QED
      BY <1>1, <1>6, <2>1, <3>5 DEF Placed
  <2> QED
    BY <1>3, <2>2, <2>3, <2>4, <2>5
<1>7. CASE /\ pc' = [pc EXCEPT ![w] = "call"] /\ item' = [item EXCEPT ![w] = idx + 1]
           /\ idx < NumItems
  <2>1. \A v \in Workers : inHand(v)' <=> inHand(v) \/ v = w
    BY <1>1, <1>7 DEF inHand
  <2>2. item'[w] = idx + 1 /\ idx + 1 \in Item /\ \A v \in Workers \ {w} : item'[v] = item[v]
    BY <1>1, <1>7, PoolAssumption DEF Item
  <2>3. Types'
    BY <1>1, <1>7, <2>2 DEF Types, Labels, Item
  <2>4. Counted'
    BY <1>1, <1>2, <2>1, <2>2 DEF Counted, Item
  <2>5. \A v \in Workers : inHand(v) => v # w /\ item[v] # idx + 1
    BY <1>1 DEF Counted, Item, inHand
  <2>6. \A i \in 1 .. Len(Seen) : Seen[i] # idx + 1
    BY <1>1, <1>2 DEF Counted
  <2>7. EachOnce'
    BY <1>4, <1>5, <2>1, <2>2, <2>5, <2>6
  <2>8. AllPlaced'
    <3> SUFFICES ASSUME mode # "hard", ending = "no", ~canceled,
                        NEW i \in Item, i <= idx + 1
                 PROVE  Placed(i)'
      BY <1>1 DEF AllPlaced, canceled
    <3>1. CASE i = idx + 1
      BY <2>1, <2>2, <3>1 DEF Placed
    <3>2. CASE i <= idx
      <4>1. Placed(i)
        BY <3>2 DEF AllPlaced
      <4>2. \A v \in Workers : inHand(v) => inHand(v)' /\ item'[v] = item[v]
        BY <2>1, <2>2, <2>5
      <4> QED
        BY <1>1, <4>1, <4>2 DEF Placed
    <3> QED
      BY <1>1, <3>1, <3>2 DEF Item
  <2> QED
    BY <1>3, <2>3, <2>4, <2>7, <2>8
<1> QED
  BY <1>6, <1>7 DEF TakeItem, next, fail, goto

LEMMA SelectHands ==
  ASSUME HandsInv, NEW w \in Workers, Select(w)
  PROVE  HandsInv'
<1> USE DEF HandsInv
<1>1. /\ pc[w] = "select" /\ inHand(w) /\ item[w] \in Item /\ item[w] <= idx
      /\ pc \in [Workers -> Labels]
      /\ UNCHANGED <<mode, duty, cause, main, item, idx, pulled, closed, out, ending>>
  BY DEF Select, Types, Counted, inHand
<1>2. Endings'
  BY <1>1 DEF Endings
<1>3. ASSUME NEW l \in Labels \ {"call", "select"}, pc' = [pc EXCEPT ![w] = l]
      PROVE  /\ pc' \in [Workers -> Labels]
             /\ \A v \in Workers : inHand(v)' <=> inHand(v) /\ v # w
  BY <1>1, <1>3 DEF inHand
<1>4. CASE /\ results' = results
           /\ \/ earlyBreak /\ pc' = [pc EXCEPT ![w] = "leave"]
              \/ gaveUp /\ pc' = [pc EXCEPT ![w] = "top"]
              \/ closed /\ pc' = [pc EXCEPT ![w] = "failed"]
  <2>1. Seen' = Seen /\ results' \in Seq(Item) /\ out' \in Seq(Item)
    BY <1>1, <1>4 DEF Seen, Types
  <2>2. mode = "hard" \/ ending # "no" \/ canceled
    BY <1>4 DEF earlyBreak, gaveUp, Endings
  <2>3. pc' \in [Workers -> Labels] /\ \A v \in Workers : inHand(v)' => inHand(v)
    BY <1>3, <1>4 DEF Labels
  <2> QED
    BY <1>1, <1>2, <2>1, <2>2, <2>3, HandsKept DEF canceled
<1>5. CASE results' = Append(results, item[w]) /\ pc' = [pc EXCEPT ![w] = "top"]
  <2>1. /\ pc' \in [Workers -> Labels]
        /\ \A v \in Workers : inHand(v)' <=> inHand(v) /\ v # w
    BY <1>3, <1>5 DEF Labels
  <2> DEFINE S == Seen
  <2>2. /\ results' \in Seq(Item)
        /\ Len(Seen') = Len(S) + 1 /\ Seen'[Len(S) + 1] = item[w]
        /\ \A j \in 1 .. Len(S) : Seen'[j] = S[j]
    BY <1>1, <1>5, SendExtendsSeen
  <2>3. Len(S) \in Nat /\ \A i \in 1 .. Len(S) + 1 : i = Len(S) + 1 \/ i \in 1 .. Len(S)
    BY SeenType
  <2>4. /\ \A i, j \in 1 .. Len(S) : S[i] = S[j] => i = j
        /\ \A u, v \in Workers : inHand(u) /\ inHand(v) /\ u # v => item[u] # item[v]
        /\ \A v \in Workers, i \in 1 .. Len(S) : inHand(v) => S[i] # item[v]
    BY DEF EachOnce, Seen
  <2>5. \A i \in Item : i <= idx /\ mode # "hard" /\ ending = "no" /\ ~canceled =>
          \/ i = PanicsAt
          \/ \E j \in 1 .. Len(S) : S[j] = i
          \/ \E v \in Workers : inHand(v) /\ item[v] = i
    BY DEF AllPlaced, Placed
  <2>6. \A i \in 1 .. Len(S) : S[i] <= idx
    BY DEF Counted
  <2> HIDE DEF S
  <2>7. Types'
    BY <1>1, <2>1, <2>2 DEF Types
  <2>8. Counted'
    BY <1>1, <2>1, <2>2, <2>3, <2>6 DEF Counted
  <2>9. EachOnce'
    <3>1. \A i, j \in 1 .. Len(S) + 1 : Seen'[i] = Seen'[j] => i = j
      BY <1>1, <2>2, <2>3, <2>4
    <3>2. \A u, v \in Workers : inHand(u)' /\ inHand(v)' /\ u # v => item'[u] # item'[v]
      BY <1>1, <2>1, <2>4
    <3>3. \A v \in Workers, i \in 1 .. Len(S) + 1 : inHand(v)' => Seen'[i] # item'[v]
      BY <1>1, <2>1, <2>2, <2>3, <2>4
    <3> QED
      BY <2>2, <3>1, <3>2, <3>3 DEF EachOnce, Seen
  <2>10. AllPlaced'
    <3> SUFFICES ASSUME mode # "hard", ending = "no", ~canceled, NEW i \in Item, i <= idx
                 PROVE  Placed(i)'
      BY <1>1 DEF AllPlaced, canceled
    <3>1. 1 .. Len(S) \subseteq 1 .. Len(S) + 1 /\ Len(S) + 1 \in 1 .. Len(S) + 1
      BY <2>3
    <3>2. CASE i = PanicsAt
      BY <3>2 DEF Placed
    <3>3. CASE \E j \in 1 .. Len(S) : S[j] = i
      BY <2>2, <3>1, <3>3 DEF Placed
    <3>4. ASSUME NEW v \in Workers, inHand(v), item[v] = i PROVE Placed(i)'
      BY <1>1, <2>1, <2>2, <3>1, <3>4 DEF Placed
    <3> QED
      BY <2>5, <3>2, <3>3, <3>4
  <2> QED
    BY <1>2, <2>7, <2>8, <2>9, <2>10
<1> QED
  BY <1>4, <1>5 DEF Select, goto, fail, onward

LEMMA StepHands ==
  ASSUME HandsInv, [Next]_vars
  PROVE  HandsInv'
<1>1. ASSUME NEW w \in Workers, Return(w) PROVE HandsInv'
  <2>1. /\ UNCHANGED <<mode, duty, cause, main, item, idx, pulled, results, closed, out, ending>>
        /\ pc[w] = "call" /\ pc' = [pc EXCEPT ![w] = "select"] /\ pc \in [Workers -> Labels]
    BY <1>1 DEF Return, ctx, sink, goto, HandsInv, Types
  <2>2. pc' \in [Workers -> Labels] /\ \A v \in Workers : inHand(v)' <=> inHand(v)
    BY <2>1 DEF inHand, Labels
  <2>3. Endings' /\ Seen' = Seen /\ results' \in Seq(Item) /\ out' \in Seq(Item)
    BY <2>1 DEF HandsInv, Endings, Seen, Types
  <2> QED
    BY <2>1, <2>2, <2>3, HandsKept DEF canceled
<1>2. CASE YieldResult
  <2>1. /\ UNCHANGED <<mode, duty, cause, pc, item, idx, pulled, closed>>
        /\ main = "consume"
        /\ \/ main' = "consume" /\ ending' = ending
           \/ main' = "exit" /\ ending' \in {"break", "panic"}
    BY <1>2, YieldsAssumption DEF YieldResult, Yield, ctx
  <2>2. Seen' = Seen /\ results' \in Seq(Item) /\ out' \in Seq(Item)
    BY <1>2, YieldKeepsSeen DEF HandsInv
  <2>3. Endings'
    BY <2>1 DEF HandsInv, Endings
  <2> QED
    BY <2>1, <2>2, <2>3, HandsKept DEF HandsInv, Types, inHand, canceled
<1>3. CASE UNCHANGED vars
  BY <1>3, HandsKept DEF vars, ctx, pool, sink, Seen, HandsInv, Types, Endings, inHand, canceled
<1> QED
  BY <1>1, <1>2, <1>3, PoolHands, SinkHands, TakeItemHands, SelectHands DEF Next

LEMMA InitHands == InitResults => HandsInv
<1> SUFFICES ASSUME InitResults PROVE HandsInv
  OBVIOUS
<1> USE DEF InitResults, Init
<1>1. Seen = <<>> /\ Len(Seen) = 0
  BY DEF Seen
<1>2. \A w \in Workers : ~inHand(w)
  BY DEF inHand
<1>3. Types
  BY PoolAssumption DEF Types, Labels
<1>4. EachOnce
  BY <1>1, <1>2 DEF EachOnce, Seen
<1>5. AllPlaced
  BY DEF AllPlaced, Item
<1> QED
  BY <1>1, <1>2, <1>3, <1>4, <1>5 DEF HandsInv, Counted, Endings

THEOREM HandsInvariance == Spec => []HandsInv
BY InitHands, StepHands, PTL DEF Spec

(* However many workers take items, send results and are stopped at the    *)
(* same time, no item is in two hands, and none is sent or yielded twice.  *)
THEOREM NoItemTwice == Spec => []EachOnce
BY HandsInvariance, PTL DEF HandsInv

(* Until the pool is hard-stopped or canceled or the loop ends, every item *)
(* taken from the input is in a worker's hands, in the channel or yielded: *)
(* a soft stop drops none.                                                 *)
THEOREM NoItemLost == Spec => []NoneLost
<1>1. HandsInv => NoneLost
  <2> SUFFICES ASSUME HandsInv, mode # "hard", ending = "no", ~canceled,
                      NEW i \in 1 .. idx, ~(i > NumItems), i # PanicsAt
               PROVE  \/ \E j \in 1 .. Len(out) : out[j] = i
                      \/ \E j \in 1 .. Len(results) : results[j] = i
                      \/ \E w \in Workers : inHand(w) /\ item[w] = i
    BY DEF NoneLost
  <2>1. i \in Item /\ i <= idx
    BY PoolAssumption DEF HandsInv, Types, Item
  <2>2. Placed(i) /\ Types
    BY <2>1 DEF HandsInv, AllPlaced
  <2> QED
    BY <2>2, SeenWhere DEF Placed
<1> QED
  BY <1>1, HandsInvariance, PTL
=============================================================================
