---------------------------- MODULE SeqMapProofs ----------------------------
(* What holds of Map for every number of workers and items, however stops,  *)
(* cancelations, panics and the consumer interfere: order, and a worker for *)
(* every result that the consumer waits for.                                *)
EXTENDS SeqMap, TLAPS, SequenceTheorems

Item == 1 .. NumItems

Labels == {"new", "rejected", "top", "next", "select", "call", "failed", "leave", "ended"}

\* Only while it waits for a result does the consumer have one in hand, and its
\* loop goes on until it ends.
Consumer ==
  /\ results \in Seq(Item) /\ out \in Seq(Item) /\ cur \in 0 .. NumItems
  /\ main = "await" <=> cur # 0
  /\ main \in {"new", "defer", "launch", "consume", "await"} => ending = "no"

\* The worker in the select holds nextMu and the item that was taken last.
Taking ==
  /\ pc \in [Workers -> Labels] /\ item \in [Workers -> 0 .. NumItems] /\ idx \in Nat
  /\ \A w \in Workers : pc[w] = "select" =>
       nextMu = w /\ item[w] = idx /\ item[w] \in Item

\* Whatever was taken before is before it.
Behind ==
  \A i \in 1 .. Len(Pipeline) :
    /\ Pipeline[i] <= idx
    /\ \A w \in Workers : pc[w] = "select" => Pipeline[i] < idx

\* As long as nobody drops items, none is missing.
Complete ==
  ~earlyBreak /\ ~canceled =>
    /\ \A i \in 1 .. Len(Pipeline) : Pipeline[i] = i
    /\ \A w \in Workers : pc[w] = "select" => Len(Pipeline) = idx - 1
    /\ nextMu = "free" /\ idx < NumItems /\ ~pulled => Len(Pipeline) = idx

OrderInv == Consumer /\ Taking /\ Behind /\ Ordered /\ Complete

-----------------------------------------------------------------------------
(* How the pipeline changes.                                               *)

Middle == IF cur = 0 THEN <<>> ELSE <<cur>>

LEMMA PipelineType ==
  ASSUME Consumer
  PROVE  /\ Middle \in Seq(Item) /\ Pipeline \in Seq(Item) /\ Len(Pipeline) \in Nat
         /\ Pipeline = (out \o Middle) \o results
<1>1. Middle \in Seq(Item)
  <2>1. cur = 0 \/ cur \in Item
    BY DEF Consumer, Item
  <2> QED
    BY <2>1, EmptySeq DEF Middle
<1>2. Pipeline = (out \o Middle) \o results
  BY DEF Pipeline, Middle
<1> QED
  BY <1>1, <1>2, ConcatProperties, LenProperties DEF Consumer

LEMMA ReceiveKeepsPipeline ==
  ASSUME Consumer, Receive
  PROVE  Pipeline' = Pipeline /\ Consumer'
<1>1. /\ main = "consume" /\ main' = "await" /\ results # <<>> /\ out' = out
      /\ cur' = Head(results) /\ results' = Tail(results) /\ ending' = ending
  BY DEF Receive
<1>2. cur = 0 /\ results \in Seq(Item) /\ out \in Seq(Item)
  BY <1>1 DEF Consumer
<1>3. Head(results) \in Item /\ Tail(results) \in Seq(Item)
  BY <1>1, <1>2, HeadTailProperties
<1>4. cur' # 0 /\ cur' \in 0 .. NumItems
  BY <1>1, <1>3 DEF Item
<1>5. Pipeline = out \o results
  BY <1>2, ConcatEmptySeq DEF Pipeline
<1>6. Pipeline' = (out \o <<Head(results)>>) \o Tail(results)
  BY <1>1, <1>4 DEF Pipeline
<1>7. <<Head(results)>> \o Tail(results) = results
  <2> DEFINE h == <<Head(results)>>
  <2>1. h \in Seq(Item) /\ Len(h) = 1 /\ h[1] = Head(results) /\ Head(results) = results[1]
    BY <1>1, <1>2, <1>3
  <2> HIDE DEF h
  <2>2. /\ h \o Tail(results) \in Seq(Item) /\ Len(h \o Tail(results)) = Len(results)
        /\ Len(results) \in Nat
        /\ \A i \in 1 .. Len(results) : (h \o Tail(results))[i] = results[i]
    <3> DEFINE t == Tail(results)
    <3>1. /\ t \in Seq(Item) /\ Len(t) = Len(results) - 1 /\ Len(results) \in Nat
          /\ \A i \in 1 .. Len(t) : t[i] = results[i + 1]
      BY <1>1, <1>2, HeadTailProperties, LenProperties
    <3> HIDE DEF t
    <3>2. /\ h \o t \in Seq(Item) /\ Len(h \o t) = 1 + Len(t)
          /\ \A i \in 1 .. 1 + Len(t) : (h \o t)[i] = IF i <= 1 THEN h[i] ELSE t[i - 1]
      <4>1. /\ h \o t \in Seq(Item) /\ Len(h \o t) = Len(h) + Len(t)
            /\ \A i \in 1 .. Len(h) + Len(t) :
                 (h \o t)[i] = IF i <= Len(h) THEN h[i] ELSE t[i - Len(h)]
        <5>1. \A s2 \in Seq(Item) :
                /\ h \o s2 \in Seq(Item) /\ Len(h \o s2) = Len(h) + Len(s2)
                /\ \A i \in 1 .. Len(h) + Len(s2) :
                     (h \o s2)[i] = IF i <= Len(h) THEN h[i] ELSE s2[i - Len(h)]
          BY <2>1, ConcatProperties, Zenon
        <5> QED
          BY <3>1, <5>1, Zenon
      <4> QED
        BY <2>1, <4>1
    <3>3. ASSUME NEW i \in 1 .. Len(results)
          PROVE  (h \o t)[i] = results[i]
      <4>1. CASE i = 1
        BY <2>1, <3>1, <3>2, <4>1
      <4>2. CASE i # 1
        <5>1. i - 1 \in 1 .. Len(t) /\ i \in 1 .. 1 + Len(t) /\ ~(i <= 1)
          BY <3>1, <4>2
        <5>2. t[i - 1] = results[(i - 1) + 1] /\ (i - 1) + 1 = i
          BY <3>1, <5>1
        <5> QED
          BY <3>2, <5>1, <5>2
      <4> QED
        BY <4>1, <4>2
    <3> QED
      BY <3>1, <3>2, <3>3 DEF t
  <2> QED
    BY <1>2, <2>2, SeqEqual DEF h
<1>8. (out \o <<Head(results)>>) \o Tail(results) = out \o (<<Head(results)>> \o Tail(results))
  <2>1. <<Head(results)>> \in Seq(Item)
    BY <1>3
  <2> QED
    BY <1>2, <1>3, <2>1, ConcatAssociative
<1>9. Consumer'
  BY <1>1, <1>2, <1>3, <1>4 DEF Consumer
<1> QED
  BY <1>5, <1>6, <1>7, <1>8, <1>9

LEMMA YieldKeepsPipeline ==
  ASSUME Consumer, YieldResult, YieldsAssumption
  PROVE  Pipeline' = Pipeline /\ Consumer' /\ ending # "break"
<1>1. /\ main = "await" /\ main' \in {"consume", "exit"} /\ out' = Append(out, cur)
      /\ cur' = 0 /\ results' = results
      /\ ending' = ending \/ main' = "exit"
  BY DEF YieldResult, Yield
<1>2. cur # 0 /\ cur \in Item /\ results \in Seq(Item) /\ out \in Seq(Item) /\ ending = "no"
  BY <1>1 DEF Consumer, Item
<1>3. Append(out, cur) \in Seq(Item) /\ Append(out, cur) = out \o <<cur>>
  BY <1>2, AppendProperties, AppendIsConcat
<1>4. Pipeline = (out \o <<cur>>) \o results
  BY <1>2 DEF Pipeline
<1>5. Pipeline' = (Append(out, cur) \o <<>>) \o results
  BY <1>1 DEF Pipeline
<1>6. Append(out, cur) \o <<>> = Append(out, cur)
  BY <1>3, ConcatEmptySeq
<1>7. Consumer'
  BY <1>1, <1>2, <1>3, PoolAssumption DEF Consumer
<1> QED
  BY <1>2, <1>3, <1>4, <1>5, <1>6, <1>7

LEMMA SelectExtendsPipeline ==
  ASSUME Consumer, NEW i \in Item, results' = Append(results, i),
         UNCHANGED <<out, cur, main, ending>>
  PROVE  Pipeline' = Append(Pipeline, i) /\ Consumer'
<1>1. results \in Seq(Item) /\ results' = results \o <<i>> /\ results' \in Seq(Item)
      /\ <<i>> \in Seq(Item)
  BY AppendProperties, AppendIsConcat DEF Consumer
<1>2. out \o Middle \in Seq(Item) /\ Pipeline \in Seq(Item)
      /\ Pipeline = (out \o Middle) \o results
  BY PipelineType, ConcatProperties DEF Consumer
<1>3. Pipeline' = (out \o Middle) \o results'
  BY DEF Pipeline, Middle
<1>4. (out \o Middle) \o (results \o <<i>>) = ((out \o Middle) \o results) \o <<i>>
  BY <1>1, <1>2, ConcatAssociative
<1>5. Append(Pipeline, i) = Pipeline \o <<i>>
  BY <1>2, AppendIsConcat
<1>6. Consumer'
  BY <1>1 DEF Consumer
<1> QED
  BY <1>1, <1>2, <1>3, <1>4, <1>5, <1>6

-----------------------------------------------------------------------------
(* Order.                                                                  *)

\* Steps that neither take nor enqueue an item.
LEMMA OrderKept ==
  ASSUME OrderInv, Pipeline' = Pipeline, Consumer', UNCHANGED <<item, idx>>,
         pc' \in [Workers -> Labels],
         \A w \in Workers : pc'[w] = "select" => pc[w] = "select" /\ nextMu' = nextMu,
         earlyBreak => earlyBreak', canceled => canceled',
         \/ earlyBreak' \/ canceled'
         \/ nextMu' = nextMu /\ (pulled => pulled')
  PROVE  OrderInv'
<1> USE DEF OrderInv
<1>1. Taking'
  BY DEF Taking
<1>2. Behind'
  BY DEF Behind
<1>3. Ordered'
  BY DEF Ordered
<1>4. Complete'
  BY DEF Complete
<1> QED
  BY <1>1, <1>2, <1>3, <1>4

LEMMA TakeItemOrder ==
  ASSUME OrderInv, NEW w \in Workers, TakeItem(w)
  PROVE  OrderInv'
<1> USE PoolAssumption DEF OrderInv
<1>1. /\ pc[w] = "next" /\ nextMu = "free" /\ idx' = idx + 1 /\ idx \in Nat
      /\ UNCHANGED <<main, pulled, cause, sink, ready, cur>>
  BY DEF TakeItem, next, Taking
<1>2. Pipeline' = Pipeline /\ Consumer' /\ earlyBreak' = earlyBreak /\ canceled' = canceled
  BY <1>1 DEF Pipeline, Consumer, earlyBreak, canceled, sink
<1>3. Pipeline \in Seq(Item) /\ Len(Pipeline) \in Nat
  BY PipelineType
<1>4. \A i \in 1 .. Len(Pipeline) : Pipeline[i] \in Nat
  BY <1>3, ElementOfSeq DEF Item
<1>5. \A v \in Workers : pc[v] # "select"
  BY <1>1 DEF Taking
<1>6. Ordered'
  BY <1>2 DEF Ordered
<1>7. CASE pc' = [pc EXCEPT ![w] = "leave"] /\ item' = item /\ (idx >= NumItems \/ pulled)
  <2>1. Taking'
    BY <1>1, <1>5, <1>7 DEF Taking, Labels
  <2>2. \A v \in Workers : pc'[v] # "select"
    BY <1>5, <1>7 DEF Taking
  <2>3. Behind'
    BY <1>1, <1>2, <1>4, <2>2 DEF Behind
  <2>4. Complete'
    BY <1>1, <1>2, <1>7, <2>2 DEF Complete
  <2> QED
    BY <1>2, <1>6, <2>1, <2>3, <2>4
<1>8. CASE pc' = [pc EXCEPT ![w] = "failed"] /\ item' = item /\ nextMu' = w
  <2>1. Taking'
    BY <1>1, <1>5, <1>8 DEF Taking, Labels
  <2>2. \A v \in Workers : pc'[v] # "select"
    BY <1>5, <1>8 DEF Taking
  <2>3. Behind'
    BY <1>1, <1>2, <1>4, <2>2 DEF Behind
  <2>4. Complete'
    BY <1>1, <1>2, <1>8, <2>2 DEF Complete
  <2> QED
    BY <1>2, <1>6, <2>1, <2>3, <2>4
<1>9. CASE /\ pc' = [pc EXCEPT ![w] = "select"] /\ item' = [item EXCEPT ![w] = idx + 1]
           /\ nextMu' = w /\ idx < NumItems /\ ~pulled
  <2>1. \A v \in Workers : pc'[v] = "select" => v = w
    BY <1>5, <1>9 DEF Taking
  <2>2. Taking'
    BY <1>1, <1>9, <2>1 DEF Taking, Labels, Item
  <2>3. Behind'
    BY <1>1, <1>2, <1>4 DEF Behind
  <2>4. Complete'
    BY <1>1, <1>2, <1>3, <1>9 DEF Complete
  <2> QED
    BY <1>2, <1>6, <2>2, <2>3, <2>4
<1> QED
  BY <1>7, <1>8, <1>9 DEF TakeItem, next, fail, goto, keeps

LEMMA SelectOrder ==
  ASSUME OrderInv, NEW w \in Workers, Select(w)
  PROVE  OrderInv'
<1> USE PoolAssumption DEF OrderInv
<1>1. /\ pc[w] = "select" /\ nextMu = w /\ item[w] = idx /\ item[w] \in Item
      /\ UNCHANGED <<cause, main, item, idx, pulled, closed, out, ending, cur>>
  BY DEF Select, Taking
<1>2. \A v \in Workers : pc[v] = "select" => v = w
  BY <1>1 DEF Taking
<1>3. earlyBreak' = earlyBreak /\ canceled' = canceled
  BY <1>1 DEF earlyBreak, canceled
<1>4. CASE /\ results' = Append(results, item[w]) /\ pc' = [pc EXCEPT ![w] = "call"]
           /\ nextMu' = "free"
  <2> DEFINE P == Pipeline
  <2>1. Pipeline' = Append(P, idx) /\ Consumer'
    BY <1>1, <1>4, SelectExtendsPipeline
  <2>2. P \in Seq(Item) /\ Len(P) \in Nat /\ idx \in Item /\ idx \in Nat
    BY <1>1, PipelineType DEF Taking
  <2>3. /\ Len(Pipeline') = Len(P) + 1 /\ Pipeline'[Len(P) + 1] = idx
        /\ \A i \in 1 .. Len(P) : Pipeline'[i] = P[i]
    BY <2>1, <2>2, AppendProperties
  <2>4. \A i \in 1 .. Len(P) : P[i] < idx
    BY <1>1 DEF Behind
  <2>5. \A v \in Workers : pc'[v] # "select"
    BY <1>2, <1>4 DEF Taking
  <2>6. \A i, j \in 1 .. Len(P) : i < j => P[i] < P[j]
    BY DEF Ordered
  <2>7. Complete => (~earlyBreak /\ ~canceled =>
                       (\A i \in 1 .. Len(P) : P[i] = i) /\ Len(P) = idx - 1)
    BY <1>1 DEF Complete
  <2>8. \A i \in 1 .. Len(P) + 1 : i \in 1 .. Len(P) \/ i = Len(P) + 1
    BY <2>2
  <2> HIDE DEF P
  <2>9. Taking'
    BY <1>1, <1>4, <2>5 DEF Taking, Labels
  <2>10. Behind'
    <3> SUFFICES ASSUME NEW i \in 1 .. Len(P) + 1
                 PROVE  Pipeline'[i] <= idx
      BY <1>1, <2>3, <2>5 DEF Behind
    <3>1. CASE i = Len(P) + 1
      BY <2>2, <2>3, <3>1
    <3>2. CASE i \in 1 .. Len(P)
      <4>1. P[i] < idx /\ Pipeline'[i] = P[i] /\ P[i] \in Item
        BY <2>2, <2>3, <2>4, <3>2, ElementOfSeq
      <4> QED
        BY <2>2, <4>1 DEF Item
    <3> QED
      BY <2>8, <3>1, <3>2
  <2>11. Ordered'
    <3> SUFFICES ASSUME NEW i \in 1 .. Len(P) + 1, NEW j \in 1 .. Len(P) + 1, i < j
                 PROVE  Pipeline'[i] < Pipeline'[j]
      BY <2>3 DEF Ordered
    <3>1. i \in 1 .. Len(P)
      BY <2>2
    <3> QED
      BY <2>2, <2>3, <2>4, <2>6, <2>8, <3>1
  <2>12. Complete'
    <3> SUFFICES ASSUME ~earlyBreak, ~canceled
                 PROVE  /\ \A i \in 1 .. Len(Pipeline') : Pipeline'[i] = i
                        /\ Len(Pipeline') = idx'
      BY <1>3, <2>5 DEF Complete
    <3>1. (\A i \in 1 .. Len(P) : P[i] = i) /\ Len(P) = idx - 1
      BY <2>7
    <3> QED
      BY <1>1, <2>2, <2>3, <2>8, <3>1
  <2> QED
    BY <2>1, <2>9, <2>10, <2>11, <2>12
<1>5. CASE /\ drops /\ pc' = [pc EXCEPT ![w] = "leave"] /\ nextMu' = "free" /\ results' = results
  <2>1. Pipeline' = Pipeline /\ Consumer'
    BY <1>1, <1>5 DEF Pipeline, Consumer
  <2>2. pc' \in [Workers -> Labels] /\ \A v \in Workers : pc'[v] # "select"
    BY <1>2, <1>5 DEF Taking, Labels
  <2>3. earlyBreak' \/ canceled'
    BY <1>3, <1>5 DEF drops
  <2> QED
    BY <1>1, <1>3, <2>1, <2>2, <2>3, OrderKept
<1>6. CASE pc' = [pc EXCEPT ![w] = "failed"] /\ nextMu' = nextMu /\ results' = results
  <2>1. Pipeline' = Pipeline /\ Consumer'
    BY <1>1, <1>6 DEF Pipeline, Consumer
  <2>2. pc' \in [Workers -> Labels] /\ \A v \in Workers : pc'[v] # "select"
    BY <1>2, <1>6 DEF Taking, Labels
  <2> QED
    BY <1>1, <1>3, <1>6, <2>1, <2>2, OrderKept
<1> QED
  BY <1>1, <1>4, <1>5, <1>6 DEF Select, fail, goto

LEMMA PoolOrder ==
  ASSUME OrderInv, PoolStep, UNCHANGED <<sink, ready, cur>>
  PROVE  OrderInv'
<1> DEFINE Quiet ==
      /\ UNCHANGED <<item, idx, nextMu>> /\ (pulled => pulled') /\ (canceled => canceled')
      /\ \/ main' = main
         \/ <<main, main'>> \in {<<"new", "defer">>, <<"launch", "consume">>}
         \/ main # "await" /\ main' \in {"lock", "done"}
      /\ pc' \in [Workers -> Labels]
      /\ \A w \in Workers : pc'[w] = "select" => pc[w] = "select"
<1>1. pc \in [Workers -> Labels] /\ Pipeline' = Pipeline /\ (earlyBreak => earlyBreak')
  BY DEF OrderInv, Taking, Pipeline, sink, earlyBreak
<1>2. ASSUME Quiet PROVE OrderInv'
  <2>1. Consumer'
    BY <1>2 DEF OrderInv, Consumer, sink
  <2> QED
    BY <1>1, <1>2, <2>1, OrderKept
<1>3. CASE Cancel
  BY <1>1, <1>2, <1>3 DEF Cancel, pool, canceled
<1>4. CASE Expire
  BY <1>1, <1>2, <1>4 DEF Expire, pool, canceled
<1>5. CASE OuterStop
  BY <1>1, <1>2, <1>5 DEF OuterStop, pool, canceled
<1>6. CASE \E e \in OuterEvents : OuterEvent(e)
  BY <1>1, <1>2, <1>6 DEF OuterEvent, pool, canceled
<1>7. CASE WithContext("defer")
  BY <1>1, <1>2, <1>7 DEF WithContext, canceled
<1>8. CASE StopOnIdle("consume")
  BY <1>1, <1>2, <1>8 DEF StopOnIdle, canceled
<1>9. CASE DeferredStop
  BY <1>1, <1>2, <1>9 DEF DeferredStop, canceled
<1>10. CASE Release
  BY <1>1, <1>2, <1>10 DEF Release, ctx, canceled
<1>11. ASSUME NEW w \in Workers, Go(w) \/ Top(w) \/ HandlerStop(w) \/ Leave(w) PROVE OrderInv'
  <2>1. /\ UNCHANGED <<main, item, idx, nextMu, pulled, cause>>
        /\ \E l \in Labels \ {"select"} : pc' = [pc EXCEPT ![w] = l]
    BY <1>11 DEF Go, Top, HandlerStop, Leave, goto, fail, Labels
  <2> QED
    BY <1>1, <1>2, <2>1 DEF canceled
<1>12. ASSUME NEW w \in Workers, NEW grace \in FnGraces, FnStop(w, grace) PROVE OrderInv'
  BY <1>1, <1>2, <1>12 DEF FnStop, pool, canceled
<1> QED
  BY <1>3, <1>4, <1>5, <1>6, <1>7, <1>8, <1>9, <1>10, <1>11, <1>12 DEF PoolStep

LEMMA ConsumerOrder ==
  ASSUME OrderInv, Defer \/ Close \/ Drained \/ Wait, UNCHANGED <<ready, cur>>
  PROVE  OrderInv'
<1>1. /\ UNCHANGED <<item, idx, nextMu, pulled, cause, pc, results, out, cur>>
      /\ \/ main' = main /\ ending' = ending
         \/ main # "await" /\ main' \in {"wait", "exit"} /\ ending # "break"
         \/ main = "defer" /\ main' = "launch" /\ ending' = ending
         \/ main = "wait" /\ main' = "exit" /\ ending' = ending
  BY DEF Defer, Close, Drained, Wait, ctx, pool, OrderInv, Consumer
<1>2. Pipeline' = Pipeline
  BY <1>1 DEF Pipeline
<1>3. Consumer'
  BY <1>1 DEF OrderInv, Consumer
<1>4. pc' \in [Workers -> Labels] /\ (canceled => canceled') /\ (earlyBreak => earlyBreak')
  BY <1>1 DEF OrderInv, Taking, canceled, earlyBreak
<1> QED
  BY <1>1, <1>2, <1>3, <1>4, OrderKept

LEMMA StepOrder ==
  ASSUME OrderInv, [Next]_vars
  PROVE  OrderInv'
<1>1. CASE PoolStep /\ UNCHANGED <<ready, cur>>
  BY <1>1, PoolOrder DEF PoolStep
<1>2. CASE (Defer \/ Close \/ Drained \/ Wait) /\ UNCHANGED <<ready, cur>>
  BY <1>2, ConsumerOrder
<1>3. CASE \E w \in Workers : TakeItem(w)
  BY <1>3, TakeItemOrder
<1>4. CASE \E w \in Workers : Select(w)
  BY <1>4, SelectOrder
<1>5. ASSUME NEW w \in Workers, Return(w) PROVE OrderInv'
  <2>1. /\ UNCHANGED <<main, item, idx, nextMu, pulled, cause, sink, cur>>
        /\ pc' = [pc EXCEPT ![w] = "top"]
    BY <1>5 DEF Return, ctx, goto
  <2>2. Pipeline' = Pipeline /\ Consumer'
    BY <2>1 DEF Pipeline, sink, OrderInv, Consumer
  <2>3. pc' \in [Workers -> Labels] /\ \A v \in Workers : pc'[v] = "select" => pc[v] = "select"
    BY <2>1 DEF OrderInv, Taking, Labels
  <2>4. (canceled => canceled') /\ (earlyBreak => earlyBreak')
    BY <2>1 DEF canceled, earlyBreak, sink
  <2> QED
    BY <2>1, <2>2, <2>3, <2>4, OrderKept
<1>6. CASE Receive
  <2>1. Pipeline' = Pipeline /\ Consumer'
    BY <1>6, ReceiveKeepsPipeline DEF OrderInv
  <2>2. UNCHANGED <<cause, ending, pc, item, idx, nextMu, pulled>> /\ pc \in [Workers -> Labels]
    BY <1>6 DEF Receive, ctx, OrderInv, Taking
  <2> QED
    BY <2>1, <2>2, OrderKept DEF canceled, earlyBreak
<1>7. CASE YieldResult
  <2>1. Pipeline' = Pipeline /\ Consumer' /\ ending # "break"
    BY <1>7, YieldKeepsPipeline, YieldsAssumption DEF OrderInv
  <2>2. UNCHANGED <<cause, pc, item, idx, nextMu, pulled>> /\ pc \in [Workers -> Labels]
    BY <1>7 DEF YieldResult, ctx, OrderInv, Taking
  <2> QED
    BY <2>1, <2>2, OrderKept DEF canceled, earlyBreak
<1>8. CASE UNCHANGED vars
  <2>1. UNCHANGED <<cause, main, pc, item, idx, nextMu, pulled, results, out, ending, cur>>
    BY <1>8 DEF vars, ctx, pool, sink
  <2> QED
    BY <2>1 DEF OrderInv, Consumer, Taking, Behind, Ordered, Complete, Pipeline,
                canceled, earlyBreak
<1> QED
  BY <1>1, <1>2, <1>3, <1>4, <1>5, <1>6, <1>7, <1>8 DEF Next, MapStep

LEMMA InitOrder == InitMap => OrderInv
<1> SUFFICES ASSUME InitMap PROVE OrderInv
  OBVIOUS
<1>1. /\ main = "new" /\ pc = [w \in Workers |-> "new"] /\ item = [w \in Workers |-> 0]
      /\ idx = 0 /\ results = <<>> /\ out = <<>> /\ ending = "no" /\ cur = 0
  BY DEF InitMap, InitResults, Init
<1>2. Consumer
  BY <1>1, EmptySeq, PoolAssumption DEF Consumer
<1>3. Pipeline = <<>> /\ Len(Pipeline) = 0
  BY <1>1, <1>2, ConcatEmptySeq, EmptySeq DEF Pipeline, Consumer
<1>4. Taking
  BY <1>1, PoolAssumption DEF Taking, Labels
<1>5. Behind /\ Ordered /\ Complete
  BY <1>1, <1>3 DEF Behind, Ordered, Complete
<1> QED
  BY <1>2, <1>4, <1>5 DEF OrderInv

THEOREM OrderInvariance == Spec => []OrderInv
<1> QED
  BY InitOrder, StepOrder, PTL DEF Spec

\* Results are yielded in the order of the input, each once, for every number
\* of workers and of items (map.go:26).
THEOREM ResultsOrdered == Spec => []Ordered
<1>1. OrderInv => Ordered
  BY DEF OrderInv
<1> QED
  BY <1>1, OrderInvariance, PTL

\* Without a break of the consumer or a cancelation, the Nth result is that of
\* the Nth item (map.go:26).
THEOREM NthResultIsNth == Spec => []NthIsNth
<1>1. OrderInv => NthIsNth
  BY DEF OrderInv, Complete, NthIsNth
<1> QED
  BY <1>1, OrderInvariance, PTL

-----------------------------------------------------------------------------
(* Promises: whoever enqueued a result channel fills it.                   *)

\* A worker in its callback stays there with its item until the result is sent.
LEMMA PromiseKept ==
  ASSUME PromisesKept, Pipeline' = Pipeline, ready \subseteq ready',
         \A w \in Workers : pc[w] = "call" =>
           (pc'[w] = "call" /\ item'[w] = item[w]) \/ item[w] \in ready'
  PROVE  PromisesKept'
BY DEF PromisesKept

LEMMA SelectPromise ==
  ASSUME OrderInv, PromisesKept, NEW w \in Workers, Select(w)
  PROVE  PromisesKept'
<1> USE DEF OrderInv
<1>1. /\ pc[w] = "select" /\ item[w] = idx /\ item[w] \in Item /\ pc \in [Workers -> Labels]
      /\ UNCHANGED <<main, item, out, ending, cur, ready>>
      /\ \E l \in Labels : pc' = [pc EXCEPT ![w] = l]
  BY DEF Select, Taking, goto, fail, Labels
<1>2. \A v \in Workers : pc[v] = "call" => pc'[v] = "call" /\ item'[v] = item[v]
  BY <1>1
<1>3. CASE results' = results
  <2>1. Pipeline' = Pipeline
    BY <1>1, <1>3 DEF Pipeline
  <2> QED
    BY <1>1, <1>2, <2>1, PromiseKept
<1>4. CASE results' = Append(results, item[w]) /\ pc' = [pc EXCEPT ![w] = "call"]
  <2> DEFINE P == Pipeline
  <2>1. Pipeline' = Append(P, idx)
    BY <1>1, <1>4, SelectExtendsPipeline
  <2>2. P \in Seq(Item) /\ Len(P) \in Nat /\ idx \in Item
    BY <1>1, PipelineType
  <2>3. /\ Len(Pipeline') = Len(P) + 1 /\ Pipeline'[Len(P) + 1] = idx
        /\ \A i \in 1 .. Len(P) : Pipeline'[i] = P[i]
    BY <2>1, <2>2, AppendProperties
  <2>4. pc'[w] = "call" /\ item'[w] = idx
    BY <1>1, <1>4
  <2>5. \A i \in 1 .. Len(P) :
          P[i] \in ready \/ \E v \in Workers : pc[v] = "call" /\ item[v] = P[i]
    BY DEF PromisesKept
  <2> HIDE DEF P
  <2> SUFFICES ASSUME NEW i \in 1 .. Len(P) + 1
               PROVE  \/ Pipeline'[i] \in ready
                      \/ \E v \in Workers : pc'[v] = "call" /\ item'[v] = Pipeline'[i]
    BY <1>1, <2>3 DEF PromisesKept
  <2>6. CASE i = Len(P) + 1
    BY <2>3, <2>4, <2>6
  <2>7. CASE i \in 1 .. Len(P)
    BY <1>2, <2>3, <2>5, <2>7
  <2> QED
    BY <2>2, <2>6, <2>7
<1> QED
  BY <1>1, <1>3, <1>4 DEF Select, goto

LEMMA StepPromise ==
  ASSUME OrderInv, PromisesKept, [Next]_vars
  PROVE  PromisesKept'
<1>1. pc \in [Workers -> Labels] /\ item \in [Workers -> 0 .. NumItems]
  BY DEF OrderInv, Taking
<1>2. CASE PoolStep /\ UNCHANGED <<ready, cur>>
  <2>1. Pipeline' = Pipeline /\ ready' = ready
    BY <1>2 DEF PoolStep, Pipeline, sink
  <2>2. item' = item /\ \A v \in Workers : pc[v] = "call" => pc'[v] = "call"
    <3>1. ASSUME NEW w \in Workers, Go(w) \/ Top(w) \/ HandlerStop(w) \/ Leave(w)
          PROVE  item' = item /\ \A v \in Workers : pc[v] = "call" => pc'[v] = "call"
      <4>1. /\ item' = item /\ pc[w] # "call"
            /\ \E l \in Labels : pc' = [pc EXCEPT ![w] = l]
        BY <3>1 DEF Go, Top, HandlerStop, Leave, goto, fail, Labels
      <4> QED
        BY <1>1, <4>1
    <3>2. CASE UNCHANGED <<pc, item>>
      BY <3>2
    <3> QED
      BY <1>2, <3>1, <3>2 DEF PoolStep, Cancel, Expire, OuterStop, OuterEvent, WithContext,
           StopOnIdle, DeferredStop, Release, FnStop, pool
  <2> QED
    BY <2>1, <2>2, PromiseKept
<1>3. CASE (Defer \/ Close \/ Drained \/ Wait) /\ UNCHANGED <<ready, cur>>
  <2>1. UNCHANGED <<pc, item, results, out, cur, ready>>
    BY <1>3 DEF Defer, Close, Drained, Wait, pool
  <2>2. Pipeline' = Pipeline
    BY <2>1 DEF Pipeline
  <2> QED
    BY <2>1, <2>2, PromiseKept
<1>4. ASSUME NEW w \in Workers, TakeItem(w) PROVE PromisesKept'
  <2>1. /\ pc[w] = "next" /\ UNCHANGED <<sink, ready, cur>>
        /\ \E l \in Labels : pc' = [pc EXCEPT ![w] = l]
        /\ item' = item \/ item' = [item EXCEPT ![w] = idx + 1]
    BY <1>4 DEF TakeItem, next, goto, fail, Labels
  <2>2. \A v \in Workers : pc[v] = "call" => pc'[v] = "call" /\ item'[v] = item[v]
    BY <1>1, <2>1
  <2>3. Pipeline' = Pipeline
    BY <2>1 DEF Pipeline, sink
  <2> QED
    BY <2>1, <2>2, <2>3, PromiseKept
<1>5. CASE \E w \in Workers : Select(w)
  BY <1>5, SelectPromise
<1>6. ASSUME NEW w \in Workers, Return(w) PROVE PromisesKept'
  <2>1. /\ UNCHANGED <<item, sink, cur>> /\ pc' = [pc EXCEPT ![w] = "top"]
        /\ ready' = ready \cup {item[w]}
    BY <1>6 DEF Return, goto, fulfil
  <2>2. Pipeline' = Pipeline
    BY <2>1 DEF Pipeline, sink
  <2>3. \A v \in Workers : pc[v] = "call" => pc'[v] = "call" \/ item[v] \in ready'
    BY <1>1, <2>1
  <2> QED
    BY <2>1, <2>2, <2>3, PromiseKept
<1>7. CASE Receive \/ YieldResult
  <2>1. UNCHANGED <<pc, item, ready>>
    BY <1>7 DEF Receive, YieldResult
  <2>2. Pipeline' = Pipeline
    BY <1>7, ReceiveKeepsPipeline, YieldKeepsPipeline, YieldsAssumption DEF OrderInv
  <2> QED
    BY <2>1, <2>2, PromiseKept
<1>8. CASE UNCHANGED vars
  BY <1>8 DEF vars, pool, sink, PromisesKept, Pipeline
<1> QED
  BY <1>2, <1>3, <1>4, <1>5, <1>6, <1>7, <1>8 DEF Next, MapStep

\* A result channel in the pipeline has its result or a worker in the callback
\* that will send it: yieldOrdered never waits for a worker that left
\* (map.go:377).
THEOREM PromisesAreKept == Spec => []PromisesKept
<1>1. InitMap => PromisesKept
  <2> SUFFICES ASSUME InitMap PROVE PromisesKept
    OBVIOUS
  <2>1. Consumer /\ results = <<>> /\ out = <<>> /\ cur = 0
    BY InitOrder DEF OrderInv, InitMap, InitResults
  <2>2. Len(Pipeline) = 0
    BY <2>1, ConcatEmptySeq, EmptySeq DEF Pipeline, Consumer
  <2> QED
    BY <2>2 DEF PromisesKept
<1> QED
  BY <1>1, StepPromise, OrderInvariance, PTL DEF Spec

-----------------------------------------------------------------------------
(* The results channel is closed behind the last worker.                   *)

\* The deferred callback runs in the hard stop, and a hard stop that is not the
\* end of a grace period has no worker left.
HardInv ==
  /\ mode = "hard" => outcome \in {"stopped", "expired"}
  /\ outcome = "stopped" => mode = "hard" /\ live = {}
  /\ closed \/ duty # "none" => mode = "hard"

\* Every stop of s keeps it, whoever calls it.
LEMMA SoftStopHard ==
  ASSUME HardInv, NEW a, NEW grace, softStop(a, grace), live' = live, closed' = closed
  PROVE  HardInv'
BY DEF HardInv, softStop, settle, unsettled

LEMMA StepHard ==
  ASSUME HardInv, [Next]_vars
  PROVE  HardInv'
<1>1. CASE PoolStep
  <2>1. closed' = closed
    BY <1>1 DEF PoolStep, sink
  <2>2. CASE Cancel
    BY <2>1, <2>2 DEF Cancel, HardInv
  <2>3. CASE Expire
    BY <2>1, <2>3 DEF Expire, timeIsUp, settle, HardInv
  <2>4. CASE OuterStop
    BY <2>1, <2>4, SoftStopHard DEF OuterStop
  <2>5. CASE \E e \in OuterEvents : OuterEvent(e)
    BY <2>1, <2>5 DEF OuterEvent, HardInv
  <2>6. CASE WithContext("defer")
    BY <2>1, <2>6, SoftStopHard DEF WithContext, unsettled, HardInv
  <2>7. CASE StopOnIdle("consume")
    BY <2>1, <2>7, SoftStopHard DEF StopOnIdle, unsettled, HardInv
  <2>8. CASE DeferredStop
    BY <2>1, <2>8, SoftStopHard DEF DeferredStop
  <2>9. CASE Release
    BY <2>1, <2>9 DEF Release, ctx, HardInv
  <2>10. ASSUME NEW w \in Workers, Go(w) PROVE HardInv'
    BY <2>1, <2>10 DEF Go, admits, HardInv
  <2>11. ASSUME NEW w \in Workers, Top(w) PROVE HardInv'
    BY <2>1, <2>11 DEF Top, HardInv
  <2>12. ASSUME NEW w \in Workers, HandlerStop(w) PROVE HardInv'
    BY <2>1, <2>12, SoftStopHard DEF HandlerStop
  <2>13. ASSUME NEW w \in Workers, Leave(w) PROVE HardInv'
    BY <2>1, <2>13 DEF Leave, isLast, settle, unsettled, HardInv
  <2>14. ASSUME NEW w \in Workers, NEW grace \in FnGraces, FnStop(w, grace) PROVE HardInv'
    BY <2>1, <2>14, SoftStopHard DEF FnStop
  <2> QED
    BY <1>1, <2>2, <2>3, <2>4, <2>5, <2>6, <2>7, <2>8, <2>9, <2>10, <2>11, <2>12, <2>13,
       <2>14 DEF PoolStep
<1>2. CASE Defer
  BY <1>2 DEF Defer, HardInv
<1>3. CASE Close
  BY <1>3 DEF Close, HardInv
<1>4. CASE Drained \/ Wait
  BY <1>4 DEF Drained, Wait, ctx, HardInv
<1>5. ASSUME NEW w \in Workers, TakeItem(w) \/ Select(w) \/ Return(w) PROVE HardInv'
  BY <1>5 DEF TakeItem, next, Select, Return, ctx, sink, HardInv
<1>6. CASE Receive \/ YieldResult
  BY <1>6 DEF Receive, YieldResult, ctx, HardInv
<1>7. CASE UNCHANGED vars
  BY <1>7 DEF vars, ctx, sink, HardInv
<1> QED
  BY <1>1, <1>2, <1>3, <1>4, <1>5, <1>6, <1>7 DEF Next, MapStep

\* The results channel is closed under a running worker only when the grace
\* period is over (map.go:58): no other send panics.
THEOREM ClosedBehindWorkers == Spec => []ClosedUnderNoWorker
<1>1. InitMap => HardInv
  BY DEF InitMap, InitResults, Init, HardInv
<1>2. HardInv => ClosedUnderNoWorker
  BY DEF HardInv, ClosedUnderNoWorker
<1> QED
  BY <1>1, <1>2, StepHard, PTL DEF Spec

-----------------------------------------------------------------------------
(* The pool implements Lifecycle for the one State s.                      *)

Running == {"top", "next", "select", "call", "failed", "leave"}

\* A worker is a task of s exactly while it runs, and a soft s has tasks.
ContextInv ==
  /\ mode \in {"open", "soft", "hard"}
  /\ mode = "soft" => live # {}
  /\ live \subseteq Workers /\ pc \in [Workers -> Labels]
  /\ \A w \in Workers : w \in live <=> pc[w] \in Running

LEMMA SameTree ==
  /\ ~Nested!HasParent("s")
  /\ Nested!Covers("s", "s")
<1>1. Nested!Depth("s") = 1
  BY DEF Nested!Depth
<1> QED
  BY <1>1 DEF Nested!HasParent, Nested!Covers

LEMMA UnchangedMaps ==
  ASSUME UNCHANGED <<mode, live, outcome>>
  PROVE  UNCHANGED Nested!vars
BY DEF Nested!vars

\* The four ways to call s.Stop: too late, on an idle s, with no grace period,
\* and with one.
LEMMA SoftStopMaps ==
  ASSUME ContextInv, NEW a, NEW grace, softStop(a, grace), live' = live,
         \/ pc' = pc
         \/ \E w \in Workers : \E l \in Running :
              pc[w] \in Running /\ pc' = [pc EXCEPT ![w] = l]
  PROVE  ContextInv' /\ [Nested!Next]_(Nested!vars)
<1>0. /\ live' \subseteq Workers /\ pc' \in [Workers -> Labels]
      /\ \A w \in Workers : w \in live' <=> pc'[w] \in Running
  BY DEF ContextInv, Running, Labels
<1>1. CASE mode = "hard" /\ unsettled
  <2>1. UNCHANGED <<mode, outcome>>
    BY <1>1 DEF unsettled
  <2> QED
    BY <1>0, <2>1, UnchangedMaps DEF ContextInv
<1>2. CASE mode # "hard" /\ live = {} /\ settle(a, "stopped")
  <2>1. mode = "open" /\ mode' = "hard" /\ outcome' = "stopped"
    BY <1>2 DEF ContextInv, settle
  <2>2. Nested!StopIdle("s")
    BY <1>2, <2>1 DEF Nested!StopIdle, Nested!Settle
  <2> QED
    BY <1>0, <1>2, <2>1, <2>2 DEF ContextInv, Nested!Next
<1>3. CASE mode # "hard" /\ live # {} /\ settle(a, "expired")
  <2>1. mode' = "hard" /\ outcome' = "expired"
    BY <1>3 DEF settle
  <2>2. Nested!Expire("s")
    BY <1>3, <2>1 DEF Nested!Expire, Nested!Settle
  <2> QED
    BY <1>0, <1>3, <2>1, <2>2 DEF ContextInv, Nested!Next
<1>4. CASE mode # "hard" /\ live # {} /\ mode' = "soft" /\ outcome' = outcome
  <2>1. ContextInv'
    BY <1>0, <1>4 DEF ContextInv
  <2>2. CASE mode = "soft"
    BY <1>4, <2>1, <2>2, UnchangedMaps
  <2>3. CASE mode = "open"
    <3>1. Nested!Drain("s")
      BY <1>4, <2>3 DEF Nested!Drain
    <3> QED
      BY <2>1, <3>1 DEF Nested!Next
  <2> QED
    BY <1>4, <2>1, <2>2, <2>3 DEF ContextInv
<1> QED
  BY <1>1, <1>2, <1>3, <1>4 DEF softStop

LEMMA GoMaps ==
  ASSUME ContextInv, NEW w \in Workers, Go(w)
  PROVE  ContextInv' /\ [Nested!Next]_(Nested!vars)
<1>1. pc[w] = "new" /\ w \notin live /\ UNCHANGED <<mode, outcome>>
  BY DEF Go, ContextInv, Running
<1>2. CASE mode = "open" /\ live' = live \cup {w} /\ pc' = [pc EXCEPT ![w] = "top"]
  <2>1. ContextInv'
    BY <1>1, <1>2 DEF ContextInv, Running, Labels
  <2>2. Nested!Enter(w, "s")
    BY <1>1, <1>2, SameTree DEF Nested!Enter
  <2> QED
    BY <2>1, <2>2 DEF Nested!Next
<1>3. CASE live' = live /\ pc' = [pc EXCEPT ![w] = "rejected"]
  <2>1. ContextInv'
    BY <1>1, <1>3 DEF ContextInv, Running, Labels
  <2> QED
    BY <1>1, <1>3, <2>1, UnchangedMaps
<1> QED
  BY <1>2, <1>3 DEF Go, admits

LEMMA LeaveMaps ==
  ASSUME ContextInv, NEW w \in Workers, Leave(w)
  PROVE  ContextInv' /\ [Nested!Next]_(Nested!vars)
<1>1. w \in live /\ live' = live \ {w} /\ pc' = [pc EXCEPT ![w] = "ended"]
  BY DEF Leave, goto, ContextInv, Running
<1>2. /\ live' \subseteq Workers /\ pc' \in [Workers -> Labels]
      /\ \A v \in Workers : v \in live' <=> pc'[v] \in Running
  BY <1>1 DEF ContextInv, Running, Labels
<1>3. CASE live = {w} /\ mode # "hard" /\ settle(w, "stopped")
  <2>1. mode' = "hard" /\ outcome' = "stopped"
    BY <1>3 DEF settle
  <2>2. Nested!Leave(w, "s")
    BY <1>1, <1>3, <2>1, SameTree DEF Nested!Leave, Nested!Settle
  <2> QED
    BY <1>2, <2>1, <2>2 DEF ContextInv, Nested!Next
<1>4. CASE (live # {w} \/ mode # "soft") /\ unsettled
  <2>1. UNCHANGED <<mode, outcome>>
    BY <1>4 DEF unsettled
  <2>2. Nested!Leave(w, "s")
    BY <1>1, <1>4, <2>1, SameTree DEF Nested!Leave
  <2> QED
    BY <1>1, <1>2, <1>4, <2>1, <2>2 DEF ContextInv, Nested!Next
<1> QED
  BY <1>3, <1>4 DEF Leave, isLast

\* Steps that leave s alone, and move a worker within what it runs.
LEMMA QuietMaps ==
  ASSUME ContextInv, UNCHANGED <<mode, live, outcome>>,
         \/ pc' = pc
         \/ \E w \in Workers : \E l \in Running :
              pc[w] \in Running /\ pc' = [pc EXCEPT ![w] = l]
  PROVE  ContextInv' /\ [Nested!Next]_(Nested!vars)
<1>1. ContextInv'
  BY DEF ContextInv, Running, Labels
<1> QED
  BY <1>1, UnchangedMaps

LEMMA StepMaps ==
  ASSUME ContextInv, [Next]_vars
  PROVE  ContextInv' /\ [Nested!Next]_(Nested!vars)
<1> DEFINE Goal == ContextInv' /\ [Nested!Next]_(Nested!vars)
<1> HIDE DEF Goal
<1> SUFFICES Goal
  BY DEF Goal
<1>0. ASSUME UNCHANGED <<mode, live, outcome>>,
             \/ pc' = pc
             \/ \E w \in Workers : \E l \in Running :
                  pc[w] \in Running /\ pc' = [pc EXCEPT ![w] = l]
      PROVE  Goal
  BY <1>0, QuietMaps DEF Goal
<1>1. ASSUME NEW a, NEW grace, softStop(a, grace), live' = live,
             \/ pc' = pc
             \/ \E w \in Workers : \E l \in Running :
                  pc[w] \in Running /\ pc' = [pc EXCEPT ![w] = l]
      PROVE  Goal
  BY <1>1, SoftStopMaps DEF Goal
<1>2. CASE PoolStep
  <2>1. CASE Cancel
    BY <1>0, <2>1 DEF Cancel, pool
  <2>2. CASE Expire
    <3>1. mode # "hard" /\ live # {} /\ settle("other", "expired") /\ UNCHANGED <<live, pc>>
      BY <2>2 DEF Expire, timeIsUp, pool
    <3>2. softStop("other", "now")
      BY <3>1 DEF softStop
    <3> QED
      BY <1>1, <3>1, <3>2
  <2>3. CASE OuterStop
    BY <1>1, <2>3 DEF OuterStop, pool
  <2>4. CASE \E e \in OuterEvents : OuterEvent(e)
    BY <1>0, <2>4 DEF OuterEvent, pool
  <2>5. CASE WithContext("defer")
    BY <1>0, <1>1, <2>5 DEF WithContext, unsettled
  <2>6. CASE StopOnIdle("consume")
    BY <1>0, <1>1, <2>6 DEF StopOnIdle, unsettled
  <2>7. CASE DeferredStop
    BY <1>1, <2>7 DEF DeferredStop
  <2>8. CASE Release
    BY <1>0, <2>8 DEF Release, ctx
  <2>9. ASSUME NEW w \in Workers, Go(w) PROVE Goal
    BY <2>9, GoMaps DEF Goal
  <2>10. ASSUME NEW w \in Workers, Top(w) PROVE Goal
    BY <1>0, <2>10 DEF Top, goto, fail, Running
  <2>11. ASSUME NEW w \in Workers, HandlerStop(w) PROVE Goal
    <3>1. UNCHANGED live /\ softStop(w, Grace) /\ pc[w] = "failed"
          /\ pc' = [pc EXCEPT ![w] = "leave"]
      BY <2>11 DEF HandlerStop, goto
    <3> QED
      BY <1>1, <3>1 DEF Running
  <2>12. ASSUME NEW w \in Workers, Leave(w) PROVE Goal
    BY <2>12, LeaveMaps DEF Goal
  <2>13. ASSUME NEW w \in Workers, NEW grace \in FnGraces, FnStop(w, grace) PROVE Goal
    BY <1>1, <2>13 DEF FnStop, pool
  <2> QED
    BY <1>2, <2>1, <2>2, <2>3, <2>4, <2>5, <2>6, <2>7, <2>8, <2>9, <2>10, <2>11, <2>12,
       <2>13 DEF PoolStep
<1>3. CASE Defer \/ Close \/ Drained \/ Wait
  BY <1>0, <1>3 DEF Defer, Close, Drained, Wait, ctx, pool
<1>4. ASSUME NEW w \in Workers, TakeItem(w) \/ Select(w) \/ Return(w) PROVE Goal
  BY <1>0, <1>4 DEF TakeItem, next, Select, Return, ctx, goto, fail, Running
<1>5. CASE Receive \/ YieldResult
  BY <1>0, <1>5 DEF Receive, YieldResult, ctx
<1>6. CASE UNCHANGED vars
  BY <1>0, <1>6 DEF vars, ctx, pool
<1> QED
  BY <1>2, <1>3, <1>4, <1>5, <1>6 DEF Next, MapStep

LEMMA InitMaps == InitMap => ContextInv /\ Nested!Init
<1> SUFFICES ASSUME InitMap PROVE ContextInv /\ Nested!Init
  OBVIOUS
<1>1. mode = "open" /\ live = {} /\ outcome = "none" /\ pc = [w \in Workers |-> "new"]
  BY DEF InitMap, InitResults, Init
<1> QED
  BY <1>1 DEF ContextInv, Labels, Running, Nested!Init

\* Whatever workers, callbacks, the consumer and the outer context do, s moves
\* as a State may move, and is stopped behind its last task or by the end of a
\* grace period.
THEOREM PoolUsesContext == Spec => UsesContext
<1> QED
  BY InitMaps, StepMaps, PTL DEF Spec, UsesContext, Nested!Spec

-----------------------------------------------------------------------------
(* Nothing is lost silently.                                               *)

\* How s and the call end.
EndInv ==
  /\ cause \in {"none", "outer"} \/ (cause = outcome /\ mode = "hard")
  /\ main \in {"new", "defer", "launch"} \/ \A w \in Workers : pc[w] # "new"
  /\ pulled => main = "done"
  /\ main = "wait" => closed /\ results = <<>> /\ ending = "drained"
  /\ ending = "drained" => main \in {"wait", "exit", "lock", "done"}
  /\ ending = "drained" /\ main # "wait" => canceled

\* Nobody has had a reason to drop an item.
Undropped == cause \in {"none", "stopped"} /\ ending # "break" /\ errs = {} /\ ~pulled

AllTaken ==
  Undropped =>
    /\ \A i \in 1 .. Len(Pipeline) : Pipeline[i] = i
    /\ nextMu = "free" => Len(Pipeline) = IF idx < NumItems THEN idx ELSE NumItems
    /\ nextMu # "free" => \E w \in Workers : pc[w] = "select"
    /\ \A w \in Workers :
         /\ pc[w] = "select" => Len(Pipeline) = idx - 1
         /\ pc[w] \in {"leave", "ended"} => idx >= NumItems
         /\ pc[w] \notin {"rejected", "failed"}

LEMMA SoftStopEnds ==
  ASSUME EndInv, NEW a, NEW grace, softStop(a, grace), cause' = cause
  PROVE  cause' \in {"none", "outer"} \/ (cause' = outcome' /\ mode' = "hard")
BY DEF EndInv, softStop, settle, unsettled

LEMMA PoolEnds ==
  ASSUME HardInv, ContextInv, EndInv, PoolStep, UNCHANGED <<ready, cur>>
  PROVE  EndInv' /\ (Undropped' => Undropped)
<1> DEFINE Goal == EndInv' /\ (Undropped' => Undropped)
<1> HIDE DEF Goal
<1> SUFFICES Goal
  BY DEF Goal
<1>1. UNCHANGED <<results, closed, out, ending, final>>
  BY DEF PoolStep, sink
<1>2. ASSUME cause' \in {"none", "outer"} \/ (cause' = outcome' /\ mode' = "hard"),
             canceled => cause' = cause, errs \subseteq errs',
             UNCHANGED <<main, pulled>>,
             \A w \in Workers : pc'[w] = "new" => pc[w] = "new"
      PROVE  Goal
  BY <1>1, <1>2 DEF Goal, EndInv, Undropped, canceled
<1>3. CASE Cancel
  BY <1>2, <1>3 DEF Cancel, pool, HardInv, EndInv, canceled
<1>4. CASE Expire
  BY <1>2, <1>4 DEF Expire, timeIsUp, settle, pool, EndInv
<1>5. CASE OuterStop
  BY <1>2, <1>5, SoftStopEnds DEF OuterStop, pool
<1>6. CASE \E e \in OuterEvents : OuterEvent(e)
  BY <1>2, <1>6 DEF OuterEvent, pool, EndInv, canceled
<1>7. ASSUME cause' \in {"none", "outer"} \/ (cause' = outcome' /\ mode' = "hard"),
             UNCHANGED <<cause, errs, pc>>,
             \/ main = "new" /\ main' = "defer" /\ pulled' = pulled
             \/ main = "launch" /\ main' = "consume" /\ pulled' = pulled
                /\ \A w \in Workers : pc[w] # "new"
             \/ main = "exit" /\ main' = "lock" /\ pulled' = pulled
             \/ main = "lock" /\ main' = "done"
      PROVE  Goal
  BY <1>1, <1>7 DEF Goal, EndInv, Undropped, canceled
<1>8. CASE WithContext("defer")
  BY <1>7, <1>8, SoftStopEnds DEF WithContext, unsettled, EndInv
<1>9. CASE StopOnIdle("consume")
  BY <1>7, <1>9, SoftStopEnds DEF StopOnIdle, unsettled, EndInv
<1>10. CASE DeferredStop
  BY <1>7, <1>10, SoftStopEnds DEF DeferredStop
<1>11. CASE Release
  BY <1>7, <1>11 DEF Release, ctx, EndInv
<1>12. ASSUME NEW w \in Workers, Go(w) \/ Top(w) \/ HandlerStop(w) \/ Leave(w) PROVE Goal
  <2>1. /\ UNCHANGED <<main, pulled, cause>> /\ errs \subseteq errs'
        /\ \E l \in Labels \ {"new"} : pc' = [pc EXCEPT ![w] = l]
    BY <1>12 DEF Go, Top, HandlerStop, Leave, goto, fail, Labels
  <2>2. \A v \in Workers : pc'[v] = "new" => pc[v] = "new"
    BY <2>1 DEF ContextInv
  <2>3. cause' \in {"none", "outer"} \/ (cause' = outcome' /\ mode' = "hard")
    BY <1>12, SoftStopEnds DEF Go, Top, HandlerStop, Leave, settle, unsettled, EndInv
  <2> QED
    BY <1>2, <2>1, <2>2, <2>3
<1>13. ASSUME NEW w \in Workers, NEW grace \in FnGraces, FnStop(w, grace) PROVE Goal
  BY <1>2, <1>13, SoftStopEnds DEF FnStop, pool
<1> QED
  BY <1>3, <1>4, <1>5, <1>6, <1>8, <1>9, <1>10, <1>11, <1>12, <1>13 DEF PoolStep

LEMMA StepEnds ==
  ASSUME OrderInv, HardInv, ContextInv, EndInv, [Next]_vars
  PROVE  EndInv' /\ (Undropped' => Undropped)
<1> DEFINE Goal == EndInv' /\ (Undropped' => Undropped)
<1> HIDE DEF Goal
<1> SUFFICES Goal
  BY DEF Goal
<1>1. CASE PoolStep /\ UNCHANGED <<ready, cur>>
  BY <1>1, PoolEnds DEF Goal
<1>2. CASE Defer
  BY <1>2 DEF Goal, Defer, EndInv, Undropped, canceled
<1>3. CASE Close
  BY <1>3 DEF Goal, Close, pool, EndInv, Undropped, canceled
<1>4. CASE Drained
  BY <1>4 DEF Goal, Drained, ctx, EndInv, Undropped, canceled, OrderInv, Consumer
<1>5. CASE Wait
  BY <1>5 DEF Goal, Wait, ctx, EndInv, Undropped, canceled
<1>6. ASSUME NEW w \in Workers, TakeItem(w) \/ Select(w) \/ Return(w) PROVE Goal
  <2>1. /\ UNCHANGED <<cause, outcome, mode, main, pulled, closed, ending>> /\ errs \subseteq errs'
        /\ results' = results \/ ~closed
        /\ \E l \in Labels \ {"new"} : pc' = [pc EXCEPT ![w] = l]
    BY <1>6 DEF TakeItem, next, Select, Return, ctx, sink, goto, fail, Labels
  <2>2. \A v \in Workers : pc'[v] = "new" => pc[v] = "new"
    BY <2>1 DEF ContextInv
  <2> QED
    BY <2>1, <2>2 DEF Goal, EndInv, Undropped, canceled
<1>7. CASE Receive
  BY <1>7 DEF Goal, Receive, ctx, EndInv, Undropped, canceled
<1>8. CASE YieldResult
  <2>1. /\ UNCHANGED <<cause, outcome, mode, pc, pulled, errs>>
        /\ main = "await" /\ ending = "no"
        /\ \/ main' = "consume" /\ ending' = ending
           \/ main' = "exit" /\ ending' \in {"break", "panic"}
    BY <1>8, YieldsAssumption DEF YieldResult, Yield, ctx, OrderInv, Consumer
  <2> QED
    BY <2>1 DEF Goal, EndInv, Undropped, canceled
<1>9. CASE UNCHANGED vars
  BY <1>9 DEF Goal, vars, ctx, pool, sink, EndInv, Undropped, canceled
<1> QED
  BY <1>1, <1>2, <1>3, <1>4, <1>5, <1>6, <1>7, <1>8, <1>9 DEF Next, MapStep

\* Where a worker may go while nobody takes or enqueues an item.
Moves(w, l) ==
  /\ pc[w] # "select" /\ l \in Labels \ {"select", "rejected", "failed"}
  /\ l \in {"leave", "ended"} => pc[w] \in {"leave", "ended"}

LEMMA TakenKept ==
  ASSUME AllTaken, Undropped' => Undropped, pc \in [Workers -> Labels],
         Pipeline' = Pipeline, UNCHANGED <<idx, nextMu>>,
         pc' = pc \/ \E w \in Workers : \E l : Moves(w, l) /\ pc' = [pc EXCEPT ![w] = l]
  PROVE  AllTaken'
BY DEF AllTaken, Moves, Labels

LEMMA PoolTaken ==
  ASSUME ContextInv, AllTaken, Undropped' => Undropped,
         PoolStep, UNCHANGED <<ready, cur>>
  PROVE  AllTaken'
<1> DEFINE Quiet ==
      \/ pc' = pc
      \/ \E w \in Workers : \E l : Moves(w, l) /\ pc' = [pc EXCEPT ![w] = l]
<1>1. pc \in [Workers -> Labels] /\ Pipeline' = Pipeline /\ UNCHANGED <<idx, nextMu>>
  BY DEF ContextInv, Pipeline, PoolStep, sink, Cancel, Expire, OuterStop, OuterEvent,
         WithContext, StopOnIdle, DeferredStop, Release, Go, Top, HandlerStop, Leave,
         FnStop, pool
<1>2. ASSUME Undropped => Quiet PROVE AllTaken'
  <2>1. CASE ~Undropped'
    BY <2>1 DEF AllTaken
  <2>2. CASE Undropped'
    BY <1>1, <1>2, <2>2, TakenKept
  <2> QED
    BY <2>1, <2>2
<1>3. ASSUME NEW w \in Workers, Go(w) PROVE AllTaken'
  <2>1. CASE errs' # {}
    BY <2>1 DEF AllTaken, Undropped
  <2>2. CASE errs' = {}
    <3>1. Moves(w, "top") /\ pc' = [pc EXCEPT ![w] = "top"]
      BY <1>3, <2>2 DEF Go, Moves, Labels
    <3> QED
      BY <1>2, <3>1
  <2> QED
    BY <2>1, <2>2
<1>4. ASSUME NEW w \in Workers, Top(w) PROVE AllTaken'
  <2>1. CASE errs' # {}
    BY <2>1 DEF AllTaken, Undropped
  <2>2. CASE errs' = {}
    <3>1. Moves(w, "next") /\ pc' = [pc EXCEPT ![w] = "next"]
      BY <1>4, <2>2 DEF Top, Moves, goto, fail, Labels
    <3> QED
      BY <1>2, <3>1
  <2> QED
    BY <2>1, <2>2
<1>5. ASSUME NEW w \in Workers, HandlerStop(w) PROVE AllTaken'
  <2>1. pc[w] = "failed"
    BY <1>5 DEF HandlerStop
  <2> QED
    BY <2>1 DEF AllTaken
<1>6. ASSUME NEW w \in Workers, Leave(w) PROVE AllTaken'
  <2>1. Moves(w, "ended") /\ pc' = [pc EXCEPT ![w] = "ended"]
    BY <1>6 DEF Leave, Moves, goto, Labels
  <2> QED
    BY <1>2, <2>1
<1>7. CASE pc' = pc
  BY <1>2, <1>7
<1> QED
  BY <1>3, <1>4, <1>5, <1>6, <1>7 DEF PoolStep, Cancel, Expire, OuterStop, OuterEvent,
     WithContext, StopOnIdle, DeferredStop, Release, FnStop, pool

LEMMA TakeItemTaken ==
  ASSUME OrderInv, AllTaken, Undropped' => Undropped, NEW w \in Workers, TakeItem(w)
  PROVE  AllTaken'
<1> SUFFICES ASSUME Undropped' PROVE AllTaken'
  BY DEF AllTaken
<1>1. /\ nextMu = "free" /\ idx' = idx + 1 /\ idx \in Nat /\ NumItems \in Nat
      /\ pc \in [Workers -> Labels] /\ errs' = {} /\ Pipeline' = Pipeline
  BY PoolAssumption DEF TakeItem, next, OrderInv, Taking, Undropped, Pipeline, sink
<1>2. /\ \A i \in 1 .. Len(Pipeline) : Pipeline[i] = i
      /\ Len(Pipeline) = IF idx < NumItems THEN idx ELSE NumItems
      /\ \A v \in Workers :
           /\ pc[v] \in {"leave", "ended"} => idx >= NumItems
           /\ pc[v] \notin {"rejected", "failed"}
  BY <1>1 DEF AllTaken
<1>3. \A v \in Workers : pc[v] # "select"
  BY <1>1, PoolAssumption DEF OrderInv, Taking
<1>4. CASE idx >= NumItems /\ pc' = [pc EXCEPT ![w] = "leave"] /\ nextMu' = nextMu
  BY <1>1, <1>2, <1>3, <1>4 DEF AllTaken
<1>5. CASE idx < NumItems /\ pc' = [pc EXCEPT ![w] = "select"] /\ nextMu' = w
  BY <1>1, <1>2, <1>3, <1>5, PoolAssumption DEF AllTaken
<1> QED
  BY <1>1, <1>4, <1>5 DEF TakeItem, next, fail, goto, keeps, Undropped

LEMMA SelectTaken ==
  ASSUME OrderInv, HardInv, ContextInv, EndInv, AllTaken, Undropped' => Undropped,
         NEW w \in Workers, Select(w)
  PROVE  AllTaken'
<1> SUFFICES ASSUME Undropped' PROVE AllTaken'
  BY DEF AllTaken
<1>1. /\ pc[w] = "select" /\ nextMu = w /\ item[w] = idx /\ idx \in Item /\ idx \in Nat
      /\ NumItems \in Nat /\ pc \in [Workers -> Labels] /\ errs' = {} /\ w # "free"
      /\ UNCHANGED <<cause, main, idx, out, ending, cur>>
  BY PoolAssumption DEF Select, OrderInv, Taking, Undropped
<1>2. ~drops
  <2>1. w \in live
    BY <1>1 DEF ContextInv, Running
  <2>2. cause # "stopped"
    BY <2>1 DEF EndInv, HardInv
  <2> QED
    BY <1>1, <2>2 DEF drops, earlyBreak, canceled, Undropped
<1>3. results' = Append(results, item[w]) /\ pc' = [pc EXCEPT ![w] = "call"] /\ nextMu' = "free"
  BY <1>1, <1>2 DEF Select, fail, goto
<1>4. Pipeline' = Append(Pipeline, idx)
  BY <1>1, <1>3, SelectExtendsPipeline DEF OrderInv
<1> DEFINE P == Pipeline
<1>5. P \in Seq(Item) /\ Len(P) \in Nat
  BY PipelineType DEF OrderInv
<1>6. /\ Len(Pipeline') = Len(P) + 1 /\ Pipeline'[Len(P) + 1] = idx
      /\ \A i \in 1 .. Len(P) : Pipeline'[i] = P[i]
  BY <1>1, <1>4, <1>5, AppendProperties
<1>7. /\ \A i \in 1 .. Len(P) : P[i] = i
      /\ Len(P) = idx - 1
      /\ \A v \in Workers :
           /\ pc[v] \in {"leave", "ended"} => idx >= NumItems
           /\ pc[v] \notin {"rejected", "failed"}
  BY <1>1 DEF AllTaken
<1>8. \A v \in Workers : pc'[v] # "select"
  BY <1>1, <1>3 DEF OrderInv, Taking
<1> HIDE DEF P
<1>9. \A i \in 1 .. Len(Pipeline') : Pipeline'[i] = i
  <2> SUFFICES ASSUME NEW i \in 1 .. Len(P) + 1 PROVE Pipeline'[i] = i
    BY <1>6
  <2>1. CASE i = Len(P) + 1
    BY <1>1, <1>6, <1>7, <2>1
  <2>2. CASE i \in 1 .. Len(P)
    BY <1>6, <1>7, <2>2
  <2> QED
    BY <1>5, <2>1, <2>2
<1>10. Len(Pipeline') = IF idx' < NumItems THEN idx' ELSE NumItems
  BY <1>1, <1>6, <1>7 DEF Item
<1>11. \A v \in Workers :
          /\ pc'[v] \in {"leave", "ended"} => idx' >= NumItems
          /\ pc'[v] \notin {"rejected", "failed"}
  BY <1>1, <1>3, <1>7
<1> QED
  BY <1>3, <1>8, <1>9, <1>10, <1>11 DEF AllTaken

LEMMA StepTaken ==
  ASSUME OrderInv, HardInv, ContextInv, EndInv, AllTaken, [Next]_vars
  PROVE  AllTaken'
<1>1. (Undropped' => Undropped) /\ pc \in [Workers -> Labels]
  BY StepEnds DEF ContextInv
<1>2. CASE PoolStep /\ UNCHANGED <<ready, cur>>
  BY <1>1, <1>2, PoolTaken
<1>3. CASE (Defer \/ Close \/ Drained \/ Wait) /\ UNCHANGED <<ready, cur>>
  <2>1. UNCHANGED <<pc, idx, nextMu, results, out, cur>>
    BY <1>3 DEF Defer, Close, Drained, Wait, pool
  <2>2. Pipeline' = Pipeline
    BY <2>1 DEF Pipeline
  <2> QED
    BY <1>1, <2>1, <2>2, TakenKept
<1>4. CASE \E w \in Workers : TakeItem(w)
  BY <1>1, <1>4, TakeItemTaken
<1>5. CASE \E w \in Workers : Select(w)
  BY <1>1, <1>5, SelectTaken
<1>6. ASSUME NEW w \in Workers, Return(w) PROVE AllTaken'
  <2>1. UNCHANGED <<idx, nextMu, sink, cur>> /\ Moves(w, "top") /\ pc' = [pc EXCEPT ![w] = "top"]
    BY <1>6 DEF Return, goto, Moves, Labels
  <2>2. Pipeline' = Pipeline
    BY <2>1 DEF Pipeline, sink
  <2> QED
    BY <1>1, <2>1, <2>2, TakenKept
<1>7. CASE Receive \/ YieldResult
  <2>1. UNCHANGED <<pc, idx, nextMu>>
    BY <1>7 DEF Receive, YieldResult
  <2>2. Pipeline' = Pipeline
    BY <1>7, ReceiveKeepsPipeline, YieldKeepsPipeline, YieldsAssumption DEF OrderInv
  <2> QED
    BY <1>1, <2>1, <2>2, TakenKept
<1>8. CASE UNCHANGED vars
  <2>1. UNCHANGED <<pc, idx, nextMu, results, out, cur>>
    BY <1>8 DEF vars, pool, sink
  <2>2. Pipeline' = Pipeline
    BY <2>1 DEF Pipeline
  <2> QED
    BY <1>1, <2>1, <2>2, TakenKept
<1> QED
  BY <1>2, <1>3, <1>4, <1>5, <1>6, <1>7, <1>8 DEF Next, MapStep

\* From Wait on, what CompleteOrError promises.
Told ==
  /\ main \in {"exit", "lock", "done"} /\ ending = "drained" /\ final = {} /\ cause # "outer"
  => {out[i] : i \in 1 .. Len(out)} = 1 .. NumItems

TakenInv == OrderInv /\ HardInv /\ ContextInv /\ EndInv /\ AllTaken

\* The results channel is drained and s has stopped with no error: every worker
\* has left because there were no items left.
LEMMA WaitTold ==
  ASSUME Workers # {}, TakenInv, Wait
  PROVE  Told'
<1> USE DEF TakenInv
<1> SUFFICES ASSUME final' = {}, cause' # "outer"
             PROVE  {out'[i] : i \in 1 .. Len(out')} = 1 .. NumItems
  BY DEF Told
<1>1. /\ main = "wait" /\ canceled /\ final' = waitErrors /\ UNCHANGED <<cause, out>>
      /\ results = <<>> /\ ending = "drained" /\ ~pulled
  BY DEF Wait, ctx, EndInv
<1>2. errs = {} /\ cause # "expired"
  BY <1>1 DEF waitErrors
<1>3. cause = "stopped" /\ live = {}
  BY <1>1, <1>2 DEF EndInv, HardInv, canceled
<1>4. Undropped
  BY <1>1, <1>2, <1>3 DEF Undropped
<1>5. \A w \in Workers : pc[w] = "ended"
  <2> SUFFICES ASSUME NEW w \in Workers PROVE pc[w] = "ended"
    OBVIOUS
  <2>1. pc[w] \notin Running /\ pc[w] \in Labels
    BY <1>3 DEF ContextInv
  <2>2. pc[w] # "new" /\ pc[w] # "rejected"
    BY <1>1, <1>4 DEF EndInv, AllTaken
  <2> QED
    BY <2>1, <2>2 DEF Running, Labels
<1>6. /\ idx >= NumItems /\ Len(Pipeline) = NumItems
      /\ \A i \in 1 .. Len(Pipeline) : Pipeline[i] = i
  <2>1. idx >= NumItems
    BY <1>4, <1>5 DEF AllTaken
  <2>2. nextMu = "free"
    BY <1>4, <1>5 DEF AllTaken
  <2> QED
    BY <1>4, <2>1, <2>2, PoolAssumption DEF AllTaken, OrderInv, Taking
<1>7. Pipeline = out
  <2>1. cur = 0 /\ out \in Seq(Item)
    BY <1>1 DEF OrderInv, Consumer
  <2> QED
    BY <1>1, <2>1, ConcatEmptySeq DEF Pipeline
<1>8. Len(out) = NumItems /\ \A i \in 1 .. NumItems : out[i] = i
  BY <1>6, <1>7
<1> QED
  BY <1>1, <1>8

LEMMA StepTold ==
  ASSUME Workers # {}, TakenInv, Told, [Next]_vars
  PROVE  Told'
<1>1. CASE Wait
  BY <1>1, WaitTold
<1>2. ASSUME UNCHANGED <<ending, final, out>>, canceled => cause' = cause,
             main' \in {"exit", "lock", "done"} /\ ending = "drained" =>
               main \in {"exit", "lock", "done"}
      PROVE  Told'
  BY <1>2 DEF Told, TakenInv, EndInv
<1>3. CASE PoolStep
  <2>1. UNCHANGED <<ending, final, out>>
    BY <1>3 DEF PoolStep, sink
  <2>2. /\ canceled => cause' = cause
        /\ main' = main \/ main' \in {"defer", "consume"}
             \/ (main = "exit" /\ main' = "lock") \/ (main = "lock" /\ main' = "done")
    BY <1>3 DEF PoolStep, Cancel, Expire, OuterStop, OuterEvent, WithContext, StopOnIdle,
         DeferredStop, Release, Go, Top, HandlerStop, Leave, FnStop, pool, ctx, canceled
  <2> QED
    BY <1>2, <2>1, <2>2
<1>4. CASE Defer \/ Close
  BY <1>2, <1>4 DEF Defer, Close, pool
<1>5. CASE Drained
  BY <1>5 DEF Drained, Told
<1>6. ASSUME NEW w \in Workers, TakeItem(w) \/ Select(w) \/ Return(w) PROVE Told'
  BY <1>2, <1>6 DEF TakeItem, next, Select, Return, ctx, sink
<1>7. CASE Receive
  BY <1>2, <1>7 DEF Receive, ctx
<1>8. CASE YieldResult
  <2>1. main = "await" /\ ending = "no"
    BY <1>8 DEF YieldResult, TakenInv, OrderInv, Consumer
  <2>2. ending' # "drained"
    BY <1>8, <2>1, YieldsAssumption DEF YieldResult, Yield
  <2> QED
    BY <2>2 DEF Told
<1>9. CASE UNCHANGED vars
  BY <1>2, <1>9 DEF vars, ctx, pool, sink
<1> QED
  BY <1>1, <1>3, <1>4, <1>5, <1>6, <1>7, <1>8, <1>9 DEF Next, MapStep

LEMMA InitTaken == InitMap => TakenInv /\ Told
<1> SUFFICES ASSUME InitMap PROVE TakenInv /\ Told
  OBVIOUS
<1>1. OrderInv /\ HardInv /\ ContextInv
  BY InitOrder, InitMaps DEF InitMap, InitResults, Init, HardInv
<1>2. /\ main = "new" /\ pc = [w \in Workers |-> "new"] /\ cause \in {"none", "outer"}
      /\ pulled = FALSE /\ ending = "no" /\ results = <<>> /\ out = <<>> /\ cur = 0
      /\ idx = 0 /\ nextMu = "free"
  BY DEF InitMap, InitResults, Init
<1>3. EndInv /\ Told
  BY <1>2 DEF EndInv, Told
<1>4. Len(Pipeline) = 0
  BY <1>1, <1>2, ConcatEmptySeq, EmptySeq DEF Pipeline, OrderInv, Consumer
<1>5. AllTaken
  BY <1>2, <1>4, PoolAssumption DEF AllTaken
<1> QED
  BY <1>1, <1>3, <1>5 DEF TakenInv

LEMMA StepTakenInv ==
  ASSUME TakenInv, [Next]_vars
  PROVE  TakenInv'
BY StepOrder, StepHard, StepMaps, StepEnds, StepTaken DEF TakenInv

\* A sequence that ends by itself and reports no error has yielded every item
\* (map.go:33), unless the context was canceled from outside. With no worker at
\* all it ends at once, with nothing yielded and nothing reported.
THEOREM NothingLostSilently == Workers # {} => (Spec => []CompleteOrError)
<1> SUFFICES ASSUME Workers # {} PROVE Spec => []CompleteOrError
  OBVIOUS
<1>1. InitMap => TakenInv /\ Told
  BY InitTaken
<1>2. TakenInv /\ Told /\ [Next]_vars => TakenInv' /\ Told'
  BY StepTakenInv, StepTold
<1>3. Told => CompleteOrError
  BY DEF Told, CompleteOrError
<1> QED
  BY <1>1, <1>2, <1>3, PTL DEF Spec
=============================================================================
