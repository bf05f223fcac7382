---------------------------- MODULE SlicesProofs ----------------------------
(* What append and slices.Clone do to a heap of arrays: facts that every   *)
(* module with slices rests on.                                            *)
EXTENDS Slices, Integers, TLAPS, SequenceTheorems

Slice(O) == [arr : O, len : Nat]

\* A slice lies within its array.
Fits(heap, s) == s.len <= Len(heap[s.arr])

LEMMA ElemsType ==
  ASSUME NEW V, NEW O, NEW heap \in [O -> Seq(V)], NEW s \in Slice(O), Fits(heap, s)
  PROVE  Elems(heap, s) \in Seq(V) /\ Len(Elems(heap, s)) = s.len
<1>1. heap[s.arr] \in Seq(V) /\ s.len \in Nat
  BY DEF Slice
<1>2. \A i \in 1 .. s.len : heap[s.arr][i] \in V
  BY <1>1, ElementOfSeq DEF Fits
<1> QED
  BY <1>1, <1>2, SubSeqProperties DEF Elems

\* Memory that is as it was when it was allocated.
LEMMA RoomType ==
  ASSUME NEW V, Blank \in V, NEW O, Room \in [O -> Nat], NEW o \in O
  PROVE  [i \in 1 .. Room[o] |-> Blank] \in Seq(V)
<1> DEFINE room == [i \in 1 .. Room[o] |-> Blank]
<1>1. Room[o] \in Nat /\ room \in [1 .. Room[o] -> V]
  OBVIOUS
<1>2. Seq(V) = UNION {[1 .. n -> V] : n \in Nat}
  BY SeqDef
<1> QED
  BY <1>1, <1>2

\* The front of a sequence of three parts.
LEMMA FrontOfConcat ==
  ASSUME NEW V, NEW a \in Seq(V), NEW b \in Seq(V), NEW c \in Seq(V)
  PROVE  /\ a \o b \o c \in Seq(V)
         /\ Len(a \o b \o c) = Len(a) + Len(b) + Len(c)
         /\ SubSeq(a \o b \o c, 1, Len(a) + Len(b)) = a \o b
<1>1. /\ a \o b \in Seq(V) /\ Len(a \o b) = Len(a) + Len(b) /\ Len(a) \in Nat /\ Len(b) \in Nat
  BY ConcatProperties, LenProperties
<1>2. a \o b \o c \in Seq(V) /\ Len(a \o b \o c) = Len(a) + Len(b) + Len(c)
  BY <1>1, ConcatProperties
<1>3. SubSeq(a \o b \o c, 1, Len(a \o b)) = SubSeq(a \o b, 1, Len(a \o b))
  BY <1>1, SubSeqOfConcat1
<1>4. SubSeq(a \o b, 1, Len(a \o b)) = a \o b
  BY <1>1, SubSeqFull
<1> QED
  BY <1>1, <1>2, <1>3, <1>4

\* What append does: it adds vs to the elements of the slice it returns, and
\* writes to the array of s or to that of o, and to no other.
Extends(V, O, heap, s, vs, o, x) ==
  /\ x.heap \in [O -> Seq(V)] /\ x.slice \in Slice(O)
  /\ Fits(x.heap, x.slice) /\ x.slice.len = s.len + Len(vs)
  /\ Elems(x.heap, x.slice) = Elems(heap, s) \o vs
  /\ x.slice.arr \in {s.arr, o}
  /\ \A a \in O \ {s.arr, o} : x.heap[a] = heap[a]

LEMMA ExtendElems ==
  ASSUME NEW V, Blank \in V, NEW O, Room \in [O -> Nat], NEW o \in O,
         NEW heap \in [O -> Seq(V)], NEW s \in Slice(O), Fits(heap, s), NEW vs \in Seq(V)
  PROVE  Extends(V, O, heap, s, vs, o, Extend(heap, s, vs, o))
<1> DEFINE x == Extend(heap, s, vs, o)
<1> DEFINE n    == s.len + Len(vs)
           old  == heap[s.arr]
           rest == SubSeq(old, n + 1, Len(old))
           room == [i \in 1 .. Room[o] |-> Blank]
           e    == Elems(heap, s)
<1>1. /\ old \in Seq(V) /\ Len(old) \in Nat /\ s.len \in Nat /\ Len(vs) \in Nat
      /\ e \in Seq(V) /\ Len(e) = s.len /\ s.arr \in O /\ n \in Nat
  BY ElemsType, LenProperties DEF Slice
<1> HIDE DEF x
<1>2. CASE n <= Len(old)
  <2>1. rest \in Seq(V)
    <3>1. \A i \in n + 1 .. Len(old) : old[i] \in V
      BY <1>1, ElementOfSeq
    <3> QED
      BY <1>1, <3>1, SubSeqProperties
  <2>2. x.heap = [heap EXCEPT ![s.arr] = e \o vs \o rest] /\ x.slice = [s EXCEPT !.len = n]
    BY <1>2 DEF Extend, Elems, x
  <2>3. /\ e \o vs \o rest \in Seq(V) /\ Len(e \o vs \o rest) = n + Len(rest)
        /\ SubSeq(e \o vs \o rest, 1, n) = e \o vs
    <3> HIDE DEF e, rest, n
    <3>1. rest \in Seq(V) /\ e \in Seq(V) /\ vs \in Seq(V)
      BY <1>1, <2>1
    <3>2. /\ e \o vs \o rest \in Seq(V)
          /\ Len(e \o vs \o rest) = Len(e) + Len(vs) + Len(rest)
          /\ SubSeq(e \o vs \o rest, 1, Len(e) + Len(vs)) = e \o vs
      BY <3>1, FrontOfConcat
    <3>3. Len(e) + Len(vs) = n
      BY <1>1 DEF n
    <3> QED
      BY <3>2, <3>3
  <2>4. x.slice.arr = s.arr /\ x.slice.len = n /\ x.slice \in Slice(O)
    BY <1>1, <2>2 DEF Slice
  <2>9. x.heap[s.arr] = e \o vs \o rest
    BY <1>1, <2>2
  <2>5. x.heap \in [O -> Seq(V)] /\ \A a \in O \ {s.arr, o} : x.heap[a] = heap[a]
    BY <1>1, <2>2, <2>3
  <2>6. Len(rest) \in Nat
    BY <2>1, LenProperties
  <2> HIDE DEF e, rest, n
  <2>7. Elems(x.heap, x.slice) = e \o vs
    BY <2>3, <2>4, <2>9 DEF Elems
  <2>8. Fits(x.heap, x.slice)
    BY <1>1, <2>3, <2>4, <2>6, <2>9 DEF Fits
  <2> QED
    BY <2>4, <2>5, <2>7, <2>8 DEF Extends, x, n, e
<1>3. CASE ~(n <= Len(old))
  <2>1. room \in Seq(V) /\ Len(room) \in Nat
    BY RoomType, LenProperties
  <2>2. x.heap = [heap EXCEPT ![o] = e \o vs \o room] /\ x.slice = [arr |-> o, len |-> n]
    BY <1>3 DEF Extend, x
  <2>3. /\ e \o vs \o room \in Seq(V) /\ Len(e \o vs \o room) = n + Len(room)
        /\ SubSeq(e \o vs \o room, 1, n) = e \o vs
    <3> HIDE DEF e, room, n
    <3>1. room \in Seq(V) /\ e \in Seq(V) /\ vs \in Seq(V)
      BY <1>1, <2>1
    <3>2. /\ e \o vs \o room \in Seq(V)
          /\ Len(e \o vs \o room) = Len(e) + Len(vs) + Len(room)
          /\ SubSeq(e \o vs \o room, 1, Len(e) + Len(vs)) = e \o vs
      BY <3>1, FrontOfConcat
    <3>3. Len(e) + Len(vs) = n
      BY <1>1 DEF n
    <3> QED
      BY <3>2, <3>3
  <2>4. x.slice.arr = o /\ x.slice.len = n /\ x.slice \in Slice(O)
    BY <1>1, <2>2 DEF Slice
  <2>8. x.heap[o] = e \o vs \o room
    <3> HIDE DEF e, room, n
    <3> QED
      BY <2>2
  <2>5. x.heap \in [O -> Seq(V)] /\ \A a \in O \ {s.arr, o} : x.heap[a] = heap[a]
    BY <1>1, <2>2, <2>3
  <2> HIDE DEF e, room, n
  <2>6. Elems(x.heap, x.slice) = e \o vs
    BY <2>3, <2>4, <2>8 DEF Elems
  <2>7. Fits(x.heap, x.slice)
    BY <1>1, <2>1, <2>3, <2>4, <2>8 DEF Fits
  <2> QED
    BY <2>4, <2>5, <2>6, <2>7 DEF Extends, x, n, e
<1> QED
  BY <1>2, <1>3 DEF x

\* What slices.Clone does: the same elements, in the array of o alone.
Copies(V, O, heap, s, o, x) ==
  /\ x.heap \in [O -> Seq(V)] /\ x.slice \in Slice(O)
  /\ Fits(x.heap, x.slice) /\ x.slice.arr = o
  /\ Elems(x.heap, x.slice) = Elems(heap, s)
  /\ \A a \in O \ {o} : x.heap[a] = heap[a]

LEMMA CopyElems ==
  ASSUME NEW V, Blank \in V, NEW O, Room \in [O -> Nat], NEW o \in O,
         NEW heap \in [O -> Seq(V)], NEW s \in Slice(O), Fits(heap, s)
  PROVE  Copies(V, O, heap, s, o, Copy(heap, s, o))
<1> DEFINE x   == Copy(heap, s, o)
           new == [heap EXCEPT ![o] = <<>>]
           e   == Elems(heap, s)
<1>1. new \in [O -> Seq(V)] /\ \A a \in O \ {o} : new[a] = heap[a]
  BY EmptySeq
<1>2. NoSlice(o) \in Slice(O) /\ NoSlice(o).arr = o /\ Fits(new, NoSlice(o))
  BY DEF NoSlice, Slice, Fits
<1>3. e \in Seq(V)
  BY ElemsType
<1>4. /\ x.heap \in [O -> Seq(V)] /\ x.slice \in Slice(O) /\ Fits(x.heap, x.slice)
      /\ Elems(x.heap, x.slice) = Elems(new, NoSlice(o)) \o e
      /\ x.slice.arr \in {NoSlice(o).arr, o}
      /\ \A a \in O \ {NoSlice(o).arr, o} : x.heap[a] = new[a]
  <2>1. Extends(V, O, new, NoSlice(o), e, o, Extend(new, NoSlice(o), e, o))
    <3> HIDE DEF new, e
    <3> QED
      BY <1>1, <1>2, <1>3, ExtendElems
  <2>2. x = Extend(new, NoSlice(o), e, o)
    BY DEF Copy
  <2> HIDE DEF new, e
  <2> QED
    BY <2>1, <2>2 DEF Extends
<1>5. Elems(new, NoSlice(o)) = <<>>
  BY SubSeqEmpty DEF Elems, NoSlice
<1>6. <<>> \o e = e
  BY <1>3, ConcatEmptySeq
<1> QED
  BY <1>1, <1>2, <1>4, <1>5, <1>6 DEF Copies
=============================================================================
