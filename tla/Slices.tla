------------------------------- MODULE Slices -------------------------------
(* Go slices. A slice is a view of the front of an array that other slices  *)
(* may share; append writes into the array while it has room and moves to a *)
(* new one when it has not. An array is named for the value it was          *)
(* allocated for, and its length is the capacity.                           *)
EXTENDS Naturals, Sequences

CONSTANT Room   \* Room[o]: how far the allocator rounds up an array made for o

Blank == "blank"   \* what an array holds where nothing was written

NoSlice(o) == [arr |-> o, len |-> 0]

Elems(heap, s) == SubSeq(heap[s.arr], 1, s.len)

\* append(s, vs...) for owner o: what becomes of the arrays and of the slice.
Extend(heap, s, vs, o) ==
  LET n    == s.len + Len(vs)
      old  == heap[s.arr]
      room == [i \in 1 .. Room[o] |-> Blank]
  IN IF n <= Len(old)
       THEN [heap  |-> [heap EXCEPT ![s.arr] =
                           SubSeq(old, 1, s.len) \o vs \o SubSeq(old, n + 1, Len(old))],
             slice |-> [s EXCEPT !.len = n]]
       ELSE [heap  |-> [heap EXCEPT ![o] = Elems(heap, s) \o vs \o room],
             slice |-> [arr |-> o, len |-> n]]

\* slices.Clone(s) for owner o.
Copy(heap, s, o) ==
  Extend([heap EXCEPT ![o] = <<>>], NoSlice(o), Elems(heap, s), o)
=============================================================================
