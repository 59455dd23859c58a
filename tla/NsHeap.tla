------------------------------- MODULE NsHeap -------------------------------
(***************************************************************************)
(* The binary heap event list (heap-scheduler.cc): the vector without its  *)
(* unused first element, so that the root is heap[1].                      *)
(***************************************************************************)
EXTENDS NsEvents, Sequences, SequencesExt

IsLessStrictly(h, a, b) == Before(h[a], h[b])
Exch(h, a, b) == [h EXCEPT ![a] = h[b], ![b] = h[a]]
Smallest(h, a, b) == IF IsLessStrictly(h, a, b) THEN a ELSE b

(* One round of the loop in BottomUp: the element at s.i rises if it comes *)
(* before its parent.                                                      *)
Rise(s) ==
  IF s.i # 1 /\ IsLessStrictly(s.h, s.i, s.i \div 2)
  THEN [h |-> Exch(s.h, s.i, s.i \div 2), i |-> s.i \div 2]
  ELSE s

(* One round of the loop in TopDown: it sinks if it does not come before   *)
(* its children, of which there may be one.                                *)
Sink(s) ==
  LET left == 2 * s.i
      child == IF left = Len(s.h) THEN left ELSE Smallest(s.h, left, left + 1)
  IN  IF left > Len(s.h) \/ IsLessStrictly(s.h, s.i, child)
      THEN s
      ELSE [h |-> Exch(s.h, s.i, child), i |-> child]

(* No element is moved more often than there are elements. *)
BottomUp(h, i) ==
  LET at[n \in 0 .. Len(h)] == IF n = 0 THEN [h |-> h, i |-> i] ELSE Rise(at[n - 1])
  IN  at[Len(h)].h

TopDown(h, i) ==
  LET at[n \in 0 .. Len(h)] == IF n = 0 THEN [h |-> h, i |-> i] ELSE Sink(at[n - 1])
  IN  at[Len(h)].h

(* Mutation of Heapify: only the root is compared with its children. *)
HeapifyOnce(h, i) == Sink([h |-> h, i |-> i]).h

(* What RemoveNext and Remove do once the last element is at index i. *)
Heapify(h, i) == TopDown(h, i)

(* The element at i is exchanged with the last, which is dropped. *)
Take(h, i) == Heapify(Front(Exch(h, i, Len(h))), i)

Insert(h, e) == BottomUp(Append(h, e), Len(h) + 1)
PeekNext(h) == h[1]
RemoveNext(h) == Take(h, 1)
RemoveEvent(h, e) == Take(h, CHOOSE i \in DOMAIN h : h[i].uid = e.uid)

=============================================================================
