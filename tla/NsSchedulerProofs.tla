------------------------- MODULE NsSchedulerProofs -------------------------
(***************************************************************************)
(* Proofs about the event lists: each operation of the heap, the list and  *)
(* the calendar keeps the list in order and changes its set of events as   *)
(* NsAgenda says; so does the move from one to another.                    *)
(***************************************************************************)
EXTENDS NsScheduler, InductionLemmas

-----------------------------------------------------------------------------
(***************************************************************************)
(* Events and their order.                                                 *)
(***************************************************************************)
Event == [ts : Nat, uid : Nat]

(* Events with different ids are totally ordered. *)
LEMMA BeforeOrder ==
  ASSUME NEW a \in Event, NEW b \in Event, NEW c \in Event
  PROVE  /\ Before(a, b) /\ Before(b, c) => Before(a, c)
         /\ ~(Before(a, b) /\ Before(b, a))
         /\ a.uid # b.uid => Before(a, b) \/ Before(b, a)
         /\ Before(a, b) => a.ts <= b.ts /\ a # b
BY DEF Event, Before

(* No two events of a sequence have one id. *)
Once(h) == \A i, j \in 1 .. Len(h) : h[i].uid = h[j].uid => i = j

(* The elements of a sequence are its values. *)
LEMMA RangeOf ==
  ASSUME NEW h \in Seq(Event)
  PROVE  /\ Range(h) = {h[i] : i \in 1 .. Len(h)} /\ Range(h) \subseteq Event
         /\ Len(h) \in Nat /\ \A i \in 1 .. Len(h) : h[i] \in Event
BY DEF Range

-----------------------------------------------------------------------------
(***************************************************************************)
(* The heap.                                                               *)
(***************************************************************************)
Ordered(h) == \A j \in 2 .. Len(h) : Before(h[j \div 2], h[j])

(* The heap uses the order of the events. *)
LEMMA HeapBefore == \A a, b : Heap!Before(a, b) <=> Before(a, b)
BY DEF Heap!Before, Before

(* An exchange of two elements keeps the sequence's elements and length. *)
LEMMA ExchFacts ==
  ASSUME NEW h \in Seq(Event), NEW a \in 1 .. Len(h), NEW b \in 1 .. Len(h), a # b, Once(h)
  PROVE  LET g == Heap!Exch(h, a, b) IN
         /\ g \in Seq(Event) /\ Len(g) = Len(h)
         /\ g[a] = h[b] /\ g[b] = h[a]
         /\ \A j \in 1 .. Len(h) : j # a /\ j # b => g[j] = h[j]
         /\ Range(g) = Range(h) /\ Once(g)
<1> DEFINE g == Heap!Exch(h, a, b)
<1>1. /\ g \in Seq(Event) /\ Len(g) = Len(h)
      /\ g[a] = h[b] /\ g[b] = h[a]
      /\ \A j \in 1 .. Len(h) : j # a /\ j # b => g[j] = h[j]
  BY DEF Heap!Exch
<1> HIDE DEF g
<1>2. Range(g) = {g[j] : j \in 1 .. Len(g)} /\ Range(h) = {h[j] : j \in 1 .. Len(h)}
  BY <1>1, RangeOf
<1>3. Range(g) = Range(h)
  <2>1. \A j \in 1 .. Len(g) : \E i \in 1 .. Len(h) : g[j] = h[i]
    BY <1>1
  <2>2. \A j \in 1 .. Len(h) : \E i \in 1 .. Len(g) : h[j] = g[i]
    BY <1>1
  <2> QED
    BY <1>2, <2>1, <2>2
<1>4. Once(g)
  BY <1>1 DEF Once
<1> QED
  BY <1>1, <1>3, <1>4 DEF g

(* The step of a heap at s.i, where only the element at s.i may be wrong.  *)
(* Its children come after its parent in any case.                         *)
NearHeap(s, R, n) ==
  /\ s.i \in 1 .. n + 1 /\ Len(s.h) = n /\ Range(s.h) = R /\ Once(s.h)
  /\ s.i # 1 => \A j \in 2 .. n : j \div 2 = s.i => Before(s.h[s.i \div 2], s.h[j])

HeapStates == [h : Seq(Event), i : Nat]
Rising(R, n) ==
  {s \in HeapStates : NearHeap(s, R, n) /\ s.i <= n
     /\ \A j \in 2 .. n : j # s.i => Before(s.h[j \div 2], s.h[j])}
Sinking(R, n) ==
  {s \in HeapStates : NearHeap(s, R, n)
     /\ \A j \in 2 .. n : j \div 2 # s.i => Before(s.h[j \div 2], s.h[j])}

(* A round of BottomUp moves the one element that may be out of order up. *)
LEMMA RiseKeeps ==
  ASSUME NEW R, NEW n \in Nat, NEW s \in Rising(R, n)
  PROVE  /\ Heap!Rise(s) \in Rising(R, n)
         /\ Heap!Rise(s) = s \/ Heap!Rise(s).i < s.i
         /\ Heap!Rise(s) = s => Ordered(s.h)
<1> DEFINE h == s.h
           i == s.i
           p == i \div 2
<1>1. /\ h \in Seq(Event) /\ i \in 1 .. n /\ Len(h) = n /\ Range(h) = R /\ Once(h)
      /\ s = [h |-> h, i |-> i]
      /\ i # 1 => \A j \in 2 .. n : j \div 2 = i => Before(h[p], h[j])
      /\ \A j \in 2 .. n : j # i => Before(h[j \div 2], h[j])
  BY DEF Rising, NearHeap, HeapStates
<1>2. \A j \in 1 .. n : h[j] \in Event
  BY <1>1
<1>3. \A j \in 2 .. n : j \div 2 \in 1 .. n /\ j \div 2 < j
  OBVIOUS
<1>4. CASE i = 1 \/ ~Before(h[i], h[p])
  <2>1. Heap!Rise(s) = s
    BY <1>4, HeapBefore DEF Heap!Rise, Heap!IsLessStrictly
  <2>2. i # 1 => Before(h[p], h[i])
    <3> SUFFICES ASSUME i # 1 PROVE Before(h[p], h[i])
      OBVIOUS
    <3>1. i \in 2 .. n /\ p \in 1 .. n /\ p < i
      BY <1>1, <1>3
    <3>2. h[p].uid # h[i].uid
      BY <1>1, <3>1 DEF Once
    <3> QED
      BY <1>2, <1>4, <3>1, <3>2, BeforeOrder
  <2>3. Ordered(h)
    BY <1>1, <2>2 DEF Ordered
  <2> QED
    BY <2>1, <2>3
<1>5. CASE i # 1 /\ Before(h[i], h[p])
  <2> DEFINE g == Heap!Exch(h, i, p)
  <2>1. Heap!Rise(s) = [h |-> g, i |-> p]
    BY <1>5, HeapBefore DEF Heap!Rise, Heap!IsLessStrictly
  <2>2. p \in 1 .. n /\ p < i /\ i \in 2 .. n
    BY <1>1, <1>3, <1>5
  <2> HIDE DEF h, i, p
  <2>3. /\ g \in Seq(Event) /\ Len(g) = n /\ g[i] = h[p] /\ g[p] = h[i]
        /\ \A j \in 1 .. n : j # i /\ j # p => g[j] = h[j]
        /\ Range(g) = R /\ Once(g)
    <3>1. i \in 1 .. Len(h) /\ p \in 1 .. Len(h) /\ i # p /\ h \in Seq(Event) /\ Once(h)
      BY <1>1, <2>2
    <3> QED
      BY <1>1, <3>1, ExchFacts
  <2> HIDE DEF g
  <2>4. ASSUME NEW j \in 2 .. n, j # p
        PROVE  Before(g[j \div 2], g[j])
    <3>1. j \div 2 \in 1 .. n /\ j \in 1 .. n /\ j \div 2 # j
      BY <1>3
    <3>2. CASE j = i
      BY <1>5, <2>3, <3>2 DEF p
    <3>3. CASE j # i /\ j \div 2 = i
      BY <1>1, <1>5, <2>3, <2>4, <3>1, <3>3
    <3>4. CASE j # i /\ j \div 2 = p
      <4>1. Before(h[i], h[p]) /\ Before(h[p], h[j]) /\ g[j] = h[j] /\ g[j \div 2] = h[i]
        BY <1>1, <1>5, <2>3, <2>4, <3>1, <3>4
      <4>2. h[i] \in Event /\ h[p] \in Event /\ h[j] \in Event
        BY <1>1, <1>2, <2>2, <3>1
      <4> QED
        BY <4>1, <4>2, BeforeOrder
    <3>5. CASE j # i /\ j \div 2 # i /\ j \div 2 # p
      BY <1>1, <2>3, <2>4, <3>1, <3>5
    <3> QED
      BY <3>2, <3>3, <3>4, <3>5
  <2>5. ASSUME NEW j \in 2 .. n, j \div 2 = p, p # 1
        PROVE  Before(g[p \div 2], g[j])
    <3>1. p \in 2 .. n /\ p \div 2 \in 1 .. n /\ p \div 2 < p /\ j \in 1 .. n /\ p < j
      BY <1>3, <2>2, <2>5
    <3>2. g[p \div 2] = h[p \div 2] /\ Before(h[p \div 2], h[p])
      BY <1>1, <2>2, <2>3, <3>1
    <3>3. CASE j = i
      BY <2>3, <3>2, <3>3
    <3>4. CASE j # i
      <4>1. Before(h[p], h[j]) /\ g[j] = h[j]
        BY <1>1, <2>3, <2>5, <3>1, <3>4
      <4>2. h[p \div 2] \in Event /\ h[p] \in Event /\ h[j] \in Event
        BY <1>2, <2>2, <3>1
      <4> QED
        BY <3>2, <4>1, <4>2, BeforeOrder
    <3> QED
      BY <3>3, <3>4
  <2> DEFINE t == [h |-> g, i |-> p]
  <2>6. t \in HeapStates /\ t.h = g /\ t.i = p
    BY <2>2, <2>3 DEF HeapStates
  <2> HIDE DEF t
  <2>7. t \in Rising(R, n)
    <3>1. p \in 1 .. n + 1 /\ p <= n
      BY <2>2
    <3>2. NearHeap(t, R, n)
      BY <2>3, <2>5, <2>6, <3>1 DEF NearHeap
    <3> QED
      BY <2>4, <2>6, <3>1, <3>2 DEF Rising
  <2>8. Heap!Rise(s) = t /\ t.i < s.i /\ s.i \in Nat
    BY <1>1, <2>1, <2>2, <2>6 DEF t, i
  <2>9. t # s
    BY <2>8
  <2> QED
    BY <2>7, <2>8, <2>9
<1> QED
  BY <1>4, <1>5

(* Of parents and children in the array. *)
LEMMA Halves ==
  ASSUME NEW n \in Nat, NEW j \in 2 .. n
  PROVE  /\ j \div 2 \in 1 .. n /\ j \div 2 < j /\ j \in 1 .. n
         /\ \A i \in Nat : j \div 2 = i <=> (j = 2 * i \/ j = 2 * i + 1)
OBVIOUS

(* A round of TopDown moves the one element that may be out of order down. *)
LEMMA SinkKeeps ==
  ASSUME NEW R, NEW n \in Nat, NEW s \in Sinking(R, n)
  PROVE  /\ Heap!Sink(s) \in Sinking(R, n)
         /\ Heap!Sink(s) = s \/ Heap!Sink(s).i > s.i
         /\ Heap!Sink(s) = s => Ordered(s.h)
<1> DEFINE h == s.h
           i == s.i
           left == 2 * i
           c == IF left = Len(h) THEN left ELSE Heap!Smallest(h, left, left + 1)
           g == Heap!Exch(h, i, c)
<1>1. /\ h \in Seq(Event) /\ i \in 1 .. n + 1 /\ Len(h) = n /\ Range(h) = R /\ Once(h)
      /\ i # 1 => \A j \in 2 .. n : j \div 2 = i => Before(h[i \div 2], h[j])
      /\ \A j \in 2 .. n : j \div 2 # i => Before(h[j \div 2], h[j])
  BY DEF Sinking, NearHeap, HeapStates
<1>2. \A j \in 1 .. n : h[j] \in Event
  BY <1>1
<1>3. \A j \in 2 .. n : /\ j \div 2 \in 1 .. n /\ j \div 2 < j /\ j \in 1 .. n
                        /\ j \div 2 = i <=> (j = 2 * i \/ j = 2 * i + 1)
  <2>1. i \in Nat
    BY <1>1
  <2> HIDE DEF i
  <2> QED
    BY <2>1, Halves
<1>4. Heap!Sink(s) = IF left > Len(h) \/ Before(h[i], h[c]) THEN s ELSE [h |-> g, i |-> c]
  BY HeapBefore DEF Heap!Sink, Heap!IsLessStrictly
<1>5. CASE left > n
  <2>1. \A j \in 2 .. n : j \div 2 # i
    BY <1>1, <1>3, <1>5
  <2>2. Ordered(h)
    BY <1>1, <2>1 DEF Ordered
  <2> QED
    BY <1>1, <1>4, <1>5, <2>2
<1>6. CASE ~(left > n)
  <2>1. /\ i \in 1 .. n /\ c \in 2 .. n /\ c \div 2 = i /\ i < c
        /\ \A j \in 2 .. n : j \div 2 = i => j = c \/ Before(h[c], h[j])
    <3> HIDE DEF h, i
    <3>1. i \in 1 .. n /\ left \in 2 .. n
      BY <1>1, <1>6
    <3>2. CASE left = n
      <4>1. c = left
        BY <1>1, <3>2
      <4>2. left \div 2 = i /\ i < left
        BY <1>3, <3>1
      <4>3. \A j \in 2 .. n : j \div 2 = i => j = left
        BY <1>3, <3>1, <3>2
      <4> QED
        BY <3>1, <4>1, <4>2, <4>3
    <3>3. CASE left # n
      <4>1. left + 1 \in 2 .. n /\ left \in 1 .. n /\ left + 1 \in 1 .. n
        BY <1>1, <3>1, <3>3
      <4>2. c = IF Before(h[left], h[left + 1]) THEN left ELSE left + 1
        BY <1>1, <3>3, HeapBefore DEF Heap!Smallest, Heap!IsLessStrictly
      <4>3. h[left].uid # h[left + 1].uid /\ h[left] \in Event /\ h[left + 1] \in Event
        <5>1. left # left + 1 /\ left \in 1 .. Len(h) /\ left + 1 \in 1 .. Len(h)
          BY <1>1, <4>1
        <5> QED
          BY <1>1, <1>2, <4>1, <5>1 DEF Once
      <4>4. Before(h[left], h[left + 1]) \/ Before(h[left + 1], h[left])
        BY <4>3, BeforeOrder
      <4> QED
        BY <1>1, <1>3, <3>1, <4>1, <4>2, <4>4
    <3> QED
      BY <3>2, <3>3
  <2> HIDE DEF c, left
  <2>2. h[i] \in Event /\ h[c] \in Event /\ h[i].uid # h[c].uid /\ c \in 1 .. n
    BY <1>1, <1>2, <2>1 DEF Once
  <2>3. CASE Before(h[i], h[c])
    <3>1. \A j \in 2 .. n : j \div 2 = i => Before(h[j \div 2], h[j])
      <4> SUFFICES ASSUME NEW j \in 2 .. n, j \div 2 = i, j # c PROVE Before(h[i], h[j])
        BY <2>3
      <4>1. Before(h[c], h[j]) /\ h[j] \in Event
        BY <1>2, <1>3, <2>1
      <4> QED
        BY <2>2, <2>3, <4>1, BeforeOrder
    <3>2. Ordered(h)
      BY <1>1, <3>1 DEF Ordered
    <3> QED
      BY <1>4, <2>3, <3>2
  <2>4. CASE ~Before(h[i], h[c])
    <3> HIDE DEF h, i
    <3>1. Before(h[c], h[i])
      BY <2>2, <2>4, BeforeOrder
    <3>2. /\ g \in Seq(Event) /\ Len(g) = n /\ g[i] = h[c] /\ g[c] = h[i]
          /\ \A j \in 1 .. n : j # i /\ j # c => g[j] = h[j]
          /\ Range(g) = R /\ Once(g)
      <4>1. i \in 1 .. Len(h) /\ c \in 1 .. Len(h) /\ i # c /\ h \in Seq(Event) /\ Once(h)
        BY <1>1, <2>1
      <4> QED
        BY <1>1, <4>1, ExchFacts
    <3> HIDE DEF g
    <3>3. ASSUME NEW j \in 2 .. n, j \div 2 # c
          PROVE  Before(g[j \div 2], g[j])
      <4>1. j \div 2 \in 1 .. n /\ j \in 1 .. n /\ j \div 2 # j
        BY <1>3
      <4>2. CASE j = c
        BY <2>1, <3>1, <3>2, <4>2
      <4>3. CASE j # c /\ j \div 2 = i
        <5>1. j # i /\ g[j] = h[j] /\ g[i] = h[c] /\ Before(h[c], h[j])
          BY <2>1, <3>2, <4>1, <4>3
        <5> QED
          BY <4>3, <5>1
      <4>4. CASE j = i
        <5>1. g[j \div 2] = h[j \div 2] /\ g[j] = h[c]
          BY <2>1, <3>2, <3>3, <4>1, <4>4
        <5>2. Before(h[i \div 2], h[c])
          BY <1>1, <2>1, <4>4
        <5> QED
          BY <4>4, <5>1, <5>2
      <4>5. CASE j # c /\ j # i /\ j \div 2 # i
        BY <1>1, <3>2, <3>3, <4>1, <4>5
      <4> QED
        BY <4>2, <4>3, <4>4, <4>5
    <3>4. ASSUME NEW j \in 2 .. n, j \div 2 = c
          PROVE  Before(g[c \div 2], g[j])
      <4>1. c < j /\ j # i /\ j \in 1 .. n /\ j # c /\ c # i
        BY <1>1, <1>3, <2>1, <3>4
      <4>2. g[j] = h[j] /\ g[c \div 2] = h[c] /\ Before(h[c], h[j])
        BY <1>1, <2>1, <3>2, <3>4, <4>1
      <4> QED
        BY <4>2
    <3> DEFINE t == [h |-> g, i |-> c]
    <3>5. t \in HeapStates /\ t.h = g /\ t.i = c
      BY <2>1, <3>2 DEF HeapStates
    <3>6. Heap!Sink(s) = t
      BY <1>1, <1>4, <1>6, <2>4 DEF h, i
    <3> HIDE DEF t
    <3>7. t \in Sinking(R, n)
      <4>1. c \in 1 .. n + 1
        BY <2>1
      <4>2. NearHeap(t, R, n)
        BY <3>2, <3>4, <3>5, <4>1 DEF NearHeap
      <4> QED
        BY <3>3, <3>5, <4>2 DEF Sinking
    <3>8. t.i > s.i /\ s.i \in Nat
      BY <1>1, <2>1, <3>5 DEF i
    <3> QED
      BY <3>6, <3>7, <3>8
  <2> QED
    BY <2>3, <2>4
<1> QED
  BY <1>5, <1>6

(* BottomUp ends with a heap in order. *)
LEMMA BottomUpFacts ==
  ASSUME NEW R, NEW n \in Nat, NEW h, NEW i \in 1 .. n, [h |-> h, i |-> i] \in Rising(R, n)
  PROVE  LET g == Heap!BottomUp(h, i) IN
         g \in Seq(Event) /\ Len(g) = n /\ Range(g) = R /\ Once(g) /\ Ordered(g)
<1> DEFINE S == Rising(R, n)
           s0 == [h |-> h, i |-> i]
           op == [s \in S |-> Heap!Rise(s)]
           rank == [s \in S |-> s.i]
           body(f) == [m \in 0 .. n |-> IF m = 0 THEN s0 ELSE Heap!Rise(f[m - 1])]
           at == CHOOSE f : f = body(f)
<1>1. s0 \in S /\ s0.h = h /\ s0.i = i
  OBVIOUS
<1>2. h \in Seq(Event) /\ Len(h) = n
  BY <1>1 DEF Rising, NearHeap, HeapStates
<1>3. \A s \in S : Heap!Rise(s) \in S /\ s.i \in Nat
  BY RiseKeeps DEF Rising, HeapStates
<1> HIDE DEF s0, S
<1>4. op \in [S -> S] /\ rank \in [S -> Nat] /\ \A s \in S : op[s] = Heap!Rise(s) /\ rank[s] = s.i
  BY <1>3
<1>5. \A s \in S : op[s] = s \/ rank[op[s]] < rank[s]
  BY <1>3, <1>4, RiseKeeps DEF S
<1> HIDE DEF op, rank
<1>6. rank[s0] <= n
  BY <1>1, <1>4
<1>7. at = body(at)
  <2>1. PICK f \in RunsOf(S, s0, op, n) : TRUE
    BY <1>1, <1>4, LoopRuns
  <2>2. f \in [0 .. n -> S] /\ f[0] = s0 /\ \A m \in 1 .. n : f[m] = op[f[m - 1]]
    BY <2>1 DEF RunsOf
  <2>3. ASSUME NEW m \in 0 .. n, m # 0
        PROVE  f[m] = Heap!Rise(f[m - 1])
    <3>1. m \in 1 .. n /\ m - 1 \in 0 .. n
      BY <2>3
    <3> QED
      BY <1>4, <2>2, <3>1
  <2>4. f = body(f)
    BY <2>2, <2>3
  <2> HIDE DEF body
  <2> QED
    BY <2>4
<1>8. at \in RunsOf(S, s0, op, n)
  <2>1. /\ DOMAIN at = 0 .. n /\ at = [m \in 0 .. n |-> at[m]] /\ at[0] = s0
        /\ \A m \in 0 .. n : m # 0 => at[m] = Heap!Rise(at[m - 1])
    <3> HIDE DEF at
    <3> QED
      BY <1>7
  <2> HIDE DEF at
  <2>2. ASSUME NEW m \in 1 .. n, at[m - 1] \in S
        PROVE  at[m] = op[at[m - 1]]
    <3>1. m \in 0 .. n /\ m # 0
      OBVIOUS
    <3> QED
      BY <1>4, <2>1, <2>2, <3>1
  <2> QED
    BY <1>1, <1>4, <2>1, <2>2, LoopIsRun
<1>9. Heap!BottomUp(h, i) = at[n].h
  BY <1>2 DEF Heap!BottomUp, at, body, s0
<1> HIDE DEF at, body
<1>10. at[n] \in S /\ op[at[n]] = at[n]
  <2>1. s0 \in S /\ op \in [S -> S] /\ rank \in [S -> Nat]
    BY <1>1, <1>4
  <2> QED
    BY <1>5, <1>6, <1>8, <2>1, LoopEnds
<1>11. Ordered(at[n].h)
  BY <1>4, <1>10, RiseKeeps DEF S
<1> QED
  BY <1>9, <1>10, <1>11 DEF S, Rising, NearHeap, HeapStates
(* TopDown ends with a heap in order. *)
LEMMA TopDownFacts ==
  ASSUME NEW R, NEW n \in Nat, NEW h, NEW i \in 1 .. n + 1, [h |-> h, i |-> i] \in Sinking(R, n)
  PROVE  LET g == Heap!TopDown(h, i) IN
         g \in Seq(Event) /\ Len(g) = n /\ Range(g) = R /\ Once(g) /\ Ordered(g)
<1> DEFINE S == Sinking(R, n)
           s0 == [h |-> h, i |-> i]
           op == [s \in S |-> Heap!Sink(s)]
           rank == [s \in S |-> n + 1 - s.i]
           body(f) == [m \in 0 .. n |-> IF m = 0 THEN s0 ELSE Heap!Sink(f[m - 1])]
           at == CHOOSE f : f = body(f)
<1>1. s0 \in S /\ s0.h = h /\ s0.i = i
  OBVIOUS
<1>2. h \in Seq(Event) /\ Len(h) = n
  BY <1>1 DEF Sinking, NearHeap, HeapStates
<1>3. \A s \in S : Heap!Sink(s) \in S /\ s.i \in 1 .. n + 1
  BY SinkKeeps DEF Sinking, NearHeap, HeapStates
<1> HIDE DEF s0, S
<1>4. /\ op \in [S -> S] /\ rank \in [S -> Nat]
      /\ \A s \in S : op[s] = Heap!Sink(s) /\ rank[s] = n + 1 - s.i
  BY <1>3
<1>5. \A s \in S : op[s] = s \/ rank[op[s]] < rank[s]
  BY <1>3, <1>4, SinkKeeps DEF S
<1> HIDE DEF op, rank
<1>6. rank[s0] <= n
  BY <1>1, <1>4
<1>7. at = body(at)
  <2>1. PICK f \in RunsOf(S, s0, op, n) : TRUE
    BY <1>1, <1>4, LoopRuns
  <2>2. f \in [0 .. n -> S] /\ f[0] = s0 /\ \A m \in 1 .. n : f[m] = op[f[m - 1]]
    BY <2>1 DEF RunsOf
  <2>3. ASSUME NEW m \in 0 .. n, m # 0
        PROVE  f[m] = Heap!Sink(f[m - 1])
    <3>1. m \in 1 .. n /\ m - 1 \in 0 .. n
      BY <2>3
    <3> QED
      BY <1>4, <2>2, <3>1
  <2>4. f = body(f)
    BY <2>2, <2>3
  <2> HIDE DEF body
  <2> QED
    BY <2>4
<1>8. at \in RunsOf(S, s0, op, n)
  <2>1. /\ DOMAIN at = 0 .. n /\ at = [m \in 0 .. n |-> at[m]] /\ at[0] = s0
        /\ \A m \in 0 .. n : m # 0 => at[m] = Heap!Sink(at[m - 1])
    <3> HIDE DEF at
    <3>1. at = [m \in 0 .. n |-> IF m = 0 THEN s0 ELSE Heap!Sink(at[m - 1])]
      BY <1>7
    <3>2. \A m \in 0 .. n : at[m] = IF m = 0 THEN s0 ELSE Heap!Sink(at[m - 1])
      BY <3>1, Zenon
    <3> QED
      BY <3>1, <3>2
  <2> HIDE DEF at
  <2>2. ASSUME NEW m \in 1 .. n, at[m - 1] \in S
        PROVE  at[m] = op[at[m - 1]]
    <3>1. m \in 0 .. n /\ m # 0
      OBVIOUS
    <3> QED
      BY <1>4, <2>1, <2>2, <3>1
  <2> QED
    BY <1>1, <1>4, <2>1, <2>2, LoopIsRun
<1>9. Heap!TopDown(h, i) = at[n].h
  BY <1>2 DEF Heap!TopDown, at, body, s0
<1> HIDE DEF at, body
<1>10. at[n] \in S /\ op[at[n]] = at[n]
  <2>1. s0 \in S /\ op \in [S -> S] /\ rank \in [S -> Nat]
    BY <1>1, <1>4
  <2> QED
    BY <1>5, <1>6, <1>8, <2>1, LoopEnds
<1>11. Ordered(at[n].h)
  BY <1>4, <1>10, SinkKeeps DEF S
<1> QED
  BY <1>9, <1>10, <1>11 DEF S, Sinking, NearHeap, HeapStates

GoodHeap(h) == h \in Seq(Event) /\ Once(h) /\ Ordered(h)

(* The first element of a heap comes before all others. *)
LEMMA RootIsFirst ==
  ASSUME NEW h, GoodHeap(h), NEW k \in 1 .. Len(h)
  PROVE  k = 1 \/ Before(h[1], h[k])
<1> DEFINE n == Len(h)
           T == {m \in Nat : \A j \in 1 .. n : j <= m => j = 1 \/ Before(h[1], h[j])}
<1>0. h \in Seq(Event) /\ n \in Nat /\ \A j \in 1 .. n : h[j] \in Event
  BY DEF GoodHeap
<1>1. 0 \in T
  OBVIOUS
<1>2. ASSUME NEW m \in Nat, m \in T, NEW j \in 1 .. n, j <= m + 1, j # 1
      PROVE  Before(h[1], h[j])
  <2>1. j \in 2 .. n /\ j \div 2 \in 1 .. n /\ j \div 2 <= m /\ 1 \in 1 .. n
    BY <1>0, <1>2
  <2>2. Before(h[j \div 2], h[j])
    BY <2>1 DEF GoodHeap, Ordered
  <2>3. j \div 2 = 1 \/ Before(h[1], h[j \div 2])
    BY <1>2, <2>1
  <2>4. h[1] \in Event /\ h[j] \in Event /\ h[j \div 2] \in Event
    BY <1>0, <2>1
  <2>5. CASE j \div 2 = 1
    BY <2>2, <2>5
  <2>6. CASE Before(h[1], h[j \div 2])
    BY <2>2, <2>4, <2>6, BeforeOrder
  <2> QED
    BY <2>3, <2>5, <2>6
<1>3. \A m \in Nat : m \in T => m + 1 \in T
  BY <1>2
<1>4. k \in T /\ k \in Nat
  <2> HIDE DEF T
  <2>1. Nat \subseteq T
    BY <1>1, <1>3, SetInduction
  <2> QED
    BY <1>0, <2>1
<1> QED
  BY <1>4

(* Insert keeps the heap in order and adds the event. *)
LEMMA HeapInsert ==
  ASSUME NEW h, GoodHeap(h), NEW e \in Event, \A i \in 1 .. Len(h) : h[i].uid # e.uid
  PROVE  GoodHeap(Heap!Insert(h, e)) /\ Range(Heap!Insert(h, e)) = Range(h) \cup {e}
<1> DEFINE g == Append(h, e)
           n == Len(h) + 1
           s == [h |-> g, i |-> n]
<1>1. /\ h \in Seq(Event) /\ Len(h) \in Nat /\ g \in Seq(Event) /\ Len(g) = n /\ g[n] = e
      /\ \A j \in 1 .. Len(h) : g[j] = h[j]
  BY DEF GoodHeap
<1>2. n \in Nat /\ n \in 1 .. n /\ \A j \in 1 .. n : j \in 1 .. Len(h) \/ j = n
  BY <1>1
<1>3. s \in HeapStates /\ s.h = g /\ s.i = n
  BY <1>1, <1>2 DEF HeapStates
<1> HIDE DEF g, n, s
<1>4. Once(g)
  BY <1>1, <1>2 DEF Once, GoodHeap
<1>5. Range(g) = Range(h) \cup {e}
  <2>1. Range(g) = {g[j] : j \in 1 .. n} /\ Range(h) = {h[j] : j \in 1 .. Len(h)}
    BY <1>1, RangeOf
  <2>2. \A j \in 1 .. Len(h) : j \in 1 .. n
    BY <1>1 DEF n
  <2> QED
    BY <1>1, <1>2, <2>1, <2>2
<1>6. \A j \in 2 .. n : j # n => Before(g[j \div 2], g[j])
  <2> SUFFICES ASSUME NEW j \in 2 .. n, j # n PROVE Before(g[j \div 2], g[j])
    OBVIOUS
  <2>1. j \in 2 .. Len(h) /\ j \in 1 .. Len(h) /\ j \div 2 \in 1 .. Len(h)
    BY <1>1 DEF n
  <2> QED
    BY <1>1, <2>1 DEF GoodHeap, Ordered
<1>7. NearHeap(s, Range(g), n)
  <2>1. \A j \in 2 .. n : j \div 2 # n
    BY <1>2
  <2>2. n \in 1 .. n + 1
    BY <1>2
  <2> QED
    BY <1>1, <1>3, <1>4, <2>1, <2>2 DEF NearHeap
<1>8. s \in Rising(Range(g), n)
  BY <1>2, <1>3, <1>6, <1>7 DEF Rising
<1>9. Heap!Insert(h, e) = Heap!BottomUp(g, n)
  BY DEF Heap!Insert, g, n
<1>10. [h |-> g, i |-> n] \in Rising(Range(g), n)
  BY <1>8 DEF s
<1> QED
  BY <1>2, <1>5, <1>9, <1>10, BottomUpFacts DEF GoodHeap

(* The element at i goes, if the last one may take its place.              *)
LEMMA HeapTake ==
  ASSUME NEW h, GoodHeap(h), NEW i \in 1 .. Len(h),
         i # 1 /\ i # Len(h) => Before(h[i \div 2], h[Len(h)])
  PROVE  GoodHeap(Heap!Take(h, i)) /\ Range(Heap!Take(h, i)) = Range(h) \ {h[i]}
<1> DEFINE n == Len(h) - 1
           x == Heap!Exch(h, i, Len(h))
           g == Heap!Front(x)
           s == [h |-> g, i |-> i]
<1>1. h \in Seq(Event) /\ Len(h) \in Nat \ {0} /\ n \in Nat /\ i \in 1 .. n + 1 /\ n + 1 = Len(h)
      /\ Once(h) /\ \A j \in 1 .. Len(h) : h[j] \in Event
  BY DEF GoodHeap
<1>2. /\ x \in Seq(Event) /\ Len(x) = Len(h) /\ x[i] = h[Len(h)]
      /\ \A j \in 1 .. n : j # i => x[j] = h[j]
  BY <1>1 DEF Heap!Exch
<1>3. g \in Seq(Event) /\ Len(g) = n /\ \A j \in 1 .. n : g[j] = x[j]
  <2> HIDE DEF x
  <2> QED
    BY <1>1, <1>2 DEF Heap!Front
<1>4. i <= n => g[i] = h[n + 1]
  BY <1>1, <1>2, <1>3
<1>5. \A j \in 1 .. n : j # i => g[j] = h[j]
  BY <1>2, <1>3
<1> HIDE DEF x, g, n
<1>6. Once(g)
  BY <1>1, <1>3, <1>4, <1>5 DEF Once
<1>7. Range(g) = Range(h) \ {h[i]}
  <2>1. Range(g) = {g[j] : j \in 1 .. n} /\ Range(h) = {h[j] : j \in 1 .. n + 1}
    BY <1>1, <1>3, RangeOf
  <2>2. \A j \in 1 .. n + 1 : j # i => h[j] # h[i]
    BY <1>1 DEF Once
  <2>3. \A j \in 1 .. n : \E m \in 1 .. n + 1 : m # i /\ g[j] = h[m]
    <3> SUFFICES ASSUME NEW j \in 1 .. n PROVE \E m \in 1 .. n + 1 : m # i /\ g[j] = h[m]
      OBVIOUS
    <3>1. CASE j = i
      BY <1>1, <1>4, <3>1
    <3>2. CASE j # i
      BY <1>1, <1>5, <3>2
    <3> QED
      BY <3>1, <3>2
  <2>4. \A m \in 1 .. n + 1 : m # i => \E j \in 1 .. n : g[j] = h[m]
    <3> SUFFICES ASSUME NEW m \in 1 .. n + 1, m # i PROVE \E j \in 1 .. n : g[j] = h[m]
      OBVIOUS
    <3>1. CASE m = n + 1
      BY <1>1, <1>4, <3>1
    <3>2. CASE m # n + 1
      BY <1>1, <1>5, <3>2
    <3> QED
      BY <3>1, <3>2
  <2>5. Range(g) \subseteq Range(h) \ {h[i]}
    BY <2>1, <2>2, <2>3
  <2>6. Range(h) \ {h[i]} \subseteq Range(g)
    <3> SUFFICES ASSUME NEW m \in 1 .. n + 1, h[m] # h[i] PROVE h[m] \in Range(g)
      BY <2>1
    <3>1. m # i
      OBVIOUS
    <3> QED
      BY <2>1, <2>4, <3>1
  <2> QED
    BY <2>5, <2>6
<1>8. ASSUME NEW j \in 2 .. n, j \div 2 # i
      PROVE  Before(g[j \div 2], g[j])
  <2>1. j \in 2 .. Len(h) /\ j \in 1 .. n /\ j \div 2 \in 1 .. n /\ g[j \div 2] = h[j \div 2]
    BY <1>1, <1>5, <1>8
  <2>2. CASE j = i
    BY <1>1, <1>4, <2>1, <2>2
  <2>3. CASE j # i
    BY <1>5, <2>1, <2>3 DEF GoodHeap, Ordered
  <2> QED
    BY <2>2, <2>3
<1>9. ASSUME NEW j \in 2 .. n, j \div 2 = i, i # 1
      PROVE  Before(g[i \div 2], g[j])
  <2>1. /\ j \in 2 .. Len(h) /\ j \in 1 .. n /\ j # i /\ i \in 2 .. Len(h)
        /\ i \div 2 \in 1 .. n /\ i \div 2 # i /\ i \in 1 .. Len(h) /\ j \in 1 .. Len(h)
        /\ i \div 2 \in 1 .. Len(h)
    BY <1>1, <1>9
  <2>2. Before(h[i \div 2], h[i]) /\ Before(h[i], h[j])
    BY <1>9, <2>1 DEF GoodHeap, Ordered
  <2>3. Before(h[i \div 2], h[j])
    <3>1. h[i \div 2] \in Event /\ h[i] \in Event /\ h[j] \in Event
      BY <1>1, <2>1
    <3> QED
      BY <2>2, <3>1, BeforeOrder
  <2> QED
    BY <1>5, <2>1, <2>3
<1>10. s \in HeapStates /\ s.h = g /\ s.i = i
  BY <1>1, <1>3 DEF HeapStates
<1> HIDE DEF s
<1>11. NearHeap(s, Range(g), n)
  BY <1>1, <1>3, <1>6, <1>9, <1>10 DEF NearHeap
<1>12. s \in Sinking(Range(g), n)
  BY <1>8, <1>10, <1>11 DEF Sinking
<1>13. Heap!Take(h, i) = Heap!TopDown(g, i)
  BY DEF Heap!Take, Heap!Heapify, g, x
<1>14. [h |-> g, i |-> i] \in Sinking(Range(g), n)
  BY <1>12 DEF s
<1> QED
  BY <1>1, <1>7, <1>13, <1>14, TopDownFacts DEF GoodHeap

(* Id by id, a heap has its earliest event at the root. *)
IsEarliest(e, E) == e \in E /\ \A f \in E \ {e} : Before(e, f)

(* What Earliest chooses is the earliest event. *)
LEMMA EarliestIs ==
  ASSUME NEW E \in SUBSET Event, NEW e, IsEarliest(e, E)
  PROVE  Earliest(E) = e
<1>1. e \in E /\ \A f \in E \ {e} : Before(e, f)
  BY DEF IsEarliest
<1>2. ASSUME NEW d \in E, \A f \in E \ {d} : Before(d, f)
      PROVE  d = e
  <2> SUFFICES ASSUME d # e PROVE FALSE
    OBVIOUS
  <2>1. Before(d, e) /\ Before(e, d) /\ d \in Event /\ e \in Event
    BY <1>1, <1>2
  <2> QED
    BY <2>1, BeforeOrder
<1> QED
  BY <1>1, <1>2 DEF Earliest

(* RemoveNext takes the earliest event out. *)
LEMMA HeapRemoveNext ==
  ASSUME NEW h, GoodHeap(h), Range(h) # {}
  PROVE  /\ IsEarliest(Heap!PeekNext(h), Range(h))
         /\ GoodHeap(Heap!RemoveNext(h))
         /\ Range(Heap!RemoveNext(h)) = Range(h) \ {Heap!PeekNext(h)}
<1>1. h \in Seq(Event) /\ Range(h) = {h[i] : i \in 1 .. Len(h)} /\ Len(h) \in Nat
  BY RangeOf DEF GoodHeap
<1>2. 1 \in 1 .. Len(h)
  BY <1>1
<1>3. IsEarliest(h[1], Range(h))
  <2>1. h[1] \in Range(h)
    BY <1>1, <1>2
  <2>2. \A f \in Range(h) \ {h[1]} : Before(h[1], f)
    BY <1>1, RootIsFirst
  <2> QED
    BY <2>1, <2>2 DEF IsEarliest
<1>4. GoodHeap(Heap!Take(h, 1)) /\ Range(Heap!Take(h, 1)) = Range(h) \ {h[1]}
  BY <1>2, HeapTake
<1> QED
  BY <1>3, <1>4 DEF Heap!PeekNext, Heap!RemoveNext

(* The parents among up to five elements. *)
LEMMA SmallHalves ==
  ASSUME NEW i \in Nat, NEW n \in Nat, 1 < i, i < n, n <= 5
  PROVE  i \div 2 = 1 \/ (i = 4 /\ n = 5)
OBVIOUS

(* In a heap of up to five events the last may take the place of any. *)
LEMMA HeapRemoveEvent ==
  ASSUME NEW h, GoodHeap(h), Len(h) <= 5, NEW e \in Range(h)
  PROVE  /\ GoodHeap(Heap!RemoveEvent(h, e))
         /\ Range(Heap!RemoveEvent(h, e)) = Range(h) \ {e}
<1> DEFINE i == CHOOSE j \in DOMAIN h : h[j].uid = e.uid
<1>1. /\ h \in Seq(Event) /\ Range(h) = {h[j] : j \in 1 .. Len(h)} /\ Len(h) \in Nat
      /\ DOMAIN h = 1 .. Len(h)
  BY RangeOf DEF GoodHeap
<1>2. i \in 1 .. Len(h) /\ h[i].uid = e.uid
  BY <1>1
<1> HIDE DEF i
<1>3. h[i] = e
  <2>1. PICK j \in 1 .. Len(h) : h[j] = e
    BY <1>1
  <2> QED
    BY <1>2, <2>1 DEF GoodHeap, Once
<1>4. i # 1 /\ i # Len(h) => Before(h[i \div 2], h[Len(h)])
  <2> SUFFICES ASSUME i # 1, i # Len(h) PROVE Before(h[i \div 2], h[Len(h)])
    OBVIOUS
  <2>1. i \in Nat /\ 1 < i /\ i < Len(h) /\ Len(h) \in 1 .. Len(h) /\ Len(h) # 1
    <3> DEFINE n == Len(h)
    <3>1. n \in Nat /\ i \in 1 .. n /\ i # n
      BY <1>1, <1>2
    <3> HIDE DEF n
    <3>2. i \in Nat /\ 1 < i /\ i < n /\ n \in 1 .. n /\ n # 1
      BY <3>1
    <3> QED
      BY <3>2 DEF n
  <2>2. i \div 2 = 1 \/ (i = 4 /\ Len(h) = 5)
    BY <1>1, <2>1, SmallHalves
  <2>3. CASE i \div 2 = 1
    BY <2>1, <2>3, RootIsFirst
  <2>4. CASE i = 4 /\ Len(h) = 5
    <3>1. 5 \in 2 .. Len(h) /\ 4 \div 2 = 2 /\ 5 \div 2 = 2
      BY <2>4
    <3>2. Before(h[5 \div 2], h[5])
      BY <3>1 DEF GoodHeap, Ordered
    <3> QED
      BY <2>4, <3>1, <3>2
  <2> QED
    BY <2>2, <2>3, <2>4
<1>5. GoodHeap(Heap!Take(h, i)) /\ Range(Heap!Take(h, i)) = Range(h) \ {h[i]}
  BY <1>2, <1>4, HeapTake
<1> QED
  BY <1>3, <1>5 DEF Heap!RemoveEvent, i

(* Sorted sequences of events, the earliest first or, if rev, last. *)
Ranked(rev, a, b) == IF rev THEN Before(b, a) ELSE Before(a, b)
Sorted(l, rev) == \A i, j \in 1 .. Len(l) : i < j => Ranked(rev, l[i], l[j])

(* The order of a bucket, reversed or not, is total. *)
LEMMA RankedOrder ==
  ASSUME NEW rev \in BOOLEAN, NEW a \in Event, NEW b \in Event, NEW c \in Event
  PROVE  /\ Ranked(rev, a, b) /\ Ranked(rev, b, c) => Ranked(rev, a, c)
         /\ a.uid # b.uid => Ranked(rev, a, b) \/ Ranked(rev, b, a)
         /\ Ranked(rev, a, b) => a # b
BY BeforeOrder DEF Ranked

IsInserted(m, l, k, e) ==
  /\ m \in Seq(Event) /\ Len(m) = Len(l) + 1 /\ m[k] = e
  /\ \A j \in 1 .. Len(l) : (j < k => m[j] = l[j]) /\ (j >= k => m[j + 1] = l[j])

IsDropped(m, l, k) ==
  /\ m \in Seq(Event) /\ Len(m) = Len(l) - 1
  /\ \A j \in 1 .. Len(m) : (j < k => m[j] = l[j]) /\ (j >= k => m[j] = l[j + 1])

(* What InsertAt does, element by element. *)
LEMMA InsertAtIs ==
  ASSUME NEW l \in Seq(Event), NEW k \in 1 .. Len(l) + 1, NEW e \in Event
  PROVE  IsInserted(InsertAt(l, k, e), l, k, e)
<1> DEFINE a == SubSeq(l, 1, k - 1)
           b == SubSeq(l, k, Len(l))
           m == (a \o <<e>>) \o b
<1>1. a \in Seq(Event) /\ Len(a) = k - 1 /\ \A j \in 1 .. k - 1 : a[j] = l[j]
  OBVIOUS
<1>2. /\ b \in Seq(Event) /\ Len(b) = Len(l) + 1 - k
      /\ \A j \in 1 .. Len(l) + 1 - k : b[j] = l[k + j - 1]
  OBVIOUS
<1> HIDE DEF a, b
<1> DEFINE c == a \o <<e>>
<1>3. c \in Seq(Event) /\ Len(c) = k /\ c[k] = e /\ \A j \in 1 .. k - 1 : c[j] = l[j]
  BY <1>1
<1> HIDE DEF c
<1> DEFINE d == c \o b
<1>4. /\ d \in Seq(Event) /\ Len(d) = Len(l) + 1 /\ d[k] = e
      /\ \A j \in 1 .. k - 1 : d[j] = l[j]
  BY <1>2, <1>3
<1>5. \A j \in k .. Len(l) : d[j + 1] = l[j]
  <2> SUFFICES ASSUME NEW j \in k .. Len(l) PROVE d[j + 1] = l[j]
    OBVIOUS
  <2>1. j + 1 - k \in 1 .. Len(b) /\ j + 1 \in 1 .. Len(c) + Len(b) /\ j + 1 > Len(c)
    BY <1>2, <1>3
  <2>2. d[j + 1] = b[j + 1 - k]
    BY <1>2, <1>3, <2>1
  <2>3. b[j + 1 - k] = l[k + (j + 1 - k) - 1] /\ k + (j + 1 - k) - 1 = j
    BY <1>2, <2>1
  <2> QED
    BY <2>2, <2>3
<1>6. InsertAt(l, k, e) = d
  BY DEF InsertAt, a, b, c
<1> HIDE DEF d
<1>7. \A j \in 1 .. Len(l) : (j < k => j \in 1 .. k - 1) /\ (j >= k => j \in k .. Len(l))
  <2>1. Len(l) \in Nat /\ k \in Int
    OBVIOUS
  <2> QED
    BY <2>1
<1> QED
  BY <1>4, <1>5, <1>6, <1>7 DEF IsInserted

(* What RemoveAt does, element by element. *)
LEMMA RemoveAtIs ==
  ASSUME NEW l \in Seq(Event), NEW k \in 1 .. Len(l)
  PROVE  IsDropped(RemoveAt(l, k), l, k)
<1> DEFINE a == SubSeq(l, 1, k - 1)
           b == SubSeq(l, k + 1, Len(l))
           d == a \o b
<1>1. a \in Seq(Event) /\ Len(a) = k - 1 /\ \A j \in 1 .. k - 1 : a[j] = l[j]
  OBVIOUS
<1>2. /\ b \in Seq(Event) /\ Len(b) = Len(l) - k
      /\ \A j \in 1 .. Len(l) - k : b[j] = l[k + j]
  OBVIOUS
<1> HIDE DEF a, b
<1>3. /\ d \in Seq(Event) /\ Len(d) = Len(l) - 1
      /\ \A j \in 1 .. k - 1 : d[j] = l[j]
  <2>1. d \in Seq(Event) /\ Len(d) = Len(a) + Len(b) /\ \A j \in 1 .. Len(a) : d[j] = a[j]
    <3>1. a \in Seq(Event) /\ b \in Seq(Event) /\ Len(a) \in Nat /\ Len(b) \in Nat
      BY <1>1, <1>2
    <3>2. d \in Seq(Event) /\ Len(d) = Len(a) + Len(b)
      BY <3>1
    <3>3. \A j \in 1 .. Len(a) : d[j] = a[j]
      BY <3>1
    <3> QED
      BY <3>2, <3>3
  <2>2. Len(l) \in Nat /\ k \in Nat
    OBVIOUS
  <2> HIDE DEF d
  <2> QED
    BY <1>1, <1>2, <2>1, <2>2
<1>4. \A j \in k .. Len(l) - 1 : d[j] = l[j + 1]
  <2> SUFFICES ASSUME NEW j \in k .. Len(l) - 1 PROVE d[j] = l[j + 1]
    OBVIOUS
  <2>1. j - (k - 1) \in 1 .. Len(b) /\ j \in 1 .. Len(a) + Len(b) /\ j > Len(a)
    BY <1>1, <1>2
  <2>2. d[j] = b[j - (k - 1)]
    BY <1>1, <1>2, <2>1
  <2>3. b[j - (k - 1)] = l[k + (j - (k - 1))] /\ k + (j - (k - 1)) = j + 1
    BY <1>2, <2>1
  <2> QED
    BY <2>2, <2>3
<1>5. RemoveAt(l, k) = d
  BY DEF RemoveAt, a, b
<1> HIDE DEF d
<1>6. \A j \in 1 .. Len(d) : (j < k => j \in 1 .. k - 1) /\ (j >= k => j \in k .. Len(l) - 1)
  BY <1>3
<1> QED
  BY <1>3, <1>4, <1>5, <1>6 DEF IsDropped

(* The minimum is in the set and no larger than its elements. *)
LEMMA MinIs ==
  ASSUME NEW T \in SUBSET Nat, T # {}
  PROVE  Min(T) \in T /\ \A y \in T : Min(T) <= y
BY SmallestExists DEF Min

(* An event put in before the first one that follows it keeps the order. *)
LEMMA InsertedKeeps ==
  ASSUME NEW rev \in BOOLEAN, NEW l \in Seq(Event), Once(l), Sorted(l, rev), NEW e \in Event,
         \A j \in 1 .. Len(l) : l[j].uid # e.uid,
         NEW k \in 1 .. Len(l) + 1,
         \A j \in 1 .. Len(l) : j < k => ~Ranked(rev, e, l[j]),
         k <= Len(l) => Ranked(rev, e, l[k]),
         NEW m, IsInserted(m, l, k, e)
  PROVE  Once(m) /\ Sorted(m, rev) /\ Range(m) = Range(l) \cup {e}
<1> DEFINE at(j) == IF j < k THEN j ELSE j - 1
<1>1. /\ m \in Seq(Event) /\ Len(m) = Len(l) + 1 /\ m[k] = e /\ Len(l) \in Nat
      /\ \A j \in 1 .. Len(m) : (j # k => at(j) \in 1 .. Len(l) /\ m[j] = l[at(j)])
  <2>1. /\ m \in Seq(Event) /\ Len(m) = Len(l) + 1 /\ m[k] = e /\ Len(l) \in Nat
        /\ \A j \in 1 .. Len(l) : (j < k => m[j] = l[j]) /\ (j >= k => m[j + 1] = l[j])
    BY DEF IsInserted
  <2>2. ASSUME NEW j \in 1 .. Len(m), j # k
        PROVE  at(j) \in 1 .. Len(l) /\ m[j] = l[at(j)]
    <3>1. CASE j < k
      BY <2>1, <2>2, <3>1
    <3>2. CASE j > k
      <4>1. j - 1 \in 1 .. Len(l) /\ j - 1 >= k /\ (j - 1) + 1 = j
        BY <2>1, <2>2, <3>2
      <4> QED
        BY <2>1, <3>2, <4>1
    <3> QED
      BY <2>2, <3>1, <3>2
  <2> QED
    BY <2>1, <2>2
<1>2. ASSUME NEW j \in 1 .. Len(l), j >= k
      PROVE  Ranked(rev, e, l[j])
  <2>1. CASE j = k
    BY <2>1
  <2>2. CASE j # k
    <3>1. k \in 1 .. Len(l) /\ k < j /\ Ranked(rev, e, l[k])
      BY <1>2, <2>2
    <3>2. Ranked(rev, l[k], l[j]) /\ l[k] \in Event /\ l[j] \in Event
      BY <3>1 DEF Sorted
    <3> QED
      BY <3>1, <3>2, RankedOrder
  <2> QED
    BY <2>1, <2>2
<1>3. ASSUME NEW j \in 1 .. Len(l), j < k
      PROVE  Ranked(rev, l[j], e)
  <2>1. l[j] \in Event /\ l[j].uid # e.uid /\ ~Ranked(rev, e, l[j])
    BY <1>3
  <2> QED
    BY <2>1, RankedOrder
<1>4. Sorted(m, rev)
  <2> SUFFICES ASSUME NEW i \in 1 .. Len(m), NEW j \in 1 .. Len(m), i < j
               PROVE  Ranked(rev, m[i], m[j])
    BY DEF Sorted
  <2>1. CASE i = k
    <3>1. at(j) >= k /\ j # k
      BY <2>1
    <3> QED
      BY <1>1, <1>2, <2>1, <3>1
  <2>2. CASE j = k
    <3>1. at(i) < k /\ i # k
      BY <2>2
    <3> QED
      BY <1>1, <1>3, <2>2, <3>1
  <2>3. CASE i # k /\ j # k
    <3>1. at(i) < at(j)
      BY <2>3
    <3>2. at(i) \in 1 .. Len(l) /\ at(j) \in 1 .. Len(l) /\ m[i] = l[at(i)] /\ m[j] = l[at(j)]
      BY <1>1, <2>3
    <3> HIDE DEF at
    <3> QED
      BY <3>1, <3>2 DEF Sorted
  <2> QED
    BY <2>1, <2>2, <2>3
<1>5. Once(m)
  <2> SUFFICES ASSUME NEW i \in 1 .. Len(m), NEW j \in 1 .. Len(m), m[i].uid = m[j].uid
               PROVE  i = j
    BY DEF Once
  <2>0. \A x \in 1 .. Len(m) : x # k => m[x].uid # e.uid
    <3> SUFFICES ASSUME NEW x \in 1 .. Len(m), x # k PROVE m[x].uid # e.uid
      OBVIOUS
    <3>1. at(x) \in 1 .. Len(l) /\ m[x] = l[at(x)]
      BY <1>1
    <3> HIDE DEF at
    <3> QED
      BY <3>1
  <2>1. CASE i = k \/ j = k
    BY <1>1, <2>0, <2>1
  <2>2. CASE i # k /\ j # k
    <3>1. at(i) \in 1 .. Len(l) /\ at(j) \in 1 .. Len(l) /\ l[at(i)].uid = l[at(j)].uid
      BY <1>1, <2>2
    <3>2. at(i) = at(j)
      <4> HIDE DEF at
      <4> QED
        BY <3>1 DEF Once
    <3> QED
      BY <2>2, <3>2
  <2> QED
    BY <2>1, <2>2
<1>6. Range(m) = Range(l) \cup {e}
  <2>1. Range(m) = {m[j] : j \in 1 .. Len(m)} /\ Range(l) = {l[j] : j \in 1 .. Len(l)}
    BY <1>1, RangeOf
  <2>2. Range(m) \subseteq Range(l) \cup {e}
    <3> SUFFICES ASSUME NEW j \in 1 .. Len(m) PROVE m[j] \in Range(l) \cup {e}
      BY <2>1
    <3>1. CASE j = k
      BY <1>1, <3>1
    <3>2. CASE j # k
      <4>1. at(j) \in 1 .. Len(l) /\ m[j] = l[at(j)]
        BY <1>1, <3>2
      <4> HIDE DEF at
      <4> QED
        BY <2>1, <4>1
    <3> QED
      BY <3>1, <3>2
  <2>3. \A j \in 1 .. Len(l) : \E i \in 1 .. Len(m) : m[i] = l[j]
    <3> SUFFICES ASSUME NEW j \in 1 .. Len(l) PROVE \E i \in 1 .. Len(m) : m[i] = l[j]
      OBVIOUS
    <3>1. CASE j < k
      <4>1. j \in 1 .. Len(m) /\ m[j] = l[j]
        BY <1>1, <3>1
      <4> QED
        BY <4>1
    <3>2. CASE j >= k
      <4>1. j + 1 \in 1 .. Len(m) /\ m[j + 1] = l[j]
        BY <1>1, <3>2
      <4> QED
        BY <4>1
    <3> QED
      BY <3>1, <3>2
  <2>4. k \in 1 .. Len(m)
    BY <1>1
  <2> QED
    BY <1>1, <2>1, <2>2, <2>3, <2>4
<1> QED
  BY <1>4, <1>5, <1>6

(* A sequence without one of its elements stays in order. *)
LEMMA DroppedKeeps ==
  ASSUME NEW rev \in BOOLEAN, NEW l \in Seq(Event), Once(l), Sorted(l, rev),
         NEW k \in 1 .. Len(l), NEW m, IsDropped(m, l, k)
  PROVE  Once(m) /\ Sorted(m, rev) /\ Range(m) = Range(l) \ {l[k]}
<1> DEFINE at(j) == IF j < k THEN j ELSE j + 1
<1>1. /\ m \in Seq(Event) /\ Len(m) = Len(l) - 1 /\ Len(l) \in Nat
      /\ \A j \in 1 .. Len(m) : at(j) \in 1 .. Len(l) /\ at(j) # k /\ m[j] = l[at(j)]
  BY DEF IsDropped
<1>2. \A i, j \in 1 .. Len(m) : (i < j <=> at(i) < at(j)) /\ (at(i) = at(j) => i = j)
  BY <1>1
<1>3. \A i \in 1 .. Len(l) : i # k => \E j \in 1 .. Len(m) : m[j] = l[i]
  <2> SUFFICES ASSUME NEW i \in 1 .. Len(l), i # k PROVE \E j \in 1 .. Len(m) : m[j] = l[i]
    OBVIOUS
  <2>1. CASE i < k
    <3>1. i \in 1 .. Len(m) /\ at(i) = i
      BY <1>1, <2>1
    <3> QED
      BY <1>1, <3>1
  <2>2. CASE i > k
    <3>1. i - 1 \in 1 .. Len(m) /\ at(i - 1) = i
      BY <1>1, <2>2
    <3> QED
      BY <1>1, <3>1
  <2> QED
    BY <2>1, <2>2
<1> HIDE DEF at
<1>4. Sorted(m, rev)
  BY <1>1, <1>2 DEF Sorted
<1>5. Once(m)
  BY <1>1, <1>2 DEF Once
<1>6. Range(m) = Range(l) \ {l[k]}
  <2>1. Range(m) = {m[j] : j \in 1 .. Len(m)} /\ Range(l) = {l[j] : j \in 1 .. Len(l)}
    BY <1>1, RangeOf
  <2>2. \A i \in 1 .. Len(l) : i # k => l[i] # l[k]
    BY DEF Once
  <2>3. Range(m) \subseteq Range(l) \ {l[k]}
    BY <1>1, <2>1, <2>2
  <2>4. Range(l) \ {l[k]} \subseteq Range(m)
    <3> SUFFICES ASSUME NEW i \in 1 .. Len(l), l[i] # l[k] PROVE l[i] \in Range(m)
      BY <2>1
    <3>1. i # k
      OBVIOUS
    <3> QED
      BY <1>3, <2>1, <3>1
  <2> QED
    BY <2>3, <2>4
<1> QED
  BY <1>4, <1>5, <1>6

(* What SelectInSeq returns for the places in I. *)
FirstOf(I) == IF I # {} THEN Min(I) ELSE 0

(* The first index of a set of indices. *)
LEMMA FirstOfIs ==
  ASSUME NEW n \in Nat, NEW I \in SUBSET (1 .. n)
  PROVE  /\ I = {} => FirstOf(I) = 0
         /\ I # {} => FirstOf(I) \in I /\ FirstOf(I) # 0 /\ \A j \in I : FirstOf(I) <= j
<1>1. I \in SUBSET Nat /\ 0 \notin I
  OBVIOUS
<1> QED
  BY <1>1, MinIs DEF FirstOf

Later(l, e, rev) == {i \in 1 .. Len(l) : Ranked(rev, e, l[i])}
Same(l, e) == {i \in 1 .. Len(l) : l[i].uid = e.uid}
PlaceOf(l, e, rev) ==
  IF FirstOf(Later(l, e, rev)) = 0 THEN Len(l) + 1 ELSE FirstOf(Later(l, e, rev))

(* Insertion into a sorted sequence, as SelectInSeq finds the place. *)
LEMMA SortedInsert ==
  ASSUME NEW rev \in BOOLEAN, NEW l \in Seq(Event), Once(l), Sorted(l, rev), NEW e \in Event,
         \A j \in 1 .. Len(l) : l[j].uid # e.uid
  PROVE  /\ PlaceOf(l, e, rev) \in 1 .. Len(l) + 1
         /\ \A m : IsInserted(m, l, PlaceOf(l, e, rev), e) =>
              Once(m) /\ Sorted(m, rev) /\ Range(m) = Range(l) \cup {e}
<1> DEFINE k == PlaceOf(l, e, rev)
           I == Later(l, e, rev)
<1>1. Len(l) \in Nat /\ I \in SUBSET (1 .. Len(l)) /\ \A j \in 1 .. Len(l) : j \in I <=> Ranked(rev, e, l[j])
  BY DEF Later
<1>2. k = IF FirstOf(I) = 0 THEN Len(l) + 1 ELSE FirstOf(I)
  BY DEF PlaceOf
<1> HIDE DEF k, I
<1>3. CASE I = {}
  <2>1. k = Len(l) + 1
    BY <1>1, <1>2, <1>3, FirstOfIs
  <2>2. k \in 1 .. Len(l) + 1 /\ ~(k <= Len(l)) /\ \A j \in 1 .. Len(l) : ~Ranked(rev, e, l[j])
    BY <1>1, <1>3, <2>1
  <2>3. \A m : IsInserted(m, l, k, e) => Once(m) /\ Sorted(m, rev) /\ Range(m) = Range(l) \cup {e}
    BY <2>2, InsertedKeeps
  <2> QED
    BY <2>2, <2>3 DEF k
<1>4. CASE I # {}
  <2>1. k \in I /\ \A j \in I : k <= j
    BY <1>1, <1>2, <1>4, FirstOfIs
  <2>2. /\ k \in 1 .. Len(l) + 1 /\ Ranked(rev, e, l[k])
        /\ \A j \in 1 .. Len(l) : j < k => ~Ranked(rev, e, l[j])
    BY <1>1, <2>1
  <2>3. \A m : IsInserted(m, l, k, e) => Once(m) /\ Sorted(m, rev) /\ Range(m) = Range(l) \cup {e}
    BY <2>2, InsertedKeeps
  <2> QED
    BY <2>2, <2>3 DEF k
<1> QED
  BY <1>3, <1>4

(* Removal by id from a sorted sequence. *)
LEMMA SortedRemove ==
  ASSUME NEW rev \in BOOLEAN, NEW l \in Seq(Event), Once(l), Sorted(l, rev), NEW e \in Range(l)
  PROVE  LET m == RemoveAt(l, FirstOf(Same(l, e))) IN
         m \in Seq(Event) /\ Once(m) /\ Sorted(m, rev) /\ Range(m) = Range(l) \ {e}
<1> DEFINE I == Same(l, e)
           k == FirstOf(I)
<1>1. PICK i \in 1 .. Len(l) : l[i] = e
  BY RangeOf
<1>2. I \in SUBSET (1 .. Len(l)) /\ Len(l) \in Nat /\ i \in I /\ \A j \in I : l[j].uid = e.uid
  BY <1>1 DEF Same
<1> HIDE DEF I
<1>3. k \in I
  BY <1>2, FirstOfIs
<1> HIDE DEF k
<1>4. k \in 1 .. Len(l) /\ k = i
  BY <1>1, <1>2, <1>3 DEF Once
<1>5. IsDropped(RemoveAt(l, k), l, k) /\ l[k] = e
  BY <1>1, <1>4, RemoveAtIs
<1>6. RemoveAt(l, k) \in Seq(Event)
  BY <1>5 DEF IsDropped
<1>7. /\ Once(RemoveAt(l, k)) /\ Sorted(RemoveAt(l, k), rev)
      /\ Range(RemoveAt(l, k)) = Range(l) \ {e}
  BY <1>4, <1>5, DroppedKeeps
<1> QED
  BY <1>6, <1>7 DEF k, I

-----------------------------------------------------------------------------
(***************************************************************************)
(* The list.                                                               *)
(***************************************************************************)
GoodList(l) == l \in Seq(Event) /\ Once(l) /\ Sorted(l, FALSE)

(* Insert keeps the list sorted and adds the event. *)
LEMMA ListInsert ==
  ASSUME NEW l, GoodList(l), NEW e \in Event, \A j \in 1 .. Len(l) : l[j].uid # e.uid
  PROVE  GoodList(List!Insert(l, e)) /\ Range(List!Insert(l, e)) = Range(l) \cup {e}
<1> DEFINE after == FirstOf(Later(l, e, FALSE))
           k == PlaceOf(l, e, FALSE)
           m == IF after = 0 THEN Append(l, e) ELSE InsertAt(l, after, e)
<1>0. l \in Seq(Event) /\ Once(l) /\ Sorted(l, FALSE) /\ Len(l) \in Nat
  <2>1. l \in Seq(Event) /\ Once(l) /\ Sorted(l, FALSE)
    BY DEF GoodList
  <2>2. Len(l) \in Nat
    <3>1. l \in Seq(Event)
      BY <2>1
    <3> QED
      BY <3>1, RangeOf
  <2> QED
    BY <2>1, <2>2
<1>1. List!Insert(l, e) = m
  BY DEF List!Insert, List!SelectInSeq, List!Min, List!Precedes, List!Before, List!InsertAt,
         FirstOf, Min, Later, Ranked, Before, InsertAt
<1>2. k \in 1 .. Len(l) + 1 /\ k = IF after = 0 THEN Len(l) + 1 ELSE after
  BY <1>0, SortedInsert DEF PlaceOf
<1> HIDE DEF k, after
<1>3. IsInserted(m, l, k, e)
  <2>1. CASE after = 0
    <3>1. m = Append(l, e) /\ k = Len(l) + 1
      BY <1>2, <2>1
    <3>2. IsInserted(Append(l, e), l, Len(l) + 1, e)
      BY <1>0 DEF IsInserted
    <3> QED
      BY <3>1, <3>2
  <2>2. CASE after # 0
    BY <1>0, <1>2, <2>2, InsertAtIs
  <2> QED
    BY <2>1, <2>2
<1> HIDE DEF m
<1>4. Once(m) /\ Sorted(m, FALSE) /\ Range(m) = Range(l) \cup {e}
  BY <1>0, <1>3, SortedInsert DEF k
<1>5. m \in Seq(Event)
  BY <1>3 DEF IsInserted
<1> QED
  BY <1>1, <1>4, <1>5 DEF GoodList

(* RemoveNext takes the earliest event out. *)
LEMMA ListRemoveNext ==
  ASSUME NEW l, GoodList(l), Range(l) # {}
  PROVE  /\ IsEarliest(List!PeekNext(l), Range(l))
         /\ GoodList(List!RemoveNext(l))
         /\ Range(List!RemoveNext(l)) = Range(l) \ {List!PeekNext(l)}
<1>1. /\ l \in Seq(Event) /\ Range(l) = {l[i] : i \in 1 .. Len(l)} /\ Len(l) \in Nat
      /\ Once(l) /\ Sorted(l, FALSE)
  BY RangeOf DEF GoodList
<1>2. 1 \in 1 .. Len(l) /\ l # <<>>
  BY <1>1
<1>3. Head(l) = l[1]
  BY <1>1, <1>2
<1>4. IsEarliest(l[1], Range(l))
  <2>1. \A i \in 1 .. Len(l) : i # 1 => Before(l[1], l[i])
    BY <1>1, <1>2 DEF Sorted, Ranked
  <2>2. l[1] \in Range(l) /\ \A f \in Range(l) \ {l[1]} : Before(l[1], f)
    BY <1>1, <1>2, <2>1
  <2> QED
    BY <2>2 DEF IsEarliest
<1>5. IsDropped(Tail(l), l, 1)
  <2>1. Tail(l) \in Seq(Event) /\ Len(Tail(l)) = Len(l) - 1
    BY <1>1, <1>2
  <2>2. \A j \in 1 .. Len(l) - 1 : Tail(l)[j] = l[j + 1]
    BY <1>1, <1>2
  <2> QED
    BY <1>1, <2>1, <2>2 DEF IsDropped
<1>6. Once(Tail(l)) /\ Sorted(Tail(l), FALSE) /\ Range(Tail(l)) = Range(l) \ {l[1]}
  BY <1>1, <1>2, <1>5, DroppedKeeps
<1>7. Tail(l) \in Seq(Event)
  BY <1>5 DEF IsDropped
<1> QED
  BY <1>3, <1>4, <1>6, <1>7 DEF GoodList, List!PeekNext, List!RemoveNext

(* Remove takes the event out, wherever it is. *)
LEMMA ListRemoveEvent ==
  ASSUME NEW l, GoodList(l), NEW e \in Range(l)
  PROVE  GoodList(List!RemoveEvent(l, e)) /\ Range(List!RemoveEvent(l, e)) = Range(l) \ {e}
<1>1. List!RemoveEvent(l, e) = RemoveAt(l, FirstOf(Same(l, e)))
  BY DEF List!RemoveEvent, List!RemoveAt, List!SelectInSeq, List!Min, RemoveAt, FirstOf, Min, Same
<1>2. l \in Seq(Event) /\ Once(l) /\ Sorted(l, FALSE)
  BY DEF GoodList
<1> DEFINE m == RemoveAt(l, FirstOf(Same(l, e)))
<1>3. m \in Seq(Event) /\ Once(m) /\ Sorted(m, FALSE) /\ Range(m) = Range(l) \ {e}
  BY <1>2, SortedRemove
<1> HIDE DEF m
<1>4. GoodList(m)
  BY <1>3 DEF GoodList
<1> QED
  BY <1>1, <1>3, <1>4 DEF m

-----------------------------------------------------------------------------
(***************************************************************************)
(* Division with remainder.                                                *)
(***************************************************************************)
LEMMA Quotient ==
  ASSUME NEW a \in Nat, NEW d \in Nat \ {0}, NEW q \in Nat, NEW r \in 0 .. d - 1,
         a = q * d + r
  PROVE  a \div d = q /\ a % d = r
<1>1. (q * d + r) % d = r /\ (q * d + r) \div d = q
  OBVIOUS
<1> QED
  BY <1>1

(* Products with a positive number are monotonic. *)
LEMMA Products ==
  ASSUME NEW x \in Nat, NEW y \in Nat, NEW d \in Nat \ {0}
  PROVE  /\ x * d \in Nat /\ (x + y) * d = x * d + y * d
         /\ x <= y => x * d <= y * d
         /\ x < y => x * d + d <= y * d
         /\ x * d < y * d => x < y
         /\ x * d = y * d => x = y
<1>1. \A u, v \in Nat : (u + v) * d = u * d + v * d /\ u * d \in Nat
  OBVIOUS
<1>2. \A u, v \in Nat : u <= v => u * d <= v * d
  <2> SUFFICES ASSUME NEW u \in Nat, NEW v \in Nat, u <= v PROVE u * d <= v * d
    OBVIOUS
  <2>1. v - u \in Nat /\ u + (v - u) = v
    OBVIOUS
  <2>2. (u + (v - u)) * d = u * d + (v - u) * d /\ (v - u) * d \in Nat /\ u * d \in Nat
    BY <1>1, <2>1
  <2> QED
    BY <2>1, <2>2
<1>3. \A u, v \in Nat : u < v => u * d + d <= v * d
  <2> SUFFICES ASSUME NEW u \in Nat, NEW v \in Nat, u < v PROVE u * d + d <= v * d
    OBVIOUS
  <2>1. u + 1 <= v /\ (u + 1) * d = u * d + 1 * d /\ u + 1 \in Nat
    BY <1>1
  <2>2. (u + 1) * d <= v * d
    BY <1>2, <2>1
  <2> QED
    BY <2>1, <2>2
<1>4. x * d \in Nat /\ y * d \in Nat /\ (x + y) * d = x * d + y * d
  BY <1>1
<1>5. (x <= y => x * d <= y * d) /\ (y <= x => y * d <= x * d)
  BY <1>2
<1>6. (x < y => x * d + d <= y * d) /\ (y < x => y * d + d <= x * d)
  BY <1>3
<1> QED
  BY <1>4, <1>5, <1>6

(* A time stamp lies in the slice of its quotient. *)
LEMMA DayOf ==
  ASSUME NEW ts \in Nat, NEW w \in Nat \ {0}, NEW d \in Nat
  PROVE  /\ ts \div w \in Nat
         /\ d <= ts \div w <=> d * w <= ts
         /\ ts \div w < d <=> ts < d * w
<1> DEFINE q == ts \div w
           r == ts % w
<1>1. q \in Nat /\ r \in 0 .. w - 1 /\ ts = q * w + r
  BY Division
<1> HIDE DEF q, r
<1>2. q * w \in Nat /\ d * w \in Nat /\ (d <= q => d * w <= q * w) /\ (q < d => q * w + w <= d * w)
  BY <1>1, Products
<1>3. d <= q => d * w <= ts
  BY <1>1, <1>2
<1>4. q < d => ts < d * w
  BY <1>1, <1>2
<1> QED
  BY <1>1, <1>2, <1>3, <1>4 DEF q

(* Numbers closer than n with one remainder are equal. *)
LEMMA SameRemainder ==
  ASSUME NEW n \in Nat \ {0}, NEW a \in Nat, NEW b \in Nat, a % n = b % n, a <= b, b < a + n
  PROVE  a = b
<1> DEFINE p == a \div n
           q == b \div n
           r == a % n
<1>1. p \in Nat /\ q \in Nat /\ r \in 0 .. n - 1 /\ a = p * n + r /\ b = q * n + r
  BY Division
<1> HIDE DEF p, q, r
<1>2. p * n \in Nat /\ q * n \in Nat /\ p * n <= q * n /\ q * n < p * n + n
  BY <1>1, Products
<1>3. (p < q => p * n + n <= q * n) /\ (q < p => q * n + n <= p * n)
  BY <1>1, Products
<1>4. p = q
  BY <1>1, <1>2, <1>3
<1> QED
  BY <1>1, <1>4

(* A remainder that is taken again after an addition. *)
LEMMA ShiftedRemainder ==
  ASSUME NEW n \in Nat \ {0}, NEW a \in Nat, NEW k \in Nat
  PROVE  a % n \in 0 .. n - 1 /\ ((a % n) + k) % n = (a + k) % n
<1> DEFINE p == a \div n
           r == a % n
<1>1. p \in Nat /\ r \in 0 .. n - 1 /\ a = p * n + r
  BY Division
<1> HIDE DEF p, r
<1> DEFINE q == (r + k) \div n
           m == (r + k) % n
<1>2. q \in Nat /\ m \in 0 .. n - 1 /\ r + k = q * n + m
  <2>1. r + k \in Nat
    BY <1>1
  <2> QED
    BY <2>1, Division
<1> HIDE DEF q, m
<1>3. p + q \in Nat /\ (p + q) * n = p * n + q * n /\ p * n \in Nat /\ q * n \in Nat
  BY <1>1, <1>2, Products
<1>4. a + k = (p + q) * n + m
  BY <1>1, <1>2, <1>3
<1>5. (a + k) % n = m
  <2>1. a + k \in Nat
    OBVIOUS
  <2> QED
    BY <1>2, <1>3, <1>4, <2>1, Quotient
<1>6. (r + k) % n = m
  BY DEF m
<1>7. (r + k) % n = (a + k) % n
  BY <1>5, <1>6
<1> QED
  BY <1>1, <1>7 DEF r

(* Every bucket is looked at in a year. *)
LEMMA YearIsFull ==
  ASSUME NEW n \in Nat \ {0}, NEW a \in 0 .. n - 1, NEW b \in 0 .. n - 1
  PROVE  \E k \in 0 .. n - 1 : (a + k) % n = b
<1>1. CASE a <= b
  <2>1. b - a \in 0 .. n - 1 /\ a + (b - a) = b
    BY <1>1
  <2>2. b = 0 * n + b
    OBVIOUS
  <2>3. b % n = b
    BY <2>2, Quotient
  <2> QED
    BY <2>1, <2>3
<1>2. CASE b < a
  <2>1. b - a + n \in 0 .. n - 1 /\ a + (b - a + n) = b + n
    BY <1>2
  <2>2. b + n = 1 * n + b /\ b + n \in Nat
    OBVIOUS
  <2>3. (b + n) % n = b
    BY <2>2, Quotient
  <2> QED
    BY <2>1, <2>3
<1> QED
  BY <1>1, <1>2

-----------------------------------------------------------------------------
(***************************************************************************)
(* The calendar: its buckets.                                              *)
(***************************************************************************)
Pos == Nat \ {0}
CalendarsOf(n) ==
  [reverse : BOOLEAN, buckets : [0 .. n - 1 -> Seq(Event)], nBuckets : {n}, width : Pos,
   lastPrio : Nat, lastBucket : Nat, bucketTop : Nat]
CalendarType == UNION {CalendarsOf(n) : n \in Pos}

(* The fields of a calendar and their types. *)
LEMMA CalendarFields ==
  ASSUME NEW c \in CalendarType
  PROVE  /\ c.nBuckets \in Pos /\ c.width \in Pos /\ c.reverse \in BOOLEAN
         /\ c.buckets \in [0 .. c.nBuckets - 1 -> Seq(Event)]
         /\ c.lastPrio \in Nat /\ c.lastBucket \in Nat /\ c.bucketTop \in Nat
         /\ c = [reverse |-> c.reverse, buckets |-> c.buckets, nBuckets |-> c.nBuckets,
                 width |-> c.width, lastPrio |-> c.lastPrio, lastBucket |-> c.lastBucket,
                 bucketTop |-> c.bucketTop]
<1>1. PICK n \in Pos : c \in CalendarsOf(n)
  BY DEF CalendarType
<1> QED
  BY <1>1 DEF CalendarsOf

(* A record of such fields is a calendar. *)
LEMMA CalendarIs ==
  ASSUME NEW n \in Pos, NEW w \in Pos, NEW r \in BOOLEAN,
         NEW bs \in [0 .. n - 1 -> Seq(Event)], NEW p \in Nat, NEW b \in Nat, NEW t \in Nat
  PROVE  [reverse |-> r, buckets |-> bs, nBuckets |-> n, width |-> w, lastPrio |-> p,
          lastBucket |-> b, bucketTop |-> t] \in CalendarType
<1>1. [reverse |-> r, buckets |-> bs, nBuckets |-> n, width |-> w, lastPrio |-> p,
       lastBucket |-> b, bucketTop |-> t] \in CalendarsOf(n)
  BY DEF CalendarsOf
<1> QED
  BY <1>1 DEF CalendarType

Hash(c, ts) == (ts \div c.width) % c.nBuckets

(* Hash gives the number of a bucket. *)
LEMMA HashType ==
  ASSUME NEW c \in CalendarType, NEW ts \in Nat
  PROVE  Hash(c, ts) \in 0 .. c.nBuckets - 1 /\ Calendar!Hash(c, ts) = Hash(c, ts)
<1>1. c.width \in Pos /\ c.nBuckets \in Pos
  BY CalendarFields
<1>2. ts \div c.width \in Nat
  BY <1>1, Division DEF Pos
<1> QED
  BY <1>1, <1>2, Division DEF Pos, Hash, Calendar!Hash

(* One bucket of a calendar is replaced. *)
WithBucket(c, b, l) == [c EXCEPT !.buckets = [c.buckets EXCEPT ![b] = l]]

SamePlace(c, d) ==
  /\ d.reverse = c.reverse /\ d.nBuckets = c.nBuckets /\ d.width = c.width
  /\ d.lastPrio = c.lastPrio /\ d.lastBucket = c.lastBucket /\ d.bucketTop = c.bucketTop

(* What the assignment of one bucket leaves alone. *)
LEMMA WithBucketIs ==
  ASSUME NEW c \in CalendarType, NEW b \in 0 .. c.nBuckets - 1, NEW l \in Seq(Event)
  PROVE  LET d == WithBucket(c, b, l) IN
         /\ d \in CalendarType /\ SamePlace(c, d) /\ d.buckets[b] = l
         /\ \A a \in 0 .. c.nBuckets - 1 : a # b => d.buckets[a] = c.buckets[a]
<1> DEFINE bs == [c.buckets EXCEPT ![b] = l]
           d == WithBucket(c, b, l)
<1>1. bs \in [0 .. c.nBuckets - 1 -> Seq(Event)] /\ bs[b] = l
      /\ \A a \in 0 .. c.nBuckets - 1 : a # b => bs[a] = c.buckets[a]
  BY CalendarFields
<1> HIDE DEF bs
<1> DEFINE e == [reverse |-> c.reverse, buckets |-> bs, nBuckets |-> c.nBuckets,
                 width |-> c.width, lastPrio |-> c.lastPrio, lastBucket |-> c.lastBucket,
                 bucketTop |-> c.bucketTop]
<1>2. [c EXCEPT !.buckets = bs] = e
  BY CalendarFields
<1>3. d = e
  BY <1>2 DEF WithBucket, bs
<1>4. e \in CalendarType
  <2>1. /\ c.nBuckets \in Pos /\ c.width \in Pos /\ c.reverse \in BOOLEAN
        /\ c.lastPrio \in Nat /\ c.lastBucket \in Nat /\ c.bucketTop \in Nat
    BY CalendarFields
  <2> QED
    BY <1>1, <2>1, CalendarIs
<1>5. SamePlace(c, e) /\ e.buckets = bs
  BY DEF SamePlace
<1> HIDE DEF d, e
<1> QED
  BY <1>1, <1>3, <1>4, <1>5 DEF d

(* Every bucket is sorted and has the events whose time it is for. *)
Bucket(c, b) ==
  LET l == c.buckets[b] IN
  Once(l) /\ Sorted(l, c.reverse) /\ \A e \in Range(l) : Hash(c, e.ts) = b

Filed(c) == c \in CalendarType /\ \A b \in 0 .. c.nBuckets - 1 : Bucket(c, b)

(* The events of a calendar, bucket by bucket. *)
LEMMA FiledEvents ==
  ASSUME NEW c, Filed(c)
  PROVE  /\ Calendar!EventsOf(c) \subseteq Event
         /\ \A b \in 0 .. c.nBuckets - 1 :
              Range(c.buckets[b]) = {e \in Calendar!EventsOf(c) : Hash(c, e.ts) = b}
         /\ IsFiniteSet(Calendar!EventsOf(c))
<1> DEFINE n == c.nBuckets
           E == Calendar!EventsOf(c)
           R == {Range(c.buckets[b]) : b \in 0 .. n - 1}
<1>1. c \in CalendarType /\ n \in Nat /\ c.buckets \in [0 .. n - 1 -> Seq(Event)]
  BY CalendarFields DEF Filed, Pos
<1>2. \A b \in 0 .. n - 1 : Bucket(c, b)
  BY DEF Filed
<1>3. E = UNION R
  BY <1>1 DEF Calendar!EventsOf, Calendar!Range, Range
<1>4. \A b \in 0 .. n - 1 : Range(c.buckets[b]) \subseteq Event /\ IsFiniteSet(Range(c.buckets[b]))
  <2> SUFFICES ASSUME NEW b \in 0 .. n - 1
               PROVE  Range(c.buckets[b]) \subseteq Event /\ IsFiniteSet(Range(c.buckets[b]))
    OBVIOUS
  <2> DEFINE l == c.buckets[b]
  <2>1. l \in Seq(Event)
    BY <1>1
  <2> HIDE DEF l
  <2>2. Range(l) = {l[i] : i \in 1 .. Len(l)} /\ Range(l) \subseteq Event /\ Len(l) \in Nat
    BY <2>1, RangeOf
  <2>3. [i \in 1 .. Len(l) |-> l[i]] \in Surjection(1 .. Len(l), Range(l))
    BY <2>2 DEF Surjection
  <2>4. IsFiniteSet(1 .. Len(l))
    BY <2>2, FS_Interval
  <2>5. IsFiniteSet(Range(l))
    BY <2>3, <2>4, FS_Surjection
  <2> QED
    BY <2>2, <2>5 DEF l
<1>5. E \subseteq Event
  BY <1>3, <1>4
<1>6. IsFiniteSet(E)
  <2>1. IsFiniteSet(0 .. n - 1)
    BY <1>1, FS_Interval
  <2>2. [b \in 0 .. n - 1 |-> Range(c.buckets[b])] \in Surjection(0 .. n - 1, R)
    BY DEF Surjection
  <2>3. IsFiniteSet(R)
    BY <2>1, <2>2, FS_Surjection
  <2>4. \A T \in R : IsFiniteSet(T)
    BY <1>4
  <2> HIDE DEF E, R
  <2> QED
    BY <1>3, <2>3, <2>4, FS_UNION
<1>7. ASSUME NEW b \in 0 .. n - 1
      PROVE  Range(c.buckets[b]) = {e \in E : Hash(c, e.ts) = b}
  <2> HIDE DEF E
  <2>1. \A a \in 0 .. n - 1 : \A e \in Range(c.buckets[a]) : Hash(c, e.ts) = a
    BY <1>2 DEF Bucket
  <2> QED
    BY <1>3, <2>1
<1> QED
  BY <1>5, <1>6, <1>7

(* Only bucket b changes and what it holds changes as the events do. *)
LEMMA Refiled ==
  ASSUME NEW c, Filed(c), NEW b \in 0 .. c.nBuckets - 1, NEW l \in Seq(Event),
         Once(l), Sorted(l, c.reverse), \A e \in Range(l) : Hash(c, e.ts) = b
  PROVE  LET d == WithBucket(c, b, l) IN
         /\ Filed(d) /\ SamePlace(c, d)
         /\ Calendar!EventsOf(d) = (Calendar!EventsOf(c) \ Range(c.buckets[b])) \cup Range(l)
<1> DEFINE d == WithBucket(c, b, l)
<1>0. c \in CalendarType /\ \A a \in 0 .. c.nBuckets - 1 : Bucket(c, a)
  BY DEF Filed
<1>1. /\ d \in CalendarType /\ SamePlace(c, d) /\ d.buckets[b] = l
      /\ \A a \in 0 .. c.nBuckets - 1 : a # b => d.buckets[a] = c.buckets[a]
  BY <1>0, WithBucketIs
<1> HIDE DEF d
<1>2. \A ts : Hash(d, ts) = Hash(c, ts)
  BY <1>1 DEF SamePlace, Hash
<1>3. ASSUME NEW a \in 0 .. d.nBuckets - 1
      PROVE  Bucket(d, a)
  <2>1. d.reverse = c.reverse /\ a \in 0 .. c.nBuckets - 1
    BY <1>1 DEF SamePlace
  <2>2. CASE a = b
    BY <1>1, <1>2, <2>1, <2>2 DEF Bucket
  <2>3. CASE a # b
    BY <1>0, <1>1, <1>2, <2>1, <2>3 DEF Bucket
  <2> QED
    BY <2>2, <2>3
<1>4. Filed(d)
  BY <1>1, <1>3 DEF Filed
<1>5. Calendar!EventsOf(d) = (Calendar!EventsOf(c) \ Range(c.buckets[b])) \cup Range(l)
  <2> DEFINE E == Calendar!EventsOf(c)
             F == Calendar!EventsOf(d)
             n == c.nBuckets
  <2>1. \A a \in 0 .. n - 1 : Range(c.buckets[a]) = {e \in E : Hash(c, e.ts) = a}
    BY FiledEvents
  <2>2. \A a \in 0 .. n - 1 : Range(d.buckets[a]) = {e \in F : Hash(c, e.ts) = a}
    BY <1>1, <1>2, <1>4, FiledEvents DEF SamePlace
  <2>3. E \subseteq Event /\ F \subseteq Event
    BY <1>4, FiledEvents
  <2>4. \A e \in Event : Hash(c, e.ts) \in 0 .. n - 1
    BY <1>0, HashType DEF Event
  <2> HIDE DEF E, F
  <2>5. \A e \in F : Hash(c, e.ts) # b => e \in E
    BY <1>1, <2>1, <2>2, <2>3, <2>4
  <2>6. \A e \in E : Hash(c, e.ts) # b => e \in F
    BY <1>1, <2>1, <2>2, <2>3, <2>4
  <2>7. Range(l) = {e \in F : Hash(c, e.ts) = b}
    BY <1>1, <2>2
  <2>8. Range(c.buckets[b]) = {e \in E : Hash(c, e.ts) = b}
    BY <2>1
  <2>9. F = (E \ Range(c.buckets[b])) \cup Range(l)
    BY <2>5, <2>6, <2>7, <2>8
  <2> QED
    BY <2>9 DEF E, F
<1> QED
  BY <1>1, <1>4, <1>5 DEF d

(* DoInsert changes the bucket of the event and no other. *)
LEMMA BucketInsert ==
  ASSUME NEW c, Filed(c), NEW e \in Event, \A f \in Calendar!EventsOf(c) : f.uid # e.uid
  PROVE  LET d == Calendar!DoInsert(c, e) IN
         /\ Filed(d) /\ SamePlace(c, d)
         /\ Calendar!EventsOf(d) = Calendar!EventsOf(c) \cup {e}
<1> DEFINE b == Hash(c, e.ts)
           l == c.buckets[b]
           E == Calendar!EventsOf(c)
           k == PlaceOf(l, e, c.reverse)
           m == InsertAt(l, k, e)
<1>0. c \in CalendarType /\ e.ts \in Nat /\ \A a \in 0 .. c.nBuckets - 1 : Bucket(c, a)
  BY DEF Filed, Event
<1>1. b \in 0 .. c.nBuckets - 1 /\ Calendar!Hash(c, e.ts) = b
  BY <1>0, HashType
<1>2. l \in Seq(Event) /\ c.reverse \in BOOLEAN
  BY <1>0, <1>1, CalendarFields
<1>3. Once(l) /\ Sorted(l, c.reverse) /\ (\A f \in Range(l) : Hash(c, f.ts) = b)
  BY <1>0, <1>1 DEF Bucket
<1>4. Range(l) = {f \in E : Hash(c, f.ts) = b}
  BY <1>1, FiledEvents
<1>5. Calendar!DoInsert(c, e) = [c EXCEPT !.buckets[b] = m]
  BY <1>1 DEF Calendar!DoInsert, Calendar!SelectInSeq, Calendar!Min, Calendar!Order,
              Calendar!Before, Calendar!InsertAt, PlaceOf, FirstOf, Min, Later, Ranked, Before,
              InsertAt
<1> HIDE DEF b, l, E
<1>6. \A j \in 1 .. Len(l) : l[j].uid # e.uid
  <2>1. \A f \in Range(l) : f.uid # e.uid
    BY <1>4 DEF E
  <2> QED
    BY <1>2, <2>1, RangeOf
<1>7. k \in 1 .. Len(l) + 1
  BY <1>2, <1>3, <1>6, SortedInsert
<1>8. IsInserted(m, l, k, e)
  <2> HIDE DEF k
  <2> QED
    BY <1>2, <1>7, InsertAtIs
<1> HIDE DEF m
<1>9. Once(m) /\ Sorted(m, c.reverse) /\ Range(m) = Range(l) \cup {e} /\ m \in Seq(Event)
  <2>1. m \in Seq(Event)
    BY <1>8 DEF IsInserted
  <2> QED
    BY <1>2, <1>3, <1>6, <1>8, <2>1, SortedInsert
<1>10. \A f \in Range(m) : Hash(c, f.ts) = b
  BY <1>3, <1>9 DEF b
<1> DEFINE d == WithBucket(c, b, m)
<1>11. [c EXCEPT !.buckets[b] = m] = d
  BY DEF WithBucket
<1>12. /\ Filed(d) /\ SamePlace(c, d)
       /\ Calendar!EventsOf(d) = (E \ Range(l)) \cup Range(m)
  BY <1>1, <1>9, <1>10, Refiled DEF l, E
<1> HIDE DEF d
<1>13. (E \ Range(l)) \cup Range(m) = E \cup {e}
  BY <1>4, <1>9
<1> QED
  BY <1>5, <1>11, <1>12, <1>13 DEF E

(* Drop takes one event out of its bucket. *)
LEMMA BucketDrop ==
  ASSUME NEW c, Filed(c), NEW e \in Calendar!EventsOf(c)
  PROVE  LET d == Calendar!Drop(c, e) IN
         /\ Filed(d) /\ SamePlace(c, d)
         /\ Calendar!EventsOf(d) = Calendar!EventsOf(c) \ {e}
<1> DEFINE b == Hash(c, e.ts)
           l == c.buckets[b]
           E == Calendar!EventsOf(c)
           m == RemoveAt(l, FirstOf(Same(l, e)))
<1>0. c \in CalendarType /\ e \in Event /\ e.ts \in Nat /\ \A a \in 0 .. c.nBuckets - 1 : Bucket(c, a)
  BY FiledEvents DEF Filed, Event
<1>1. b \in 0 .. c.nBuckets - 1 /\ Calendar!Hash(c, e.ts) = b
  BY <1>0, HashType
<1>2. l \in Seq(Event) /\ c.reverse \in BOOLEAN
  BY <1>0, <1>1, CalendarFields
<1>3. Once(l) /\ Sorted(l, c.reverse) /\ (\A f \in Range(l) : Hash(c, f.ts) = b)
  BY <1>0, <1>1 DEF Bucket
<1>4. Range(l) = {f \in E : Hash(c, f.ts) = b} /\ e \in Range(l)
  BY <1>1, FiledEvents
<1>5. Calendar!Drop(c, e) = [c EXCEPT !.buckets[b] = m]
  BY <1>1 DEF Calendar!Drop, Calendar!SelectInSeq, Calendar!Min, Calendar!RemoveAt, FirstOf, Min,
              Same, RemoveAt
<1> HIDE DEF b, l, E
<1>6. Once(m) /\ Sorted(m, c.reverse) /\ Range(m) = Range(l) \ {e} /\ m \in Seq(Event)
  BY <1>2, <1>3, <1>4, SortedRemove
<1> HIDE DEF m
<1>7. \A f \in Range(m) : Hash(c, f.ts) = b
  BY <1>3, <1>6
<1> DEFINE d == WithBucket(c, b, m)
<1>8. [c EXCEPT !.buckets[b] = m] = d
  BY DEF WithBucket
<1>9. /\ Filed(d) /\ SamePlace(c, d)
      /\ Calendar!EventsOf(d) = (E \ Range(l)) \cup Range(m)
  BY <1>1, <1>6, <1>7, Refiled DEF l, E
<1> HIDE DEF d
<1>10. (E \ Range(l)) \cup Range(m) = E \ {e}
  BY <1>4, <1>6
<1> QED
  BY <1>5, <1>8, <1>9, <1>10 DEF E

(* The end of a bucket from which events are taken has its first one. *)
LEMMA BucketNext ==
  ASSUME NEW c, Filed(c), NEW b \in 0 .. c.nBuckets - 1, c.buckets[b] # <<>>
  PROVE  IsEarliest(Calendar!NextEvent(c, b), Range(c.buckets[b]))
<1> DEFINE l == c.buckets[b]
           at == IF c.reverse THEN Len(l) ELSE 1
<1>0. c \in CalendarType /\ Bucket(c, b)
  BY DEF Filed
<1>1. l \in Seq(Event) /\ c.reverse \in BOOLEAN /\ l # <<>>
  BY <1>0, CalendarFields
<1>2. Sorted(l, c.reverse)
  BY <1>0 DEF Bucket
<1>3. Calendar!NextEvent(c, b) = IF c.reverse THEN l[Len(l)] ELSE Head(l)
  BY DEF Calendar!NextEvent, Calendar!Last
<1> HIDE DEF l
<1>4. Range(l) = {l[i] : i \in 1 .. Len(l)} /\ Len(l) \in Nat /\ Len(l) # 0
  BY <1>1, RangeOf
<1>5. at \in 1 .. Len(l) /\ Calendar!NextEvent(c, b) = l[at]
  BY <1>1, <1>3, <1>4
<1>6. \A i \in 1 .. Len(l) : i # at => Before(l[at], l[i])
  <2> SUFFICES ASSUME NEW i \in 1 .. Len(l), i # at PROVE Before(l[at], l[i])
    OBVIOUS
  <2>1. CASE c.reverse
    BY <1>2, <1>4, <2>1 DEF Sorted, Ranked
  <2>2. CASE ~c.reverse
    BY <1>1, <1>2, <1>4, <2>2 DEF Sorted, Ranked
  <2> QED
    BY <2>1, <2>2
<1> HIDE DEF at
<1>7. l[at] \in Range(l) /\ \A f \in Range(l) \ {l[at]} : Before(l[at], f)
  BY <1>4, <1>5, <1>6
<1> QED
  BY <1>5, <1>7 DEF IsEarliest, l

IdsDiffer(E) == \A e, f \in E : e.uid = f.uid => e = f

(* A set of events with different ids has an earliest one. *)
LEMMA EarliestExists ==
  ASSUME NEW E \in SUBSET Event, E # {}, IdsDiffer(E)
  PROVE  \E e \in E : IsEarliest(e, E)
<1> DEFINE T == {e.ts : e \in E}
<1>1. T \in SUBSET Nat /\ T # {}
  BY DEF Event
<1>2. PICK t \in T : \A s \in T : t <= s
  BY <1>1, SmallestExists
<1> DEFINE U == {e.uid : e \in {f \in E : f.ts = t}}
<1>3. U \in SUBSET Nat /\ U # {}
  BY <1>2 DEF Event
<1>4. PICK u \in U : \A v \in U : u <= v
  BY <1>3, SmallestExists
<1>5. PICK e \in E : e.ts = t /\ e.uid = u
  BY <1>4
<1>6. ASSUME NEW f \in E \ {e}
      PROVE  Before(e, f)
  <2>1. f.uid # e.uid /\ f \in Event /\ e \in Event
    BY DEF IdsDiffer
  <2>2. t <= f.ts /\ (f.ts = t => u <= f.uid)
    BY <1>2, <1>4
  <2>3. f.ts \in Nat /\ f.uid \in Nat /\ e.ts \in Nat /\ e.uid \in Nat
    BY <2>1 DEF Event
  <2> QED
    BY <1>5, <2>1, <2>2, <2>3 DEF Before
<1> QED
  BY <1>5, <1>6 DEF IsEarliest

(* No event is before the slice that the search starts in. *)
Positioned(c) ==
  /\ c.lastBucket = Hash(c, c.lastPrio)
  /\ c.bucketTop = (c.lastPrio \div c.width + 1) * c.width
  /\ \A e \in Calendar!EventsOf(c) : e.ts >= c.lastPrio

GoodCalendar(c) == Filed(c) /\ IdsDiffer(Calendar!EventsOf(c)) /\ Positioned(c)

Day(c, ts) == ts \div c.width

(* The k-th bucket looked at is the one of the k-th day from now.          *)
LEMMA KthDay ==
  ASSUME NEW c, GoodCalendar(c), NEW k \in 0 .. c.nBuckets - 1
  PROVE  /\ Day(c, c.lastPrio) \in Nat
         /\ Calendar!BucketAt(c, k) = (Day(c, c.lastPrio) + k) % c.nBuckets
         /\ Calendar!BucketAt(c, k) \in 0 .. c.nBuckets - 1
         /\ Calendar!TopAt(c, k) = (Day(c, c.lastPrio) + k + 1) * c.width
         /\ Calendar!TopAt(c, k) \in Nat
<1> DEFINE q == Day(c, c.lastPrio)
           n == c.nBuckets
           w == c.width
<1>1. n \in Nat \ {0} /\ w \in Nat \ {0} /\ c.lastPrio \in Nat /\ k \in Nat
  BY CalendarFields DEF GoodCalendar, Filed, Pos
<1>2. q \in Nat
  BY <1>1, DayOf DEF Day
<1>3. c.lastBucket = q % n /\ c.bucketTop = (q + 1) * w
  BY DEF GoodCalendar, Positioned, Hash, Day
<1>4. Calendar!BucketAt(c, k) = ((q % n) + k) % n /\ Calendar!TopAt(c, k) = (q + 1) * w + k * w
  BY <1>3 DEF Calendar!BucketAt, Calendar!TopAt
<1> HIDE DEF q, n, w
<1>5. ((q % n) + k) % n = (q + k) % n
  BY <1>1, <1>2, ShiftedRemainder
<1>6. (q + k) % n \in 0 .. n - 1
  <2>1. q + k \in Nat
    BY <1>1, <1>2
  <2> QED
    BY <1>1, <2>1, ShiftedRemainder
<1>7. (q + 1) * w + k * w = (q + k + 1) * w /\ (q + 1) * w + k * w \in Nat
  <2>1. q + 1 \in Nat /\ (q + 1) + k = q + k + 1
    BY <1>1, <1>2
  <2>2. ((q + 1) + k) * w = (q + 1) * w + k * w /\ (q + 1) * w \in Nat /\ k * w \in Nat
    BY <1>1, <2>1, Products
  <2> QED
    BY <2>1, <2>2
<1> QED
  BY <1>2, <1>4, <1>5, <1>6, <1>7 DEF q, n, w

(* The events of a calendar in days from now. *)
LEMMA DaysFromNow ==
  ASSUME NEW c, GoodCalendar(c), NEW e \in Calendar!EventsOf(c)
  PROVE  /\ e \in Event /\ e.ts \in Nat /\ Day(c, e.ts) \in Nat
         /\ Day(c, c.lastPrio) \in Nat
         /\ Day(c, c.lastPrio) <= Day(c, e.ts)
         /\ Hash(c, e.ts) \in 0 .. c.nBuckets - 1
         /\ e \in Range(c.buckets[Hash(c, e.ts)])
         /\ \A k \in Nat : e.ts < (Day(c, c.lastPrio) + k + 1) * c.width
                             <=> Day(c, e.ts) <= Day(c, c.lastPrio) + k
<1> DEFINE q == Day(c, c.lastPrio)
           w == c.width
<1>1. w \in Nat \ {0} /\ c.lastPrio \in Nat /\ c \in CalendarType
  BY CalendarFields DEF GoodCalendar, Filed, Pos
<1>2. e \in Event /\ e.ts \in Nat /\ e.ts >= c.lastPrio
  BY FiledEvents DEF GoodCalendar, Event, Positioned
<1>3. q \in Nat /\ Day(c, e.ts) \in Nat
  BY <1>1, <1>2, DayOf DEF Day
<1>4. q <= Day(c, e.ts)
  <2>1. q * w <= c.lastPrio
    BY <1>1, <1>3, DayOf DEF Day
  <2>2. q * w <= e.ts
    <3>1. q * w \in Nat
      BY <1>1, <1>3, Products
    <3> QED
      BY <1>1, <1>2, <2>1, <3>1
  <2> HIDE DEF q
  <2> QED
    BY <1>1, <1>2, <1>3, <2>2, DayOf DEF Day
<1>5. Hash(c, e.ts) \in 0 .. c.nBuckets - 1
  BY <1>1, <1>2, HashType
<1>6. e \in Range(c.buckets[Hash(c, e.ts)])
  BY <1>5, FiledEvents DEF GoodCalendar
<1>7. ASSUME NEW k \in Nat
      PROVE  e.ts < (q + k + 1) * w <=> Day(c, e.ts) <= q + k
  <2>1. q + k + 1 \in Nat
    BY <1>3
  <2>2. e.ts \div w < q + k + 1 <=> e.ts < (q + k + 1) * w
    BY <1>1, <1>2, <2>1, DayOf
  <2>3. Day(c, e.ts) < q + k + 1 <=> Day(c, e.ts) <= q + k
    BY <1>3
  <2> QED
    BY <2>2, <2>3 DEF Day
<1> QED
  BY <1>2, <1>3, <1>4, <1>5, <1>6, <1>7

(* What is found in the k-th bucket. *)
LEMMA FoundIs ==
  ASSUME NEW c, GoodCalendar(c), NEW k \in Calendar!Holding(c)
  PROVE  /\ k \in 0 .. c.nBuckets - 1
         /\ Calendar!Found(c, k) \in Calendar!EventsOf(c)
         /\ Hash(c, Calendar!Found(c, k).ts) = Calendar!BucketAt(c, k)
         /\ \A f \in Calendar!EventsOf(c) : Hash(c, f.ts) = Calendar!BucketAt(c, k) =>
              f = Calendar!Found(c, k) \/ Before(Calendar!Found(c, k), f)
<1> DEFINE b == Calendar!BucketAt(c, k)
           e == Calendar!Found(c, k)
<1>1. k \in 0 .. c.nBuckets - 1 /\ c.buckets[b] # <<>>
  BY DEF Calendar!Holding
<1>2. b \in 0 .. c.nBuckets - 1 /\ Filed(c)
  BY <1>1, KthDay DEF GoodCalendar
<1>3. IsEarliest(e, Range(c.buckets[b]))
  <2> HIDE DEF b
  <2>1. IsEarliest(Calendar!NextEvent(c, b), Range(c.buckets[b]))
    BY <1>1, <1>2, BucketNext
  <2> QED
    BY <2>1 DEF Calendar!Found, b
<1> HIDE DEF b, e
<1>4. Range(c.buckets[b]) = {f \in Calendar!EventsOf(c) : Hash(c, f.ts) = b}
  BY <1>2, FiledEvents
<1>5. /\ e \in Calendar!EventsOf(c) /\ Hash(c, e.ts) = b
      /\ \A f \in Calendar!EventsOf(c) : Hash(c, f.ts) = b => f = e \/ Before(e, f)
  BY <1>3, <1>4 DEF IsEarliest
<1> QED
  BY <1>1, <1>5 DEF b, e

(* It is in its slice when it is of that day. *)
LEMMA SliceIs ==
  ASSUME NEW c, GoodCalendar(c), NEW k \in Calendar!Holding(c)
  PROVE  /\ k \in Nat
         /\ k \in Calendar!InSlice(c) <=>
              Day(c, Calendar!Found(c, k).ts) = Day(c, c.lastPrio) + k
<1> DEFINE e == Calendar!Found(c, k)
           q == Day(c, c.lastPrio)
           n == c.nBuckets
           d == Day(c, e.ts)
<1>1. /\ k \in 0 .. n - 1 /\ e \in Calendar!EventsOf(c)
      /\ Hash(c, e.ts) = Calendar!BucketAt(c, k)
  BY FoundIs
<1>2. /\ q \in Nat /\ Calendar!BucketAt(c, k) = (q + k) % n
      /\ Calendar!TopAt(c, k) = (q + k + 1) * c.width
  BY <1>1, KthDay
<1>3. /\ d \in Nat /\ q <= d
      /\ \A j \in Nat : e.ts < (q + j + 1) * c.width <=> d <= q + j
  <2> HIDE DEF e
  <2> QED
    BY <1>1, DaysFromNow
<1>4. n \in Nat \ {0} /\ k \in Nat /\ k < n
  BY <1>1, CalendarFields DEF GoodCalendar, Filed, Pos
<1>5. k \in Calendar!InSlice(c) <=> e.ts < Calendar!TopAt(c, k)
  BY DEF Calendar!InSlice
<1>6. d % n = (q + k) % n
  BY <1>1, <1>2 DEF Hash, Day
<1> HIDE DEF e, q, n, d
<1>7. k \in Calendar!InSlice(c) <=> d <= q + k
  BY <1>2, <1>3, <1>4, <1>5
<1>8. d <= q + k => d = q + k
  <2> SUFFICES ASSUME d <= q + k PROVE d = q + k
    OBVIOUS
  <2>1. q + k \in Nat /\ q + k < d + n
    BY <1>2, <1>3, <1>4
  <2> QED
    BY <1>3, <1>4, <1>6, <2>1, SameRemainder
<1>9. k \in Calendar!InSlice(c) <=> d = q + k
  BY <1>2, <1>3, <1>4, <1>7, <1>8
<1> QED
  BY <1>4, <1>9 DEF e, q, d

(* A bucket that an event is in is not passed over. *)
LEMMA Holds ==
  ASSUME NEW c, GoodCalendar(c), NEW k \in 0 .. c.nBuckets - 1, NEW f \in Calendar!EventsOf(c),
         Hash(c, f.ts) = Calendar!BucketAt(c, k)
  PROVE  k \in Calendar!Holding(c)
<1>1. f \in Range(c.buckets[Calendar!BucketAt(c, k)])
  BY DaysFromNow
<1>2. Range(<<>>) = {}
  BY DEF Range
<1> QED
  BY <1>1, <1>2 DEF Calendar!Holding

(* PeekNext is the earliest event, and the position follows it. *)
LEMMA CalendarPeek ==
  ASSUME NEW c, GoodCalendar(c), Calendar!EventsOf(c) # {}
  PROVE  LET e == Calendar!PeekNext(c)
             k == Calendar!Min(Calendar!InSlice(c))
         IN  /\ IsEarliest(e, Calendar!EventsOf(c))
             /\ Calendar!InSlice(c) # {} =>
                  /\ Calendar!BucketAt(c, k) = Hash(c, e.ts)
                  /\ Calendar!TopAt(c, k) = (e.ts \div c.width + 1) * c.width
<1> DEFINE E == Calendar!EventsOf(c)
           e == Calendar!PeekNext(c)
           k == Calendar!Min(Calendar!InSlice(c))
           q == Day(c, c.lastPrio)
           n == c.nBuckets
<1>0. E \subseteq Event /\ IdsDiffer(E) /\ n \in Nat \ {0}
  BY FiledEvents, CalendarFields DEF GoodCalendar, Filed, Pos
<1>1. CASE Calendar!InSlice(c) # {}
  <2>1. Calendar!InSlice(c) \subseteq Calendar!Holding(c)
    BY DEF Calendar!InSlice
  <2>2. k \in Calendar!InSlice(c) /\ \A j \in Calendar!InSlice(c) : k <= j
    <3>1. Calendar!InSlice(c) \in SUBSET Nat
      BY <2>1, SliceIs
    <3>2. k = Min(Calendar!InSlice(c))
      BY DEF Calendar!Min, Min
    <3> QED
      BY <1>1, <3>1, <3>2, MinIs
  <2>3. e = Calendar!Found(c, k)
    BY <1>1 DEF Calendar!PeekNext
  <2> HIDE DEF k, e
  <2>4. k \in Calendar!Holding(c) /\ k \in Nat /\ Day(c, e.ts) = q + k
    BY <2>1, <2>2, <2>3, SliceIs
  <2>5. /\ k \in 0 .. n - 1 /\ e \in E /\ Hash(c, e.ts) = Calendar!BucketAt(c, k)
        /\ \A f \in E : Hash(c, f.ts) = Calendar!BucketAt(c, k) => f = e \/ Before(e, f)
    BY <2>3, <2>4, FoundIs
  <2>6. q \in Nat /\ Calendar!TopAt(c, k) = (q + k + 1) * c.width
    BY <2>5, KthDay
  <2>7. Calendar!TopAt(c, k) = (e.ts \div c.width + 1) * c.width
    <3>1. e.ts \div c.width + 1 = q + k + 1
      BY <2>4 DEF Day
    <3> QED
      BY <2>6, <3>1
  <2>8. ASSUME NEW f \in E, f # e
        PROVE  Before(e, f)
    <3> DEFINE d == Day(c, f.ts)
               m == d - q
    <3>1. /\ d \in Nat /\ q <= d /\ f.ts \in Nat /\ e.ts \in Nat
          /\ \A j \in Nat : f.ts < (q + j + 1) * c.width <=> d <= q + j
          /\ \A j \in Nat : e.ts < (q + j + 1) * c.width <=> q + k <= q + j
      BY <2>4, <2>5, DaysFromNow
    <3>2. Hash(c, f.ts) = d % n
      BY DEF Hash, Day
    <3> HIDE DEF d, q
    <3>3. m \in Nat /\ d = q + m
      BY <2>6, <3>1
    <3> HIDE DEF m
    <3>4. CASE m = k
      <4>1. Hash(c, f.ts) = (q + k) % n
        BY <3>2, <3>3, <3>4
      <4>2. Hash(c, f.ts) = Calendar!BucketAt(c, k)
        BY <2>5, <4>1, KthDay DEF q
      <4> QED
        BY <2>5, <2>8, <4>2
    <3>5. CASE m < k
      <4>1. m \in 0 .. n - 1
        BY <1>0, <2>5, <3>3, <3>5
      <4>2. Hash(c, f.ts) = Calendar!BucketAt(c, m)
        BY <3>2, <3>3, <4>1, KthDay DEF q
      <4>3. m \in Calendar!Holding(c)
        BY <4>1, <4>2, Holds
      <4> DEFINE g == Calendar!Found(c, m)
      <4>4. g \in E /\ (f = g \/ Before(g, f))
        BY <4>2, <4>3, FoundIs
      <4>5. /\ g.ts \in Nat /\ g \in Event
            /\ \A j \in Nat : g.ts < (q + j + 1) * c.width <=> Day(c, g.ts) <= q + j
        <5> HIDE DEF g
        <5> QED
          BY <4>4, DaysFromNow DEF q
      <4>6. g.ts <= f.ts
        BY <3>1, <4>4, <4>5 DEF Before
      <4>7. g.ts < Calendar!TopAt(c, m)
        <5>1. Calendar!TopAt(c, m) = (q + m + 1) * c.width /\ Calendar!TopAt(c, m) \in Nat
          BY <4>1, KthDay DEF q
        <5>2. f.ts < (q + m + 1) * c.width
          BY <2>6, <3>1, <3>3
        <5> QED
          BY <3>1, <4>5, <4>6, <5>1, <5>2
      <4>8. m \in Calendar!InSlice(c)
        BY <4>3, <4>7 DEF Calendar!InSlice
      <4> QED
        BY <2>2, <2>5, <3>3, <3>5, <4>8
    <3>6. CASE m > k
      <4>1. e.ts < Calendar!TopAt(c, k) /\ ~(f.ts < Calendar!TopAt(c, k)) /\ Calendar!TopAt(c, k) \in Nat
        <5>1. Calendar!TopAt(c, k) \in Nat
          BY <2>5, KthDay
        <5>2. ~(d <= q + k) /\ q + k <= q + k
          BY <2>4, <2>6, <3>3, <3>6
        <5> QED
          BY <2>4, <2>6, <3>1, <5>1, <5>2
      <4>2. e.ts < f.ts
        BY <3>1, <4>1
      <4> QED
        BY <4>2 DEF Before
    <3> QED
      BY <2>4, <3>3, <3>4, <3>5, <3>6
  <2>9. IsEarliest(e, E)
    BY <2>5, <2>8 DEF IsEarliest
  <2> QED
    BY <2>5, <2>7, <2>9 DEF e, k
<1>2. CASE Calendar!InSlice(c) = {}
  <2> DEFINE F == {Calendar!Found(c, j) : j \in Calendar!Holding(c)}
  <2>1. e = Calendar!Earliest(F)
    BY <1>2 DEF Calendar!PeekNext
  <2>2. PICK f \in E : IsEarliest(f, E)
    BY <1>0, EarliestExists
  <2>3. F \subseteq E
    BY FoundIs
  <2>4. f \in F
    <3>1. Hash(c, f.ts) \in 0 .. n - 1 /\ q \in Nat
      BY DaysFromNow
    <3>2. q % n \in 0 .. n - 1
      BY <1>0, <3>1, ShiftedRemainder
    <3>3. PICK j \in 0 .. n - 1 : ((q % n) + j) % n = Hash(c, f.ts)
      <4> HIDE DEF q, n
      <4> QED
        BY <1>0, <3>1, <3>2, YearIsFull
    <3>4. Calendar!BucketAt(c, j) = Hash(c, f.ts)
      BY <1>0, <3>1, <3>3, KthDay, ShiftedRemainder
    <3>5. j \in Calendar!Holding(c)
      BY <3>4, Holds
    <3>6. Calendar!Found(c, j) = f
      <4>1. f = Calendar!Found(c, j) \/ Before(Calendar!Found(c, j), f)
        BY <3>4, <3>5, FoundIs
      <4>2. Calendar!Found(c, j) \in E
        BY <3>5, FoundIs
      <4>3. Calendar!Found(c, j) # f => Before(f, Calendar!Found(c, j))
        BY <2>2, <4>2 DEF IsEarliest
      <4>4. f \in Event /\ Calendar!Found(c, j) \in Event
        BY <1>0, <4>2
      <4> QED
        BY <4>1, <4>3, <4>4, BeforeOrder
    <3> QED
      BY <3>5, <3>6
  <2>5. IsEarliest(f, F)
    BY <2>2, <2>3, <2>4 DEF IsEarliest
  <2>6. Earliest(F) = f
    <3> HIDE DEF F
    <3> QED
      BY <1>0, <2>3, <2>5, EarliestIs
  <2>7. Calendar!Earliest(F) = Earliest(F)
    BY DEF Calendar!Earliest, Calendar!Before, Earliest, Before
  <2> QED
    BY <1>2, <2>1, <2>2, <2>6, <2>7
<1> QED
  BY <1>1, <1>2

(* A new position leaves the buckets alone. *)
AtPosition(c, b, p, t) == [c EXCEPT !.lastBucket = b, !.lastPrio = p, !.bucketTop = t]

(* A move of the position leaves the buckets and their events alone. *)
LEMMA PositionMoves ==
  ASSUME NEW c, Filed(c), NEW b, NEW p, NEW t, {b, p, t} \subseteq Nat,
         NEW d, d = AtPosition(c, b, p, t)
  PROVE  /\ Filed(d) /\ Calendar!EventsOf(d) = Calendar!EventsOf(c)
         /\ d.reverse = c.reverse /\ d.nBuckets = c.nBuckets /\ d.width = c.width
         /\ d.lastBucket = b /\ d.lastPrio = p /\ d.bucketTop = t
<1>1. c \in CalendarType /\ \A a \in 0 .. c.nBuckets - 1 : Bucket(c, a)
  BY DEF Filed
<1>2. PICK n \in Pos : c \in CalendarsOf(n)
  BY <1>1 DEF CalendarType
<1>3. d \in CalendarsOf(n)
  BY <1>2 DEF CalendarsOf, AtPosition
<1>4. d \in CalendarType
  BY <1>3 DEF CalendarType
<1>5. /\ d.reverse = c.reverse /\ d.nBuckets = c.nBuckets /\ d.width = c.width
      /\ d.buckets = c.buckets /\ d.lastBucket = b /\ d.lastPrio = p /\ d.bucketTop = t
  BY <1>2 DEF CalendarsOf, AtPosition
<1>6. \A a \in 0 .. c.nBuckets - 1 : Bucket(d, a)
  BY <1>1, <1>5 DEF Bucket, Hash
<1>7. Filed(d) /\ Calendar!EventsOf(d) = Calendar!EventsOf(c)
  BY <1>4, <1>5, <1>6 DEF Filed, Calendar!EventsOf
<1> QED
  BY <1>5, <1>7

(* DoRemoveNext takes the earliest event and moves the position to it. *)
LEMMA CalendarDoRemove ==
  ASSUME NEW c, GoodCalendar(c), Calendar!EventsOf(c) # {}
  PROVE  LET d == Calendar!DoRemoveNext(c)
             e == Calendar!PeekNext(c)
         IN  /\ GoodCalendar(d) /\ Calendar!EventsOf(d) = Calendar!EventsOf(c) \ {e}
             /\ d.lastPrio = e.ts /\ d.reverse = c.reverse
<1> DEFINE E == Calendar!EventsOf(c)
           e == Calendar!PeekNext(c)
           x == Calendar!Drop(c, e)
           d == Calendar!DoRemoveNext(c)
           k == Calendar!Min(Calendar!InSlice(c))
           b == Hash(c, e.ts)
           t == (e.ts \div c.width + 1) * c.width
<1>1. Filed(c) /\ IdsDiffer(E) /\ E \subseteq Event /\ c \in CalendarType
  BY FiledEvents DEF GoodCalendar, Filed
<1>2. /\ e \in E /\ (\A f \in E \ {e} : Before(e, f))
      /\ Calendar!InSlice(c) # {} => Calendar!BucketAt(c, k) = b /\ Calendar!TopAt(c, k) = t
  BY CalendarPeek DEF IsEarliest
<1>3. e \in Event /\ e.ts \in Nat
  BY <1>1, <1>2 DEF Event
<1>4. b \in Nat /\ Calendar!Hash(c, e.ts) = b
  BY <1>1, <1>3, HashType, CalendarFields DEF Pos
<1>5. t \in Nat
  <2>1. c.width \in Nat \ {0}
    BY <1>1, CalendarFields DEF Pos
  <2> DEFINE j == e.ts \div c.width
  <2>2. j \in Nat
    BY <1>3, <2>1, DayOf
  <2> HIDE DEF j
  <2>3. j + 1 \in Nat
    BY <2>2
  <2>4. (j + 1) * c.width \in Nat
    BY <2>1, <2>3, Products
  <2> QED
    BY <2>4 DEF j
<1>6. Filed(x) /\ SamePlace(c, x) /\ Calendar!EventsOf(x) = E \ {e}
  <2> HIDE DEF e
  <2> QED
    BY <1>1, <1>2, BucketDrop
<1>7. d = [x EXCEPT !.lastBucket = b, !.lastPrio = e.ts, !.bucketTop = t]
  <2>1. CASE Calendar!InSlice(c) # {}
    <3>1. Calendar!BucketAt(c, k) = b /\ Calendar!TopAt(c, k) = t
      BY <1>2, <2>1
    <3>2. d = [x EXCEPT !.lastBucket = Calendar!BucketAt(c, k), !.lastPrio = e.ts,
                        !.bucketTop = Calendar!TopAt(c, k)]
      BY <2>1 DEF Calendar!DoRemoveNext
    <3> QED
      BY <3>1, <3>2
  <2>2. CASE Calendar!InSlice(c) = {}
    BY <1>4, <2>2 DEF Calendar!DoRemoveNext
  <2> QED
    BY <2>1, <2>2
<1> HIDE DEF E, e, x, d, k
<1>8. /\ Filed(d) /\ Calendar!EventsOf(d) = E \ {e}
      /\ d.reverse = c.reverse /\ d.nBuckets = c.nBuckets /\ d.width = c.width
      /\ d.lastBucket = b /\ d.lastPrio = e.ts /\ d.bucketTop = t
  <2> HIDE DEF b, t
  <2>1. /\ Filed(d) /\ Calendar!EventsOf(d) = Calendar!EventsOf(x)
        /\ d.reverse = x.reverse /\ d.nBuckets = x.nBuckets /\ d.width = x.width
        /\ d.lastBucket = b /\ d.lastPrio = e.ts /\ d.bucketTop = t
    <3> DEFINE p == e.ts
    <3>1. p \in Nat /\ d = AtPosition(x, b, p, t)
      BY <1>3, <1>7 DEF AtPosition
    <3> HIDE DEF p
    <3>0. Filed(x) /\ {b, p, t} \subseteq Nat
      BY <1>4, <1>5, <1>6, <3>1
    <3>2. /\ Filed(d) /\ Calendar!EventsOf(d) = Calendar!EventsOf(x)
          /\ d.reverse = x.reverse /\ d.nBuckets = x.nBuckets /\ d.width = x.width
          /\ d.lastBucket = b /\ d.lastPrio = p /\ d.bucketTop = t
      BY <3>0, <3>1, PositionMoves
    <3> QED
      BY <3>2 DEF p
  <2> QED
    BY <1>6, <2>1 DEF SamePlace
<1>9. Positioned(d)
  <2>1. \A f \in E : f.ts >= e.ts
    <3> SUFFICES ASSUME NEW f \in E PROVE f.ts >= e.ts
      OBVIOUS
    <3>1. f \in Event /\ (f = e \/ Before(e, f))
      BY <1>1, <1>2 DEF E, e
    <3> QED
      BY <1>3, <3>1 DEF Before, Event
  <2> QED
    BY <1>8, <2>1 DEF Positioned, Hash
<1>10. IdsDiffer(E \ {e})
  BY <1>1 DEF IdsDiffer
<1>11. GoodCalendar(d)
  BY <1>8, <1>9, <1>10 DEF GoodCalendar
<1> QED
  BY <1>8, <1>11 DEF d, e, E

(* DoInsert files an event that is not before the position. *)
LEMMA CalendarDoInsert ==
  ASSUME NEW c, GoodCalendar(c), NEW e \in Event, \A f \in Calendar!EventsOf(c) : f.uid # e.uid,
         e.ts >= c.lastPrio
  PROVE  LET d == Calendar!DoInsert(c, e) IN
         /\ GoodCalendar(d) /\ Calendar!EventsOf(d) = Calendar!EventsOf(c) \cup {e}
         /\ SamePlace(c, d)
<1> DEFINE d == Calendar!DoInsert(c, e)
<1>1. Filed(d) /\ SamePlace(c, d) /\ Calendar!EventsOf(d) = Calendar!EventsOf(c) \cup {e}
  BY BucketInsert DEF GoodCalendar
<1> HIDE DEF d
<1>2. IdsDiffer(Calendar!EventsOf(d))
  BY <1>1 DEF IdsDiffer, GoodCalendar
<1>3. Positioned(d)
  BY <1>1 DEF Positioned, SamePlace, Hash, GoodCalendar
<1> QED
  BY <1>1, <1>2, <1>3 DEF GoodCalendar, d

(* Drop leaves the position alone. *)
LEMMA CalendarDrop ==
  ASSUME NEW c, GoodCalendar(c), NEW e \in Calendar!EventsOf(c)
  PROVE  LET d == Calendar!Drop(c, e) IN
         /\ GoodCalendar(d) /\ Calendar!EventsOf(d) = Calendar!EventsOf(c) \ {e}
         /\ SamePlace(c, d)
<1> DEFINE d == Calendar!Drop(c, e)
<1>1. Filed(d) /\ SamePlace(c, d) /\ Calendar!EventsOf(d) = Calendar!EventsOf(c) \ {e}
  BY BucketDrop DEF GoodCalendar
<1> HIDE DEF d
<1>2. IdsDiffer(Calendar!EventsOf(d))
  BY <1>1 DEF IdsDiffer, GoodCalendar
<1>3. Positioned(d)
  BY <1>1 DEF Positioned, SamePlace, Hash, GoodCalendar
<1> QED
  BY <1>1, <1>2, <1>3 DEF GoodCalendar, d

(* An empty calendar. *)
LEMMA EmptyCalendar ==
  ASSUME NEW n \in Pos, NEW w \in Pos, NEW p \in Nat, NEW r \in BOOLEAN
  PROVE  LET c == Calendar!Calendar(n, w, p, r) IN
         /\ GoodCalendar(c) /\ Calendar!EventsOf(c) = {}
         /\ c.nBuckets = n /\ c.lastPrio = p /\ c.reverse = r
<1> DEFINE bs == [b \in 0 .. n - 1 |-> <<>>]
           c == [reverse |-> r, buckets |-> bs, nBuckets |-> n, width |-> w, lastPrio |-> p,
                 lastBucket |-> (p \div w) % n, bucketTop |-> (p \div w + 1) * w]
<1>1. n \in Nat \ {0} /\ w \in Nat \ {0} /\ bs \in [0 .. n - 1 -> Seq(Event)]
  BY DEF Pos
<1>2. p \div w \in Nat
  BY <1>1, Division
<1>3. (p \div w) % n \in Nat
  BY <1>1, <1>2, Division
<1>4. (p \div w + 1) * w \in Nat
  <2> DEFINE j == p \div w
  <2>1. j + 1 \in Nat
    BY <1>2
  <2> HIDE DEF j
  <2>2. (j + 1) * w \in Nat
    BY <1>1, <2>1, Products
  <2> QED
    BY <2>2 DEF j
<1>5. c \in CalendarType
  <2> DEFINE x == (p \div w) % n
             y == (p \div w + 1) * w
  <2>1. x \in Nat /\ y \in Nat
    BY <1>3, <1>4
  <2> HIDE DEF x, y, bs
  <2>2. [reverse |-> r, buckets |-> bs, nBuckets |-> n, width |-> w, lastPrio |-> p,
          lastBucket |-> x, bucketTop |-> y] \in CalendarType
    BY <1>1, <2>1, CalendarIs
  <2> QED
    BY <2>2 DEF x, y
<1>6. Calendar!Calendar(n, w, p, r) = c
  BY DEF Calendar!Calendar
<1>7. /\ c.nBuckets = n /\ c.width = w /\ c.lastPrio = p /\ c.reverse = r /\ c.buckets = bs
      /\ c.lastBucket = (p \div w) % n /\ c.bucketTop = (p \div w + 1) * w
  OBVIOUS
<1> HIDE DEF c
<1>8. \A b \in 0 .. n - 1 : c.buckets[b] = <<>>
  BY <1>7
<1>9. Len(<<>>) = 0 /\ Range(<<>>) = {}
  BY DEF Range
<1>10. Filed(c)
  <2>1. \A i : i \notin 1 .. 0
    OBVIOUS
  <2>2. Once(<<>>) /\ Sorted(<<>>, r)
    BY <1>9, <2>1 DEF Once, Sorted
  <2> QED
    BY <1>5, <1>7, <1>8, <1>9, <2>2 DEF Filed, Bucket
<1>11. Calendar!EventsOf(c) = {}
  <2>1. DOMAIN c.buckets = 0 .. n - 1
    BY <1>7
  <2>2. Calendar!Range(<<>>) = {}
    BY DEF Calendar!Range
  <2> QED
    BY <1>8, <2>1, <2>2 DEF Calendar!EventsOf
<1>12. GoodCalendar(c)
  BY <1>7, <1>10, <1>11 DEF GoodCalendar, IdsDiffer, Positioned, Hash
<1> QED
  BY <1>6, <1>7, <1>11, <1>12

(* The element that a fold takes out first. *)
ChoiceOf(s) == CHOOSE x \in s : TRUE

(* Sums of integers are integers. *)
LEMMA SumIsInt ==
  ASSUME NEW m \in Nat, NEW g \in [1 .. m -> Int], NEW S \in SUBSET (1 .. m)
  PROVE  Calendar!SumFunctionOnSet(g, S) \in Int
<1> DEFINE op == [p \in S \X Int |-> g[p[1]] + p[2]]
           x == [s \in (SUBSET S) \ {{}} |-> ChoiceOf(s)]
           f(iter) == [s \in SUBSET S |->
                         IF s = {} THEN 0 ELSE g[ChoiceOf(s)] + iter[s \ {ChoiceOf(s)}]]
           F == CHOOSE iter : iter = f(iter)
<1>0. IsFiniteSet(S) /\ \A i \in S : g[i] \in Int
  <2>1. IsFiniteSet(1 .. m)
    BY FS_Interval
  <2>2. IsFiniteSet(S)
    BY <2>1, FS_Subset
  <2>3. \A i \in S : i \in 1 .. m
    OBVIOUS
  <2> QED
    BY <2>2, <2>3
<1>1. op \in [S \X Int -> Int]
  <2>1. \A p \in S \X Int : g[p[1]] \in Int /\ p[2] \in Int
    BY <1>0
  <2>2. \A p \in S \X Int : g[p[1]] + p[2] \in Int
    BY <2>1
  <2> QED
    BY <2>2
<1>2. \A s \in SUBSET S : s # {} => x[s] = ChoiceOf(s) /\ ChoiceOf(s) \in s
  BY DEF ChoiceOf
<1>3. PICK G \in FoldsOf(S, Int, 0, op, x) : TRUE
  <2>1. x \in Choosers(S)
    BY <1>2 DEF Choosers
  <2> HIDE DEF op, x
  <2>2. 0 \in Int
    OBVIOUS
  <2> QED
    BY <1>0, <1>1, <2>1, <2>2, SubsetRecursion
<1>4. G \in [SUBSET S -> Int] /\ G[{}] = 0
      /\ \A s \in SUBSET S : s # {} => G[s] = g[ChoiceOf(s)] + G[s \ {ChoiceOf(s)}]
  <2>1. G \in [SUBSET S -> Int] /\ G[{}] = 0
        /\ \A s \in SUBSET S : s # {} => G[s] = op[<<x[s], G[s \ {x[s]}]>>]
    BY <1>3 DEF FoldsOf
  <2> SUFFICES ASSUME NEW s \in SUBSET S, s # {}
               PROVE  G[s] = g[ChoiceOf(s)] + G[s \ {ChoiceOf(s)}]
    BY <2>1
  <2>2. x[s] = ChoiceOf(s) /\ ChoiceOf(s) \in S /\ G[s \ {ChoiceOf(s)}] \in Int
    BY <1>2, <2>1
  <2> HIDE DEF x
  <2> QED
    BY <2>1, <2>2
<1>5. G = f(G)
  BY <1>4
<1>6. F = f(F)
  <2> HIDE DEF f
  <2> QED
    BY <1>5
<1>7. Calendar!SumFunctionOnSet(g, S) = F[S]
  BY DEF Calendar!SumFunctionOnSet, Calendar!FoldFunctionOnSet, Calendar!MapThenFoldSet, ChoiceOf
<1> HIDE DEF F, op, x
<1>8. /\ F[{}] = 0
      /\ \A s \in SUBSET S : s # {} => F[s] = g[ChoiceOf(s)] + F[s \ {ChoiceOf(s)}]
  BY <1>6
<1> DEFINE T == {s \in SUBSET S : F[s] \in Int}
<1>9. SUBSET S \subseteq T
  <2>1. {} \in T
    BY <1>8
  <2>2. ASSUME NEW s \in SUBSET S, s # {}, \A e \in s : s \ {e} \in T
        PROVE  s \in T
    <3>1. ChoiceOf(s) \in s /\ ChoiceOf(s) \in S
      BY <1>2, <2>2
    <3>2. F[s \ {ChoiceOf(s)}] \in Int
      BY <2>2, <3>1
    <3>3. g[ChoiceOf(s)] \in Int /\ F[s] = g[ChoiceOf(s)] + F[s \ {ChoiceOf(s)}]
      BY <1>0, <1>8, <2>2, <3>1
    <3> QED
      BY <3>2, <3>3
  <2> HIDE DEF T
  <2> QED
    BY <1>0, <2>1, <2>2, SubsetInduction
<1> QED
  BY <1>7, <1>9

(* One event after the other is taken out of a calendar. *)
LEMMA SamplesAre ==
  ASSUME NEW c, GoodCalendar(c), NEW n \in Nat, n <= Calendar!QSize(c)
  PROVE  Calendar!Samples(c, n) \in [1 .. n -> Event]
<1> DEFINE S == {d \in CalendarType : GoodCalendar(d)}
           Size(d) == Cardinality(Calendar!EventsOf(d))
           op == [d \in S |-> IF Calendar!EventsOf(d) = {} THEN d ELSE Calendar!DoRemoveNext(d)]
           body(g) == [k \in 0 .. n |-> IF k = 0 THEN c ELSE Calendar!DoRemoveNext(g[k - 1])]
           left == CHOOSE g : g = body(g)
<1>1. c \in S /\ Size(c) \in Nat /\ n <= Size(c)
  <2>1. Calendar!QSize(c) = Size(c)
    BY DEF Calendar!QSize, Calendar!Cardinality, Cardinality
  <2>2. IsFiniteSet(Calendar!EventsOf(c))
    BY FiledEvents DEF GoodCalendar
  <2> QED
    BY <2>1, <2>2, FS_CardinalityType DEF GoodCalendar, Filed
<1>2. ASSUME NEW d \in S, Calendar!EventsOf(d) # {}
      PROVE  /\ Calendar!DoRemoveNext(d) \in S /\ Size(Calendar!DoRemoveNext(d)) = Size(d) - 1
             /\ Calendar!PeekNext(d) \in Event
  <2> DEFINE e == Calendar!PeekNext(d)
             x == Calendar!DoRemoveNext(d)
  <2>1. GoodCalendar(x) /\ Calendar!EventsOf(x) = Calendar!EventsOf(d) \ {e}
    BY <1>2, CalendarDoRemove
  <2>2. e \in Calendar!EventsOf(d)
    BY <1>2, CalendarPeek DEF IsEarliest
  <2> HIDE DEF e, x
  <2>3. IsFiniteSet(Calendar!EventsOf(d)) /\ Calendar!EventsOf(d) \subseteq Event
    BY FiledEvents DEF GoodCalendar
  <2>4. Size(x) = Size(d) - 1
    BY <2>1, <2>2, <2>3, FS_RemoveElement
  <2>5. x \in S
    BY <2>1 DEF GoodCalendar, Filed
  <2> QED
    BY <2>2, <2>3, <2>4, <2>5 DEF e, x
<1>3. op \in [S -> S]
  BY <1>2
<1>4. \A d \in S : Calendar!EventsOf(d) # {} => op[d] = Calendar!DoRemoveNext(d)
  OBVIOUS
<1>5. \A d \in S : Size(d) # 0 => Calendar!EventsOf(d) # {}
  BY FS_EmptySet
<1>6. PICK f \in RunsOf(S, c, op, n) : TRUE
  <2> HIDE DEF S, op
  <2> QED
    BY <1>1, <1>3, LoopRuns
<1> HIDE DEF S, op, Size
<1>7. f \in [0 .. n -> S] /\ f[0] = c /\ \A m \in 1 .. n : f[m] = op[f[m - 1]]
  BY <1>6 DEF RunsOf
<1> DEFINE T == {m \in Nat : m <= n => Size(f[m]) = Size(c) - m}
<1>8. Nat \subseteq T
  <2>1. 0 \in T
    BY <1>1, <1>7
  <2>2. ASSUME NEW m \in Nat, m \in T
        PROVE  m + 1 \in T
    <3> SUFFICES ASSUME m + 1 <= n PROVE Size(f[m + 1]) = Size(c) - (m + 1)
      OBVIOUS
    <3>1. m \in 0 .. n /\ m + 1 \in 1 .. n /\ (m + 1) - 1 = m /\ m <= n
      OBVIOUS
    <3>2. f[m] \in S /\ f[m + 1] = op[f[m]] /\ Size(f[m]) = Size(c) - m
      BY <1>7, <2>2, <3>1
    <3>3. Size(f[m]) # 0
      BY <1>1, <3>2
    <3>4. f[m + 1] = Calendar!DoRemoveNext(f[m]) /\ Calendar!EventsOf(f[m]) # {}
      BY <1>4, <1>5, <3>2, <3>3
    <3>5. Size(f[m + 1]) = Size(f[m]) - 1
      BY <1>2, <3>2, <3>4
    <3> QED
      BY <1>1, <3>2, <3>5
  <2> HIDE DEF T
  <2> QED
    BY <2>1, <2>2, SetInduction
<1>9. \A m \in 1 .. n : /\ f[m - 1] \in S /\ Calendar!EventsOf(f[m - 1]) # {}
                        /\ f[m] = Calendar!DoRemoveNext(f[m - 1])
  <2> SUFFICES ASSUME NEW m \in 1 .. n
               PROVE  /\ f[m - 1] \in S /\ Calendar!EventsOf(f[m - 1]) # {}
                      /\ f[m] = Calendar!DoRemoveNext(f[m - 1])
    OBVIOUS
  <2>1. m - 1 \in 0 .. n /\ m - 1 \in Nat /\ m - 1 <= n
    OBVIOUS
  <2>2. Size(f[m - 1]) = Size(c) - (m - 1)
    BY <1>8, <2>1
  <2>3. Size(f[m - 1]) # 0
    BY <1>1, <2>2
  <2> QED
    BY <1>4, <1>5, <1>7, <2>1, <2>3
<1>10. f = body(f)
  <2>1. \A m \in 0 .. n : m # 0 => m \in 1 .. n
    OBVIOUS
  <2> QED
    BY <1>7, <1>9, <2>1
<1>11. left = body(left)
  <2> HIDE DEF body
  <2> QED
    BY <1>10
<1>12. \A m \in 0 .. n : left[m] = IF m = 0 THEN c ELSE Calendar!DoRemoveNext(left[m - 1])
  <2> HIDE DEF left
  <2> QED
    BY <1>11
<1>13. Calendar!Samples(c, n) = [k \in 1 .. n |-> Calendar!PeekNext(left[k - 1])]
  BY DEF Calendar!Samples
<1> HIDE DEF left, body, T
<1> DEFINE U == {m \in Nat : m <= n => left[m] = f[m]}
<1>14. Nat \subseteq U
  <2>1. 0 \in U
    BY <1>7, <1>12
  <2>2. ASSUME NEW m \in Nat, m \in U
        PROVE  m + 1 \in U
    <3> SUFFICES ASSUME m + 1 <= n PROVE left[m + 1] = f[m + 1]
      OBVIOUS
    <3>1. m + 1 \in 0 .. n /\ m + 1 # 0 /\ m + 1 \in 1 .. n /\ (m + 1) - 1 = m /\ m <= n
      OBVIOUS
    <3>2. left[m + 1] = Calendar!DoRemoveNext(left[m])
      BY <1>12, <3>1
    <3>3. f[m + 1] = Calendar!DoRemoveNext(f[m])
      BY <1>9, <3>1
    <3>4. left[m] = f[m]
      BY <2>2, <3>1
    <3> QED
      BY <3>2, <3>3, <3>4
  <2> HIDE DEF U
  <2> QED
    BY <2>1, <2>2, SetInduction
<1>15. \A k \in 1 .. n : Calendar!PeekNext(left[k - 1]) \in Event
  <2> SUFFICES ASSUME NEW k \in 1 .. n PROVE Calendar!PeekNext(left[k - 1]) \in Event
    OBVIOUS
  <2>1. k - 1 \in Nat /\ k - 1 <= n
    OBVIOUS
  <2>2. left[k - 1] = f[k - 1]
    BY <1>14, <2>1
  <2>3. f[k - 1] \in S /\ Calendar!EventsOf(f[k - 1]) # {}
    BY <1>9
  <2> QED
    BY <1>2, <2>2, <2>3
<1> QED
  BY <1>13, <1>15

(* The number of events is a natural number. *)
LEMMA SizeOf ==
  ASSUME NEW c, GoodCalendar(c)
  PROVE  Calendar!QSize(c) \in Nat /\ Calendar!QSize(c) = Cardinality(Calendar!EventsOf(c))
<1>1. IsFiniteSet(Calendar!EventsOf(c))
  BY FiledEvents DEF GoodCalendar
<1> QED
  BY <1>1, FS_CardinalityType DEF Calendar!QSize, Calendar!Cardinality, Cardinality

(* The number of samples. *)
LEMMA SampleNumber ==
  ASSUME NEW c, GoodCalendar(c), Calendar!QSize(c) >= 2
  PROVE  /\ Calendar!NSamples(c) \in Nat /\ Calendar!NSamples(c) >= 2
         /\ Calendar!NSamples(c) <= Calendar!QSize(c)
<1> DEFINE q == Calendar!QSize(c)
           x == IF q <= 5 THEN q ELSE 5 + q \div 10
<1>1. q \in Nat /\ q >= 2
  BY SizeOf
<1>2. Calendar!NSamples(c) = Min({25, x})
  BY DEF Calendar!NSamples, Calendar!Min, Min
<1> HIDE DEF q
<1>3. x \in Nat /\ x >= 2 /\ x <= q
  <2>1. CASE q <= 5
    BY <1>1, <2>1
  <2>2. CASE q > 5
    <3>1. q \div 10 \in Nat /\ 5 + q \div 10 <= q
      BY <1>1, <2>2
    <3> QED
      BY <1>1, <2>2, <3>1
  <2> QED
    BY <1>1, <2>1, <2>2
<1> HIDE DEF x
<1>4. {25, x} \in SUBSET Nat
  BY <1>3
<1>5. Min({25, x}) \in {25, x} /\ \A y \in {25, x} : Min({25, x}) <= y
  BY <1>4, MinIs
<1> QED
  BY <1>1, <1>2, <1>3, <1>5 DEF q

(* The largest of 1 and an integer is positive. *)
LEMMA AtLeastOne ==
  ASSUME NEW y \in Int
  PROVE  Calendar!Max({1, y}) \in Pos
<1>1. \E x \in {1, y} : \A z \in {1, y} : x >= z
  OBVIOUS
<1>2. Calendar!Max({1, y}) \in {1, y} /\ Calendar!Max({1, y}) >= 1
  BY <1>1 DEF Calendar!Max
<1> QED
  BY <1>2 DEF Pos

(* CalculateNewWidth gives a positive width. *)
LEMMA NewWidth ==
  ASSUME NEW c, GoodCalendar(c)
  PROVE  Calendar!CalculateNewWidth(c) \in Pos
<1>0. Calendar!QSize(c) \in Nat
  BY SizeOf
<1>1. CASE Calendar!QSize(c) < 2
  BY <1>1 DEF Calendar!CalculateNewWidth, Pos
<1>2. CASE ~(Calendar!QSize(c) < 2)
  <2> DEFINE n == Calendar!NSamples(c)
             s == Calendar!Samples(c, n)
             gaps == [k \in 1 .. Len(s) - 1 |-> s[k + 1].ts - s[k].ts]
             twiceAvg == (Calendar!SumFunctionOnSet(gaps, DOMAIN gaps) \div Len(gaps)) * 2
             sum == Calendar!SumFunctionOnSet(gaps, {k \in DOMAIN gaps : gaps[k] <= twiceAvg})
  <2>1. n \in Nat /\ n >= 2 /\ n <= Calendar!QSize(c)
    BY <1>0, <1>2, SampleNumber
  <2>2. s \in [1 .. n -> Event]
    <3> HIDE DEF n
    <3> QED
      BY <2>1, SamplesAre
  <2>3. Calendar!CalculateNewWidth(c) = Calendar!Max({1, 3 * sum})
    BY <1>2 DEF Calendar!CalculateNewWidth
  <2> HIDE DEF n, s
  <2>4. Len(s) = n /\ \A k \in 1 .. n : s[k].ts \in Nat
    BY <2>1, <2>2 DEF Event
  <2>5. gaps \in [1 .. n - 1 -> Int] /\ n - 1 \in Nat
    <3>1. \A k \in 1 .. n - 1 : k \in 1 .. n /\ k + 1 \in 1 .. n
      BY <2>1
    <3> QED
      BY <2>1, <2>4, <3>1
  <2> DEFINE T == {k \in DOMAIN gaps : gaps[k] <= twiceAvg}
  <2>6. T \in SUBSET (1 .. n - 1)
    BY <2>5
  <2> HIDE DEF gaps, twiceAvg
  <2> HIDE DEF T
  <2>7. Calendar!SumFunctionOnSet(gaps, T) \in Int
    BY <2>5, <2>6, SumIsInt
  <2>8. sum \in Int
    BY <2>7 DEF T
  <2> HIDE DEF sum
  <2>9. 3 * sum \in Int
    BY <2>8
  <2> QED
    BY <2>3, <2>9, AtLeastOne
<1> QED
  BY <1>1, <1>2

(* DoInsert gives a calendar, whatever the event. *)
LEMMA InsertType ==
  ASSUME NEW c \in CalendarType, NEW e \in Event
  PROVE  Calendar!DoInsert(c, e) \in CalendarType
<1> DEFINE b == Hash(c, e.ts)
           l == c.buckets[b]
           k == PlaceOf(l, e, c.reverse)
           m == InsertAt(l, k, e)
<1>1. b \in 0 .. c.nBuckets - 1 /\ Calendar!Hash(c, e.ts) = b
  BY HashType DEF Event
<1>2. l \in Seq(Event)
  BY <1>1, CalendarFields
<1>3. Calendar!DoInsert(c, e) = WithBucket(c, b, m)
  BY <1>1 DEF Calendar!DoInsert, Calendar!SelectInSeq, Calendar!Min, Calendar!Order,
              Calendar!Before, Calendar!InsertAt, PlaceOf, FirstOf, Min, Later, Ranked, Before,
              InsertAt, WithBucket
<1> HIDE DEF b, l
<1>4. Later(l, e, c.reverse) \in SUBSET (1 .. Len(l)) /\ Len(l) \in Nat
  BY <1>2, RangeOf DEF Later
<1> DEFINE I == Later(l, e, c.reverse)
<1>5. k \in 1 .. Len(l) + 1
  <2>1. k = IF FirstOf(I) = 0 THEN Len(l) + 1 ELSE FirstOf(I)
    BY DEF PlaceOf
  <2> HIDE DEF k, I
  <2>2. I \in SUBSET (1 .. Len(l)) /\ Len(l) \in Nat
    BY <1>4 DEF I
  <2>3. FirstOf(I) = 0 \/ FirstOf(I) \in I
    BY <2>2, FirstOfIs
  <2> QED
    BY <2>1, <2>2, <2>3
<1> HIDE DEF k, I
<1>6. m \in Seq(Event)
  BY <1>2, <1>5, InsertAtIs DEF IsInserted
<1> HIDE DEF m
<1> QED
  BY <1>1, <1>3, <1>6, WithBucketIs

(* A new calendar takes over all events. *)
LEMMA CalendarResize ==
  ASSUME NEW c, GoodCalendar(c), NEW n \in Pos
  PROVE  LET d == Calendar!Resize(c, n) IN
         /\ GoodCalendar(d) /\ Calendar!EventsOf(d) = Calendar!EventsOf(c)
         /\ d.lastPrio = c.lastPrio
<1> DEFINE E == Calendar!EventsOf(c)
           V == CalendarType
           base == Calendar!Calendar(n, Calendar!CalculateNewWidth(c), Calendar!StartPrio(c), c.reverse)
           op == [p \in E \X V |-> Calendar!DoInsert(p[2], p[1])]
           x == [s \in (SUBSET E) \ {{}} |-> ChoiceOf(s)]
           f(iter) == [s \in SUBSET E |->
                         IF s = {} THEN base
                         ELSE Calendar!DoInsert(iter[s \ {ChoiceOf(s)}], ChoiceOf(s))]
           F == CHOOSE iter : iter = f(iter)
<1>0. /\ IsFiniteSet(E) /\ E \subseteq Event /\ IdsDiffer(E) /\ c \in CalendarType
      /\ c.lastPrio \in Nat /\ c.reverse \in BOOLEAN /\ \A e \in E : e.ts >= c.lastPrio
  BY FiledEvents, CalendarFields DEF GoodCalendar, Filed, Positioned
<1>1. /\ GoodCalendar(base) /\ Calendar!EventsOf(base) = {} /\ base.lastPrio = c.lastPrio
  <2> DEFINE w == Calendar!CalculateNewWidth(c)
  <2>1. w \in Pos /\ Calendar!StartPrio(c) = c.lastPrio
    BY NewWidth DEF Calendar!StartPrio
  <2> HIDE DEF w
  <2>2. base = Calendar!Calendar(n, w, c.lastPrio, c.reverse)
    BY <2>1 DEF w
  <2> HIDE DEF base
  <2> DEFINE b == Calendar!Calendar(n, w, c.lastPrio, c.reverse)
  <2>3. GoodCalendar(b) /\ Calendar!EventsOf(b) = {} /\ b.lastPrio = c.lastPrio
    BY <1>0, <2>1, EmptyCalendar
  <2> HIDE DEF b
  <2> QED
    BY <2>2, <2>3 DEF b
<1>2. base \in V
  BY <1>1 DEF GoodCalendar, Filed
<1>3. op \in [E \X V -> V]
  <2>1. \A p \in E \X V : p[1] \in Event /\ p[2] \in V
    BY <1>0
  <2>2. \A p \in E \X V : Calendar!DoInsert(p[2], p[1]) \in V
    BY <2>1, InsertType
  <2> QED
    BY <2>2
<1>4. \A s \in SUBSET E : s # {} => x[s] = ChoiceOf(s) /\ ChoiceOf(s) \in s
  BY DEF ChoiceOf
<1>5. Calendar!Resize(c, n) = F[E]
  BY DEF Calendar!Resize, Calendar!FoldSet, Calendar!MapThenFoldSet, ChoiceOf
<1> HIDE DEF E, V, base
<1>6. PICK G \in FoldsOf(E, V, base, op, x) : TRUE
  <2>1. x \in Choosers(E)
    BY <1>4 DEF Choosers
  <2> HIDE DEF op, x
  <2> QED
    BY <1>0, <1>2, <1>3, <2>1, SubsetRecursion
<1>7. G \in [SUBSET E -> V] /\ G[{}] = base
      /\ \A s \in SUBSET E : s # {} =>
           G[s] = Calendar!DoInsert(G[s \ {ChoiceOf(s)}], ChoiceOf(s))
  <2>1. G \in [SUBSET E -> V] /\ G[{}] = base
        /\ \A s \in SUBSET E : s # {} => G[s] = op[<<x[s], G[s \ {x[s]}]>>]
    BY <1>6 DEF FoldsOf
  <2> SUFFICES ASSUME NEW s \in SUBSET E, s # {}
               PROVE  G[s] = Calendar!DoInsert(G[s \ {ChoiceOf(s)}], ChoiceOf(s))
    BY <2>1
  <2>2. x[s] = ChoiceOf(s) /\ ChoiceOf(s) \in E /\ G[s \ {ChoiceOf(s)}] \in V
    BY <1>4, <2>1
  <2> HIDE DEF x
  <2> QED
    BY <2>1, <2>2
<1>8. G = f(G)
  BY <1>7
<1>9. F = f(F)
  <2> HIDE DEF f
  <2> QED
    BY <1>8
<1> HIDE DEF F, op, x
<1>10. /\ F[{}] = base
       /\ \A s \in SUBSET E : s # {} =>
            F[s] = Calendar!DoInsert(F[s \ {ChoiceOf(s)}], ChoiceOf(s))
  BY <1>9
<1> DEFINE Done(s) == /\ GoodCalendar(F[s]) /\ Calendar!EventsOf(F[s]) = s
                      /\ F[s].lastPrio = c.lastPrio
           T == {s \in SUBSET E : Done(s)}
<1>11. SUBSET E \subseteq T
  <2>1. {} \in T
    BY <1>1, <1>10
  <2>2. ASSUME NEW s \in SUBSET E, s # {}, \A e \in s : s \ {e} \in T
        PROVE  s \in T
    <3> DEFINE e == ChoiceOf(s)
               d == F[s \ {e}]
    <3>1. e \in s /\ e \in E /\ e \in Event /\ e.ts >= c.lastPrio
      BY <1>0, <1>4, <2>2
    <3>2. Done(s \ {e})
      BY <2>2, <3>1
    <3>3. F[s] = Calendar!DoInsert(d, e)
      BY <1>10, <2>2
    <3> HIDE DEF e
    <3>4. GoodCalendar(d) /\ Calendar!EventsOf(d) = s \ {e} /\ d.lastPrio = c.lastPrio
      BY <3>2
    <3> HIDE DEF d
    <3>5. \A g \in Calendar!EventsOf(d) : g.uid # e.uid
      BY <1>0, <3>1, <3>4 DEF IdsDiffer
    <3>6. /\ GoodCalendar(F[s]) /\ Calendar!EventsOf(F[s]) = (s \ {e}) \cup {e}
          /\ F[s].lastPrio = c.lastPrio
      <4>1. e.ts >= d.lastPrio
        BY <3>1, <3>4
      <4> QED
        BY <3>1, <3>3, <3>4, <3>5, <4>1, CalendarDoInsert DEF SamePlace
    <3> QED
      BY <3>1, <3>6
  <2> HIDE DEF T
  <2> QED
    BY <1>0, <2>1, <2>2, SubsetInduction
<1> QED
  BY <1>5, <1>11 DEF E

(* Resize in either direction keeps events, order and position. *)
LEMMA CalendarResized ==
  ASSUME NEW c, GoodCalendar(c), NEW d, d \in {Calendar!ResizeUp(c), Calendar!ResizeDown(c)}
  PROVE  GoodCalendar(d) /\ Calendar!EventsOf(d) = Calendar!EventsOf(c) /\ d.lastPrio = c.lastPrio
<1>1. c.nBuckets \in Nat \ {0} /\ Calendar!QSize(c) \in Nat
  BY SizeOf, CalendarFields DEF GoodCalendar, Filed, Pos
<1>2. c.nBuckets * 2 \in Pos
  BY <1>1 DEF Pos
<1>3. Calendar!QSize(c) < c.nBuckets \div 2 => c.nBuckets \div 2 \in Pos
  BY <1>1 DEF Pos
<1>4. d = c \/ \E n \in Pos : d = Calendar!Resize(c, n)
  BY <1>2, <1>3 DEF Calendar!ResizeUp, Calendar!ResizeDown
<1> QED
  BY <1>4, CalendarResize

(* Insert keeps the calendar in order and adds the event. *)
LEMMA CalendarInsert ==
  ASSUME NEW c, GoodCalendar(c), NEW e \in Event, \A f \in Calendar!EventsOf(c) : f.uid # e.uid,
         e.ts >= c.lastPrio
  PROVE  LET d == Calendar!Insert(c, e) IN
         /\ GoodCalendar(d) /\ Calendar!EventsOf(d) = Calendar!EventsOf(c) \cup {e}
         /\ d.lastPrio = c.lastPrio
<1> DEFINE x == Calendar!DoInsert(c, e)
           d == Calendar!Insert(c, e)
<1>1. /\ GoodCalendar(x) /\ Calendar!EventsOf(x) = Calendar!EventsOf(c) \cup {e}
      /\ x.lastPrio = c.lastPrio
  BY CalendarDoInsert DEF SamePlace
<1>2. d = Calendar!ResizeUp(x)
  BY DEF Calendar!Insert
<1> HIDE DEF x, d
<1>3. GoodCalendar(d) /\ Calendar!EventsOf(d) = Calendar!EventsOf(x) /\ d.lastPrio = x.lastPrio
  BY <1>1, <1>2, CalendarResized
<1> QED
  BY <1>1, <1>3 DEF d

(* RemoveNext takes the earliest event out. *)
LEMMA CalendarRemoveNext ==
  ASSUME NEW c, GoodCalendar(c), Calendar!EventsOf(c) # {}
  PROVE  LET d == Calendar!RemoveNext(c)
             e == Calendar!PeekNext(c)
         IN  /\ IsEarliest(e, Calendar!EventsOf(c))
             /\ GoodCalendar(d) /\ Calendar!EventsOf(d) = Calendar!EventsOf(c) \ {e}
             /\ d.lastPrio = e.ts
<1> DEFINE x == Calendar!DoRemoveNext(c)
           d == Calendar!RemoveNext(c)
           e == Calendar!PeekNext(c)
<1>1. /\ GoodCalendar(x) /\ Calendar!EventsOf(x) = Calendar!EventsOf(c) \ {e}
      /\ x.lastPrio = e.ts
  BY CalendarDoRemove
<1>2. IsEarliest(e, Calendar!EventsOf(c))
  BY CalendarPeek
<1>3. d = Calendar!ResizeDown(x)
  BY DEF Calendar!RemoveNext
<1> HIDE DEF x, d, e
<1>4. GoodCalendar(d) /\ Calendar!EventsOf(d) = Calendar!EventsOf(x) /\ d.lastPrio = x.lastPrio
  BY <1>1, <1>3, CalendarResized
<1> QED
  BY <1>1, <1>2, <1>4 DEF d, e

(* Remove takes the event out and leaves the position alone. *)
LEMMA CalendarRemoveEvent ==
  ASSUME NEW c, GoodCalendar(c), NEW e \in Calendar!EventsOf(c)
  PROVE  LET d == Calendar!RemoveEvent(c, e) IN
         /\ GoodCalendar(d) /\ Calendar!EventsOf(d) = Calendar!EventsOf(c) \ {e}
         /\ d.lastPrio = c.lastPrio
<1> DEFINE x == Calendar!Drop(c, e)
           d == Calendar!RemoveEvent(c, e)
<1>1. /\ GoodCalendar(x) /\ Calendar!EventsOf(x) = Calendar!EventsOf(c) \ {e}
      /\ x.lastPrio = c.lastPrio
  BY CalendarDrop DEF SamePlace
<1>2. d = Calendar!ResizeDown(x)
  BY DEF Calendar!RemoveEvent
<1> HIDE DEF x, d
<1>3. GoodCalendar(d) /\ Calendar!EventsOf(d) = Calendar!EventsOf(x) /\ d.lastPrio = x.lastPrio
  BY <1>1, <1>2, CalendarResized
<1> QED
  BY <1>1, <1>3 DEF d

-----------------------------------------------------------------------------
(***************************************************************************)
(* The event list, whatever its type.                                      *)
(***************************************************************************)
SchedulerType ==
  [type : {"heap", "list"}, q : Seq(Event)] \cup [type : {"calendar"}, q : CalendarType]

Good(s) ==
  /\ s \in SchedulerType
  /\ s.type = "heap" => GoodHeap(s.q)
  /\ s.type = "list" => GoodList(s.q)
  /\ s.type = "calendar" => GoodCalendar(s.q)

(* No event before t is to be inserted any more. *)
Since(s, t) == s.type = "calendar" => s.q.lastPrio \in 0 .. t

(* The type and contents of a list after its contents are assigned. *)
LEMMA GoodContents ==
  ASSUME NEW s \in SchedulerType, NEW x
  PROVE  /\ s.type \in {"heap", "list", "calendar"}
         /\ [s EXCEPT !.q = x].type = s.type /\ [s EXCEPT !.q = x].q = x
         /\ s.type = "heap" /\ GoodHeap(x) => Good([s EXCEPT !.q = x])
         /\ s.type = "list" /\ GoodList(x) => Good([s EXCEPT !.q = x])
         /\ s.type = "calendar" /\ GoodCalendar(x) => Good([s EXCEPT !.q = x])
<1> DEFINE t == [s EXCEPT !.q = x]
<1>1. s.type \in {"heap", "list", "calendar"} /\ t.type = s.type /\ t.q = x
  BY DEF SchedulerType
<1>2. s.type \in {"heap", "list"} /\ x \in Seq(Event) => t \in SchedulerType
  BY DEF SchedulerType
<1>3. s.type = "calendar" /\ x \in CalendarType => t \in SchedulerType
  BY DEF SchedulerType
<1> HIDE DEF t
<1>4. (GoodHeap(x) => x \in Seq(Event)) /\ (GoodList(x) => x \in Seq(Event))
      /\ (GoodCalendar(x) => x \in CalendarType)
  BY DEF GoodHeap, GoodList, GoodCalendar, Filed
<1>5. /\ s.type = "heap" /\ GoodHeap(x) => Good(t)
      /\ s.type = "list" /\ GoodList(x) => Good(t)
      /\ s.type = "calendar" /\ GoodCalendar(x) => Good(t)
  BY <1>1, <1>2, <1>3, <1>4 DEF Good
<1> QED
  BY <1>1, <1>5 DEF t

(* The events of a sequence without repeated ids. *)
LEMMA SequenceEvents ==
  ASSUME NEW h \in Seq(Event), Once(h)
  PROVE  Range(h) \subseteq Event /\ IdsDiffer(Range(h)) /\ IsFiniteSet(Range(h))
<1>1. Range(h) = {h[i] : i \in 1 .. Len(h)} /\ Range(h) \subseteq Event /\ Len(h) \in Nat
  BY RangeOf
<1>2. [i \in 1 .. Len(h) |-> h[i]] \in Surjection(1 .. Len(h), Range(h))
  BY <1>1 DEF Surjection
<1>3. IsFiniteSet(1 .. Len(h))
  BY <1>1, FS_Interval
<1>4. IsFiniteSet(Range(h))
  BY <1>2, <1>3, FS_Surjection
<1>5. IdsDiffer(Range(h))
  BY <1>1 DEF IdsDiffer, Once
<1> QED
  BY <1>1, <1>4, <1>5

(* A list in order has finitely many events, with different ids. *)
LEMMA GoodEvents ==
  ASSUME NEW s, Good(s)
  PROVE  EventsOf(s) \subseteq Event /\ IdsDiffer(EventsOf(s)) /\ IsFiniteSet(EventsOf(s))
<1>1. s.type \in {"heap", "list", "calendar"}
  BY GoodContents DEF Good
<1>2. CASE s.type = "calendar"
  <2>1. EventsOf(s) = Calendar!EventsOf(s.q) /\ GoodCalendar(s.q)
    BY <1>2 DEF EventsOf, Good
  <2> QED
    BY <2>1, FiledEvents DEF GoodCalendar
<1>3. CASE s.type # "calendar"
  <2>1. EventsOf(s) = Range(s.q)
    BY <1>3 DEF EventsOf
  <2>2. s.q \in Seq(Event) /\ Once(s.q)
    BY <1>1, <1>3 DEF Good, GoodHeap, GoodList
  <2> QED
    BY <2>1, <2>2, SequenceEvents
<1> QED
  BY <1>2, <1>3

(* Insert, for any type: the event is added. *)
LEMMA GoodInsert ==
  ASSUME NEW s, Good(s), NEW e \in Event, \A f \in EventsOf(s) : f.uid # e.uid, Since(s, e.ts)
  PROVE  LET t == Inserted(s, e) IN
         /\ Good(t) /\ EventsOf(t) = EventsOf(s) \cup {e} /\ t.type = s.type
         /\ t.type = "calendar" => t.q.lastPrio = s.q.lastPrio
<1> DEFINE t == Inserted(s, e)
<1>0. s \in SchedulerType /\ s.type \in {"heap", "list", "calendar"}
  BY GoodContents DEF Good
<1>1. CASE s.type = "heap"
  <2> DEFINE x == Heap!Insert(s.q, e)
  <2>1. t = [s EXCEPT !.q = x]
    BY <1>1 DEF Inserted
  <2>2. GoodHeap(s.q) /\ EventsOf(s) = Range(s.q)
    BY <1>1 DEF Good, EventsOf
  <2>3. \A i \in 1 .. Len(s.q) : s.q[i].uid # e.uid
    BY <2>2, RangeOf DEF GoodHeap
  <2>4. GoodHeap(x) /\ Range(x) = Range(s.q) \cup {e}
    BY <2>2, <2>3, HeapInsert
  <2> HIDE DEF x, t
  <2>5. Good(t) /\ t.type = s.type /\ t.q = x
    BY <1>0, <1>1, <2>1, <2>4, GoodContents
  <2> QED
    BY <1>1, <2>2, <2>4, <2>5 DEF EventsOf, t
<1>2. CASE s.type = "list"
  <2> DEFINE x == List!Insert(s.q, e)
  <2>1. t = [s EXCEPT !.q = x]
    BY <1>2 DEF Inserted
  <2>2. GoodList(s.q) /\ EventsOf(s) = Range(s.q)
    BY <1>2 DEF Good, EventsOf
  <2>3. \A i \in 1 .. Len(s.q) : s.q[i].uid # e.uid
    BY <2>2, RangeOf DEF GoodList
  <2>4. GoodList(x) /\ Range(x) = Range(s.q) \cup {e}
    BY <2>2, <2>3, ListInsert
  <2> HIDE DEF x, t
  <2>5. Good(t) /\ t.type = s.type /\ t.q = x
    BY <1>0, <1>2, <2>1, <2>4, GoodContents
  <2> QED
    BY <1>2, <2>2, <2>4, <2>5 DEF EventsOf, t
<1>3. CASE s.type = "calendar"
  <2> DEFINE x == Calendar!Insert(s.q, e)
  <2>1. t = [s EXCEPT !.q = x]
    BY <1>3 DEF Inserted
  <2>2. GoodCalendar(s.q) /\ EventsOf(s) = Calendar!EventsOf(s.q) /\ e.ts >= s.q.lastPrio
    BY <1>3 DEF Good, EventsOf, Since, Event
  <2>3. GoodCalendar(x) /\ Calendar!EventsOf(x) = Calendar!EventsOf(s.q) \cup {e}
        /\ x.lastPrio = s.q.lastPrio
    BY <2>2, CalendarInsert
  <2> HIDE DEF x, t
  <2>4. Good(t) /\ t.type = s.type /\ t.q = x
    BY <1>0, <1>3, <2>1, <2>3, GoodContents
  <2> QED
    BY <1>3, <2>2, <2>3, <2>4 DEF EventsOf, t
<1> QED
  BY <1>0, <1>1, <1>2, <1>3

(* RemoveNext, for any type: the earliest event goes. *)
LEMMA GoodRemoveNext ==
  ASSUME NEW s, Good(s), EventsOf(s) # {}
  PROVE  LET t == NextRemoved(s)
             e == PeekNext(s)
         IN  /\ IsEarliest(e, EventsOf(s))
             /\ Good(t) /\ EventsOf(t) = EventsOf(s) \ {e} /\ t.type = s.type
             /\ t.type = "calendar" => t.q.lastPrio = e.ts
<1> DEFINE t == NextRemoved(s)
           e == PeekNext(s)
<1>0. s \in SchedulerType /\ s.type \in {"heap", "list", "calendar"}
  BY GoodContents DEF Good
<1>1. CASE s.type = "heap"
  <2> DEFINE x == Heap!RemoveNext(s.q)
  <2>1. t = [s EXCEPT !.q = x] /\ e = Heap!PeekNext(s.q)
    BY <1>1 DEF NextRemoved, PeekNext
  <2>2. GoodHeap(s.q) /\ EventsOf(s) = Range(s.q)
    BY <1>1 DEF Good, EventsOf
  <2>3. GoodHeap(x) /\ Range(x) = Range(s.q) \ {e} /\ IsEarliest(e, Range(s.q))
    BY <2>1, <2>2, HeapRemoveNext
  <2> HIDE DEF x, t, e
  <2>4. Good(t) /\ t.type = s.type /\ t.q = x
    BY <1>0, <1>1, <2>1, <2>3, GoodContents
  <2> QED
    BY <1>1, <2>2, <2>3, <2>4 DEF EventsOf, t, e
<1>2. CASE s.type = "list"
  <2> DEFINE x == List!RemoveNext(s.q)
  <2>1. t = [s EXCEPT !.q = x] /\ e = List!PeekNext(s.q)
    BY <1>2 DEF NextRemoved, PeekNext
  <2>2. GoodList(s.q) /\ EventsOf(s) = Range(s.q)
    BY <1>2 DEF Good, EventsOf
  <2>3. GoodList(x) /\ Range(x) = Range(s.q) \ {e} /\ IsEarliest(e, Range(s.q))
    BY <2>1, <2>2, ListRemoveNext
  <2> HIDE DEF x, t, e
  <2>4. Good(t) /\ t.type = s.type /\ t.q = x
    BY <1>0, <1>2, <2>1, <2>3, GoodContents
  <2> QED
    BY <1>2, <2>2, <2>3, <2>4 DEF EventsOf, t, e
<1>3. CASE s.type = "calendar"
  <2> DEFINE x == Calendar!RemoveNext(s.q)
  <2>1. t = [s EXCEPT !.q = x] /\ e = Calendar!PeekNext(s.q)
    BY <1>3 DEF NextRemoved, PeekNext
  <2>2. GoodCalendar(s.q) /\ EventsOf(s) = Calendar!EventsOf(s.q)
    BY <1>3 DEF Good, EventsOf
  <2>3. /\ GoodCalendar(x) /\ Calendar!EventsOf(x) = Calendar!EventsOf(s.q) \ {e}
        /\ IsEarliest(e, Calendar!EventsOf(s.q)) /\ x.lastPrio = e.ts
    BY <2>1, <2>2, CalendarRemoveNext
  <2> HIDE DEF x, t, e
  <2>4. Good(t) /\ t.type = s.type /\ t.q = x
    BY <1>0, <1>3, <2>1, <2>3, GoodContents
  <2> QED
    BY <1>3, <2>2, <2>3, <2>4 DEF EventsOf, t, e
<1> QED
  BY <1>0, <1>1, <1>2, <1>3

(* Remove, for any type: the event goes; of a heap, up to five elements. *)
LEMMA GoodRemoveEvent ==
  ASSUME NEW s, Good(s), NEW e \in EventsOf(s), s.type = "heap" => Len(s.q) <= 5
  PROVE  LET t == Removed(s, e) IN
         /\ Good(t) /\ EventsOf(t) = EventsOf(s) \ {e} /\ t.type = s.type
         /\ t.type = "calendar" => t.q.lastPrio = s.q.lastPrio
<1> DEFINE t == Removed(s, e)
<1>0. s \in SchedulerType /\ s.type \in {"heap", "list", "calendar"}
  BY GoodContents DEF Good
<1>1. CASE s.type = "heap"
  <2> DEFINE x == Heap!RemoveEvent(s.q, e)
  <2>1. t = [s EXCEPT !.q = x]
    BY <1>1 DEF Removed
  <2>2. GoodHeap(s.q) /\ EventsOf(s) = Range(s.q) /\ Len(s.q) <= 5
    BY <1>1 DEF Good, EventsOf
  <2>3. GoodHeap(x) /\ Range(x) = Range(s.q) \ {e}
    BY <2>2, HeapRemoveEvent
  <2> HIDE DEF x, t
  <2>4. Good(t) /\ t.type = s.type /\ t.q = x
    BY <1>0, <1>1, <2>1, <2>3, GoodContents
  <2> QED
    BY <1>1, <2>2, <2>3, <2>4 DEF EventsOf, t
<1>2. CASE s.type = "list"
  <2> DEFINE x == List!RemoveEvent(s.q, e)
  <2>1. t = [s EXCEPT !.q = x]
    BY <1>2 DEF Removed
  <2>2. GoodList(s.q) /\ EventsOf(s) = Range(s.q)
    BY <1>2 DEF Good, EventsOf
  <2>3. GoodList(x) /\ Range(x) = Range(s.q) \ {e}
    BY <2>2, ListRemoveEvent
  <2> HIDE DEF x, t
  <2>4. Good(t) /\ t.type = s.type /\ t.q = x
    BY <1>0, <1>2, <2>1, <2>3, GoodContents
  <2> QED
    BY <1>2, <2>2, <2>3, <2>4 DEF EventsOf, t
<1>3. CASE s.type = "calendar"
  <2> DEFINE x == Calendar!RemoveEvent(s.q, e)
  <2>1. t = [s EXCEPT !.q = x]
    BY <1>3 DEF Removed
  <2>2. GoodCalendar(s.q) /\ EventsOf(s) = Calendar!EventsOf(s.q)
    BY <1>3 DEF Good, EventsOf
  <2>3. GoodCalendar(x) /\ Calendar!EventsOf(x) = Calendar!EventsOf(s.q) \ {e}
        /\ x.lastPrio = s.q.lastPrio
    BY <2>2, CalendarRemoveEvent
  <2> HIDE DEF x, t
  <2>4. Good(t) /\ t.type = s.type /\ t.q = x
    BY <1>0, <1>3, <2>1, <2>3, GoodContents
  <2> QED
    BY <1>3, <2>2, <2>3, <2>4 DEF EventsOf, t
<1> QED
  BY <1>0, <1>1, <1>2, <1>3

(* The factory gives an empty list in order. *)
LEMMA GoodCreated ==
  ASSUME NEW s \in Created
  PROVE  Good(s) /\ EventsOf(s) = {} /\ Since(s, 0)
<1>1. CASE s \in {[type |-> type, q |-> <<>>] : type \in {"heap", "list"}}
  <2>0. PICK type \in {"heap", "list"} : s = [type |-> type, q |-> <<>>]
    BY <1>1
  <2>1. s.type \in {"heap", "list"} /\ s.q = <<>> /\ s \in SchedulerType
    <3>1. <<>> \in Seq(Event)
      OBVIOUS
    <3>2. s \in [type : {"heap", "list"}, q : Seq(Event)]
      BY <2>0, <3>1
    <3> QED
      BY <2>0, <3>2 DEF SchedulerType
  <2>2. Len(<<>>) = 0 /\ Range(<<>>) = {} /\ <<>> \in Seq(Event) /\ \A i : i \notin 1 .. 0
    BY DEF Range
  <2>3. \A i : i \notin 2 .. 0
    OBVIOUS
  <2>4. GoodHeap(<<>>) /\ GoodList(<<>>)
    BY <2>2, <2>3 DEF GoodHeap, GoodList, Once, Ordered, Sorted
  <2> QED
    BY <2>1, <2>2, <2>4 DEF Good, EventsOf, Since
<1>2. CASE s \in {[type |-> "calendar", q |-> Calendar!New(reverse)] : reverse \in BOOLEAN}
  <2>1. PICK reverse \in BOOLEAN : s = [type |-> "calendar", q |-> Calendar!New(reverse)]
    BY <1>2
  <2> DEFINE c == Calendar!New(reverse)
  <2>2. GoodCalendar(c) /\ Calendar!EventsOf(c) = {} /\ c.lastPrio = 0
    <3>1. 2 \in Pos /\ 1 \in Pos /\ 0 \in Nat
      BY DEF Pos
    <3> QED
      BY <3>1, EmptyCalendar DEF Calendar!New
  <2>3. s = [type |-> "calendar", q |-> c]
    BY <2>1
  <2> HIDE DEF c
  <2>4. c \in CalendarType
    BY <2>2 DEF GoodCalendar, Filed
  <2>5. s.type = "calendar" /\ s.q = c /\ s \in SchedulerType
    BY <2>3, <2>4 DEF SchedulerType
  <2> QED
    BY <2>2, <2>5 DEF Good, EventsOf, Since
<1> QED
  BY <1>1, <1>2 DEF Created

(* The move of events from one scheduler to the next: those of E are in    *)
(* one or the other.                                                       *)
Moves(E, type) ==
  {s \in [old : SchedulerType, new : SchedulerType] :
     /\ Good(s.old) /\ Good(s.new) /\ s.new.type = type /\ Since(s.new, 0)
     /\ EventsOf(s.old) \cup EventsOf(s.new) = E
     /\ EventsOf(s.old) \cap EventsOf(s.new) = {}}

(* One event goes from the old list to the new one. *)
LEMMA MoveOneKeeps ==
  ASSUME NEW E, IdsDiffer(E), NEW type, NEW s \in Moves(E, type), EventsOf(s.old) # {}
  PROVE  /\ MoveOne(s) \in Moves(E, type)
         /\ Cardinality(EventsOf(MoveOne(s).old)) < Cardinality(EventsOf(s.old))
         /\ Cardinality(EventsOf(s.old)) \in Nat
<1> DEFINE old == s.old
           new == s.new
           e == PeekNext(old)
           x == NextRemoved(old)
           y == Inserted(new, e)
           t == [old |-> x, new |-> y]
<1>1. /\ Good(old) /\ Good(new) /\ new.type = type /\ Since(new, 0)
      /\ EventsOf(old) \cup EventsOf(new) = E
      /\ EventsOf(old) \cap EventsOf(new) = {}
  BY DEF Moves
<1>2. MoveOne(s) = t
  BY DEF MoveOne
<1> HIDE DEF old, new
<1>3. IsEarliest(e, EventsOf(old)) /\ Good(x) /\ EventsOf(x) = EventsOf(old) \ {e}
  BY <1>1, GoodRemoveNext DEF old
<1>4. EventsOf(old) \subseteq Event /\ EventsOf(new) \subseteq Event /\ IsFiniteSet(EventsOf(old))
  BY <1>1, GoodEvents
<1>5. e \in EventsOf(old) /\ e \in Event
  BY <1>3, <1>4 DEF IsEarliest
<1> HIDE DEF e, x
<1>6. \A f \in EventsOf(new) : f.uid # e.uid
  <2> SUFFICES ASSUME NEW f \in EventsOf(new), f.uid = e.uid PROVE FALSE
    OBVIOUS
  <2>1. f \in E /\ e \in E
    BY <1>1, <1>5
  <2>2. f = e
    BY <2>1 DEF IdsDiffer
  <2> QED
    BY <1>1, <1>5, <2>2
<1>7. Since(new, e.ts)
  BY <1>1, <1>5 DEF Since, Event
<1>8. /\ Good(y) /\ EventsOf(y) = EventsOf(new) \cup {e} /\ y.type = new.type
      /\ y.type = "calendar" => y.q.lastPrio = new.q.lastPrio
  BY <1>1, <1>5, <1>6, <1>7, GoodInsert
<1> HIDE DEF y
<1>9. t.old = x /\ t.new = y /\ t \in [old : SchedulerType, new : SchedulerType]
  BY <1>3, <1>8 DEF Good
<1> HIDE DEF t
<1>10. Since(y, 0)
  BY <1>1, <1>8 DEF Since
<1>11. EventsOf(x) \cup EventsOf(y) = E /\ EventsOf(x) \cap EventsOf(y) = {}
  BY <1>1, <1>3, <1>5, <1>8
<1>12. t \in Moves(E, type)
  BY <1>1, <1>3, <1>8, <1>9, <1>10, <1>11 DEF Moves
<1>13. /\ Cardinality(EventsOf(x)) = Cardinality(EventsOf(old)) - 1
       /\ Cardinality(EventsOf(old)) \in Nat
  BY <1>3, <1>4, <1>5, FS_RemoveElement, FS_CardinalityType
<1> QED
  BY <1>2, <1>9, <1>12, <1>13 DEF old

(* After the loop the new list has all events of the old one. *)
LEMMA GoodMove ==
  ASSUME NEW old, Good(old), NEW new \in Created
  PROVE  LET t == Moved(old, new) IN
         Good(t) /\ EventsOf(t) = EventsOf(old) /\ t.type = new.type /\ Since(t, 0)
<1> DEFINE E == EventsOf(old)
           n == Cardinality(E)
           S == Moves(E, new.type)
           s0 == [old |-> old, new |-> new]
           op == [s \in S |-> MoveOne(s)]
           rank == [s \in S |-> Cardinality(EventsOf(s.old))]
           body(f) == [m \in 0 .. n |-> IF m = 0 THEN s0 ELSE MoveOne(f[m - 1])]
           at == CHOOSE f : f = body(f)
<1>1. IdsDiffer(E) /\ IsFiniteSet(E) /\ n \in Nat
  BY GoodEvents, FS_CardinalityType
<1>2. s0 \in S
  <2>1. Good(new) /\ EventsOf(new) = {} /\ Since(new, 0)
    BY GoodCreated
  <2>2. s0.old = old /\ s0.new = new /\ s0 \in [old : SchedulerType, new : SchedulerType]
    BY <2>1 DEF Good
  <2> HIDE DEF s0
  <2> QED
    BY <2>1, <2>2 DEF Moves
<1>3. \A s \in S : MoveOne(s) = s \/ EventsOf(s.old) # {}
  BY DEF MoveOne
<1>4. \A s \in S : MoveOne(s) \in S
  BY <1>1, <1>3, MoveOneKeeps
<1>5. \A s \in S : Cardinality(EventsOf(s.old)) \in Nat
  <2> SUFFICES ASSUME NEW s \in S PROVE Cardinality(EventsOf(s.old)) \in Nat
    OBVIOUS
  <2>1. Good(s.old)
    BY DEF Moves
  <2> QED
    BY <2>1, GoodEvents, FS_CardinalityType
<1>6. \A s \in S : EventsOf(s.old) # {} =>
        Cardinality(EventsOf(MoveOne(s).old)) < Cardinality(EventsOf(s.old))
  BY <1>1, MoveOneKeeps
<1>7. s0.old = old /\ s0.new = new
  OBVIOUS
<1> HIDE DEF S, s0
<1>8. /\ op \in [S -> S] /\ rank \in [S -> Nat]
      /\ \A s \in S : op[s] = MoveOne(s) /\ rank[s] = Cardinality(EventsOf(s.old))
  BY <1>4, <1>5
<1> HIDE DEF op, rank
<1>9. \A s \in S : op[s] = s \/ rank[op[s]] < rank[s]
  <2> SUFFICES ASSUME NEW s \in S, op[s] # s PROVE rank[op[s]] < rank[s]
    OBVIOUS
  <2>1. op[s] = MoveOne(s) /\ op[s] \in S /\ EventsOf(s.old) # {}
    BY <1>3, <1>4, <1>8
  <2>2. rank[op[s]] = Cardinality(EventsOf(MoveOne(s).old)) /\ rank[s] = Cardinality(EventsOf(s.old))
    BY <1>8, <2>1
  <2> QED
    BY <1>6, <2>1, <2>2
<1>10. rank[s0] <= n
  BY <1>1, <1>2, <1>7, <1>8
<1>11. at = body(at)
  <2>1. PICK f \in RunsOf(S, s0, op, n) : TRUE
    <3> HIDE DEF n
    <3>1. n \in Nat /\ s0 \in S /\ op \in [S -> S]
      BY <1>1, <1>2, <1>8
    <3>2. RunsOf(S, s0, op, n) # {}
      BY <3>1, LoopRuns
    <3> QED
      BY <3>2
  <2>2. f \in [0 .. n -> S] /\ f[0] = s0 /\ \A m \in 1 .. n : f[m] = op[f[m - 1]]
    BY <2>1 DEF RunsOf
  <2>3. ASSUME NEW m \in 0 .. n, m # 0
        PROVE  f[m] = MoveOne(f[m - 1])
    <3>1. m \in 1 .. n /\ m - 1 \in 0 .. n
      BY <1>1, <2>3
    <3> QED
      BY <1>8, <2>2, <3>1
  <2>4. f = body(f)
    BY <2>2, <2>3
  <2> HIDE DEF body
  <2> QED
    BY <2>4
<1>12. at \in RunsOf(S, s0, op, n)
  <2>1. /\ DOMAIN at = 0 .. n /\ at = [m \in 0 .. n |-> at[m]] /\ at[0] = s0
        /\ \A m \in 0 .. n : m # 0 => at[m] = MoveOne(at[m - 1])
    <3> HIDE DEF at, n
    <3>1. at = [m \in 0 .. n |-> IF m = 0 THEN s0 ELSE MoveOne(at[m - 1])]
      BY <1>11
    <3>2. \A m \in 0 .. n : at[m] = IF m = 0 THEN s0 ELSE MoveOne(at[m - 1])
      BY <3>1, Zenon
    <3>3. 0 \in 0 .. n
      BY <1>1
    <3> QED
      BY <3>1, <3>2, <3>3
  <2> HIDE DEF at, n
  <2>2. ASSUME NEW m \in 1 .. n, at[m - 1] \in S
        PROVE  at[m] = op[at[m - 1]]
    <3>1. m \in 0 .. n /\ m # 0
      BY <1>1
    <3> QED
      BY <1>8, <2>1, <2>2, <3>1
  <2> QED
    BY <1>1, <1>2, <1>8, <2>1, <2>2, LoopIsRun
<1>13. Moved(old, new) = at[n].new
  BY DEF Moved, MovedFirst, at, body, s0
<1> HIDE DEF at, body, n
<1>14. at[n] \in S /\ op[at[n]] = at[n]
  <2>1. s0 \in S /\ op \in [S -> S] /\ rank \in [S -> Nat]
    BY <1>2, <1>8
  <2> QED
    BY <1>1, <1>9, <1>10, <1>12, <2>1, LoopEnds
<1>15. EventsOf(at[n].old) = {}
  <2> SUFFICES ASSUME EventsOf(at[n].old) # {} PROVE FALSE
    OBVIOUS
  <2>1. MoveOne(at[n]) = at[n]
    BY <1>8, <1>14
  <2> QED
    BY <1>5, <1>6, <1>14, <2>1
<1> DEFINE t == at[n].new
<1>16. Good(t) /\ t.type = new.type /\ Since(t, 0) /\ EventsOf(t) = E
  BY <1>14, <1>15 DEF S, Moves
<1> QED
  BY <1>13, <1>16

(* Where the heap is used, no event is removed from the middle of one of   *)
(* more than five: from six on, the element that fills the hole may have   *)
(* to rise, which heap-scheduler.cc does not do.  Of the calendar and the  *)
(* list nothing is assumed.                                                *)
FewHeapRemovals == "heap" \in Types => HeapRemovals <= 5

(* The inductive invariant: the event list is in order, its events have    *)
(* ids that were given out, and a calendar does not search from later than *)
(* the event removed last, so that none is inserted behind its position.   *)
SchedulerInv ==
  /\ Good(events) /\ events.type \in Types /\ Since(events, out.ts)
  /\ uid \in Nat /\ out.ts \in Nat
  /\ \A e \in EventsOf(events) : e.uid < uid

(* The factory's list is empty and starts at time 0. *)
LEMMA SchedulerInit == Init => SchedulerInv
<1> SUFFICES ASSUME Init PROVE SchedulerInv
  OBVIOUS
<1>1. events \in Created /\ uid = 0 /\ out.ts = 0 /\ events.type \in Types
  BY DEF Init, Created
<1>2. Good(events) /\ EventsOf(events) = {} /\ Since(events, 0)
  BY <1>1, GoodCreated
<1> QED
  BY <1>1, <1>2 DEF SchedulerInv

(* An event is inserted with a fresh id and no earlier than the last one   *)
(* removed.                                                                *)
LEMMA InsertKeeps ==
  ASSUME SchedulerInv, NEW ts \in out.ts .. MaxTime, Insert(ts)
  PROVE  /\ SchedulerInv'
         /\ events' = Inserted(events, [ts |-> ts, uid |-> uid]) /\ events'.type = events.type
         /\ EventsOf(events') = EventsOf(events) \cup {[ts |-> ts, uid |-> uid]}
<1> DEFINE e == [ts |-> ts, uid |-> uid]
<1>1. /\ Good(events) /\ events.type \in Types /\ Since(events, out.ts)
      /\ uid \in Nat /\ out.ts \in Nat
      /\ \A f \in EventsOf(events) : f.uid < uid
  BY DEF SchedulerInv
<1>2. events' = Inserted(events, e) /\ uid' = uid + 1 /\ out' = out
  BY DEF Insert
<1>3. e \in Event /\ e.ts = ts /\ e.uid = uid /\ out.ts <= ts /\ ts \in Nat
  BY <1>1, SchedulerAssumption DEF Event
<1> HIDE DEF e
<1>4. EventsOf(events) \subseteq Event
  BY <1>1, GoodEvents
<1>5. \A f \in EventsOf(events) : f.uid # e.uid /\ f.uid \in Nat
  BY <1>1, <1>3, <1>4 DEF Event
<1>6. Since(events, e.ts)
  BY <1>1, <1>3 DEF Since
<1>7. /\ Good(events') /\ EventsOf(events') = EventsOf(events) \cup {e}
      /\ events'.type = events.type
      /\ events'.type = "calendar" => events'.q.lastPrio = events.q.lastPrio
  BY <1>1, <1>2, <1>3, <1>5, <1>6, GoodInsert
<1>8. Since(events', out.ts)
  BY <1>1, <1>7 DEF Since
<1>9. \A f \in EventsOf(events') : f.uid < uid + 1
  BY <1>1, <1>3, <1>5, <1>7
<1>10. SchedulerInv'
  BY <1>1, <1>2, <1>7, <1>8, <1>9 DEF SchedulerInv
<1> QED
  BY <1>2, <1>7, <1>10 DEF e

(* The earliest event goes; a calendar moves its position to it.           *)
LEMMA RemoveNextKeeps ==
  ASSUME SchedulerInv, RemoveNext
  PROVE  /\ SchedulerInv' /\ events'.type = events.type
         /\ EventsOf(events') = EventsOf(events) \ {out'}
         /\ out' = Earliest(EventsOf(events))
<1>1. /\ Good(events) /\ events.type \in Types /\ uid \in Nat /\ EventsOf(events) # {}
      /\ \A f \in EventsOf(events) : f.uid < uid
  BY DEF SchedulerInv, RemoveNext
<1>2. out' = PeekNext(events) /\ events' = NextRemoved(events) /\ uid' = uid
  BY DEF RemoveNext
<1>3. /\ IsEarliest(out', EventsOf(events))
      /\ Good(events') /\ EventsOf(events') = EventsOf(events) \ {out'}
      /\ events'.type = events.type
      /\ events'.type = "calendar" => events'.q.lastPrio = out'.ts
  BY <1>1, <1>2, GoodRemoveNext
<1>4. EventsOf(events) \subseteq Event
  BY <1>1, GoodEvents
<1>5. out'.ts \in Nat
  BY <1>3, <1>4 DEF IsEarliest, Event
<1>6. Since(events', out'.ts)
  BY <1>3, <1>5 DEF Since
<1>7. \A f \in EventsOf(events') : f.uid < uid
  BY <1>1, <1>3
<1>8. SchedulerInv'
  BY <1>1, <1>2, <1>3, <1>5, <1>6, <1>7 DEF SchedulerInv
<1>9. Earliest(EventsOf(events)) = out'
  BY <1>3, <1>4, EarliestIs
<1> QED
  BY <1>3, <1>8, <1>9

(* Up to five elements of a heap are in order after any removal. *)
LEMMA RemoveEventKeeps ==
  ASSUME FewHeapRemovals, SchedulerInv, NEW e \in EventsOf(events), RemoveEvent(e)
  PROVE  /\ SchedulerInv' /\ events'.type = events.type
         /\ EventsOf(events') = EventsOf(events) \ {e}
<1>1. /\ Good(events) /\ events.type \in Types /\ Since(events, out.ts)
      /\ uid \in Nat /\ out.ts \in Nat
      /\ \A f \in EventsOf(events) : f.uid < uid
  BY DEF SchedulerInv
<1>2. events' = Removed(events, e) /\ uid' = uid /\ out' = out
  BY DEF RemoveEvent
<1>3. events.type = "heap" => Len(events.q) <= 5
  <2>1. events.type = "heap" => Len(events.q) <= HeapRemovals /\ Len(events.q) \in Nat
    BY <1>1 DEF RemoveEvent, Good, GoodHeap
  <2>2. events.type = "heap" => HeapRemovals <= 5
    BY <1>1 DEF FewHeapRemovals
  <2> QED
    BY <2>1, <2>2, SchedulerAssumption
<1>4. /\ Good(events') /\ EventsOf(events') = EventsOf(events) \ {e}
      /\ events'.type = events.type
      /\ events'.type = "calendar" => events'.q.lastPrio = events.q.lastPrio
  BY <1>1, <1>2, <1>3, GoodRemoveEvent
<1>5. Since(events', out.ts)
  BY <1>1, <1>4 DEF Since
<1>6. \A f \in EventsOf(events') : f.uid < uid
  BY <1>1, <1>4
<1>7. SchedulerInv'
  BY <1>1, <1>2, <1>4, <1>5, <1>6 DEF SchedulerInv
<1> QED
  BY <1>4, <1>7

(* The new list has the events of the old one and starts at time 0. *)
LEMMA SetSchedulerKeeps ==
  ASSUME SchedulerInv, NEW new \in Created, SetScheduler(new)
  PROVE  SchedulerInv' /\ EventsOf(events') = EventsOf(events)
<1>1. /\ Good(events) /\ events.type \in Types /\ uid \in Nat /\ out.ts \in Nat
      /\ \A f \in EventsOf(events) : f.uid < uid
  BY DEF SchedulerInv
<1>2. events' = Moved(events, new) /\ uid' = uid /\ out' = out
  BY DEF SetScheduler
<1>3. Good(events') /\ EventsOf(events') = EventsOf(events) /\ Since(events', 0)
  BY <1>1, <1>2, GoodMove
<1>5. events'.type \in Types
  BY <1>1, <1>2, GoodMove DEF Created
<1>4. Since(events', out.ts)
  BY <1>1, <1>3 DEF Since
<1> QED
  BY <1>1, <1>2, <1>3, <1>4, <1>5 DEF SchedulerInv

(* The invariant is inductive. *)
LEMMA SchedulerNext ==
  ASSUME FewHeapRemovals, SchedulerInv, [Next]_vars
  PROVE  SchedulerInv'
<1>1. ASSUME NEW ts \in out.ts .. MaxTime, Insert(ts) PROVE SchedulerInv'
  BY <1>1, InsertKeeps
<1>2. CASE RemoveNext
  BY <1>2, RemoveNextKeeps
<1>3. ASSUME NEW e \in EventsOf(events), RemoveEvent(e) PROVE SchedulerInv'
  BY <1>3, RemoveEventKeeps
<1>4. ASSUME NEW new \in Created, SetScheduler(new) PROVE SchedulerInv'
  BY <1>4, SetSchedulerKeeps
<1>5. CASE UNCHANGED vars
  BY <1>5 DEF SchedulerInv, vars
<1> QED
  BY <1>1, <1>2, <1>3, <1>4, <1>5 DEF Next

(* The inductive invariant holds in every state. *)
THEOREM SchedulerInvCorrect ==
  ASSUME FewHeapRemovals
  PROVE  Spec => []SchedulerInv
<1>1. Init => SchedulerInv
  BY SchedulerInit
<1>2. SchedulerInv /\ [Next]_vars => SchedulerInv'
  BY SchedulerNext
<1> QED
  BY <1>1, <1>2, PTL DEF Spec

(* A list in order is a heap in order ... *)
LEMMA HeapOrderHolds == SchedulerInv => HeapOrder
<1> SUFFICES ASSUME SchedulerInv, events.type = "heap", NEW i \in 2 .. Len(events.q)
             PROVE  Before(events.q[i \div 2], events.q[i])
  BY DEF HeapOrder
<1>1. Ordered(events.q)
  BY DEF SchedulerInv, Good, GoodHeap
<1> QED
  BY <1>1 DEF Ordered

(* ... or a calendar in order, whose position is in the slice of the day   *)
(* of its priority.                                                        *)
LEMMA CalendarInvHolds == SchedulerInv => CalendarInv
<1> SUFFICES ASSUME SchedulerInv, events.type = "calendar" PROVE CalendarInv
  BY DEF CalendarInv
<1> DEFINE c == events.q
<1>1. GoodCalendar(c) /\ EventsOf(events) = Calendar!EventsOf(c)
  BY DEF SchedulerInv, Good, EventsOf
<1> HIDE DEF c
<1>2. Filed(c) /\ Positioned(c) /\ c \in CalendarType
  BY <1>1 DEF GoodCalendar, Filed
<1>3. \A ts : Calendar!Hash(c, ts) = Hash(c, ts)
  BY DEF Calendar!Hash, Hash
<1>4. \A a, b : Calendar!Order(c, a, b) <=> Ranked(c.reverse, a, b)
  BY DEF Calendar!Order, Ranked, Calendar!Before, Before
<1>5. DOMAIN c.buckets = 0 .. c.nBuckets - 1 /\ c.width \in Nat \ {0}
  BY <1>2, CalendarFields DEF Pos
<1>6. ASSUME NEW b \in DOMAIN c.buckets
      PROVE  /\ \A e \in Range(c.buckets[b]) : Calendar!Hash(c, e.ts) = b
             /\ \A i, j \in DOMAIN c.buckets[b] :
                  i < j => Calendar!Order(c, c.buckets[b][i], c.buckets[b][j])
  <2>1. Bucket(c, b)
    BY <1>2, <1>5 DEF Filed
  <2> QED
    BY <1>3, <1>4, <2>1, RangeOf DEF Bucket, Sorted
<1>7. /\ c.lastBucket = Calendar!Hash(c, c.lastPrio)
      /\ \A e \in EventsOf(events) : e.ts >= c.lastPrio
  BY <1>1, <1>2, <1>3 DEF Positioned
<1>8. c.bucketTop - c.width <= c.lastPrio /\ c.lastPrio < c.bucketTop
  <2> DEFINE p == c.lastPrio
             w == c.width
             q == p \div w
  <2>1. p \in Nat /\ w \in Nat \ {0} /\ c.bucketTop = (q + 1) * w
    BY <1>2, <1>5, CalendarFields DEF Positioned
  <2> HIDE DEF p, w
  <2>2. q \in Nat /\ q * w <= p
    BY <2>1, DayOf
  <2>3. q + 1 \in Nat /\ p < (q + 1) * w
    BY <2>1, <2>2, DayOf
  <2> HIDE DEF q
  <2>4. q * w \in Nat /\ (q + 1) * w = q * w + w
    BY <2>1, <2>2, Products
  <2> QED
    BY <2>1, <2>2, <2>3, <2>4 DEF p, w
<1> QED
  BY <1>6, <1>7, <1>8 DEF CalendarInv, c

(* heap-scheduler.cc: no element is ever before its parent, so the root is *)
(* the earliest event, however Insert, RemoveNext and Remove alternate.    *)
THEOREM HeapOrderCorrect ==
  ASSUME FewHeapRemovals
  PROVE  Spec => []HeapOrder
BY SchedulerInvCorrect, HeapOrderHolds, PTL

(* calendar-scheduler.cc: every event is in its bucket, in order, and none *)
(* lies before the slice in which the search for the next one starts,      *)
(* through all insertions, removals, year scans and resizes.               *)
THEOREM CalendarInvCorrect ==
  ASSUME FewHeapRemovals
  PROVE  Spec => []CalendarInv
BY SchedulerInvCorrect, CalendarInvHolds, PTL

(* default-simulator-impl.cc: SetScheduler hands every event over to the   *)
(* new event list, none lost and none added.                               *)
THEOREM MoveKeepsEventsCorrect ==
  ASSUME FewHeapRemovals
  PROVE  Spec => MoveKeepsEvents
<1>1. SchedulerInv /\ [Next]_vars =>
        [events'.type # events.type => EventsOf(events') = EventsOf(events)]_vars
  <2> SUFFICES ASSUME SchedulerInv, [Next]_vars, events'.type # events.type
               PROVE  EventsOf(events') = EventsOf(events)
    OBVIOUS
  <2>1. ASSUME NEW ts \in out.ts .. MaxTime, Insert(ts) PROVE FALSE
    BY <2>1, InsertKeeps
  <2>2. CASE RemoveNext
    BY <2>2, RemoveNextKeeps
  <2>3. ASSUME NEW e \in EventsOf(events), RemoveEvent(e) PROVE FALSE
    BY <2>3, RemoveEventKeeps
  <2>4. ASSUME NEW new \in Created, SetScheduler(new)
        PROVE  EventsOf(events') = EventsOf(events)
    BY <2>4, SetSchedulerKeeps
  <2>5. CASE UNCHANGED vars
    BY <2>5 DEF vars
  <2> QED
    BY <2>1, <2>2, <2>3, <2>4, <2>5 DEF Next
<1> QED
  BY <1>1, SchedulerInvCorrect, PTL DEF Spec, MoveKeepsEvents

(* scheduler.h: what RemoveNext removes is the earliest event. *)
THEOREM RemovesEarliestCorrect ==
  ASSUME FewHeapRemovals
  PROVE  Spec => RemovesEarliest
<1>1. SchedulerInv /\ [Next]_vars => [out' # out => out' = Earliest(EventsOf(events))]_vars
  <2> SUFFICES ASSUME SchedulerInv, [Next]_vars, out' # out
               PROVE  out' = Earliest(EventsOf(events))
    OBVIOUS
  <2>1. CASE RemoveNext
    BY <2>1, RemoveNextKeeps
  <2>2. ~ RemoveNext => out' = out
    BY DEF Next, Insert, RemoveEvent, SetScheduler, vars
  <2> QED
    BY <2>1, <2>2
<1> QED
  BY <1>1, SchedulerInvCorrect, PTL DEF Spec, RemovesEarliest

(* Whatever the implementation and whenever it is replaced, it is the      *)
(* event list of scheduler.h: the initial states map to the initial state  *)
(* of NsAgenda and every step to a step of NsAgenda or a stutter.          *)
THEOREM AgendaCorrect ==
  ASSUME FewHeapRemovals
  PROVE  Spec => AgendaSpec
<1>1. Init => Agenda!Init
  <2> SUFFICES ASSUME Init PROVE Agenda!Init
    OBVIOUS
  <2>1. EventsOf(events) = {}
    BY GoodCreated DEF Init
  <2> QED
    BY <2>1 DEF Init, Agenda!Init, Agenda!NoEvent
<1>2. SchedulerInv /\ [Next]_vars => [Agenda!Next]_(Agenda!vars)
  <2> SUFFICES ASSUME SchedulerInv, [Next]_vars PROVE [Agenda!Next]_(Agenda!vars)
    OBVIOUS
  <2>0. \A E : Agenda!Earliest(E) = Earliest(E)
    BY DEF Agenda!Earliest, Earliest, Agenda!Before, Before
  <2>1. ASSUME NEW ts \in out.ts .. MaxTime, Insert(ts) PROVE Agenda!Next
    <3>1. EventsOf(events') = EventsOf(events) \cup {[ts |-> ts, uid |-> uid]}
      BY <2>1, InsertKeeps
    <3>2. Agenda!Insert(ts)
      BY <2>1, <3>1 DEF Insert, Agenda!Insert
    <3> QED
      BY <3>2 DEF Agenda!Next
  <2>2. CASE RemoveNext
    <3>1. EventsOf(events') = EventsOf(events) \ {out'} /\ out' = Earliest(EventsOf(events))
      BY <2>2, RemoveNextKeeps
    <3>2. Agenda!RemoveNext
      BY <2>0, <2>2, <3>1 DEF RemoveNext, Agenda!RemoveNext
    <3> QED
      BY <3>2 DEF Agenda!Next
  <2>3. ASSUME NEW e \in EventsOf(events), RemoveEvent(e) PROVE Agenda!Next
    <3>1. EventsOf(events') = EventsOf(events) \ {e}
      BY <2>3, RemoveEventKeeps
    <3>2. Agenda!RemoveEvent(e)
      BY <2>3, <3>1 DEF RemoveEvent, Agenda!RemoveEvent
    <3> QED
      BY <3>2 DEF Agenda!Next
  <2>4. ASSUME NEW new \in Created, SetScheduler(new) PROVE UNCHANGED Agenda!vars
    <3>1. EventsOf(events') = EventsOf(events)
      BY <2>4, SetSchedulerKeeps
    <3> QED
      BY <2>4, <3>1 DEF SetScheduler, Agenda!vars
  <2>5. CASE UNCHANGED vars
    BY <2>5 DEF vars, Agenda!vars
  <2> QED
    BY <2>1, <2>2, <2>3, <2>4, <2>5 DEF Next
<1> QED
  BY <1>1, <1>2, SchedulerInvCorrect, PTL DEF Spec, AgendaSpec, Agenda!Spec

=============================================================================
