----------------------------- MODULE NsCalendar -----------------------------
(***************************************************************************)
(* The calendar queue event list (calendar-scheduler.cc): buckets of width *)
(* m_width, a position (bucket, upper end of its current year slice) from  *)
(* which the search for the next event starts, and a number of buckets     *)
(* that follows the number of events.                                      *)
(***************************************************************************)
EXTENDS NsEvents, Sequences, SequencesExt, FiniteSetsExt

CONSTANT MaxBuckets   \* 32768

EventsOf(c) == UNION {Range(c.buckets[b]) : b \in DOMAIN c.buckets}

Hash(c, ts) == (ts \div c.width) % c.nBuckets

(* Init of the class: empty buckets, the position at time prio.  With the  *)
(* attribute Reverse the buckets hold the latest event first.              *)
Calendar(n, width, prio, reverse) ==
  [reverse |-> reverse, buckets |-> [b \in 0 .. n - 1 |-> <<>>],
   nBuckets |-> n, width |-> width, lastPrio |-> prio, lastBucket |-> (prio \div width) % n,
   bucketTop |-> (prio \div width + 1) * width]

QSize(c) == Cardinality(EventsOf(c))

Order(c, a, b) == IF c.reverse THEN Before(b, a) ELSE Before(a, b)

(* Before the first event that has to come after it. *)
DoInsert(c, e) ==
  LET b == Hash(c, e.ts)
      k == SelectInSeq(c.buckets[b], LAMBDA f : Order(c, e, f))
      at == IF k = 0 THEN Len(c.buckets[b]) + 1 ELSE k
  IN  [c EXCEPT !.buckets[b] = InsertAt(@, at, e)]

NextEvent(c, b) == IF c.reverse THEN Last(c.buckets[b]) ELSE Head(c.buckets[b])
Drop(c, e) ==
  [c EXCEPT !.buckets[Hash(c, e.ts)] = RemoveAt(@, SelectInSeq(@, LAMBDA f : f.uid = e.uid))]

(* The scan of one year, bucket by bucket from the position: the k-th      *)
(* bucket looked at and the end of its slice.                              *)
BucketAt(c, k) == (c.lastBucket + k) % c.nBuckets
TopAt(c, k) == c.bucketTop + k * c.width
Holding(c) == {k \in 0 .. c.nBuckets - 1 : c.buckets[BucketAt(c, k)] # <<>>}
Found(c, k) == NextEvent(c, BucketAt(c, k))
InSlice(c) == {k \in Holding(c) : Found(c, k).ts < TopAt(c, k)}

(* PeekNext: the first event in its slice, or else the earliest of all.    *)
PeekNext(c) ==
  IF InSlice(c) # {} THEN Found(c, Min(InSlice(c)))
  ELSE Earliest({Found(c, k) : k \in Holding(c)})

(* Mutation of DoRemoveNext: the direct search leaves the slice alone. *)
RemoveKeepTop(c) ==
  LET e == PeekNext(c) IN
  IF InSlice(c) # {}
  THEN [Drop(c, e) EXCEPT !.lastBucket = BucketAt(c, Min(InSlice(c))), !.lastPrio = e.ts,
                          !.bucketTop = TopAt(c, Min(InSlice(c)))]
  ELSE [Drop(c, e) EXCEPT !.lastBucket = Hash(c, e.ts), !.lastPrio = e.ts]

(* The position moves to the slice of the event that is taken. *)
DoRemoveNext(c) ==
  LET e == PeekNext(c) IN
  IF InSlice(c) # {}
  THEN [Drop(c, e) EXCEPT !.lastBucket = BucketAt(c, Min(InSlice(c))), !.lastPrio = e.ts,
                          !.bucketTop = TopAt(c, Min(InSlice(c)))]
  ELSE [Drop(c, e) EXCEPT !.lastBucket = Hash(c, e.ts), !.lastPrio = e.ts,
                          !.bucketTop = (e.ts \div c.width + 1) * c.width]

(* The first n events, taken out one after the other. *)
Samples(c, n) ==
  LET left[k \in 0 .. n] == IF k = 0 THEN c ELSE DoRemoveNext(left[k - 1])
  IN  [k \in 1 .. n |-> PeekNext(left[k - 1])]

NSamples(c) == Min({25, IF QSize(c) <= 5 THEN QSize(c) ELSE 5 + QSize(c) \div 10})

(* Three times the sum of the gaps between the samples that are no more    *)
(* than twice the average.  The samples are put back and the position is   *)
(* restored, so the queue is as before.                                    *)
CalculateNewWidth(c) ==
  IF QSize(c) < 2 THEN 1
  ELSE LET s == Samples(c, NSamples(c))
           gaps == [k \in 1 .. Len(s) - 1 |-> s[k + 1].ts - s[k].ts]
           twiceAvg == (SumFunctionOnSet(gaps, DOMAIN gaps) \div Len(gaps)) * 2
       IN  Max({1, 3 * SumFunctionOnSet(gaps, {k \in DOMAIN gaps : gaps[k] <= twiceAvg})})

(* Mutation of StartPrio: the position is not restored after sampling. *)
StartAtSample(c) ==
  IF QSize(c) < 2 THEN c.lastPrio ELSE Samples(c, NSamples(c))[NSamples(c)].ts
StartPrio(c) == c.lastPrio

Resize(c, n) ==
  FoldSet(LAMBDA e, d : DoInsert(d, e),
          Calendar(n, CalculateNewWidth(c), StartPrio(c), c.reverse), EventsOf(c))

ResizeUp(c) ==
  IF QSize(c) > c.nBuckets * 2 /\ c.nBuckets < MaxBuckets THEN Resize(c, c.nBuckets * 2) ELSE c
ResizeDown(c) == IF QSize(c) < c.nBuckets \div 2 THEN Resize(c, c.nBuckets \div 2) ELSE c

New(reverse) == Calendar(2, 1, 0, reverse)

Insert(c, e) == ResizeUp(DoInsert(c, e))
RemoveNext(c) == ResizeDown(DoRemoveNext(c))
RemoveEvent(c, e) == ResizeDown(Drop(c, e))

=============================================================================
