---------------------------- MODULE NsScheduler ----------------------------
(***************************************************************************)
(* The event list in use (default-simulator-impl.cc, simulator.cc): a      *)
(* heap, a calendar queue or a sorted list, chosen by the global value     *)
(* SchedulerType when the simulator is created and replaced by             *)
(* SetScheduler at any later time, which moves the events one by one.      *)
(*                                                                         *)
(* Bounds: MaxTime, MaxEvents and MaxBuckets; HeapRemovals is the largest  *)
(* number of events of a heap that Simulator::Remove is called on.         *)
(***************************************************************************)
EXTENDS NsEvents, Sequences, SequencesExt, FiniteSetsExt

CONSTANTS
  Types,   \* the types of scheduler used
  MaxTime, MaxEvents, MaxBuckets, HeapRemovals

ASSUME SchedulerAssumption == MaxTime \in Nat /\ HeapRemovals \in Nat

Heap == INSTANCE NsHeap
Calendar == INSTANCE NsCalendar
List == INSTANCE NsList

VARIABLES
  events,  \* m_events: the type of the object and its contents
  uid,     \* m_uid
  out      \* the event removed last

vars == <<events, uid, out>>

(* What the factory creates; the calendar has the attribute Reverse. *)
Created ==
  {s \in {[type |-> type, q |-> <<>>] : type \in {"heap", "list"}}
           \cup {[type |-> "calendar", q |-> Calendar!New(reverse)] : reverse \in BOOLEAN} :
     s.type \in Types}

EventsOf(s) == IF s.type = "calendar" THEN Calendar!EventsOf(s.q) ELSE Range(s.q)

Inserted(s, e) ==
  [s EXCEPT !.q = CASE s.type = "heap" -> Heap!Insert(@, e)
                    [] s.type = "calendar" -> Calendar!Insert(@, e)
                    [] s.type = "list" -> List!Insert(@, e)]

PeekNext(s) ==
  CASE s.type = "heap" -> Heap!PeekNext(s.q)
    [] s.type = "calendar" -> Calendar!PeekNext(s.q)
    [] s.type = "list" -> List!PeekNext(s.q)

NextRemoved(s) ==
  [s EXCEPT !.q = CASE s.type = "heap" -> Heap!RemoveNext(@)
                    [] s.type = "calendar" -> Calendar!RemoveNext(@)
                    [] s.type = "list" -> List!RemoveNext(@)]

Removed(s, e) ==
  [s EXCEPT !.q = CASE s.type = "heap" -> Heap!RemoveEvent(@, e)
                    [] s.type = "calendar" -> Calendar!RemoveEvent(@, e)
                    [] s.type = "list" -> List!RemoveEvent(@, e)]

(* The loop of SetScheduler: the events go over one by one. *)
MoveOne(s) ==
  IF EventsOf(s.old) = {} THEN s
  ELSE [old |-> NextRemoved(s.old), new |-> Inserted(s.new, PeekNext(s.old))]

MovedFirst(old, new, count) ==
  LET at[n \in 0 .. count] == IF n = 0 THEN [old |-> old, new |-> new] ELSE MoveOne(at[n - 1])
  IN  at[count].new

(* Mutation of Moved: the loop ends when one event is left. *)
MovedButOne(old, new) ==
  MovedFirst(old, new, IF EventsOf(old) = {} THEN 0 ELSE Cardinality(EventsOf(old)) - 1)

Moved(old, new) == MovedFirst(old, new, Cardinality(EventsOf(old)))

Init == events \in Created /\ uid = 0 /\ out = [ts |-> 0, uid |-> -1]

Insert(ts) ==
  /\ uid < MaxEvents
  /\ events' = Inserted(events, [ts |-> ts, uid |-> uid])
  /\ uid' = uid + 1
  /\ UNCHANGED out

RemoveNext ==
  /\ EventsOf(events) # {}
  /\ out' = PeekNext(events)
  /\ events' = NextRemoved(events)
  /\ UNCHANGED uid

RemoveEvent(e) ==
  /\ events.type = "heap" => Len(events.q) <= HeapRemovals
  /\ events' = Removed(events, e)
  /\ UNCHANGED <<uid, out>>

SetScheduler(new) ==
  /\ events' = Moved(events, new)
  /\ UNCHANGED <<uid, out>>

Next ==
  \/ \E ts \in out.ts .. MaxTime : Insert(ts)
  \/ RemoveNext
  \/ \E e \in EventsOf(events) : RemoveEvent(e)
  \/ \E new \in Created : SetScheduler(new)

Spec == Init /\ [][Next]_vars

-----------------------------------------------------------------------------
Agenda == INSTANCE NsAgenda WITH pending <- EventsOf(events)

(* Whatever the implementation and whenever it is replaced, it is the      *)
(* event list of scheduler.h: sifting, resizing, searching and moving      *)
(* never take an event before its turn and never keep one that was taken.  *)
AgendaSpec == Agenda!Spec

(* default-simulator-impl.cc: when the implementation is replaced, the new *)
(* one has exactly the events of the old.                                  *)
MoveKeepsEvents ==
  [][events'.type # events.type => EventsOf(events') = EventsOf(events)]_vars

(* heap-scheduler.cc: no element is before its parent, so every subtree    *)
(* has its earliest event at its root.                                     *)
HeapOrder ==
  events.type = "heap" =>
    \A i \in 2 .. Len(events.q) : Before(events.q[i \div 2], events.q[i])

(* calendar-scheduler.cc: every event is in the bucket of its time stamp,  *)
(* in order, and none lies before the slice in which the search starts.    *)
CalendarInv ==
  events.type = "calendar" =>
    LET c == events.q IN
    /\ \A b \in DOMAIN c.buckets :
         /\ \A e \in Range(c.buckets[b]) : Calendar!Hash(c, e.ts) = b
         /\ \A i, j \in DOMAIN c.buckets[b] :
              i < j => Calendar!Order(c, c.buckets[b][i], c.buckets[b][j])
    /\ c.lastBucket = Calendar!Hash(c, c.lastPrio)
    /\ c.bucketTop - c.width <= c.lastPrio /\ c.lastPrio < c.bucketTop
    /\ \A e \in EventsOf(events) : e.ts >= c.lastPrio

(* "Remove the earliest event from the event list." (scheduler.h:203)      *)
RemovesEarliest == [][out' # out => out' = Earliest(EventsOf(events))]_vars

=============================================================================
