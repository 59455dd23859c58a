---------------------------- MODULE NsSimulator -----------------------------
(***************************************************************************)
(* The default simulator of ns-3 (default-simulator-impl.cc): the event    *)
(* list, the handlers and the code around Run that schedule, cancel and    *)
(* remove events, the events to run at Destroy, and a second thread that   *)
(* hands events to the main thread through m_eventsWithContext.            *)
(*                                                                         *)
(* The event list is the set NsAgenda describes.  The flag                 *)
(* m_eventsWithContextEmpty is read without the lock: a stale read is the  *)
(* same as an earlier one, so interleaving the steps covers it.            *)
(*                                                                         *)
(* Bounds: MaxDelay limits the delays asked for, MaxUid the ids drawn.     *)
(***************************************************************************)
EXTENDS Integers, Sequences, FiniteSets

CONSTANTS
  MaxDelay,
  MaxUid,
  UidRange,     \* 2^32: m_uid is a uint32_t
  HandlersStop  \* Simulator::Stop is called or scheduled

ASSUME SimulatorAssumption ==
  /\ MaxDelay \in Nat /\ MaxUid \in Nat /\ UidRange \in Nat /\ UidRange > 4
  /\ HandlersStop \in BOOLEAN

Delay == 0 .. MaxDelay
DESTROY == 2
VALID == 4

VARIABLES
  events,   \* m_events
  inbox,    \* m_eventsWithContext
  empty,    \* m_eventsWithContextEmpty
  thread,   \* the other thread: "idle", or "pushed" while it holds the lock
  uid,      \* m_uid, before it is reduced to its width
  now,      \* m_currentTs
  current,  \* m_currentUid, likewise
  unscheduled, stop,  \* m_unscheduledEvents, m_stop
  cancelled,  \* the events whose m_cancel is set
  destroy,    \* m_destroyEvents
  ids,        \* the EventIds handed out
  posts,      \* the delays the other thread has asked for
  pc          \* where the main thread is

mainVars == <<uid, now, current, unscheduled, stop, cancelled, destroy, ids>>
vars == <<events, inbox, empty, thread, mainVars, posts, pc>>

(* An event: its time, its id, what its handler does, and the number of    *)
(* the post it comes from, if it does.                                     *)
Event == [ts : Nat, no : Nat, does : {"calls", "stop", "destroy"}, post : Nat]
EventOf(ts, no, does, post) == [ts |-> ts, no |-> no, does |-> does, post |-> post]

Uid(e) == IF e.does = "destroy" THEN DESTROY ELSE e.no % UidRange

(* operator< of EventKey *)
Before(e, f) == e.ts < f.ts \/ (e.ts = f.ts /\ Uid(e) < Uid(f))

InDestroy(id) == \E i \in 1 .. Len(destroy) : destroy[i] = id

(* Mutation of Passed: events of the current time count as expired. *)
PassedNow(id) == id.ts <= now

Passed(id) == id.ts < now \/ (id.ts = now /\ Uid(id) <= current % UidRange)

IsExpired(id) ==
  \/ id.no \in cancelled
  \/ IF Uid(id) = DESTROY THEN ~InDestroy(id) ELSE Passed(id)

(* Each id drawn counts against the bound, those the inbox will need too. *)
MayDraw == uid + Len(inbox) < MaxUid

Init ==
  /\ events = {} /\ inbox = <<>> /\ empty = TRUE /\ thread = "idle"
  /\ uid = VALID /\ now = 0 /\ current = 0
  /\ unscheduled = 0 /\ stop = FALSE /\ cancelled = {} /\ destroy = <<>>
  /\ ids = {} /\ posts = <<>> /\ pc = "outside"

-----------------------------------------------------------------------------
(***************************************************************************)
(* Calls made outside Run, by the handler of an event, or by a handler     *)
(* that runs at Destroy.                                                   *)
(***************************************************************************)
UserCode == pc \in {"outside", "event", "destroyEvent"}

(* Schedule returns an id, ScheduleWithContext does not. *)
Schedule(delay, does, returnsId) ==
  LET e == EventOf(now + delay, uid, does, 0) IN
  /\ UserCode /\ MayDraw
  /\ events' = events \cup {e}
  /\ ids' = IF returnsId THEN ids \cup {e} ELSE ids
  /\ uid' = uid + 1
  /\ unscheduled' = unscheduled + 1
  /\ UNCHANGED <<inbox, empty, thread, now, current, stop, cancelled, destroy, posts, pc>>

ScheduleDestroy ==
  LET e == EventOf(now, uid, "destroy", 0) IN
  /\ UserCode /\ MayDraw
  /\ destroy' = Append(destroy, e)
  /\ ids' = ids \cup {e}
  /\ uid' = uid + 1
  /\ UNCHANGED <<events, inbox, empty, thread, now, current, unscheduled, stop, cancelled, posts, pc>>

Cancel(id) ==
  /\ UserCode
  /\ ~IsExpired(id)
  /\ cancelled' = cancelled \cup {id.no}
  /\ UNCHANGED <<events, inbox, empty, thread, uid, now, current, unscheduled, stop, destroy, ids, posts, pc>>

RemoveDestroy(id) ==
  /\ UserCode
  /\ Uid(id) = DESTROY
  /\ \E i \in 1 .. Len(destroy) :
       /\ destroy[i] = id
       /\ destroy' = [k \in 1 .. Len(destroy) - 1 |-> destroy[IF k < i THEN k ELSE k + 1]]
  /\ UNCHANGED <<events, inbox, empty, thread, uid, now, current, unscheduled, stop, cancelled, ids, posts, pc>>

(* Mutation of Uncounted: a removed event stays counted. *)
StillCounted(n) == n

Uncounted(n) == n - 1

RemoveEvent(id) ==
  /\ UserCode
  /\ Uid(id) # DESTROY /\ ~IsExpired(id)
  /\ events' = events \ {id}
  /\ cancelled' = cancelled \cup {id.no}
  /\ unscheduled' = Uncounted(unscheduled)
  /\ UNCHANGED <<inbox, empty, thread, uid, now, current, stop, destroy, ids, posts, pc>>

Stop ==
  /\ HandlersStop /\ UserCode
  /\ stop' = TRUE
  /\ UNCHANGED <<events, inbox, empty, thread, uid, now, current, unscheduled, cancelled, destroy, ids, posts, pc>>

Call ==
  \/ \E delay \in Delay, returnsId \in BOOLEAN : Schedule(delay, "calls", returnsId)
  \/ HandlersStop /\ \E delay \in Delay : Schedule(delay, "stop", TRUE)
  \/ ScheduleDestroy \/ Stop
  \/ \E id \in ids : Cancel(id) \/ RemoveDestroy(id) \/ RemoveEvent(id)

-----------------------------------------------------------------------------
(***************************************************************************)
(* ScheduleWithContext on the other thread: push_back and the assignment   *)
(* of the flag, both under the lock.                                       *)
(***************************************************************************)
Push(delay) ==
  /\ thread = "idle" /\ pc # "over" /\ MayDraw
  /\ posts' = Append(posts, delay)
  /\ inbox' = Append(inbox, [delay |-> delay, post |-> Len(posts) + 1])
  /\ thread' = "pushed"
  /\ UNCHANGED <<events, empty, mainVars, pc>>

(* Mutation of FlagAfterPush: the flag is left as it is. *)
FlagKept == empty

FlagAfterPush == FALSE

Publish ==
  /\ thread = "pushed"
  /\ empty' = FlagAfterPush
  /\ thread' = "idle"
  /\ UNCHANGED <<events, inbox, mainVars, posts, pc>>

-----------------------------------------------------------------------------
(***************************************************************************)
(* The main thread: Run and ProcessOneEvent.                               *)
(***************************************************************************)
(* m_stop is not read before it is reset. *)
Run ==
  /\ pc = "outside"
  /\ stop' = FALSE
  /\ pc' = "check"
  /\ UNCHANGED <<events, inbox, empty, thread, uid, now, current, unscheduled, cancelled, destroy, ids, posts>>

(* ProcessEventsWithContext looks at the flag, then takes the lock. *)
Check ==
  /\ pc = "check"
  /\ pc' = IF empty THEN "loop" ELSE "swap"
  /\ UNCHANGED <<events, inbox, empty, thread, mainVars, posts>>

(* Mutations of Arrivals: the current time is not added; the events are    *)
(* taken from the back.                                                    *)
ArrivalsAbsolute ==
  {EventOf(inbox[i].delay, uid + i - 1, "calls", inbox[i].post) : i \in DOMAIN inbox}
ArrivalsReversed ==
  {EventOf(now + inbox[i].delay, uid + Len(inbox) - i, "calls", inbox[i].post) : i \in DOMAIN inbox}

(* The events of the inbox, with their delays counted from now. *)
Arrivals ==
  {EventOf(now + inbox[i].delay, uid + i - 1, "calls", inbox[i].post) : i \in DOMAIN inbox}

TakeInbox ==
  /\ thread = "idle"
  /\ events' = events \cup Arrivals
  /\ uid' = uid + Len(inbox)
  /\ unscheduled' = unscheduled + Len(inbox)
  /\ inbox' = <<>> /\ empty' = TRUE
  /\ UNCHANGED <<thread, now, current, stop, cancelled, destroy, ids, posts>>

Swap == pc = "swap" /\ TakeInbox /\ pc' = "loop"

(* An event that was cancelled is taken and not invoked. *)
ProcessOneEvent ==
  /\ pc = "loop" /\ ~stop
  /\ \E e \in events :
       /\ \A f \in events \ {e} : Before(e, f)
       /\ events' = events \ {e}
       /\ now' = e.ts /\ current' = e.no
       /\ stop' = (e.does = "stop" /\ e.no \notin cancelled)
       /\ pc' = IF e.does = "calls" /\ e.no \notin cancelled THEN "event" ELSE "check"
  /\ unscheduled' = unscheduled - 1
  /\ UNCHANGED <<inbox, empty, thread, uid, cancelled, destroy, ids, posts>>

HandlerReturns ==
  /\ pc = "event"
  /\ pc' = "check"
  /\ UNCHANGED <<events, inbox, empty, thread, mainVars, posts>>

RunReturns ==
  /\ pc = "loop" /\ (events = {} \/ stop)
  /\ pc' = "outside"
  /\ UNCHANGED <<events, inbox, empty, thread, mainVars, posts>>

-----------------------------------------------------------------------------
(***************************************************************************)
(* Simulator::Destroy: the destroy events, then DoDispose, by which time   *)
(* the other thread has been joined.                                       *)
(***************************************************************************)
Destroy ==
  /\ pc = "outside"
  /\ pc' = "destroy"
  /\ UNCHANGED <<events, inbox, empty, thread, mainVars, posts>>

DestroyOne ==
  /\ pc = "destroy" /\ destroy # <<>>
  /\ destroy' = Tail(destroy)
  /\ pc' = IF Head(destroy).no \in cancelled THEN "destroy" ELSE "destroyEvent"
  /\ UNCHANGED <<events, inbox, empty, thread, uid, now, current, unscheduled, stop, cancelled, ids, posts>>

DestroyReturns ==
  /\ pc = "destroyEvent"
  /\ pc' = "destroy"
  /\ UNCHANGED <<events, inbox, empty, thread, mainVars, posts>>

(* The events left are dropped. *)
DoDispose ==
  /\ pc = "destroy" /\ destroy = <<>> /\ thread = "idle"
  /\ events' = {} /\ inbox' = <<>> /\ empty' = TRUE
  /\ pc' = "over"
  /\ UNCHANGED <<thread, mainVars, posts>>

Main ==
  \/ Check \/ Swap \/ ProcessOneEvent \/ HandlerReturns \/ RunReturns
  \/ DestroyOne \/ DestroyReturns \/ DoDispose

Next == Call \/ Run \/ Destroy \/ Main \/ Publish \/ \E delay \in Delay : Push(delay)

(* Both threads run and handlers return; the calls of the program are its  *)
(* own.                                                                    *)
Spec == Init /\ [][Next]_vars /\ WF_vars(Main) /\ WF_vars(Publish)

-----------------------------------------------------------------------------
(***************************************************************************)
(* Properties.                                                             *)
(***************************************************************************)
SimTypeOK ==
  /\ events \subseteq Event /\ \A e \in events : e.does # "destroy"
  /\ inbox \in Seq([delay : Delay, post : Nat])
  /\ empty \in BOOLEAN /\ thread \in {"idle", "pushed"}
  /\ uid \in Nat /\ now \in Nat /\ current \in Nat
  /\ unscheduled \in Int /\ stop \in BOOLEAN
  /\ cancelled \subseteq Nat
  /\ destroy \in Seq(Event) /\ \A k \in 1 .. Len(destroy) : destroy[k].does = "destroy"
  /\ ids \subseteq Event
  /\ posts \in Seq(Delay)
  /\ pc \in {"outside", "check", "swap", "loop", "event", "destroy", "destroyEvent", "over"}

(* "we didn't lose any events along the way" (default-simulator-impl.cc:   *)
(* 187-189): the count agrees with the list after any mix of calls.        *)
CountsUnscheduled == pc # "over" => unscheduled = Cardinality(events)

(* An id that the program holds has expired exactly when its event is no   *)
(* longer to run, however often Run has returned and whatever was          *)
(* cancelled or removed (event-id.h:83-93).                                *)
ExpiredExact ==
  pc # "over" =>
    \A id \in ids :
      IsExpired(id) <=> id.no \in cancelled \/ (id \notin events /\ ~InDestroy(id))

(* The list never holds an event that should have run before the current   *)
(* one, so the clock never goes back (default-simulator-impl.cc:123).      *)
NothingLate ==
  \A e \in events : e.ts > now \/ (e.ts = now /\ e.no > current)

(* A post is never stranded: unless the other thread is between its two    *)
(* writes, an inbox that holds something is marked as such.                *)
FlagTellsInbox == thread = "idle" => (empty <=> inbox = <<>>)

(* Events posted by the other thread run in the order of its calls as far  *)
(* as their delays allow: none overtakes an earlier one with a delay no    *)
(* longer than its own.                                                    *)
Overtakes(e) ==
  \/ \E f \in events : f.post > 0 /\ f.post < e.post /\ posts[f.post] <= posts[e.post]
  \/ \E i \in DOMAIN inbox : inbox[i].post <= e.post
Ordered ==
  pc = "loop" /\ pc' \in {"event", "check"} =>
    \A e \in events : current' = e.no /\ e.post > 0 => ~Overtakes(e)
PostsInOrder == [][Ordered]_vars

(* What the other thread posts reaches the event list, provided the        *)
(* program is always in Run again.                                         *)
Posted(k) == \E i \in DOMAIN inbox : inbox[i].post = k
PostsArrive ==
  []<>(pc = "check") => \A k \in 1 .. MaxUid - VALID : Posted(k) ~> ~Posted(k)

=============================================================================
