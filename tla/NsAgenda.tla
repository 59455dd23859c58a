------------------------------ MODULE NsAgenda ------------------------------
(***************************************************************************)
(* The event list of the ns-3 simulator as its users see it (scheduler.h): *)
(* a set of events of which RemoveNext takes the earliest.  The simulator  *)
(* draws the ids from a counter and never inserts an event before the time *)
(* of the last one it removed.                                             *)
(*                                                                         *)
(* Bounds: MaxTime limits the time stamps, MaxEvents the insertions.       *)
(***************************************************************************)
EXTENDS NsEvents

CONSTANTS MaxTime, MaxEvents

VARIABLES
  pending,  \* the events in the list
  uid,      \* the id of the next event
  out       \* the event removed last

vars == <<pending, uid, out>>

NoEvent == [ts |-> 0, uid |-> -1]

Init == pending = {} /\ uid = 0 /\ out = NoEvent

Insert(ts) ==
  /\ uid < MaxEvents
  /\ pending' = pending \cup {[ts |-> ts, uid |-> uid]}
  /\ uid' = uid + 1
  /\ UNCHANGED out

RemoveNext ==
  /\ pending # {}
  /\ out' = Earliest(pending)
  /\ pending' = pending \ {out'}
  /\ UNCHANGED uid

RemoveEvent(e) ==
  /\ pending' = pending \ {e}
  /\ UNCHANGED <<uid, out>>

Next ==
  \/ \E ts \in out.ts .. MaxTime : Insert(ts)
  \/ RemoveNext
  \/ \E e \in pending : RemoveEvent(e)

Spec == Init /\ [][Next]_vars

=============================================================================
