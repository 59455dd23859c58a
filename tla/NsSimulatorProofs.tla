------------------------- MODULE NsSimulatorProofs --------------------------
(***************************************************************************)
(* The default simulator keeps its event list and its clock in step, for   *)
(* any number of events as long as the 32 bits of m_uid are not exhausted. *)
(***************************************************************************)
EXTENDS NsSimulator, FiniteSetTheorems, FunctionTheorems, TLAPS

(* No id is drawn twice: m_uid does not wrap. *)
NoWrap == MaxUid <= UidRange

(* What is known of ids: they are drawn once, and an EventId names the     *)
(* event it was returned for.                                              *)
IdsInv ==
  /\ VALID <= uid /\ current < uid /\ uid + Len(inbox) <= UidRange
  /\ \A e \in events : VALID <= e.no /\ e.no < uid
  /\ \A e, f \in events : e.no = f.no => e = f
  /\ \A id \in ids : VALID <= id.no /\ id.no < uid
  /\ \A id \in ids, e \in events : id.no = e.no => id = e
  /\ \A k \in 1 .. Len(destroy) : destroy[k] \in ids

(* The key of the last event that ran is at or after that of id. *)
Behind(id) == id.ts < now \/ (id.ts = now /\ id.no <= current)

(* An event whose id is held is cancelled, in the list, or past. *)
Settled ==
  pc # "over" =>
    \A id \in ids : id.does # "destroy" /\ id.no \notin cancelled => id \in events \/ Behind(id)

(* While the lock is held the inbox has the event just pushed. *)
LockInv == FlagTellsInbox /\ (thread = "pushed" => inbox # <<>>)

(* The inbox holds the last posts, in order.  A post in the event list is  *)
(* due no later than its delay from now, and after every earlier post      *)
(* whose delay was no longer.                                              *)
PostsInv ==
  /\ Len(inbox) <= Len(posts)
  /\ \A k \in 1 .. Len(inbox) :
       /\ inbox[k].post = Len(posts) - Len(inbox) + k
       /\ inbox[k].delay = posts[inbox[k].post]
  /\ \A e \in events :
       /\ e.post <= Len(posts) - Len(inbox)
       /\ e.post > 0 => e.ts <= now + posts[e.post]
  /\ \A e, f \in events :
       0 < f.post /\ f.post < e.post /\ posts[f.post] <= posts[e.post]
         => f.ts <= e.ts /\ f.no < e.no

Counted == IsFiniteSet(events) /\ CountsUnscheduled

Inv == SimTypeOK /\ IdsInv /\ NothingLate /\ Settled /\ LockInv /\ PostsInv

-----------------------------------------------------------------------------
(* Facts about sequences. *)
LEMMA SeqElement ==
  ASSUME NEW S, NEW s \in Seq(S), NEW k \in DOMAIN s
  PROVE  s[k] \in S /\ k \in Nat /\ 1 <= k /\ k <= Len(s)
OBVIOUS

(* The elements of a sequence with one more at its end. *)
LEMMA AppendFacts ==
  ASSUME NEW S, NEW s \in Seq(S), NEW e \in S
  PROVE  /\ Len(s) \in Nat /\ Len(Append(s, e)) = Len(s) + 1
         /\ \A k \in 1 .. Len(s) : Append(s, e)[k] = s[k]
         /\ Append(s, e)[Len(s) + 1] = e
         /\ Append(s, e) # <<>>
OBVIOUS

(* The fields of events. *)
LEMMA EventFields ==
  /\ \A e \in Event : e.ts \in Nat /\ e.no \in Nat /\ e.post \in Nat
  /\ \A ts, no, post \in Nat, does \in {"calls", "stop", "destroy"} :
       EventOf(ts, no, does, post) \in Event
BY DEF Event, EventOf

(* The types of the fields, in the form the steps below use. *)
LEMMA Types ==
  ASSUME SimTypeOK
  PROVE  /\ uid \in Nat /\ current \in Nat /\ now \in Nat
         /\ Len(inbox) \in Nat /\ Len(posts) \in Nat /\ Len(destroy) \in Nat
         /\ UidRange \in Nat /\ UidRange > 4
         /\ \A e \in events : e.ts \in Nat /\ e.no \in Nat /\ e.post \in Nat /\ e.does # "destroy"
         /\ \A e \in ids : e.ts \in Nat /\ e.no \in Nat /\ e.post \in Nat
         /\ \A k \in 1 .. Len(destroy) : destroy[k].does = "destroy"
<1>1. \A e \in events : e \in Event /\ e.does # "destroy"
  BY DEF SimTypeOK
<1>2. \A e \in ids : e \in Event
  BY DEF SimTypeOK
<1>3. /\ uid \in Nat /\ current \in Nat /\ now \in Nat
      /\ Len(inbox) \in Nat /\ Len(posts) \in Nat /\ Len(destroy) \in Nat
      /\ \A k \in 1 .. Len(destroy) : destroy[k].does = "destroy"
  BY DEF SimTypeOK
<1> QED
  BY <1>1, <1>2, <1>3, EventFields, SimulatorAssumption

(* The simulator starts in the invariant. *)
LEMMA InitInv == Init => Inv
<1> SUFFICES ASSUME Init PROVE Inv
  OBVIOUS
<1>1. SimTypeOK
  <2>1. <<>> \in Seq(Event) /\ <<>> \in Seq(Delay) /\ <<>> \in Seq([delay : Delay, post : Nat])
    OBVIOUS
  <2>2. Len(<<>>) = 0
    OBVIOUS
  <2>3. /\ events \subseteq Event /\ (\A e \in events : e.does # "destroy")
        /\ ids \subseteq Event /\ cancelled \subseteq Nat
    BY DEF Init
  <2>4. /\ inbox \in Seq([delay : Delay, post : Nat]) /\ posts \in Seq(Delay)
        /\ destroy \in Seq(Event) /\ \A k \in 1 .. Len(destroy) : destroy[k].does = "destroy"
    BY <2>1, <2>2 DEF Init
  <2>5. /\ thread \in {"idle", "pushed"}
        /\ uid \in Nat /\ now \in Nat /\ current \in Nat /\ unscheduled \in Int
        /\ pc \in {"outside", "check", "swap", "loop", "event", "destroy", "destroyEvent", "over"}
    BY DEF Init, VALID
  <2>6. empty \in BOOLEAN /\ stop \in BOOLEAN
    BY Zenon DEF Init
  <2> QED
    BY <2>3, <2>4, <2>5, <2>6 DEF SimTypeOK
<1>2. IdsInv
  BY SimulatorAssumption DEF Init, IdsInv, VALID
<1>3. NothingLate /\ Settled
  BY DEF Init, NothingLate, Settled
<1>4. LockInv /\ PostsInv
  BY DEF Init, LockInv, FlagTellsInbox, PostsInv
<1> QED
  BY <1>1, <1>2, <1>3, <1>4 DEF Inv

(* As m_uid does not wrap, uids compare like the numbers drawn. *)
LEMMA UidFacts ==
  ASSUME Inv
  PROVE  /\ \A e \in events : Uid(e) = e.no /\ e.does # "destroy"
         /\ \A id \in ids : /\ id.does # "destroy" => Uid(id) = id.no
                            /\ Uid(id) = DESTROY <=> id.does = "destroy"
         /\ current % UidRange = current
<1> USE DEF VALID
<1>0. SimTypeOK /\ IdsInv
  BY DEF Inv
<1>1. uid <= UidRange /\ current < UidRange
  BY <1>0, Types DEF IdsInv
<1>2. \A n \in Nat : n < UidRange => n % UidRange = n
  BY SimulatorAssumption
<1>3. ASSUME NEW e \in events
      PROVE  Uid(e) = e.no /\ e.does # "destroy"
  <2>1. e.no \in Nat /\ e.no < UidRange
    BY <1>0, <1>1, Types DEF IdsInv
  <2> QED
    BY <1>0, <1>2, <2>1, Types DEF Uid
<1>4. ASSUME NEW id \in ids
      PROVE  /\ id.does # "destroy" => Uid(id) = id.no
             /\ Uid(id) = DESTROY <=> id.does = "destroy"
  <2>1. id.no \in Nat /\ id.no < UidRange /\ id.no >= 4
    BY <1>0, <1>1, Types DEF IdsInv
  <2> QED
    BY <1>2, <2>1 DEF Uid, DESTROY
<1> QED
  BY <1>0, <1>1, <1>2, <1>3, <1>4, Types

(* The test of IsExpired, without wrap. *)
LEMMA PassedFacts ==
  ASSUME Inv, NEW id \in ids
  PROVE  IsExpired(id) <=>
           id.no \in cancelled \/ (IF id.does = "destroy" THEN ~InDestroy(id) ELSE Behind(id))
BY UidFacts DEF IsExpired, Passed, Behind

(* The invariant says of an id what ExpiredExact does. *)
LEMMA ExactFromInv == Inv => ExpiredExact
<1> SUFFICES ASSUME Inv, pc # "over", NEW id \in ids
             PROVE  IsExpired(id) <=> id.no \in cancelled \/ (id \notin events /\ ~InDestroy(id))
  BY DEF ExpiredExact
<1>0. /\ IsExpired(id) <=>
           id.no \in cancelled \/ (IF id.does = "destroy" THEN ~InDestroy(id) ELSE Behind(id))
      /\ id \in events => id.does # "destroy"
  BY PassedFacts, UidFacts
<1>1. CASE id.does = "destroy"
  BY <1>0, <1>1
<1>2. CASE id.does # "destroy"
  <2>1. ~InDestroy(id)
    BY <1>2, Types DEF InDestroy, Inv
  <2>2. id.no \notin cancelled => id \in events \/ Behind(id)
    BY <1>2 DEF Inv, Settled
  <2>3. id \in events => ~Behind(id)
    BY Types DEF Inv, NothingLate, Behind
  <2> QED
    BY <1>0, <1>2, <2>1, <2>2, <2>3
<1> QED
  BY <1>1, <1>2

-----------------------------------------------------------------------------
(* What is left of the destroy events was there before. *)
LEMMA RemoveDestroyFacts ==
  ASSUME SimTypeOK, NEW id \in ids, RemoveDestroy(id)
  PROVE  /\ destroy' \in Seq(Event) /\ Len(destroy') = Len(destroy) - 1
         /\ \A k \in 1 .. Len(destroy') : \E j \in 1 .. Len(destroy) : destroy'[k] = destroy[j]
<1>1. PICK n \in 1 .. Len(destroy) :
        destroy' = [k \in 1 .. Len(destroy) - 1 |-> destroy[IF k < n THEN k ELSE k + 1]]
  BY DEF RemoveDestroy
<1>2. destroy \in Seq(Event)
  BY DEF SimTypeOK
<1>3. \A k \in 1 .. Len(destroy) - 1 : (IF k < n THEN k ELSE k + 1) \in 1 .. Len(destroy)
  BY <1>2
<1>4. destroy' \in Seq(Event) /\ Len(destroy') = Len(destroy) - 1
  BY <1>1, <1>2, <1>3
<1>5. \A k \in 1 .. Len(destroy') : destroy'[k] = destroy[IF k < n THEN k ELSE k + 1]
  BY <1>1, <1>4
<1> QED
  BY <1>3, <1>4, <1>5

(* Types are preserved. *)
LEMMA TypeStep ==
  ASSUME SimTypeOK, [Next]_vars
  PROVE  SimTypeOK'
<1> USE SimulatorAssumption
<1>0. SUFFICES ASSUME Next PROVE SimTypeOK'
  BY DEF vars, mainVars, SimTypeOK
<1>1. ASSUME NEW delay \in Delay, NEW does \in {"calls", "stop"}, NEW b \in BOOLEAN,
             Schedule(delay, does, b)
      PROVE  SimTypeOK'
  <2>0. now + delay \in Nat /\ uid \in Nat
    BY DEF SimTypeOK, Delay
  <2>1. EventOf(now + delay, uid, does, 0) \in Event /\ EventOf(now + delay, uid, does, 0).does = does
    BY <2>0, EventFields DEF EventOf
  <2> QED
    BY <1>1, <2>1 DEF Schedule, SimTypeOK
<1>2. CASE ScheduleDestroy
  <2>1. EventOf(now, uid, "destroy", 0) \in Event /\ EventOf(now, uid, "destroy", 0).does = "destroy"
    BY EventFields DEF EventOf, SimTypeOK
  <2> QED
    BY <1>2, <2>1 DEF ScheduleDestroy, SimTypeOK
<1>3. ASSUME NEW id \in ids, Cancel(id) PROVE SimTypeOK'
  BY <1>3, Types DEF Cancel, SimTypeOK
<1>4. ASSUME NEW id \in ids, RemoveDestroy(id) PROVE SimTypeOK'
  <2>1. destroy \in Seq(Event) /\ \A k \in 1 .. Len(destroy) : destroy[k].does = "destroy"
    BY DEF SimTypeOK
  <2>2. /\ destroy' \in Seq(Event)
        /\ \A k \in 1 .. Len(destroy') : \E j \in 1 .. Len(destroy) : destroy'[k] = destroy[j]
    BY <1>4, RemoveDestroyFacts
  <2> QED
    BY <1>4, <2>1, <2>2 DEF RemoveDestroy, SimTypeOK
<1>5. ASSUME NEW id \in ids, RemoveEvent(id) PROVE SimTypeOK'
  <2>1. id.no \in Nat /\ unscheduled - 1 \in Int /\ events \ {id} \subseteq events
    BY Types DEF SimTypeOK
  <2> QED
    BY <1>5, <2>1 DEF RemoveEvent, SimTypeOK, Uncounted
<1>6. CASE Stop \/ Run \/ Destroy
  BY <1>6 DEF Stop, Run, Destroy, SimTypeOK, mainVars
<1>7. ASSUME NEW delay \in Delay, Push(delay) PROVE SimTypeOK'
  BY <1>7 DEF Push, SimTypeOK, mainVars
<1>8. CASE Publish
  BY <1>8 DEF Publish, SimTypeOK, mainVars, FlagAfterPush
<1>9. CASE Swap
  <2>1. ASSUME NEW k \in DOMAIN inbox
        PROVE  LET e == EventOf(now + inbox[k].delay, uid + k - 1, "calls", inbox[k].post)
               IN  e \in Event /\ e.does # "destroy"
    <3>0. inbox \in Seq([delay : Delay, post : Nat]) /\ uid \in Nat /\ now \in Nat
      BY DEF SimTypeOK
    <3>1. inbox[k] \in [delay : Delay, post : Nat]
      BY <3>0, SeqElement
    <3>3. k \in Nat /\ k > 0
      BY <3>0
    <3>2. now + inbox[k].delay \in Nat /\ uid + k - 1 \in Nat /\ inbox[k].post \in Nat
      BY <3>0, <3>1, <3>3 DEF Delay
    <3> QED
      BY <3>2, EventFields DEF EventOf
  <2>2. Arrivals \subseteq Event /\ \A e \in Arrivals : e.does # "destroy"
    BY <2>1 DEF Arrivals
  <2>3. Len(inbox) \in Nat /\ <<>> \in Seq([delay : Delay, post : Nat])
    BY DEF SimTypeOK
  <2> QED
    BY <1>9, <2>2, <2>3 DEF Swap, TakeInbox, SimTypeOK
<1>10. CASE ProcessOneEvent
  <2>1. PICK e \in events : /\ events' = events \ {e} /\ now' = e.ts /\ current' = e.no
                            /\ stop' = (e.does = "stop" /\ e.no \notin cancelled)
                            /\ pc' \in {"event", "check"}
    BY <1>10 DEF ProcessOneEvent
  <2>2. e.ts \in Nat /\ e.no \in Nat /\ stop' \in BOOLEAN
    BY <2>1, Types
  <2> QED
    BY <1>10, <2>1, <2>2 DEF ProcessOneEvent, SimTypeOK
<1>11. CASE Check \/ HandlerReturns \/ RunReturns
  BY <1>11 DEF Check, HandlerReturns, RunReturns, SimTypeOK, mainVars
<1>12. CASE DestroyOne
  <2>1. destroy # <<>> /\ destroy' = Tail(destroy) /\ destroy \in Seq(Event)
        /\ \A k \in 1 .. Len(destroy) : destroy[k].does = "destroy"
    BY <1>12 DEF DestroyOne, SimTypeOK
  <2>2. /\ destroy' \in Seq(Event) /\ Len(destroy') = Len(destroy) - 1
        /\ \A k \in 1 .. Len(destroy') : destroy'[k] = destroy[k + 1]
    BY <2>1
  <2> QED
    BY <1>12, <2>1, <2>2 DEF DestroyOne, SimTypeOK
<1>13. CASE DestroyReturns \/ DoDispose
  <2>1. <<>> \in Seq([delay : Delay, post : Nat])
    OBVIOUS
  <2> QED
    BY <1>13, <2>1 DEF DestroyReturns, DoDispose, SimTypeOK, mainVars
<1> QED
  BY <1>0, <1>1, <1>2, <1>3, <1>4, <1>5, <1>6, <1>7, <1>8, <1>9, <1>10, <1>11, <1>12, <1>13
  DEF Next, Call, Main

(* The steps that leave the events, the ids and the clock alone. *)
LEMMA FrameStep ==
  ASSUME Inv, Stop \/ Run \/ Destroy \/ Check \/ HandlerReturns \/ RunReturns \/ DestroyReturns
  PROVE  IdsInv' /\ NothingLate' /\ Settled' /\ LockInv' /\ PostsInv'
<1>1. /\ UNCHANGED <<events, inbox, empty, thread, uid, now, current, cancelled, destroy, ids, posts>>
      /\ pc # "over"
  BY DEF Stop, Run, Destroy, Check, HandlerReturns, RunReturns, DestroyReturns, UserCode, mainVars
<1>2. IdsInv' /\ NothingLate'
  BY <1>1 DEF Inv, IdsInv, NothingLate
<1>3. Settled'
  BY <1>1 DEF Inv, Settled, Behind
<1>4. LockInv' /\ PostsInv'
  BY <1>1 DEF Inv, LockInv, FlagTellsInbox, PostsInv
<1> QED
  BY <1>2, <1>3, <1>4

(* Scheduling draws a fresh id for an event that is not yet due. *)
LEMMA ScheduleStep ==
  ASSUME Inv, NoWrap, NEW delay \in Delay, NEW does \in {"calls", "stop"}, NEW b \in BOOLEAN,
         Schedule(delay, does, b)
  PROVE  IdsInv' /\ NothingLate' /\ Settled' /\ LockInv' /\ PostsInv'
<1> DEFINE e == EventOf(now + delay, uid, does, 0)
<1>0. /\ SimTypeOK /\ IdsInv /\ NothingLate /\ Settled /\ LockInv /\ PostsInv
      /\ delay \in Nat /\ MaxUid \in Nat /\ UidRange \in Nat /\ MaxUid <= UidRange
  BY SimulatorAssumption DEF Inv, Delay, NoWrap
<1>1. /\ e.ts = now + delay /\ e.no = uid /\ e.post = 0 /\ e.does = does
      /\ uid \in Nat /\ now \in Nat /\ current \in Nat /\ Len(inbox) \in Nat
      /\ uid + Len(inbox) < MaxUid
      /\ current < uid /\ uid >= VALID
  BY <1>0, Types DEF EventOf, Schedule, MayDraw, IdsInv
<1>2. /\ events' = events \cup {e} /\ uid' = uid + 1 /\ ids' \subseteq ids \cup {e} /\ ids \subseteq ids'
      /\ UNCHANGED <<inbox, empty, thread, now, current, cancelled, destroy, posts, pc>>
  BY DEF Schedule
<1> HIDE DEF e
<1>3. IdsInv'
  <2>1. VALID <= uid' /\ current' < uid' /\ uid' + Len(inbox') <= UidRange
    BY <1>0, <1>1, <1>2, Types DEF VALID
  <2>2. \A f \in events \cup ids : f.no \in Nat /\ VALID <= f.no /\ f.no < uid
    BY <1>0, Types DEF IdsInv
  <2>3. \A f \in events' \cup ids' : VALID <= f.no /\ f.no < uid'
    BY <1>1, <1>2, <2>2 DEF VALID
  <2>4. \A f \in events \cup ids : f.no # e.no
    BY <1>1, <2>2
  <2>5. /\ \A f, g \in events' : f.no = g.no => f = g
        /\ \A id \in ids', f \in events' : id.no = f.no => id = f
    BY <1>0, <1>2, <2>4 DEF IdsInv
  <2>6. \A k \in 1 .. Len(destroy') : destroy'[k] \in ids'
    BY <1>0, <1>2 DEF IdsInv
  <2> QED
    BY <2>1, <2>3, <2>5, <2>6 DEF IdsInv
<1>4. NothingLate'
  BY <1>0, <1>1, <1>2 DEF NothingLate
<1>5. Settled'
  BY <1>0, <1>2 DEF Settled, Behind
<1>6. LockInv'
  BY <1>0, <1>2 DEF LockInv, FlagTellsInbox
<1>7. PostsInv'
  BY <1>0, <1>1, <1>2, Types DEF PostsInv
<1> QED
  BY <1>3, <1>4, <1>5, <1>6, <1>7

(* An event for Destroy takes an id as well. *)
LEMMA ScheduleDestroyStep ==
  ASSUME Inv, NoWrap, ScheduleDestroy
  PROVE  IdsInv' /\ NothingLate' /\ Settled' /\ LockInv' /\ PostsInv'
<1> DEFINE e == EventOf(now, uid, "destroy", 0)
<1>0. /\ SimTypeOK /\ IdsInv /\ NothingLate /\ Settled /\ LockInv /\ PostsInv
      /\ MaxUid \in Nat /\ UidRange \in Nat /\ MaxUid <= UidRange
  BY SimulatorAssumption DEF Inv, NoWrap
<1>1. /\ e.no = uid /\ e.does = "destroy"
      /\ uid \in Nat /\ current \in Nat /\ Len(inbox) \in Nat
      /\ uid + Len(inbox) < MaxUid
      /\ current < uid /\ uid >= VALID
  BY <1>0, Types DEF EventOf, ScheduleDestroy, MayDraw, IdsInv
<1>2. /\ destroy' = Append(destroy, e) /\ uid' = uid + 1 /\ ids' = ids \cup {e}
      /\ UNCHANGED <<events, inbox, empty, thread, now, current, cancelled, posts, pc>>
  BY DEF ScheduleDestroy
<1> HIDE DEF e
<1>3. /\ Len(destroy') = Len(destroy) + 1 /\ Len(destroy) \in Nat
      /\ \A k \in 1 .. Len(destroy') : destroy'[k] = IF k = Len(destroy) + 1 THEN e ELSE destroy[k]
  BY <1>0, <1>2 DEF SimTypeOK
<1>4. IdsInv'
  <2>1. VALID <= uid' /\ current' < uid' /\ uid' + Len(inbox') <= UidRange
    BY <1>0, <1>1, <1>2, Types DEF VALID
  <2>2. \A f \in events \cup ids : f.no \in Nat /\ VALID <= f.no /\ f.no < uid
    BY <1>0, Types DEF IdsInv
  <2>3. \A f \in events' \cup ids' : VALID <= f.no /\ f.no < uid'
    BY <1>1, <1>2, <2>2 DEF VALID
  <2>4. \A f \in events : f.no # e.no
    BY <1>1, <2>2
  <2>5. /\ \A f, g \in events' : f.no = g.no => f = g
        /\ \A id \in ids', f \in events' : id.no = f.no => id = f
    BY <1>0, <1>2, <2>4 DEF IdsInv
  <2>6. \A k \in 1 .. Len(destroy') : destroy'[k] \in ids'
    BY <1>0, <1>2, <1>3 DEF IdsInv
  <2> QED
    BY <2>1, <2>3, <2>5, <2>6 DEF IdsInv
<1>5. NothingLate' /\ Settled'
  BY <1>0, <1>1, <1>2 DEF NothingLate, Settled, Behind
<1>6. LockInv' /\ PostsInv'
  BY <1>0, <1>2 DEF LockInv, FlagTellsInbox, PostsInv
<1> QED
  BY <1>4, <1>5, <1>6

(* Cancelling marks an event; removing takes it away and marks it. *)
LEMMA CancelStep ==
  ASSUME Inv, NEW id \in ids, Cancel(id) \/ RemoveEvent(id) \/ RemoveDestroy(id)
  PROVE  IdsInv' /\ NothingLate' /\ Settled' /\ LockInv' /\ PostsInv'
<1>0. SimTypeOK /\ IdsInv /\ NothingLate /\ Settled /\ LockInv /\ PostsInv
  BY DEF Inv
<1>1. /\ events' \subseteq events /\ (\A f \in events : f \in events' \/ f.no \in cancelled')
      /\ cancelled \subseteq cancelled'
      /\ UNCHANGED <<inbox, empty, thread, uid, now, current, ids, posts, pc>>
  BY DEF Cancel, RemoveEvent, RemoveDestroy
<1>2. /\ Len(destroy') \in Nat
      /\ \A k \in 1 .. Len(destroy') : \E j \in 1 .. Len(destroy) : destroy'[k] = destroy[j]
  <2>1. CASE UNCHANGED destroy
    BY <2>1, <1>0, Types
  <2>2. CASE RemoveDestroy(id)
    <3>1. /\ destroy' \in Seq(Event)
          /\ \A k \in 1 .. Len(destroy') : \E m \in 1 .. Len(destroy) : destroy'[k] = destroy[m]
      BY <1>0, <2>2, RemoveDestroyFacts
    <3> QED
      BY <3>1
  <2> QED
    BY <2>1, <2>2 DEF Cancel, RemoveEvent
<1>3. IdsInv'
  BY <1>0, <1>1, <1>2 DEF IdsInv
<1>4. NothingLate'
  BY <1>0, <1>1 DEF NothingLate
<1>5. Settled'
  BY <1>0, <1>1 DEF Settled, Behind
<1>6. LockInv' /\ PostsInv'
  BY <1>0, <1>1 DEF LockInv, FlagTellsInbox, PostsInv
<1> QED
  BY <1>3, <1>4, <1>5, <1>6

(* The other thread's two writes. *)
LEMMA ThreadStep ==
  ASSUME Inv, NoWrap, Publish \/ \E delay \in Delay : Push(delay)
  PROVE  IdsInv' /\ NothingLate' /\ Settled' /\ LockInv' /\ PostsInv'
<1>0. SimTypeOK /\ IdsInv /\ NothingLate /\ Settled /\ LockInv /\ PostsInv
  BY DEF Inv
<1>1. UNCHANGED <<events, uid, now, current, cancelled, destroy, ids, pc>>
  BY DEF Publish, Push, mainVars
<1>2. NothingLate' /\ Settled'
  BY <1>0, <1>1 DEF NothingLate, Settled, Behind
<1>3. CASE Publish
  <2>1. UNCHANGED <<inbox, posts>> /\ thread' = "idle" /\ empty' = FALSE /\ inbox # <<>>
    BY <1>0, <1>3 DEF Publish, FlagAfterPush, LockInv
  <2>2. LockInv'
    BY <2>1 DEF LockInv, FlagTellsInbox
  <2>3. IdsInv' /\ PostsInv'
    BY <1>0, <1>1, <2>1 DEF IdsInv, PostsInv
  <2> QED
    BY <1>2, <2>2, <2>3
<1>4. ASSUME NEW delay \in Delay, Push(delay)
      PROVE  IdsInv' /\ LockInv' /\ PostsInv'
  <2>0. /\ uid + Len(inbox) < MaxUid /\ thread' = "pushed"
        /\ MaxUid \in Nat /\ UidRange \in Nat /\ MaxUid <= UidRange
        /\ inbox \in Seq([delay : Delay, post : Nat]) /\ posts \in Seq(Delay) /\ delay \in Nat
        /\ posts' = Append(posts, delay)
        /\ inbox' = Append(inbox, [delay |-> delay, post |-> Len(posts) + 1])
        /\ [delay |-> delay, post |-> Len(posts) + 1] \in [delay : Delay, post : Nat]
    BY <1>0, <1>4, SimulatorAssumption DEF Push, MayDraw, NoWrap, SimTypeOK, Delay
  <2>1. /\ Len(inbox) \in Nat /\ Len(inbox') = Len(inbox) + 1
        /\ \A k \in 1 .. Len(inbox) : inbox'[k] = inbox[k]
        /\ inbox'[Len(inbox) + 1] = [delay |-> delay, post |-> Len(posts) + 1]
        /\ inbox' # <<>>
    BY <2>0, AppendFacts
  <2>2. /\ Len(posts) \in Nat /\ Len(posts') = Len(posts) + 1
        /\ \A k \in 1 .. Len(posts) : posts'[k] = posts[k]
        /\ posts'[Len(posts) + 1] = delay
    BY <2>0, AppendFacts
  <2>3. IdsInv'
    BY <1>0, <1>1, <2>0, <2>1, Types DEF IdsInv
  <2>4. LockInv'
    BY <2>0, <2>1 DEF LockInv, FlagTellsInbox
  <2>5. PostsInv'
    <3>1. Len(inbox') <= Len(posts')
      BY <1>0, <2>1, <2>2 DEF PostsInv
    <3>2. ASSUME NEW k \in 1 .. Len(inbox')
          PROVE  /\ inbox'[k].post = Len(posts') - Len(inbox') + k
                 /\ inbox'[k].delay = posts'[inbox'[k].post]
      <4>0. Len(inbox) <= Len(posts) /\ k \in Nat /\ 1 <= k /\ k <= Len(inbox) + 1
        BY <1>0, <2>1 DEF PostsInv
      <4>1. CASE k = Len(inbox) + 1
        BY <4>1, <2>1, <2>2
      <4>2. CASE k \in 1 .. Len(inbox)
        <5>1. /\ inbox'[k] = inbox[k]
              /\ inbox[k].post = Len(posts) - Len(inbox) + k
              /\ inbox[k].delay = posts[inbox[k].post]
          BY <1>0, <4>2, <2>1 DEF PostsInv
        <5>2. inbox[k].post \in 1 .. Len(posts)
          BY <5>1, <4>0, <4>2, <2>1, <2>2
        <5> QED
          BY <5>1, <5>2, <2>1, <2>2
      <4> QED
        BY <4>0, <4>1, <4>2, <2>1
    <3>3. ASSUME NEW e \in events
          PROVE  /\ e.post \in Nat /\ e.post <= Len(posts') - Len(inbox')
                 /\ e.post > 0 => posts'[e.post] = posts[e.post]
      <4>1. e.post \in Nat /\ e.post <= Len(posts) - Len(inbox)
        BY <1>0, Types DEF PostsInv
      <4>2. e.post > 0 => e.post \in 1 .. Len(posts)
        BY <4>1, <2>1, <2>2
      <4> QED
        BY <4>1, <4>2, <2>1, <2>2
    <3>4. \A e \in events' : /\ e.post <= Len(posts') - Len(inbox')
                             /\ e.post > 0 => e.ts <= now' + posts'[e.post]
      BY <1>0, <1>1, <3>3 DEF PostsInv
    <3>5. ASSUME NEW e \in events', NEW f \in events', 0 < f.post, f.post < e.post,
                 posts'[f.post] <= posts'[e.post]
          PROVE  f.ts <= e.ts /\ f.no < e.no
      <4>1. e.post > 0
        BY <1>1, <3>3, <3>5
      <4>2. posts'[f.post] = posts[f.post] /\ posts'[e.post] = posts[e.post]
        BY <1>1, <3>3, <3>5, <4>1
      <4> QED
        BY <1>0, <1>1, <3>5, <4>2 DEF PostsInv
    <3> QED
      BY <3>1, <3>2, <3>4, <3>5 DEF PostsInv
  <2> QED
    BY <2>3, <2>4, <2>5
<1> QED
  BY <1>2, <1>3, <1>4

(* The inbox becomes events of the list: after those already there in id,  *)
(* and after those of earlier posts in time as well unless their delay was *)
(* longer.                                                                 *)
LEMMA SwapStep ==
  ASSUME Inv, Swap
  PROVE  IdsInv' /\ NothingLate' /\ Settled' /\ LockInv' /\ PostsInv'
<1> DEFINE At(k) == EventOf(now + inbox[k].delay, uid + k - 1, "calls", inbox[k].post)
<1>0. SimTypeOK /\ IdsInv /\ NothingLate /\ Settled /\ LockInv /\ PostsInv
  BY DEF Inv
<1>1. /\ events' = events \cup Arrivals /\ uid' = uid + Len(inbox) /\ inbox' = <<>>
      /\ empty' = TRUE /\ pc # "over"
      /\ UNCHANGED <<now, current, cancelled, destroy, ids, posts>>
  BY DEF Swap, TakeInbox
<1>2. /\ Len(inbox') = 0 /\ Len(inbox) \in Nat /\ Len(posts) \in Nat
      /\ DOMAIN inbox = 1 .. Len(inbox)
      /\ uid \in Nat /\ now \in Nat /\ current \in Nat /\ VALID <= uid /\ current < uid
      /\ inbox \in Seq([delay : Delay, post : Nat])
  BY <1>0, <1>1, Types DEF SimTypeOK, IdsInv
<1>3. ASSUME NEW k \in DOMAIN inbox
      PROVE  /\ k \in Nat /\ 1 <= k /\ k <= Len(inbox)
             /\ At(k).no = uid + k - 1 /\ At(k).ts = now + inbox[k].delay
             /\ At(k).post = Len(posts) - Len(inbox) + k
             /\ inbox[k].delay = posts[At(k).post] /\ inbox[k].delay \in Nat
  <2>1. inbox[k] \in [delay : Delay, post : Nat] /\ k \in Nat /\ 1 <= k /\ k <= Len(inbox)
    BY <1>2, SeqElement
  <2>2. inbox[k].post = Len(posts) - Len(inbox) + k /\ inbox[k].delay = posts[inbox[k].post]
    BY <1>0, <1>2, <2>1 DEF PostsInv
  <2>3. inbox[k].delay \in Nat
    BY <2>1 DEF Delay
  <2> QED
    BY <2>1, <2>2, <2>3 DEF EventOf
<1>4. \A e \in Arrivals : \E k \in DOMAIN inbox : e = At(k)
  BY DEF Arrivals
<1> HIDE DEF At
<1>n. Len(inbox) \in Nat /\ Len(posts) \in Nat /\ uid \in Nat /\ now \in Nat /\ current \in Nat
  BY <1>2
<1>p. ASSUME NEW k \in 1 .. Len(posts) PROVE posts[k] \in Nat
  <2>1. posts \in Seq(Delay) /\ k \in DOMAIN posts
    BY <1>0 DEF SimTypeOK
  <2>2. posts[k] \in Delay
    BY <2>1, SeqElement
  <2> QED
    BY <2>2, SimulatorAssumption DEF Delay
<1>a. ASSUME NEW e \in Arrivals
      PROVE  /\ e.no \in Nat /\ e.no >= uid /\ e.no < uid + Len(inbox) /\ e.ts >= now
             /\ e.ts \in Nat /\ posts[e.post] \in Nat /\ e.post \in 1 .. Len(posts) /\ e.post > Len(posts) - Len(inbox)
             /\ e.ts = now + posts[e.post]
             /\ e.no = uid + e.post - 1 - (Len(posts) - Len(inbox))
  <2>0. Len(inbox) <= Len(posts)
    BY <1>0 DEF PostsInv
  <2>1. PICK k \in DOMAIN inbox : e = At(k)
    BY <1>4
  <2>2. /\ k \in Nat /\ 1 <= k /\ k <= Len(inbox)
        /\ e.no = uid + k - 1 /\ e.ts = now + posts[e.post]
        /\ e.post = Len(posts) - Len(inbox) + k
    BY <1>3, <2>1
  <2>3. e.post \in 1 .. Len(posts)
    BY <1>2, <2>0, <2>2
  <2>4. posts[e.post] \in Nat
    BY <2>3, <1>p
  <2>5. e.no \in Nat /\ e.no >= uid /\ e.no < uid + Len(inbox)
    <3>1. k \in Nat /\ 1 <= k /\ k <= Len(inbox) /\ e.no = uid + k - 1
      BY <2>2
    <3> QED
      BY <1>n, <3>1
  <2>7. e.ts >= now /\ e.ts \in Nat
    <3>1. e.ts = now + posts[e.post]
      BY <2>2
    <3> QED
      BY <1>n, <2>4, <3>1
  <2>6. e.post > Len(posts) - Len(inbox) /\ e.no = uid + e.post - 1 - (Len(posts) - Len(inbox))
    BY <1>2, <2>2
  <2> QED
    BY <2>2, <2>3, <2>4, <2>5, <2>6, <2>7
<1>5. \A e \in Arrivals : e.no >= uid /\ e.no < uid + Len(inbox) /\ e.no \in Nat /\ e.ts >= now
  BY <1>a
<1>6. \A e \in events : /\ e.no < uid /\ VALID <= e.no
                        /\ e.no \in Nat /\ e.ts \in Nat /\ e.post \in Nat
  BY <1>0, Types DEF IdsInv
<1>7. IdsInv'
  <2>1. VALID <= uid' /\ current' < uid' /\ uid' + Len(inbox') <= UidRange
    BY <1>0, <1>1, <1>2, Types DEF IdsInv, VALID
  <2>2. \A e \in events' : VALID <= e.no /\ e.no < uid'
    BY <1>1, <1>2, <1>5, <1>6 DEF VALID
  <2>3. \A id \in ids : id.no \in Nat /\ VALID <= id.no /\ id.no < uid
    BY <1>0, Types DEF IdsInv
  <2>4. \A e, f \in Arrivals : e.no = f.no => e = f
    BY <1>2, <1>3, <1>4
  <2>5. \A e, f \in events' : e.no = f.no => e = f
    <3>1. \A e \in Arrivals, f \in events : e.no # f.no
      BY <1>2, <1>5, <1>6
    <3> QED
      BY <1>0, <1>1, <2>4, <3>1 DEF IdsInv
  <2>6. \A id \in ids, e \in events' : id.no = e.no => id = e
    BY <1>0, <1>1, <1>2, <1>5, <2>3 DEF IdsInv
  <2>7. \A id \in ids' : VALID <= id.no /\ id.no < uid'
    BY <1>1, <1>2, <2>3 DEF VALID
  <2> QED
    BY <1>0, <1>1, <2>1, <2>2, <2>5, <2>6, <2>7 DEF IdsInv
<1>8. NothingLate'
  <2>1. \A e \in Arrivals : e.ts > now \/ (e.ts = now /\ e.no > current)
    <3>1. \A e \in Arrivals : e.no > current /\ e.ts \in Nat
      BY <1>2, <1>a
    <3> QED
      BY <1>2, <1>5, <3>1
  <2> QED
    BY <1>0, <1>1, <2>1 DEF NothingLate
<1>9. Settled'
  BY <1>0, <1>1 DEF Settled, Behind
<1>10. LockInv'
  BY <1>1 DEF LockInv, FlagTellsInbox, Swap, TakeInbox
<1>11. PostsInv'
  <2>1. Len(inbox') <= Len(posts') /\ Len(inbox) <= Len(posts)
    BY <1>0, <1>1, <1>2 DEF PostsInv
  <2>2. \A e \in events : /\ e.post <= Len(posts) - Len(inbox)
                          /\ e.post > 0 => e.ts <= now + posts[e.post]
    BY <1>0 DEF PostsInv
  <2>3. \A e \in Arrivals : /\ e.post \in Nat /\ e.post > Len(posts) - Len(inbox) /\ e.post <= Len(posts)
                            /\ e.ts = now + posts[e.post] /\ posts[e.post] \in Nat
                            /\ e.no = uid + e.post - 1 - (Len(posts) - Len(inbox))
    BY <1>2, <1>a
  <2>4. \A e \in events' : /\ e.post <= Len(posts') - Len(inbox')
                           /\ e.post > 0 => e.ts <= now' + posts'[e.post]
    BY <1>1, <1>2, <1>6, <2>1, <2>2, <2>3
  <2>5. ASSUME NEW e \in events', NEW f \in events', 0 < f.post, f.post < e.post,
               posts[f.post] <= posts[e.post]
        PROVE  f.ts <= e.ts /\ f.no < e.no
    <3>1. CASE e \in events /\ f \in events
      BY <1>0, <2>5, <3>1 DEF PostsInv
    <3>2. CASE e \in events /\ f \in Arrivals
      <4>1. /\ f.post \in Nat /\ f.post > Len(posts) - Len(inbox)
            /\ e.post \in Nat /\ e.post <= Len(posts) - Len(inbox)
        BY <1>6, <2>2, <2>3, <3>2
      <4> QED
        BY <1>2, <2>5, <4>1
    <3>3. CASE e \in Arrivals /\ f \in events
      <4>1. f.post \in 1 .. Len(posts)
        BY <1>2, <1>6, <2>1, <2>2, <2>5, <3>3
      <4>2. posts[f.post] \in Nat /\ f.ts <= now + posts[f.post]
        BY <4>1, <1>p, <2>2, <3>3
      <4>3. e.ts = now + posts[e.post] /\ posts[e.post] \in Nat
        BY <2>3, <3>3
      <4>4. f.ts \in Nat /\ f.no < e.no
        BY <1>2, <1>5, <1>6, <3>3
      <4> QED
        BY <1>2, <2>5, <4>2, <4>3, <4>4
    <3>4. CASE e \in Arrivals /\ f \in Arrivals
      <4>1. /\ e.ts = now + posts[e.post] /\ posts[e.post] \in Nat
            /\ f.ts = now + posts[f.post] /\ posts[f.post] \in Nat
        BY <2>3, <3>4
      <4>2. /\ e.post \in Nat /\ e.no = uid + e.post - 1 - (Len(posts) - Len(inbox))
            /\ f.post \in Nat /\ f.no = uid + f.post - 1 - (Len(posts) - Len(inbox))
        BY <2>3, <3>4
      <4>3. f.no < e.no
        BY <1>n, <2>5, <4>2
      <4>4. f.ts <= e.ts
        BY <1>n, <2>5, <4>1
      <4> QED
        BY <4>3, <4>4
    <3> QED
      BY <1>1, <3>1, <3>2, <3>3, <3>4
  <2> QED
    BY <1>1, <1>2, <2>1, <2>4, <2>5 DEF PostsInv
<1> QED
  BY <1>7, <1>8, <1>9, <1>10, <1>11

(* The event taken is before all others, in the order of the ids drawn.    *)
LEMMA ProcessFacts ==
  ASSUME Inv, ProcessOneEvent
  PROVE  \E e \in events :
           /\ events' = events \ {e} /\ now' = e.ts /\ current' = e.no
           /\ \A f \in events \ {e} : e.ts < f.ts \/ (e.ts = f.ts /\ e.no < f.no)
<1>1. PICK e \in events : /\ \A f \in events \ {e} : Before(e, f)
                          /\ events' = events \ {e} /\ now' = e.ts /\ current' = e.no
  BY DEF ProcessOneEvent
<1>2. \A f \in events \ {e} : e.ts < f.ts \/ (e.ts = f.ts /\ e.no < f.no)
  BY <1>1, UidFacts DEF Before
<1> QED
  BY <1>1, <1>2

(* Running an event moves the clock to it, and everything before it is     *)
(* past.                                                                   *)
LEMMA ProcessStep ==
  ASSUME Inv, ProcessOneEvent
  PROVE  IdsInv' /\ NothingLate' /\ Settled' /\ LockInv' /\ PostsInv'
<1>0. SimTypeOK /\ IdsInv /\ NothingLate /\ Settled /\ LockInv /\ PostsInv
  BY DEF Inv
<1>1. PICK e \in events :
        /\ events' = events \ {e} /\ now' = e.ts /\ current' = e.no
        /\ \A f \in events \ {e} : e.ts < f.ts \/ (e.ts = f.ts /\ e.no < f.no)
  BY ProcessFacts
<1>2. /\ pc # "over"
      /\ UNCHANGED <<inbox, empty, thread, uid, cancelled, destroy, ids, posts>>
  BY DEF ProcessOneEvent
<1>3. /\ e.ts \in Nat /\ e.no \in Nat /\ now \in Nat /\ current \in Nat /\ uid \in Nat
      /\ e.no < uid /\ (e.ts > now \/ (e.ts = now /\ e.no > current))
  BY <1>0, Types DEF IdsInv, NothingLate
<1>4. IdsInv'
  BY <1>0, <1>1, <1>2, <1>3 DEF IdsInv
<1>5. NothingLate'
  BY <1>0, <1>1, <1>3, Types DEF NothingLate
<1>6. Settled'
  <2>1. ASSUME NEW id \in ids, id.does # "destroy", id.no \notin cancelled
        PROVE  id \in events' \/ Behind(id)'
    <3>1. id.ts \in Nat /\ id.no \in Nat
      BY <1>0, Types
    <3>2. CASE id = e
      BY <1>1, <1>3, <3>2 DEF Behind
    <3>3. CASE Behind(id)
      BY <1>1, <1>3, <3>1, <3>3 DEF Behind
    <3> QED
      BY <1>0, <1>1, <1>2, <2>1, <3>2, <3>3 DEF Settled
  <2> QED
    BY <1>2, <2>1 DEF Settled
<1>7. LockInv'
  BY <1>0, <1>2 DEF LockInv, FlagTellsInbox
<1>8. PostsInv'
  <2>1. ASSUME NEW f \in events', f.post > 0
        PROVE  f.ts <= now' + posts'[f.post]
    <3>1. f \in events /\ f.post \in Nat /\ f.ts \in Nat /\ f.post <= Len(posts) - Len(inbox)
      BY <1>0, <1>1, Types DEF PostsInv
    <3>2. Len(inbox) \in Nat /\ Len(posts) \in Nat
      BY <1>0, Types
    <3>3. posts \in Seq(Delay) /\ f.post \in DOMAIN posts
      BY <1>0, <2>1, <3>1, <3>2 DEF SimTypeOK
    <3>4. posts[f.post] \in Nat
      BY <3>3, SeqElement, SimulatorAssumption DEF Delay
    <3>5. f.ts <= now + posts[f.post]
      BY <1>0, <2>1, <3>1 DEF PostsInv
    <3> QED
      BY <1>1, <1>2, <1>3, <3>1, <3>4, <3>5
  <2> QED
    BY <1>0, <1>1, <1>2, <2>1 DEF PostsInv
<1> QED
  BY <1>4, <1>5, <1>6, <1>7, <1>8

(* Destroy empties the queues. *)
LEMMA DestroyStep ==
  ASSUME Inv, DestroyOne \/ DoDispose
  PROVE  IdsInv' /\ NothingLate' /\ Settled' /\ LockInv' /\ PostsInv'
<1>0. SimTypeOK /\ IdsInv /\ NothingLate /\ Settled /\ LockInv /\ PostsInv
  BY DEF Inv
<1>1. CASE DestroyOne
  <2>1. /\ destroy # <<>> /\ destroy' = Tail(destroy) /\ destroy \in Seq(Event) /\ pc # "over"
        /\ UNCHANGED <<events, inbox, empty, thread, uid, now, current, cancelled, ids, posts>>
    BY <1>0, <1>1 DEF DestroyOne, SimTypeOK
  <2>2. /\ Len(destroy) \in Nat /\ Len(destroy') = Len(destroy) - 1
        /\ \A k \in 1 .. Len(destroy') : destroy'[k] = destroy[k + 1]
    BY <2>1
  <2>3. IdsInv'
    BY <1>0, <2>1, <2>2 DEF IdsInv
  <2>4. NothingLate' /\ Settled'
    BY <1>0, <2>1 DEF NothingLate, Settled, Behind
  <2>5. LockInv' /\ PostsInv'
    BY <1>0, <2>1 DEF LockInv, FlagTellsInbox, PostsInv
  <2> QED
    BY <2>3, <2>4, <2>5
<1>2. CASE DoDispose
  <2>1. /\ events' = {} /\ inbox' = <<>> /\ empty' = TRUE /\ thread' = "idle" /\ pc' = "over"
        /\ UNCHANGED <<uid, now, current, cancelled, destroy, ids, posts>>
    BY <1>2 DEF DoDispose, mainVars
  <2>2. Len(inbox') = 0
    BY <2>1
  <2>3. IdsInv'
    BY <1>0, <2>1, <2>2, Types DEF IdsInv
  <2>4. NothingLate' /\ Settled' /\ LockInv'
    BY <2>1 DEF NothingLate, Settled, LockInv, FlagTellsInbox
  <2>5. PostsInv'
    BY <1>0, <2>1, <2>2, Types DEF PostsInv
  <2> QED
    BY <2>3, <2>4, <2>5
<1> QED
  BY <1>1, <1>2

(* The invariant is inductive. *)
LEMMA NextInv ==
  ASSUME Inv, NoWrap, [Next]_vars
  PROVE  Inv'
<1>1. SimTypeOK'
  BY TypeStep DEF Inv
<1>2. IdsInv' /\ NothingLate' /\ Settled' /\ LockInv' /\ PostsInv'
  <2>1. CASE UNCHANGED vars
    BY <2>1 DEF vars, mainVars, Inv, IdsInv, NothingLate, Settled, Behind, LockInv,
                FlagTellsInbox, PostsInv
  <2>2. CASE Call
    BY <2>2, ScheduleStep, ScheduleDestroyStep, CancelStep, FrameStep DEF Call
  <2>3. CASE Main
    BY <2>3, FrameStep, SwapStep, ProcessStep, DestroyStep DEF Main
  <2>4. CASE Run \/ Destroy
    BY <2>4, FrameStep
  <2>5. CASE Publish \/ \E delay \in Delay : Push(delay)
    BY <2>5, ThreadStep
  <2> QED
    BY <2>1, <2>2, <2>3, <2>4, <2>5 DEF Next
<1> QED
  BY <1>1, <1>2 DEF Inv

(* The simulator keeps its invariant. *)
THEOREM SimulatorInvariant ==
  ASSUME NoWrap PROVE Spec => []Inv
BY InitInv, NextInv, PTL DEF Spec

(* IsExpired is exact, for ids held across any calls and any number of     *)
(* runs (DefaultSimulatorImpl::IsExpired).                                 *)
THEOREM ExpiredIsExact ==
  ASSUME NoWrap PROVE Spec => []ExpiredExact
BY SimulatorInvariant, ExactFromInv, PTL

(* The clock never has to go back (the assertion of ProcessOneEvent).      *)
THEOREM ClockIsMonotone ==
  ASSUME NoWrap PROVE Spec => []NothingLate
<1>1. Inv => NothingLate
  BY DEF Inv
<1> QED
  BY <1>1, SimulatorInvariant, PTL

(* The flag read without the lock never hides a post that is complete.     *)
THEOREM FlagIsRight ==
  ASSUME NoWrap PROVE Spec => []FlagTellsInbox
<1>1. Inv => FlagTellsInbox
  BY DEF Inv, LockInv
<1> QED
  BY <1>1, SimulatorInvariant, PTL

(* A posted event never overtakes an earlier post whose delay was no       *)
(* longer (ScheduleWithContext, ProcessEventsWithContext).                 *)
THEOREM PostsRunInOrder ==
  ASSUME NoWrap PROVE Spec => PostsInOrder
<1>1. ASSUME Inv, [Next]_vars
      PROVE  [Ordered]_vars
  <2> SUFFICES ASSUME pc = "loop", pc' \in {"event", "check"},
                      NEW e \in events, current' = e.no, e.post > 0
               PROVE  ~Overtakes(e)
    BY DEF Ordered
  <2>1. ProcessOneEvent
    BY <1>1 DEF Next, Call, Schedule, ScheduleDestroy, Cancel, RemoveDestroy, RemoveEvent, Stop,
          UserCode, Main, Check, Swap, HandlerReturns, RunReturns, DestroyOne, DestroyReturns,
          DoDispose, Run, Destroy, Push, Publish, mainVars, vars
  <2>2. PICK g \in events :
          /\ current' = g.no
          /\ \A f \in events \ {g} : g.ts < f.ts \/ (g.ts = f.ts /\ g.no < f.no)
    BY <1>1, <2>1, ProcessFacts
  <2>3. e = g
    BY <1>1, <2>2 DEF Inv, IdsInv
  <2>4. /\ \A f \in events : f.ts \in Nat /\ f.no \in Nat /\ f.post \in Nat
        /\ Len(inbox) \in Nat /\ Len(posts) \in Nat /\ DOMAIN inbox = 1 .. Len(inbox)
    BY <1>1, Types DEF Inv, SimTypeOK
  <2>5. ~\E f \in events : f.post > 0 /\ f.post < e.post /\ posts[f.post] <= posts[e.post]
    BY <1>1, <2>2, <2>3, <2>4 DEF Inv, PostsInv
  <2>6. ~\E k \in DOMAIN inbox : inbox[k].post <= e.post
    <3>1. e.post <= Len(posts) - Len(inbox) /\ e.post \in Nat
      BY <1>1, <2>4 DEF Inv, PostsInv
    <3>2. \A k \in 1 .. Len(inbox) : inbox[k].post = Len(posts) - Len(inbox) + k
      BY <1>1 DEF Inv, PostsInv
    <3> QED
      BY <2>4, <3>1, <3>2
  <2> QED
    BY <2>5, <2>6 DEF Overtakes
<1> QED
  BY <1>1, SimulatorInvariant, PTL DEF Spec, PostsInOrder

-----------------------------------------------------------------------------
(* The inbox turns into as many events as it has entries. *)
LEMMA ArrivalsCount ==
  ASSUME Inv
  PROVE  /\ IsFiniteSet(Arrivals) /\ Cardinality(Arrivals) = Len(inbox)
         /\ Arrivals \cap events = {}
<1> DEFINE At(k) == EventOf(now + inbox[k].delay, uid + k - 1, "calls", inbox[k].post)
           f == [k \in 1 .. Len(inbox) |-> At(k)]
<1>0. /\ Len(inbox) \in Nat /\ uid \in Nat /\ DOMAIN inbox = 1 .. Len(inbox)
      /\ \A e \in events : e.no \in Nat /\ e.no < uid
  BY Types DEF Inv, SimTypeOK, IdsInv
<1>1. \A k \in 1 .. Len(inbox) : At(k).no = uid + k - 1
  BY DEF EventOf
<1>2. Arrivals = {At(k) : k \in 1 .. Len(inbox)}
  BY <1>0 DEF Arrivals
<1> HIDE DEF At
<1>3. f \in Bijection(1 .. Len(inbox), Arrivals)
  <2>1. f \in [1 .. Len(inbox) -> Arrivals]
    BY <1>2
  <2>2. \A j, k \in 1 .. Len(inbox) : f[j] = f[k] => j = k
    BY <1>0, <1>1
  <2>3. \A e \in Arrivals : \E k \in 1 .. Len(inbox) : f[k] = e
    BY <1>2
  <2> QED
    BY <2>1, <2>2, <2>3, Fun_IsBij
<1>4. IsFiniteSet(1 .. Len(inbox)) /\ Cardinality(1 .. Len(inbox)) = Len(inbox)
  BY <1>0, FS_Interval
<1>5. IsFiniteSet(Arrivals) /\ Cardinality(Arrivals) = Len(inbox)
  BY <1>3, <1>4, FS_Bijection DEF ExistsBijection
<1>6. Arrivals \cap events = {}
  BY <1>0, <1>1, <1>2
<1> QED
  BY <1>5, <1>6

(* The count follows the list. *)
LEMMA CountStep ==
  ASSUME Inv, Counted, [Next]_vars
  PROVE  Counted'
<1>0. /\ unscheduled \in Int /\ Cardinality(events) \in Nat /\ IsFiniteSet(events)
      /\ pc # "over" => unscheduled = Cardinality(events)
  BY FS_CardinalityType DEF Inv, SimTypeOK, Counted, CountsUnscheduled
<1>1. ASSUME NEW delay \in Delay, NEW does \in {"calls", "stop"}, NEW b \in BOOLEAN,
             Schedule(delay, does, b)
      PROVE  Counted'
  <2> DEFINE e == EventOf(now + delay, uid, does, 0)
  <2>1. e.no = uid /\ uid \in Nat /\ \A f \in events : f.no \in Nat /\ f.no < uid
    BY Types DEF EventOf, Inv, IdsInv
  <2>2. e \notin events
    BY <2>1
  <2>3. events' = events \cup {e} /\ unscheduled' = unscheduled + 1 /\ pc' = pc /\ pc # "over"
    BY <1>1 DEF Schedule, UserCode
  <2> HIDE DEF e
  <2>4. IsFiniteSet(events') /\ Cardinality(events') = Cardinality(events) + 1
    BY <1>0, <2>2, <2>3, FS_AddElement
  <2> QED
    BY <1>0, <2>3, <2>4 DEF Counted, CountsUnscheduled
<1>2. ASSUME NEW id \in ids, RemoveEvent(id)
      PROVE  Counted'
  <2>1. id \in events
    <3>1. id.does # "destroy" /\ id.no \notin cancelled /\ ~Behind(id)
      BY <1>2, UidFacts, PassedFacts DEF RemoveEvent
    <3> QED
      BY <1>2, <3>1 DEF Inv, Settled, RemoveEvent, UserCode
  <2>2. events' = events \ {id} /\ unscheduled' = unscheduled - 1 /\ pc' = pc /\ pc # "over"
    BY <1>2 DEF RemoveEvent, Uncounted, UserCode
  <2>3. IsFiniteSet(events') /\ Cardinality(events') = Cardinality(events) - 1
    BY <1>0, <2>1, <2>2, FS_RemoveElement
  <2> QED
    BY <1>0, <2>2, <2>3 DEF Counted, CountsUnscheduled
<1>3. CASE Swap
  <2>1. events' = events \cup Arrivals /\ unscheduled' = unscheduled + Len(inbox) /\ pc # "over"
    BY <1>3 DEF Swap, TakeInbox
  <2>2. IsFiniteSet(events') /\ Cardinality(events') = Cardinality(events) + Len(inbox)
    <3>1. events \cap Arrivals = {} /\ Len(inbox) \in Nat
      BY ArrivalsCount, Types DEF Inv
    <3>2. Cardinality(events \cap Arrivals) = 0
      BY <3>1, FS_EmptySet
    <3> QED
      BY <1>0, <2>1, <3>1, <3>2, ArrivalsCount, FS_Union
  <2> QED
    BY <1>0, <2>1, <2>2 DEF Counted, CountsUnscheduled
<1>4. CASE ProcessOneEvent
  <2>1. PICK e \in events : events' = events \ {e}
    BY <1>4, ProcessFacts
  <2>2. unscheduled' = unscheduled - 1 /\ pc # "over"
    BY <1>4 DEF ProcessOneEvent
  <2>3. IsFiniteSet(events') /\ Cardinality(events') = Cardinality(events) - 1
    BY <1>0, <2>1, FS_RemoveElement
  <2> QED
    BY <1>0, <2>2, <2>3 DEF Counted, CountsUnscheduled
<1>5. CASE DoDispose
  BY <1>5, FS_EmptySet DEF DoDispose, Counted, CountsUnscheduled
<1>6. CASE \/ ScheduleDestroy \/ Stop \/ (\E id \in ids : Cancel(id) \/ RemoveDestroy(id))
           \/ Check \/ HandlerReturns \/ RunReturns \/ DestroyOne \/ DestroyReturns
           \/ Run \/ Destroy \/ Publish \/ (\E delay \in Delay : Push(delay)) \/ UNCHANGED vars
  <2>1. UNCHANGED <<events, unscheduled>> /\ (pc' # "over" => pc # "over")
    BY <1>6 DEF ScheduleDestroy, Stop, Cancel, RemoveDestroy, Check, HandlerReturns, RunReturns,
         DestroyOne, DestroyReturns, Run, Destroy, Publish, Push, UserCode, mainVars, vars
  <2> QED
    BY <1>0, <2>1 DEF Counted, CountsUnscheduled
<1> QED
  BY <1>1, <1>2, <1>3, <1>4, <1>5, <1>6 DEF Next, Call, Main

(* m_unscheduledEvents is the number of events in the list: the assertion  *)
(* at the end of Run holds.                                                *)
THEOREM NoEventLost ==
  ASSUME NoWrap PROVE Spec => []CountsUnscheduled
<1>1. Init => Counted
  BY FS_EmptySet DEF Init, Counted, CountsUnscheduled
<1>2. Counted => CountsUnscheduled
  BY DEF Counted
<1> QED
  BY <1>1, <1>2, CountStep, SimulatorInvariant, PTL DEF Spec

=============================================================================
