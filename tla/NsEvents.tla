------------------------------ MODULE NsEvents ------------------------------
(***************************************************************************)
(* The order of simulator events (scheduler.h): by time stamp, and by      *)
(* unique id among those of one time.                                      *)
(***************************************************************************)
EXTENDS Integers

(* operator< of EventKey *)
Before(a, b) == a.ts < b.ts \/ (a.ts = b.ts /\ a.uid < b.uid)

Earliest(events) == CHOOSE e \in events : \A f \in events \ {e} : Before(e, f)

=============================================================================
