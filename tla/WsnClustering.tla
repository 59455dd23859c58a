--------------------------- MODULE WsnClustering ---------------------------
(***************************************************************************)
(* What the clustering of a round promises: as soon as clusters exist      *)
(* there is a cluster head, and every node alive is a cluster head or      *)
(* belongs to the cluster of one.  During the round clusters only erode,   *)
(* as nodes die; nobody changes sides, and a node whose cluster head is    *)
(* dead keeps pointing at it until the next round.                         *)
(***************************************************************************)
EXTENDS Integers

CONSTANTS Node, None

VARIABLES
  formed,  \* are there clusters?
  alive,   \* the nodes that are alive
  heads,   \* the cluster heads, {} while there are no clusters
  home     \* home[n] is the cluster head of n, None when it has none

NoHome == [n \in Node |-> None]

Init ==
  /\ formed = FALSE
  /\ alive = Node
  /\ heads = {}
  /\ home = NoHome

Form ==
  /\ ~formed
  /\ alive # {}
  /\ formed' = TRUE
  /\ heads' \subseteq alive /\ heads' # {}
  /\ home' \in [Node -> heads' \cup {None}]
  /\ \A n \in Node : home'[n] # None <=> n \in alive \ heads'
  /\ UNCHANGED alive

Erode ==
  /\ formed
  /\ alive' \subseteq alive
  /\ heads' = heads \cap alive'
  /\ home' = [n \in Node |-> IF n \in alive' THEN home[n] ELSE None]
  /\ UNCHANGED formed

Dissolve ==
  /\ formed
  /\ formed' = FALSE
  /\ heads' = {}
  /\ home' = NoHome
  /\ UNCHANGED alive

Next == Form \/ Erode \/ Dissolve

vars == <<formed, alive, heads, home>>

Spec == Init /\ [][Next]_vars

=============================================================================
