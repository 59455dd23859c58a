---------------------------- MODULE WsnFormation ----------------------------
(***************************************************************************)
(* JoinClusters: in the order of their ids the nodes that are not cluster  *)
(* heads pick a cluster (pc = "join").  BuildRelayMap, LECMAC+ only: from  *)
(* the farthest cluster head to the nearest, each is given the gateway     *)
(* that makes its way to the base station cheapest (pc = "relay").         *)
(* No energy is spent by either.                                           *)
(***************************************************************************)
EXTENDS WsnState

AliveHeads == {h \in Range(chs) : nodes[h].alive}

(* Mutation of OpenHeads: the cap is off by one. *)
OpenHeadsOffByOne ==
  {h \in AliveHeads : Lecmac => Len(nodes[h].members) <= MaxClusterSize}

(* First pass: the cap on the cluster size, MCS, bars a head that is full. *)
OpenHeads ==
  {h \in AliveHeads : Lecmac => Len(nodes[h].members) < MaxClusterSize}

(* Mutation of JoinTargets: no second pass. *)
FirstPassOnly == OpenHeads

(* Second pass: when no head is open the cap is ignored. *)
JoinTargets == IF OpenHeads = {} THEN AliveHeads ELSE OpenHeads

(* Mutation of NearestTarget: the distances are not compared. *)
FirstTarget(n) ==
  {chs[k] : k \in {k \in DOMAIN chs :
     chs[k] \in JoinTargets /\ \A j \in DOMAIN chs : chs[j] \in JoinTargets => k <= j}}

NearestTarget(n) == FirstCheapest(JoinTargets, LAMBDA h : Distance2(n, h))

JoinTo(ns, n, h) ==
  [m \in Node |->
     IF m = n THEN [ns[n] EXCEPT !.clusterHeadId = h]
     ELSE IF m = h THEN [ns[h] EXCEPT !.members = Append(@, n)]
     ELSE ns[m]]

StayOut ==
  /\ pc = "join" /\ i \in Node
  /\ ~nodes[i].alive \/ nodes[i].isClusterHead
  /\ i' = i + 1
  /\ UNCHANGED <<pc, runVars, pos, nodes, event, chs, electVars, todo, relayVars, frameVars>>

Join ==
  /\ pc = "join" /\ i \in Node
  /\ nodes[i].alive /\ ~nodes[i].isClusterHead
  /\ \E h \in IF JoinTargets = {} THEN {None} ELSE NearestTarget(i) :
       nodes' = JoinTo(nodes, i, h)
  /\ i' = i + 1
  /\ UNCHANGED <<pc, runVars, pos, event, chs, electVars, todo, relayVars, frameVars>>

(* Mutation of EndJoin: the relay map is not cleared. *)
EndJoinKeepMap ==
  /\ pc = "join" /\ i \notin Node
  /\ i' = 1
  /\ IF Protocol = "LECMAC_PLUS"
       THEN pc' = "relay" /\ todo' = AliveHeads /\ gwLoad' = [n \in Node |-> 0]
       ELSE pc' = "advertise" /\ UNCHANGED <<todo, gwLoad>>
  /\ UNCHANGED <<runVars, pos, nodes, event, chs, electVars, relayMap, frameVars>>

EndJoin ==
  /\ pc = "join" /\ i \notin Node
  /\ i' = 1
  /\ IF Protocol = "LECMAC_PLUS"
       THEN /\ pc' = "relay"
            /\ todo' = AliveHeads
            /\ relayMap' = [n \in Node |-> None]
            /\ gwLoad' = [n \in Node |-> 0]
       ELSE /\ pc' = "advertise"
            /\ UNCHANGED <<todo, relayVars>>
  /\ UNCHANGED <<runVars, pos, nodes, event, chs, electVars, frameVars>>

-----------------------------------------------------------------------------
DirectCost(s) == TxCost(DataBits, ToBase2(s))

RelayCost(s, g) ==
  TxCost(DataBits, Distance2(s, g)) + RxCost(DataBits) + TxCost(DataBits, ToBase2(g))

(* Mutation of Farthest: std::less. *)
Closest(s) ==
  /\ s \in todo
  /\ \A t \in todo : \/ ToBase2(t) > ToBase2(s)
                     \/ ToBase2(t) = ToBase2(s) /\ t >= s

(* std::greater on <distance, id>: the farthest first, the larger id first *)
(* among equals.                                                           *)
Farthest(s) ==
  /\ s \in todo
  /\ \A t \in todo : \/ ToBase2(t) < ToBase2(s)
                     \/ ToBase2(t) = ToBase2(s) /\ t <= s

(* The gateways that would make the path of s cheaper, were they free.     *)
Cheaper(s) ==
  {g \in AliveHeads \ {s} : /\ ToBase2(g) < ToBase2(s)
                            /\ RelayCost(s, g) < DirectCost(s)}

(* Mutation of HasRoom: one too many. *)
HasRoomForOneMore(g) == gwLoad[g] <= MaxRelayLoad

HasRoom(g) == gwLoad[g] < MaxRelayLoad

Gateways(s) == {g \in Cheaper(s) : HasRoom(g)}

BestGateway(s) == FirstCheapest(Gateways(s), LAMBDA g : RelayCost(s, g))

AssignRelay(s) ==
  /\ pc = "relay"
  /\ Farthest(s)
  /\ \E g \in BestGateway(s) :
       /\ relayMap' = [relayMap EXCEPT ![s] = g]
       /\ gwLoad' = [gwLoad EXCEPT ![g] = @ + 1]
  /\ todo' = todo \ {s}
  /\ UNCHANGED <<pc, runVars, pos, nodes, event, chs, electVars, i, frameVars>>

NoRelay(s) ==
  /\ pc = "relay"
  /\ Farthest(s)
  /\ Gateways(s) = {}
  /\ relayMap' = [relayMap EXCEPT ![s] = None]
  /\ todo' = todo \ {s}
  /\ UNCHANGED <<pc, runVars, pos, nodes, event, chs, electVars, gwLoad, i, frameVars>>

EndRelay ==
  /\ pc = "relay" /\ todo = {}
  /\ pc' = "advertise"
  /\ UNCHANGED <<runVars, pos, nodes, event, chs, electVars, todo, relayVars, i, frameVars>>

FormationNext ==
  \/ StayOut \/ Join \/ EndJoin
  \/ \E s \in Node : AssignRelay(s) \/ NoRelay(s)
  \/ EndRelay

=============================================================================
