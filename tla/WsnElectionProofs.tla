-------------------------- MODULE WsnElectionProofs --------------------------
(***************************************************************************)
(* What the engine does up to the choice of the cluster heads, for every   *)
(* value of the constants: the radio and the node vector, the types and the*)
(* batteries, the heads and the rules of their election.                   *)
(***************************************************************************)
EXTENDS WsnProperties, FiniteSetTheorems, TLAPS

-----------------------------------------------------------------------------
(***************************************************************************)
(* Lemmas about the radio model and the operations on the node vector.     *)
(***************************************************************************)
(* The node vectors in which every node is alive exactly while it has      *)
(* energy, and the dead hold no role.                                      *)
Battery(x) ==
  /\ x.alive <=> x.energy > 0
  /\ ~x.alive => ~x.isClusterHead /\ x.clusterHeadId = None

Ledger == {ns \in [Node -> NodeState] : \A n \in Node : Battery(ns[n])}

(* What paying may do to a node: it loses energy, and its role only with   *)
(* its life.                                                               *)
Spends(x, y) ==
  /\ y.energy <= x.energy
  /\ y.members = x.members
  /\ y.lastChEpoch = x.lastChEpoch
  /\ y.alive => /\ x.alive
                /\ y.isClusterHead = x.isClusterHead
                /\ y.clusterHeadId = x.clusterHeadId

Paid(ns, ms) == \A n \in Node : Spends(ns[n], ms[n])

-----------------------------------------------------------------------------
(***************************************************************************)
(* Squared distances and costs are natural numbers.                        *)
(***************************************************************************)
LEMMA ProductType ==
  ASSUME NEW a \in Nat, NEW b \in Nat
  PROVE  a * b \in Nat
OBVIOUS

(* Squared distances are natural numbers. *)
LEMMA Dist2Type ==
  ASSUME NEW p \in Point, NEW q \in Point
  PROVE  Dist2(p, q) \in Nat
<1>1. \A a \in Int : a * a \in Nat
  OBVIOUS
<1>2. p.x - q.x \in Int /\ p.y - q.y \in Int
  BY DEF Point
<1>3. (p.x - q.x) * (p.x - q.x) \in Nat /\ (p.y - q.y) * (p.y - q.y) \in Nat
  BY <1>1, <1>2
<1> QED
  BY <1>3 DEF Dist2

(* Squared distances of nodes are natural numbers. *)
LEMMA Distance2Type ==
  ASSUME pos \in [Node -> Point], NEW m \in Node, NEW n \in Node
  PROVE  Distance2(m, n) \in Nat /\ ToBase2(n) \in Nat
BY Dist2Type, RadioAssumption DEF Distance2, ToBase2

(* Sending costs a natural number. *)
LEMMA TxCostType ==
  ASSUME NEW bits \in Nat, NEW d2 \in Nat
  PROVE  TxCost(bits, d2) \in Nat
<1>1. Eelec \in Nat /\ Eamp \in Nat
  BY RadioAssumption
<1>2. bits * Eelec \in Nat
  BY <1>1, ProductType
<1>3. bits * (Eamp * d2) \in Nat
  BY <1>1, ProductType
<1> QED
  BY <1>2, <1>3 DEF TxCost

(* Receiving costs a natural number. *)
LEMMA RxCostType ==
  ASSUME NEW bits \in Nat
  PROVE  RxCost(bits) \in Nat
BY RadioAssumption, ProductType DEF RxCost

(* Listening costs a natural number. *)
LEMMA IdleCostType ==
  ASSUME NEW bits \in Nat
  PROVE  IdleCost(bits) \in Nat
BY RadioAssumption, ProductType DEF IdleCost

(* The range of a broadcast is a natural number. *)
LEMMA BcastDist2Type == BcastDist2 \in Nat
<1>1. Area * Area \in Nat
  BY RadioAssumption, ProductType
<1> QED
  BY <1>1 DEF BcastDist2

(* Packet sizes are natural numbers. *)
LEMMA BitsType == DataBits \in Nat /\ ControlBits \in Nat
BY RadioAssumption

-----------------------------------------------------------------------------
(***************************************************************************)
(* Paying.                                                                 *)
(***************************************************************************)
LEMMA DeadFields ==
  ASSUME NEW x \in NodeState
  PROVE  /\ Dead(x) \in NodeState
         /\ Dead(x).energy = 0
         /\ Dead(x).alive = FALSE
         /\ Dead(x).isClusterHead = FALSE
         /\ Dead(x).clusterHeadId = None
         /\ Dead(x).members = x.members
         /\ Dead(x).lastChEpoch = x.lastChEpoch
<1>1. 0 \in 0 .. InitialEnergy
  BY StateAssumption
<1>2. Dead(x) \in NodeState
  BY <1>1, Zenon DEF Dead, NodeState
<1>3. /\ Dead(x).energy = 0
      /\ Dead(x).alive = FALSE
      /\ Dead(x).isClusterHead = FALSE
      /\ Dead(x).clusterHeadId = None
      /\ Dead(x).members = x.members
      /\ Dead(x).lastChEpoch = x.lastChEpoch
  BY DEF Dead, NodeState
<1> QED
  BY <1>2, <1>3

(* Paying spends, and keeps battery and life in step. *)
LEMMA ChargeFacts ==
  ASSUME NEW x \in NodeState, Battery(x), NEW joules \in Nat
  PROVE  /\ Charge(x, joules) \in NodeState
         /\ Battery(Charge(x, joules))
         /\ Spends(x, Charge(x, joules))
<1>1. InitialEnergy \in Nat /\ x.energy \in 0 .. InitialEnergy
  BY StateAssumption DEF NodeState
<1>2. CASE x.energy <= joules
  <2>1. Charge(x, joules) = Dead(x)
    BY <1>2 DEF Charge
  <2> DEFINE y == Dead(x)
  <2>0. /\ y.energy = 0 /\ y.alive = FALSE /\ y.isClusterHead = FALSE
        /\ y.clusterHeadId = None /\ y.members = x.members
        /\ y.lastChEpoch = x.lastChEpoch
    BY DeadFields
  <2> HIDE DEF y
  <2>2. Battery(y)
    BY <2>0 DEF Battery
  <2>3. Spends(x, y)
    BY <2>0, <1>1 DEF Spends
  <2> QED
    BY <2>1, <2>2, <2>3, DeadFields DEF y
<1>3. CASE ~(x.energy <= joules)
  <2>1. Charge(x, joules) = [x EXCEPT !.energy = x.energy - joules]
    BY <1>3 DEF Charge
  <2>2. x.energy - joules \in 0 .. InitialEnergy /\ x.energy - joules > 0
        /\ x.energy - joules <= x.energy
    BY <1>1, <1>3
  <2>3. Charge(x, joules) \in NodeState
    BY <2>1, <2>2 DEF NodeState
  <2>4. /\ Charge(x, joules).energy = x.energy - joules
        /\ Charge(x, joules).alive = x.alive
        /\ Charge(x, joules).isClusterHead = x.isClusterHead
        /\ Charge(x, joules).clusterHeadId = x.clusterHeadId
        /\ Charge(x, joules).members = x.members
        /\ Charge(x, joules).lastChEpoch = x.lastChEpoch
    BY <2>1 DEF NodeState
  <2>5. x.energy > 0
    BY <1>1, <1>3
  <2> QED
    BY <2>2, <2>3, <2>4, <2>5 DEF Battery, Spends
<1> QED
  BY <1>2, <1>3

(* Nobody pays when nothing happens. *)
LEMMA PaidReflexive ==
  ASSUME NEW ns \in [Node -> NodeState]
  PROVE  Paid(ns, ns)
<1> SUFFICES ASSUME NEW n \in Node PROVE Spends(ns[n], ns[n])
  BY DEF Paid
<1>1. ns[n].energy \in Int
  BY StateAssumption DEF NodeState
<1> QED
  BY <1>1 DEF Spends

(* Payments add up. *)
LEMMA PaidTransitive ==
  ASSUME NEW ns \in [Node -> NodeState], NEW ms \in [Node -> NodeState],
         NEW ks \in [Node -> NodeState], Paid(ns, ms), Paid(ms, ks)
  PROVE  Paid(ns, ks)
<1> SUFFICES ASSUME NEW n \in Node PROVE Spends(ns[n], ks[n])
  BY DEF Paid
<1>1. Spends(ns[n], ms[n]) /\ Spends(ms[n], ks[n])
  BY DEF Paid
<1>2. ns[n].energy \in Int /\ ms[n].energy \in Int /\ ks[n].energy \in Int
  BY StateAssumption DEF NodeState
<1> QED
  BY <1>1, <1>2 DEF Spends

(* Consume is a payment by one node, or nothing. *)
LEMMA ConsumeFacts ==
  ASSUME NEW ns \in Ledger, NEW id, NEW joules \in Nat
  PROVE  Consume(ns, id, joules) \in Ledger /\ Paid(ns, Consume(ns, id, joules))
<1>0. ns \in [Node -> NodeState] /\ \A n \in Node : Battery(ns[n])
  BY DEF Ledger
<1>1. CASE id \notin Node \/ ~ns[id].alive
  BY <1>0, <1>1, PaidReflexive DEF Consume
<1>2. CASE id \in Node /\ ns[id].alive
  <2> DEFINE y == Charge(ns[id], joules)
             ms == [ns EXCEPT ![id] = y]
  <2>1. Consume(ns, id, joules) = ms
    BY <1>2 DEF Consume
  <2>2. y \in NodeState /\ Battery(y) /\ Spends(ns[id], y)
    BY <1>0, <1>2, ChargeFacts
  <2>3. ms \in [Node -> NodeState]
    BY <1>0, <2>2
  <2>4. \A n \in Node : ms[n] = IF n = id THEN y ELSE ns[n]
    BY <1>0
  <2>5. \A n \in Node : Spends(ns[n], ns[n])
    BY <1>0, PaidReflexive DEF Paid
  <2>6. \A n \in Node : Battery(ms[n]) /\ Spends(ns[n], ms[n])
    BY <1>0, <2>2, <2>4, <2>5
  <2> QED
    BY <2>1, <2>3, <2>6 DEF Ledger, Paid
<1> QED
  BY <1>1, <1>2

-----------------------------------------------------------------------------
(* The best of a set of heads is a head of that set. *)
LEMMA FirstCheapestIn ==
  ASSUME NEW S, NEW f, NEW h \in FirstCheapest(S, LAMBDA x : f[x]), chs \in Seq(Node)
  PROVE  h \in S /\ h \in Node
BY DEF FirstCheapest

(* There are N nodes. *)
LEMMA NodeFinite == IsFiniteSet(Node) /\ Cardinality(Node) = N
BY StateAssumption, FS_Interval DEF Node

(* Counts of nodes are natural numbers up to N. *)
LEMMA CountTypes ==
  ASSUME NEW ns
  PROVE  CountDeadNodes(ns) \in 0 .. N /\ CountClusterHeads(ns) \in Nat
<1>1. \A S \in SUBSET Node : Cardinality(S) \in Nat /\ Cardinality(S) <= N
  BY NodeFinite, FS_Subset, FS_CardinalityType
<1>2. N \in Nat
  BY StateAssumption
<1> QED
  BY <1>1, <1>2 DEF CountDeadNodes, CountClusterHeads, AliveNodes

-----------------------------------------------------------------------------
(***************************************************************************)
(* Type correctness of the engine, and the battery invariant.              *)
(***************************************************************************)
(* Where the cursors of the loops are, and who may be elected. *)
CursorInv ==
  /\ pc \notin {"draw", "elect", "fallback"} => candidates = {}
  /\ candidates \subseteq AliveNodes(nodes)
  /\ pc = "elect" => todo \subseteq candidates
  /\ pc = "relay" => i = 1
  /\ pc = "advertise" => i >= 1
  /\ pc \in {"slot", "forward"} => i \in Node
  /\ pc = "slot" => slot >= 1

TypeInv == TypeOK /\ CursorInv /\ nodes \in Ledger

-----------------------------------------------------------------------------
(* The loop over the nodes without a cluster is a payment. *)
LEMMA SendDirectFacts ==
  ASSUME TypeInv
  PROVE  SendDirect(nodes) \in Ledger /\ Paid(nodes, SendDirect(nodes))
<1> DEFINE pay(n) == TxCost(DataBits, ToBase2(n))
           ms == SendDirect(nodes)
<1>1. nodes \in Ledger /\ nodes \in [Node -> NodeState] /\ pos \in [Node -> Point]
  BY DEF TypeInv, TypeOK
<1>2. \A n \in Node : pay(n) \in Nat
  BY <1>1, Distance2Type, TxCostType, BitsType
<1>3. \A n \in Node :
        /\ Consume(nodes, n, pay(n)) \in Ledger
        /\ Paid(nodes, Consume(nodes, n, pay(n)))
  BY <1>1, <1>2, ConsumeFacts
<1>4. \A n \in Node : /\ Consume(nodes, n, pay(n))[n] \in NodeState
                      /\ Battery(Consume(nodes, n, pay(n))[n])
                      /\ Spends(nodes[n], Consume(nodes, n, pay(n))[n])
  BY <1>3 DEF Ledger, Paid
<1>5. \A n \in Node : nodes[n] \in NodeState /\ Battery(nodes[n]) /\ Spends(nodes[n], nodes[n])
  BY <1>1, PaidReflexive DEF Ledger, Paid
<1>6. ms = [n \in Node |-> IF n \in Unassigned(nodes)
                             THEN Consume(nodes, n, pay(n))[n] ELSE nodes[n]]
  BY DEF SendDirect
<1> HIDE DEF ms, pay
<1>7. \A n \in Node : ms[n] \in NodeState /\ Battery(ms[n]) /\ Spends(nodes[n], ms[n])
  BY <1>4, <1>5, <1>6
<1>8. ms \in [Node -> NodeState]
  BY <1>6, <1>7
<1>9. ms \in Ledger /\ Paid(nodes, ms)
  BY <1>7, <1>8 DEF Ledger, Paid
<1> QED
  BY <1>9 DEF ms

(* Two and three payments in a row. *)
LEMMA ConsumeTwice ==
  ASSUME NEW ns \in Ledger, NEW a, NEW b, NEW j \in Nat, NEW k \in Nat
  PROVE  /\ Consume(Consume(ns, a, j), b, k) \in Ledger
         /\ Paid(ns, Consume(Consume(ns, a, j), b, k))
<1>1. Consume(ns, a, j) \in Ledger /\ Paid(ns, Consume(ns, a, j))
  BY ConsumeFacts
<1>2. /\ Consume(Consume(ns, a, j), b, k) \in Ledger
      /\ Paid(Consume(ns, a, j), Consume(Consume(ns, a, j), b, k))
  BY <1>1, ConsumeFacts
<1> QED
  BY <1>1, <1>2, PaidTransitive DEF Ledger

(* Three charges in a row are paid like one. *)
LEMMA ConsumeThrice ==
  ASSUME NEW ns \in Ledger, NEW a, NEW b, NEW c,
         NEW j \in Nat, NEW k \in Nat, NEW l \in Nat
  PROVE  /\ Consume(Consume(Consume(ns, a, j), b, k), c, l) \in Ledger
         /\ Paid(ns, Consume(Consume(Consume(ns, a, j), b, k), c, l))
<1>1. /\ Consume(Consume(ns, a, j), b, k) \in Ledger
      /\ Paid(ns, Consume(Consume(ns, a, j), b, k))
  BY ConsumeTwice
<1>2. /\ Consume(Consume(Consume(ns, a, j), b, k), c, l) \in Ledger
      /\ Paid(Consume(Consume(ns, a, j), b, k), Consume(Consume(Consume(ns, a, j), b, k), c, l))
  BY <1>1, ConsumeFacts
<1> QED
  BY <1>1, <1>2, PaidTransitive DEF Ledger

(* A JOIN-REQ is sent to the cluster head, so its cost is a number. *)
LEMMA JoinRequestFacts ==
  ASSUME TypeInv, NEW ns \in Ledger, NEW n \in Node, ns[n].clusterHeadId >= 0
  PROVE  JoinRequest(ns, n) \in Ledger /\ Paid(ns, JoinRequest(ns, n))
<1>1. ns[n].clusterHeadId \in Node
  BY DEF Ledger, NodeState, None
<1>2. TxCost(ControlBits, Distance2(n, ns[n].clusterHeadId)) \in Nat
  BY <1>1, Distance2Type, TxCostType, BitsType DEF TypeInv, TypeOK
<1>3. RxCost(ControlBits) \in Nat /\ RxCost(DataBits) \in Nat
  BY RxCostType, BitsType
<1> QED
  BY <1>2, <1>3, ConsumeThrice DEF JoinRequest

-----------------------------------------------------------------------------
(* Every step of the data phase is a payment. *)
LEMMA DataPhasePays ==
  ASSUME TypeInv, DataPhaseNext
  PROVE  nodes' \in Ledger /\ Paid(nodes, nodes')
<1>0. /\ nodes \in Ledger /\ nodes \in [Node -> NodeState] /\ pos \in [Node -> Point]
      /\ chs \in Seq(Node) /\ i \in Nat /\ slot \in Nat /\ relayMap \in [Node -> Node \cup {None}]
  BY DEF TypeInv, TypeOK
<1>1. ASSUME UNCHANGED nodes
      PROVE  nodes' \in Ledger /\ Paid(nodes, nodes')
  BY <1>0, <1>1, PaidReflexive
<1>2. /\ RxCost(ControlBits) \in Nat /\ RxCost(DataBits) \in Nat
      /\ IdleCost(ControlBits) \in Nat /\ IdleCost(DataBits) \in Nat
      /\ TxCost(ControlBits, BcastDist2) \in Nat /\ TxCost(DataBits, BcastDist2) \in Nat
  BY RxCostType, IdleCostType, TxCostType, BcastDist2Type, BitsType
<1>3. \A m, n \in Node : /\ TxCost(DataBits, Distance2(m, n)) \in Nat
                         /\ TxCost(DataBits, ToBase2(n)) \in Nat
  BY <1>0, Distance2Type, TxCostType, BitsType
<1>4. CASE Advertise
  BY <1>0, <1>2, <1>4, ConsumeThrice DEF Advertise
<1>5. CASE SetupMember
  <2>1. /\ HearAdverts(nodes, i) \in Ledger
        /\ Paid(nodes, HearAdverts(nodes, i))
    BY <1>0, <1>2, ConsumeTwice DEF HearAdverts
  <2>2. CASE HearAdverts(nodes, i)[i].clusterHeadId >= 0
    <3>1. nodes' = JoinRequest(HearAdverts(nodes, i), i) /\ i \in Node
      BY <1>5, <2>2 DEF SetupMember
    <3>2. /\ nodes' \in Ledger
          /\ Paid(HearAdverts(nodes, i), nodes')
      BY <2>1, <2>2, <3>1, JoinRequestFacts
    <3> QED
      BY <1>0, <2>1, <3>2, PaidTransitive DEF Ledger
  <2>3. CASE ~(HearAdverts(nodes, i)[i].clusterHeadId >= 0)
    BY <1>5, <2>1, <2>3 DEF SetupMember
  <2> QED
    BY <2>2, <2>3
<1>6. CASE BeginFrame
  BY <1>6, SendDirectFacts DEF BeginFrame
<1>7. ASSUME InSlot
      PROVE  i \in Node /\ SlotMember \in Node
  <2>1. i \in Node /\ slot >= 1 /\ slot <= Len(nodes[i].members)
    BY <1>7 DEF InSlot, TypeInv, CursorInv
  <2>2. nodes[i].members \in Seq(Node)
    BY <1>0, <2>1 DEF NodeState
  <2> QED
    BY <1>0, <2>1, <2>2 DEF SlotMember
<1>8. VpListen(nodes) \in Ledger /\ Paid(nodes, VpListen(nodes))
  BY <1>0, <1>2, ConsumeFacts, PaidReflexive DEF VpListen
<1>9. CASE EmptySlot
  <2>1. IdleCost(IF Protocol = "LEACH" THEN DataBits ELSE ControlBits) \in Nat
    BY IdleCostType, BitsType
  <2> QED
    BY <1>0, <1>9, <2>1, ConsumeFacts DEF EmptySlot
<1>10. CASE SuppressedSlot
  <2>1. nodes' = Consume(VpListen(nodes), SlotMember, IdleCost(DataBits))
    BY <1>10 DEF SuppressedSlot
  <2>2. nodes' \in Ledger /\ Paid(VpListen(nodes), nodes')
    BY <1>2, <1>8, <2>1, ConsumeFacts
  <2> QED
    BY <1>0, <1>8, <2>2, PaidTransitive DEF Ledger
<1>11. CASE DataSlot
  <2>1. i \in Node /\ SlotMember \in Node
    BY <1>7, <1>11 DEF DataSlot
  <2>2. nodes' = Consume(Consume(VpListen(nodes), SlotMember,
                                 TxCost(DataBits, Distance2(SlotMember, i))),
                         i, RxCost(DataBits))
    BY <1>11 DEF DataSlot
  <2>3. nodes' \in Ledger /\ Paid(VpListen(nodes), nodes')
    BY <1>2, <1>3, <1>8, <2>1, <2>2, ConsumeTwice
  <2> QED
    BY <1>0, <1>8, <2>3, PaidTransitive DEF Ledger
<1>12. CASE ForwardRelay
  <2>1. i \in Node /\ Gateway \in Node /\ nodes' = SendOver(nodes, i, Gateway)
    BY <1>12 DEF ForwardRelay, TypeInv, CursorInv
  <2> QED
    BY <1>0, <1>2, <1>3, <2>1, ConsumeThrice DEF SendOver
<1>13. CASE ForwardDirect
  <2>1. i \in Node
    BY <1>13 DEF ForwardDirect, TypeInv, CursorInv
  <2> QED
    BY <1>0, <1>3, <1>13, <2>1, ConsumeFacts DEF ForwardDirect
<1>14. CASE \/ EndAdvertise \/ NotAMember \/ EndSetup \/ EndFrames
            \/ SkipCluster \/ EnterCluster \/ EndFrame \/ EndSlots \/ HeadLost
  BY <1>1, <1>14 DEF EndAdvertise, NotAMember, EndSetup, EndFrames,
     SkipCluster, EnterCluster, EndFrame, EndSlots, HeadLost
<1> QED
  BY <1>4, <1>5, <1>6, <1>9, <1>10, <1>11, <1>12, <1>13, <1>14 DEF DataPhaseNext

-----------------------------------------------------------------------------
(* The data phase keeps the types: besides the nodes it moves cursors.     *)
LEMMA DataPhaseTypes ==
  ASSUME TypeInv, DataPhaseNext
  PROVE  TypeInv'
<1>1. nodes' \in Ledger /\ nodes' \in [Node -> NodeState]
  BY DataPhasePays DEF Ledger
<1>2. UNCHANGED <<runVars, pos, event, chs, electVars, todo, relayVars>>
  BY DEF DataPhaseNext, Advertise, EndAdvertise, NotAMember, SetupMember, EndSetup,
     BeginFrame, EndFrames, SkipCluster, EnterCluster, EndFrame, EmptySlot,
     SuppressedSlot, DataSlot, EndSlots, ForwardRelay, ForwardDirect, HeadLost
<1>3. pc' \in Phases /\ i' \in Nat /\ slot' \in Nat /\ frame' \in Nat
  BY DEF DataPhaseNext, Advertise, EndAdvertise, NotAMember, SetupMember, EndSetup,
     BeginFrame, EndFrames, SkipCluster, EnterCluster, EndFrame, EmptySlot,
     SuppressedSlot, DataSlot, EndSlots, ForwardRelay, ForwardDirect, HeadLost,
     NextCluster, frameVars, TypeInv, TypeOK, Phases
<1>4. CursorInv'
  BY DEF DataPhaseNext, Advertise, EndAdvertise, NotAMember, SetupMember, EndSetup,
     BeginFrame, EndFrames, SkipCluster, EnterCluster, EndFrame, EmptySlot,
     SuppressedSlot, DataSlot, EndSlots, ForwardRelay, ForwardDirect, HeadLost,
     NextCluster, InSlot, frameVars, electVars, TypeInv, TypeOK, CursorInv
<1>5. TypeOK'
  BY <1>1, <1>2, <1>3 DEF TypeInv, TypeOK, runVars, electVars, relayVars
<1> QED
  BY <1>1, <1>4, <1>5 DEF TypeInv

(* Making a node head leaves its battery alone. *)
LEMMA MakeHeadTypes ==
  ASSUME TypeInv, NEW n \in Node, nodes[n].alive, MakeHead(n)
  PROVE  /\ nodes' \in Ledger /\ nodes' \in [Node -> NodeState] /\ chs' \in Seq(Node)
         /\ AliveNodes(nodes)' = AliveNodes(nodes)
<1>1. nodes \in Ledger /\ nodes \in [Node -> NodeState] /\ chs \in Seq(Node) /\ round \in Nat \ {0}
  BY DEF TypeInv, TypeOK
<1>2. Epoch \in Nat
  <2>1. (round - 1) \in Nat /\ EpochLen \in Nat /\ EpochLen > 0
    BY <1>1, StateAssumption
  <2>2. \A a, b \in Nat : b > 0 => a \div b \in Nat
    OBVIOUS
  <2>3. (round - 1) \div EpochLen \in Nat
    BY <2>1, <2>2
  <2> QED
    BY <2>3 DEF Epoch
<1> HIDE DEF Epoch
<1>3. nodes' \in [Node -> NodeState]
  BY <1>1, <1>2 DEF MakeHead, NodeState
<1>4. \A m \in Node : /\ nodes'[m].energy = nodes[m].energy
                      /\ nodes'[m].alive = nodes[m].alive
                      /\ nodes'[m].clusterHeadId = nodes[m].clusterHeadId
                      /\ m # n => nodes'[m].isClusterHead = nodes[m].isClusterHead
  BY <1>1, <1>2 DEF MakeHead, NodeState
<1>5. \A m \in Node : Battery(nodes'[m])
  BY <1>1, <1>4 DEF Ledger, Battery
<1>6. chs' \in Seq(Node)
  BY <1>1 DEF MakeHead
<1>7. AliveNodes(nodes)' = AliveNodes(nodes)
  BY <1>4 DEF AliveNodes
<1> QED
  BY <1>3, <1>5, <1>6, <1>7 DEF Ledger

(* The election keeps the types. *)
LEMMA ElectionTypes ==
  ASSUME TypeInv, ElectionNext
  PROVE  TypeInv'
<1>0. /\ nodes \in Ledger /\ nodes \in [Node -> NodeState] /\ chs \in Seq(Node)
      /\ candidates \subseteq Node /\ todo \subseteq Node /\ i \in Nat
  BY DEF TypeInv, TypeOK
<1>1. ASSUME UNCHANGED <<nodes, chs>>
      PROVE  nodes' \in Ledger /\ chs' \in Seq(Node)
  BY <1>0, <1>1
<1> USE DEF TypeInv, TypeOK, CursorInv, runVars, electVars, relayVars, frameVars
<1>2. CASE PassOver
  BY <1>0, <1>2 DEF PassOver
<1>3. CASE LoseDraw
  BY <1>0, <1>3 DEF LoseDraw
<1>4. CASE BecomeCandidate
  <2>1. i \in AliveNodes(nodes)
    BY <1>4 DEF BecomeCandidate, Eligible, AliveNodes
  <2> QED
    BY <1>0, <1>4, <2>1 DEF BecomeCandidate
<1>5. CASE EndDraw
  BY <1>0, <1>5 DEF EndDraw, Phases
<1>6. CASE EndElect
  BY <1>0, <1>6 DEF EndElect, Phases
<1>7. CASE KeepHeads
  BY <1>0, <1>7 DEF KeepHeads, ReturnHeads, Phases
<1>8. ASSUME NEW n \in Node, BackOff(n)
      PROVE  TypeInv'
  BY <1>0, <1>8 DEF BackOff
<1>9. CASE WinDraw
  <2>1. i \in Node /\ nodes[i].alive /\ MakeHead(i)
    BY <1>9 DEF WinDraw, Eligible
  <2>2. nodes' \in Ledger /\ nodes' \in [Node -> NodeState] /\ chs' \in Seq(Node)
        /\ AliveNodes(nodes)' = AliveNodes(nodes)
    BY <2>1, MakeHeadTypes
  <2> QED
    BY <1>0, <1>9, <2>2 DEF WinDraw
<1>10. ASSUME NEW n \in Node, Elect(n)
       PROVE  TypeInv'
  <2>1. nodes[n].alive /\ MakeHead(n)
    BY <1>10 DEF Elect, NextCandidate, AliveNodes
  <2>2. nodes' \in Ledger /\ nodes' \in [Node -> NodeState] /\ chs' \in Seq(Node)
        /\ AliveNodes(nodes)' = AliveNodes(nodes)
    BY <2>1, MakeHeadTypes
  <2> QED
    BY <1>0, <1>10, <2>2 DEF Elect
<1>11. ASSUME NEW n \in Node, ForceHead(n)
       PROVE  TypeInv'
  <2>1. nodes[n].alive /\ MakeHead(n)
    BY <1>11 DEF ForceHead, MostEnergetic
  <2>2. nodes' \in Ledger /\ nodes' \in [Node -> NodeState] /\ chs' \in Seq(Node)
    BY <2>1, MakeHeadTypes
  <2> QED
    BY <1>0, <1>11, <2>2 DEF ForceHead, ReturnHeads, Phases
<1> QED
  BY <1>2, <1>3, <1>4, <1>5, <1>6, <1>7, <1>8, <1>9, <1>10, <1>11 DEF ElectionNext

-----------------------------------------------------------------------------
(* The targets of a join and the gateways of a source are heads. *)
LEMMA NearestTargetIn ==
  ASSUME TypeInv, NEW n \in Node, NEW h \in NearestTarget(n)
  PROVE  h \in Node /\ h \in AliveHeads
<1>1. chs \in Seq(Node)
  BY DEF TypeInv, TypeOK
<1>2. PICK k \in DOMAIN chs : h = chs[k] /\ chs[k] \in JoinTargets
  BY DEF NearestTarget, FirstCheapest
<1>3. JoinTargets \subseteq AliveHeads
  BY DEF JoinTargets, OpenHeads
<1> QED
  BY <1>1, <1>2, <1>3

(* The gateway that is chosen is one of the candidates. *)
LEMMA BestGatewayIn ==
  ASSUME TypeInv, NEW s \in Node, NEW g \in BestGateway(s)
  PROVE  g \in Node /\ g \in Gateways(s)
<1>1. chs \in Seq(Node)
  BY DEF TypeInv, TypeOK
<1>2. PICK k \in DOMAIN chs : g = chs[k] /\ chs[k] \in Gateways(s)
  BY DEF BestGateway, FirstCheapest
<1> QED
  BY <1>1, <1>2

(* Joining changes the two ends of a membership and nobody's battery. *)
LEMMA JoinFacts ==
  ASSUME TypeInv, Join
  PROVE  /\ nodes' \in Ledger
         /\ AliveNodes(nodes)' = AliveNodes(nodes)
<1>1. /\ nodes \in Ledger /\ nodes \in [Node -> NodeState]
      /\ i \in Node /\ nodes[i].alive
  BY DEF TypeInv, TypeOK, Join
<1>2. PICK h \in IF JoinTargets = {} THEN {None} ELSE NearestTarget(i) :
        nodes' = JoinTo(nodes, i, h)
  BY DEF Join
<1>3. h \in Node \cup {None}
  BY <1>1, <1>2, NearestTargetIn
<1> DEFINE member == [nodes[i] EXCEPT !.clusterHeadId = h]
           head(m) == [nodes[m] EXCEPT !.members = Append(nodes[m].members, i)]
<1>4. nodes' = [m \in Node |-> IF m = i THEN member ELSE IF m = h THEN head(m) ELSE nodes[m]]
  BY <1>2 DEF JoinTo
<1>5. member \in NodeState /\ Battery(member) /\ member.alive
  BY <1>1, <1>3 DEF NodeState, Ledger, Battery
<1>6. \A m \in Node : /\ head(m) \in NodeState /\ Battery(head(m))
                      /\ head(m).alive = nodes[m].alive
  <2> SUFFICES ASSUME NEW m \in Node
               PROVE  /\ head(m) \in NodeState /\ Battery(head(m))
                      /\ head(m).alive = nodes[m].alive
    OBVIOUS
  <2>1. nodes[m] \in NodeState /\ Battery(nodes[m])
    BY <1>1 DEF Ledger
  <2>2. Append(nodes[m].members, i) \in Seq(Node)
    BY <1>1, <2>1 DEF NodeState
  <2>3. head(m) \in NodeState
    BY <2>1, <2>2, Zenon DEF NodeState
  <2>4. /\ head(m).energy = nodes[m].energy
        /\ head(m).alive = nodes[m].alive
        /\ head(m).isClusterHead = nodes[m].isClusterHead
        /\ head(m).clusterHeadId = nodes[m].clusterHeadId
    BY <2>1 DEF NodeState
  <2> QED
    BY <2>1, <2>3, <2>4 DEF Battery
<1> HIDE DEF member, head
<1>7. \A m \in Node : /\ nodes'[m] \in NodeState /\ Battery(nodes'[m])
                      /\ nodes'[m].alive = nodes[m].alive
  BY <1>1, <1>4, <1>5, <1>6 DEF Ledger
<1>8. nodes' \in [Node -> NodeState]
  BY <1>4, <1>7
<1> QED
  BY <1>7, <1>8 DEF Ledger, AliveNodes

(* The formation of clusters keeps the types. *)
LEMMA FormationTypes ==
  ASSUME TypeInv, FormationNext
  PROVE  TypeInv'
<1>0. /\ nodes \in Ledger /\ nodes \in [Node -> NodeState] /\ chs \in Seq(Node)
      /\ candidates \subseteq Node /\ todo \subseteq Node /\ i \in Nat
      /\ relayMap \in [Node -> Node \cup {None}] /\ gwLoad \in [Node -> Nat]
  BY DEF TypeInv, TypeOK
<1> USE DEF TypeInv, TypeOK, CursorInv, runVars, electVars, relayVars, frameVars
<1>1. CASE StayOut
  BY <1>0, <1>1 DEF StayOut
<1>2. CASE Join
  <2>1. nodes' \in Ledger /\ nodes' \in [Node -> NodeState] /\ AliveNodes(nodes)' = AliveNodes(nodes)
    BY <1>2, JoinFacts DEF Ledger
  <2> QED
    BY <1>0, <1>2, <2>1 DEF Join
<1>3. CASE EndJoin
  <2>1. AliveHeads \subseteq Node
    BY <1>0 DEF AliveHeads, Range
  <2>2. [n \in Node |-> None] \in [Node -> Node \cup {None}] /\ [n \in Node |-> 0] \in [Node -> Nat]
    OBVIOUS
  <2> QED
    BY <1>0, <1>3, <2>1, <2>2 DEF EndJoin, Phases
<1>4. ASSUME NEW s \in Node, AssignRelay(s)
      PROVE  TypeInv'
  <2>1. PICK g \in BestGateway(s) : /\ relayMap' = [relayMap EXCEPT ![s] = g]
                                    /\ gwLoad' = [gwLoad EXCEPT ![g] = gwLoad[g] + 1]
    BY <1>4 DEF AssignRelay
  <2>2. g \in Node
    BY <2>1, BestGatewayIn
  <2>3. relayMap' \in [Node -> Node \cup {None}] /\ gwLoad' \in [Node -> Nat]
    BY <1>0, <2>1, <2>2
  <2> QED
    BY <1>0, <1>4, <2>3 DEF AssignRelay
<1>5. ASSUME NEW s \in Node, NoRelay(s)
      PROVE  TypeInv'
  <2>1. relayMap' \in [Node -> Node \cup {None}]
    BY <1>0, <1>5 DEF NoRelay
  <2> QED
    BY <1>0, <1>5, <2>1 DEF NoRelay
<1>6. CASE EndRelay
  BY <1>0, <1>6 DEF EndRelay, Phases
<1> QED
  BY <1>1, <1>2, <1>3, <1>4, <1>5, <1>6 DEF FormationNext

-----------------------------------------------------------------------------
(* The loop of Run keeps the types. *)
LEMMA RunTypes ==
  ASSUME TypeInv, BeginRound \/ EndRun \/ Record
  PROVE  TypeInv'
<1>0. /\ nodes \in Ledger /\ nodes \in [Node -> NodeState] /\ chs \in Seq(Node)
      /\ candidates \subseteq Node /\ todo \subseteq Node /\ i \in Nat
      /\ round \in Nat \ {0}
  BY DEF TypeInv, TypeOK
<1>1. CASE BeginRound
  <2> DEFINE reset(n) == [nodes[n] EXCEPT !.isClusterHead = FALSE,
                                          !.clusterHeadId = None, !.members = <<>>]
  <2>1. nodes' = [n \in Node |-> reset(n)]
    BY <1>1 DEF BeginRound, ResetRoles
  <2>2. <<>> \in Seq(Node) /\ None \in Node \cup {None}
    OBVIOUS
  <2>3. \A n \in Node : nodes[n] \in NodeState /\ Battery(nodes[n])
    BY <1>0 DEF Ledger
  <2>4. \A n \in Node : reset(n) \in NodeState
    BY <2>2, <2>3, Zenon DEF NodeState
  <2>5. \A n \in Node : /\ reset(n).energy = nodes[n].energy
                        /\ reset(n).alive = nodes[n].alive
                        /\ reset(n).isClusterHead = FALSE
                        /\ reset(n).clusterHeadId = None
    BY <2>3 DEF NodeState
  <2> HIDE DEF reset
  <2>6. nodes' \in Ledger /\ nodes' \in [Node -> NodeState]
    BY <2>1, <2>3, <2>4, <2>5 DEF Ledger, Battery
  <2>7. candidates = {} /\ candidates' = {}
    BY <1>1 DEF BeginRound, TypeInv, CursorInv, electVars
  <2>8. event' \in Point
    BY <1>1, StateAssumption DEF BeginRound
  <2> QED
    BY <1>0, <1>1, <2>2, <2>6, <2>7, <2>8
    DEF BeginRound, TypeInv, TypeOK, CursorInv, Phases, runVars, electVars, relayVars
<1>2. CASE EndRun
  BY <1>0, <1>2 DEF EndRun, TypeInv, TypeOK, CursorInv, Phases, runVars, electVars,
     relayVars, frameVars
<1>3. CASE Record
  <2>1. /\ CountDeadNodes(nodes) \in 0 .. N /\ CountClusterHeads(nodes) \in Nat
        /\ N \in Nat
    BY CountTypes, StateAssumption
  <2>2. /\ firstDead' \in Nat /\ lastDead' \in Nat
        /\ round' \in Nat \ {0} /\ pc' \in Phases /\ pc' \in {"run", "done"}
    BY <1>0, <1>3, <2>1 DEF Record, TypeInv, TypeOK, Phases
  <2>3. /\ row'.round \in Nat /\ row'.dead \in Nat
        /\ row'.alive \in Int /\ row'.chs \in Nat
    BY <1>0, <1>3, <2>1 DEF Record
  <2> QED
    BY <1>0, <1>3, <2>2, <2>3
    DEF Record, TypeInv, TypeOK, CursorInv, electVars, relayVars, frameVars
<1> QED
  BY <1>1, <1>2, <1>3

(* The initial states have the types. *)
LEMMA InitTypes == Init => TypeInv
<1> SUFFICES ASSUME Init PROVE TypeInv
  OBVIOUS
<1>1. InitialEnergy \in 0 .. InitialEnergy /\ InitialEnergy > 0 /\ <<>> \in Seq(Node)
      /\ BaseStation \in Point /\ N \in Nat
  BY StateAssumption, RadioAssumption
<1>2. FreshNode \in NodeState /\ Battery(FreshNode)
  BY <1>1 DEF FreshNode, NodeState, Battery
<1>3. nodes = [n \in Node |-> FreshNode]
  BY DEF Init
<1> HIDE DEF FreshNode
<1>4. nodes \in Ledger /\ nodes \in [Node -> NodeState]
  BY <1>2, <1>3 DEF Ledger
<1>5. row.round \in Nat /\ row.dead \in Nat /\ row.alive \in Int /\ row.chs \in Nat
  BY <1>1 DEF Init, Header
<1>6. TypeOK
  BY <1>1, <1>4, <1>5, StateAssumption DEF Init, TypeOK, Phases
<1>7. CursorInv
  BY DEF Init, CursorInv
<1> QED
  BY <1>4, <1>6, <1>7 DEF TypeInv

(* Every step keeps the types. *)
LEMMA NextTypes == TypeInv /\ [Next]_vars => TypeInv'
<1> SUFFICES ASSUME TypeInv, [Next]_vars PROVE TypeInv'
  OBVIOUS
<1>1. CASE BeginRound \/ EndRun \/ Record
  BY <1>1, RunTypes
<1>2. CASE ElectionNext
  BY <1>2, ElectionTypes
<1>3. CASE FormationNext
  BY <1>3, FormationTypes
<1>4. CASE DataPhaseNext
  BY <1>4, DataPhaseTypes
<1>5. CASE UNCHANGED vars
  BY <1>5 DEF vars, runVars, electVars, relayVars, frameVars, TypeInv, TypeOK, CursorInv,
     Ledger, AliveNodes
<1> QED
  BY <1>1, <1>2, <1>3, <1>4, <1>5 DEF Next, Done

(* The invariant the other theorems rest on. *)
THEOREM Typed == Spec => []TypeInv
<1>1. Init => TypeInv
  BY InitTypes
<1>2. TypeInv /\ [Next]_vars => TypeInv'
  BY NextTypes
<1> QED
  BY <1>1, <1>2, PTL DEF Spec

(* Every variable keeps its type: no charge overdraws a battery, no cast   *)
(* of a cluster head's id leaves a number that is neither a node nor None. *)
THEOREM TypeCorrect == Spec => []TypeOK
<1>1. TypeInv => TypeOK
  BY DEF TypeInv
<1> QED
  BY <1>1, Typed, PTL

(* A node is alive exactly while it has energy, the dead hold no role.     *)
THEOREM BatteryCorrect == Spec => []BatteryInv
<1>1. TypeInv => BatteryInv
  BY DEF TypeInv, Ledger, Battery, BatteryInv
<1> QED
  BY <1>1, Typed, PTL

-----------------------------------------------------------------------------
(***************************************************************************)
(* The cluster heads of a round: the vector chs and the flag isClusterHead *)
(* agree, an election finds a head, and heads die only once clusters       *)
(* exist.  Then what the election rules promise: rotation (LEACH), the     *)
(* distance between heads and the threshold (LECMAC, LECMAC+).             *)
(***************************************************************************)
(* The phases before anybody pays. *)
Electing == pc \in {"draw", "elect", "fallback"}
Quiet == Electing \/ pc \in {"join", "relay"} \/ (pc = "advertise" /\ i = 1)

(* Nobody is offered twice to the election. *)
NotYetHeads ==
  /\ pc = "draw" => \A h \in Heads : h < i
  /\ pc = "draw" /\ Lecmac => chs = <<>>
  /\ pc = "elect" => todo \cap Heads = {}

(* What the election promises to the rest of the round. *)
HeadsFound ==
  /\ pc = "run" \/ Electing => AliveNodes(nodes) # {}
  /\ pc \in {"join", "relay"} \cup DataPhases => chs # <<>>
  /\ Quiet => Heads \subseteq AliveNodes(nodes)
  /\ pc \notin {"run", "done"} => round <= MaxRounds

HeadInv == HeadsInv /\ NotYetHeads /\ HeadsFound

-----------------------------------------------------------------------------
(* A sequence without repetitions stays one when a new element is added. *)
LEMMA AppendNew ==
  ASSUME NEW S, NEW s \in Seq(S), NEW e \in S, IsInjective(s), e \notin Range(s)
  PROVE  /\ IsInjective(Append(s, e))
         /\ Range(Append(s, e)) = Range(s) \cup {e}
         /\ Append(s, e) # <<>>
<1> DEFINE t == Append(s, e)
<1>1. /\ DOMAIN s = 1 .. Len(s) /\ DOMAIN t = 1 .. Len(s) + 1 /\ Len(s) \in Nat
      /\ \A k \in DOMAIN s : t[k] = s[k]
      /\ t[Len(s) + 1] = e
  OBVIOUS
<1> HIDE DEF t
<1>2. \A k \in DOMAIN s : s[k] # e
  BY DEF Range
<1>3. IsInjective(t)
  BY <1>1, <1>2 DEF IsInjective
<1>4. Range(t) = Range(s) \cup {e}
  BY <1>1 DEF Range
<1>5. t # <<>>
  BY <1>1
<1> QED
  BY <1>3, <1>4, <1>5 DEF t

(* A new head enters the vector and raises its flag. *)
LEMMA MakeHeadFacts ==
  ASSUME TypeInv, HeadsInv, NEW n \in Node, nodes[n].alive, n \notin Heads, MakeHead(n)
  PROVE  /\ HeadsInv'
         /\ Heads' = Heads \cup {n}
         /\ AliveNodes(nodes)' = AliveNodes(nodes)
         /\ chs' # <<>>
<1>1. /\ chs \in Seq(Node) /\ nodes \in [Node -> NodeState]
      /\ chs' = Append(chs, n) /\ IsInjective(chs)
  BY DEF TypeInv, TypeOK, MakeHead, HeadsInv
<1>2. IsInjective(chs') /\ Heads' = Heads \cup {n} /\ chs' # <<>>
  BY <1>1, AppendNew DEF Heads
<1>3. \A m \in Node : /\ nodes'[m].alive = nodes[m].alive
                      /\ nodes'[m].isClusterHead = (m = n \/ nodes[m].isClusterHead)
  BY <1>1 DEF MakeHead, NodeState
<1>4. HeadsInv'
  BY <1>2, <1>3 DEF HeadsInv
<1> QED
  BY <1>2, <1>3, <1>4 DEF AliveNodes

(* Every election step preserves the invariant. *)
LEMMA ElectionHeads ==
  ASSUME TypeInv, HeadInv, ElectionNext
  PROVE  HeadInv'
<1>0. /\ chs \in Seq(Node) /\ todo \subseteq Node /\ i \in Nat
      /\ \A h \in Heads : h \in Node
      /\ HeadsInv /\ NotYetHeads /\ HeadsFound
  BY DEF TypeInv, TypeOK, HeadInv, Heads, Range
<1>1. /\ Electing
      /\ Heads \subseteq AliveNodes(nodes) /\ AliveNodes(nodes) # {} /\ round <= MaxRounds
      /\ round' = round
  BY <1>0 DEF ElectionNext, PassOver, LoseDraw, WinDraw, BecomeCandidate, EndDraw, BackOff,
     Elect, EndElect, ForceHead, KeepHeads, HeadsFound, Electing, Quiet, runVars
<1>2. ASSUME UNCHANGED <<nodes, chs>>
      PROVE  HeadsInv' /\ Heads' = Heads /\ AliveNodes(nodes)' = AliveNodes(nodes)
  BY <1>0, <1>2 DEF HeadsInv, Heads, AliveNodes
<1>3. CASE PassOver \/ LoseDraw \/ BecomeCandidate
  <2>1. /\ pc = "draw" /\ pc' = "draw" /\ i' = i + 1 /\ UNCHANGED <<nodes, chs>>
    BY <1>3 DEF PassOver, LoseDraw, BecomeCandidate
  <2>2. NotYetHeads'
    BY <1>0, <1>2, <2>1 DEF NotYetHeads, Node
  <2> QED
    BY <1>1, <1>2, <2>1, <2>2 DEF HeadInv, HeadsFound, DataPhases, Quiet, Electing
<1>4. CASE WinDraw
  <2>1. /\ pc = "draw" /\ pc' = "draw" /\ i \in Node /\ i' = i + 1 /\ ~Lecmac
        /\ nodes[i].alive /\ MakeHead(i)
    BY <1>4 DEF WinDraw, Eligible
  <2>2. i \notin Heads
    BY <1>0, <2>1 DEF NotYetHeads, Node
  <2>3. /\ HeadsInv' /\ Heads' = Heads \cup {i}
        /\ AliveNodes(nodes)' = AliveNodes(nodes)
    BY <1>0, <2>1, <2>2, MakeHeadFacts
  <2>4. NotYetHeads'
    BY <1>0, <2>1, <2>3 DEF NotYetHeads, Node, Lecmac
  <2> QED
    BY <1>1, <2>1, <2>3, <2>4 DEF HeadInv, HeadsFound, DataPhases, Quiet, Electing, AliveNodes
<1>5. CASE EndDraw
  <2>1. /\ pc = "draw" /\ UNCHANGED <<nodes, chs>>
        /\ pc' = IF Lecmac THEN "elect" ELSE "fallback"
    BY <1>5 DEF EndDraw
  <2>2. Lecmac => Heads = {}
    BY <1>0, <2>1 DEF NotYetHeads, Heads, Range
  <2>3. NotYetHeads'
    BY <1>2, <2>1, <2>2 DEF NotYetHeads
  <2> QED
    BY <1>1, <1>2, <2>1, <2>3 DEF HeadInv, HeadsFound, DataPhases, Quiet, Electing
<1>6. ASSUME NEW n \in Node, BackOff(n)
      PROVE  HeadInv'
  <2>1. pc = "elect" /\ pc' = "elect" /\ todo' = todo \ {n} /\ UNCHANGED <<nodes, chs>>
    BY <1>6 DEF BackOff
  <2>2. NotYetHeads'
    BY <1>0, <1>2, <2>1 DEF NotYetHeads
  <2> QED
    BY <1>1, <1>2, <2>1, <2>2 DEF HeadInv, HeadsFound, DataPhases, Quiet, Electing
<1>7. ASSUME NEW n \in Node, Elect(n)
      PROVE  HeadInv'
  <2>1. /\ pc = "elect" /\ pc' = "elect" /\ todo' = todo \ {n} /\ n \in todo
        /\ MakeHead(n) /\ nodes[n].alive
    BY <1>7 DEF Elect, NextCandidate, TypeInv, CursorInv, AliveNodes
  <2>2. n \notin Heads
    BY <1>0, <2>1 DEF NotYetHeads
  <2>3. /\ HeadsInv' /\ Heads' = Heads \cup {n}
        /\ AliveNodes(nodes)' = AliveNodes(nodes)
    BY <1>0, <2>1, <2>2, MakeHeadFacts
  <2>4. NotYetHeads'
    BY <1>0, <2>1, <2>3 DEF NotYetHeads
  <2> QED
    BY <1>1, <2>1, <2>3, <2>4 DEF HeadInv, HeadsFound, DataPhases, Quiet, Electing, AliveNodes
<1>8. CASE EndElect
  <2>1. pc = "elect" /\ pc' = "fallback" /\ UNCHANGED <<nodes, chs>>
    BY <1>8 DEF EndElect
  <2>2. NotYetHeads'
    BY <2>1 DEF NotYetHeads
  <2> QED
    BY <1>1, <1>2, <2>1, <2>2 DEF HeadInv, HeadsFound, DataPhases, Quiet, Electing
<1>9. ASSUME NEW n \in Node, ForceHead(n)
      PROVE  HeadInv'
  <2>1. /\ pc' = "join" /\ MakeHead(n) /\ nodes[n].alive /\ chs = <<>>
    BY <1>9 DEF ForceHead, MostEnergetic, ReturnHeads
  <2>2. n \notin Heads
    BY <2>1 DEF Heads, Range
  <2>3. /\ HeadsInv' /\ Heads' = Heads \cup {n} /\ chs' # <<>>
        /\ AliveNodes(nodes)' = AliveNodes(nodes)
    BY <1>0, <2>1, <2>2, MakeHeadFacts
  <2>4. NotYetHeads'
    BY <2>1 DEF NotYetHeads
  <2> QED
    BY <1>1, <2>1, <2>3, <2>4 DEF HeadInv, HeadsFound, DataPhases, Quiet, Electing, AliveNodes
<1>10. CASE KeepHeads
  <2>1. /\ pc' = "join" /\ UNCHANGED <<nodes, chs>>
        /\ chs # <<>> \/ AliveNodes(nodes) = {}
    BY <1>10 DEF KeepHeads, ReturnHeads
  <2>2. NotYetHeads'
    BY <2>1 DEF NotYetHeads
  <2> QED
    BY <1>1, <1>2, <2>1, <2>2 DEF HeadInv, HeadsFound, DataPhases, Quiet, Electing
<1> QED
  BY <1>3, <1>4, <1>5, <1>6, <1>7, <1>8, <1>9, <1>10 DEF ElectionNext

(* Joining gives homes: it takes no energy and moves no role. *)
LEMMA JoinKeepsRoles ==
  ASSUME TypeInv, Join, NEW m \in Node
  PROVE  /\ nodes'[m].isClusterHead = nodes[m].isClusterHead
         /\ nodes'[m].alive = nodes[m].alive
         /\ nodes'[m].energy = nodes[m].energy
         /\ nodes'[m].lastChEpoch = nodes[m].lastChEpoch
<1>1. nodes \in [Node -> NodeState] /\ i \in Node
  BY DEF TypeInv, TypeOK, Join
<1>2. PICK h \in IF JoinTargets = {} THEN {None} ELSE NearestTarget(i) :
        nodes' = JoinTo(nodes, i, h)
  BY DEF Join
<1>3. nodes'[m] = IF m = i THEN [nodes[i] EXCEPT !.clusterHeadId = h]
                  ELSE IF m = h THEN [nodes[h] EXCEPT !.members = Append(nodes[h].members, i)]
                  ELSE nodes[m]
  BY <1>2 DEF JoinTo
<1>4. nodes[m] \in NodeState
  BY <1>1
<1> QED
  BY <1>3, <1>4 DEF NodeState

(* Joins and the relay map keep the invariant of the heads. *)
LEMMA FormationHeads ==
  ASSUME TypeInv, HeadInv, FormationNext
  PROVE  HeadInv'
<1>0. /\ HeadsInv /\ HeadsFound
      /\ Heads \subseteq AliveNodes(nodes) /\ chs # <<>> /\ round <= MaxRounds
  BY DEF HeadInv, HeadsFound, FormationNext, StayOut, Join, EndJoin, AssignRelay, NoRelay,
     EndRelay, Quiet, Electing
<1>1. \A m \in Node : /\ nodes'[m].isClusterHead = nodes[m].isClusterHead
                      /\ nodes'[m].alive = nodes[m].alive
  BY JoinKeepsRoles DEF FormationNext, StayOut, EndJoin, AssignRelay, NoRelay, EndRelay
<1>2. /\ chs' = chs /\ round' = round /\ pc' \in {"join", "relay", "advertise"}
  BY DEF FormationNext, StayOut, Join, EndJoin, AssignRelay, NoRelay, EndRelay, runVars
<1>3. HeadsInv' /\ Heads' = Heads /\ AliveNodes(nodes)' = AliveNodes(nodes)
  BY <1>0, <1>1, <1>2 DEF HeadsInv, Heads, AliveNodes
<1>4. NotYetHeads'
  BY <1>2 DEF NotYetHeads
<1>5. HeadsFound'
  BY <1>0, <1>2, <1>3 DEF HeadsFound, Electing
<1> QED
  BY <1>3, <1>4, <1>5 DEF HeadInv

(* The data phase takes flags back as heads die. *)
LEMMA DataPhaseHeads ==
  ASSUME TypeInv, HeadInv, DataPhaseNext
  PROVE  HeadInv'
<1>0. HeadsInv /\ HeadsFound /\ chs # <<>> /\ round <= MaxRounds
  BY DEF HeadInv, HeadsFound, DataPhaseNext, Advertise, EndAdvertise, NotAMember, SetupMember,
     EndSetup, BeginFrame, EndFrames, SkipCluster, EnterCluster, EndFrame, InSlot, EmptySlot,
     SuppressedSlot, DataSlot, EndSlots, ForwardRelay, ForwardDirect, HeadLost, DataPhases
<1>1. nodes' \in Ledger /\ Paid(nodes, nodes') /\ nodes \in Ledger
  BY DataPhasePays DEF TypeInv
<1>2. /\ chs' = chs /\ round' = round
      /\ pc' \in DataPhases
      /\ ~(pc' = "advertise" /\ i' = 1)
  BY DEF DataPhaseNext, Advertise, EndAdvertise, NotAMember, SetupMember,
     EndSetup, BeginFrame, EndFrames, SkipCluster, EnterCluster, EndFrame, InSlot, EmptySlot,
     SuppressedSlot, DataSlot, EndSlots, ForwardRelay, ForwardDirect, HeadLost, NextCluster,
     DataPhases, runVars, TypeInv, CursorInv, TypeOK
<1>3. \A n \in Node : nodes'[n].isClusterHead <=> nodes[n].isClusterHead /\ nodes'[n].alive
  BY <1>1 DEF Paid, Spends, Ledger, Battery, NodeState
<1>4. \A n \in Node : nodes'[n].alive => nodes[n].alive
  BY <1>1 DEF Paid, Spends
<1>5. HeadsInv'
  BY <1>0, <1>2, <1>3, <1>4 DEF HeadsInv, Heads
<1>6. NotYetHeads'
  BY <1>2 DEF NotYetHeads, DataPhases
<1>7. HeadsFound'
  BY <1>0, <1>2 DEF HeadsFound, Electing, Quiet, DataPhases
<1> QED
  BY <1>5, <1>6, <1>7 DEF HeadInv

(* Somebody is alive when not everybody is dead. *)
LEMMA SomebodyAlive ==
  ASSUME CountDeadNodes(nodes) < N
  PROVE  AliveNodes(nodes) # {}
<1> SUFFICES ASSUME AliveNodes(nodes) = {} PROVE FALSE
  OBVIOUS
<1>1. CountDeadNodes(nodes) = N /\ N \in Nat
  BY NodeFinite, StateAssumption DEF CountDeadNodes
<1> QED
  BY <1>1

(* When N nodes are dead, none is alive. *)
LEMMA NobodyAlive ==
  ASSUME CountDeadNodes(nodes) >= N
  PROVE  AliveNodes(nodes) = {}
<1>1. IsFiniteSet(Node) /\ Cardinality(Node) = N /\ N \in Nat
  BY NodeFinite, StateAssumption
<1>2. Node \ AliveNodes(nodes) \subseteq Node
  OBVIOUS
<1>3. /\ Cardinality(Node \ AliveNodes(nodes)) <= Cardinality(Node)
      /\ Cardinality(Node \ AliveNodes(nodes)) \in Nat
      /\ Cardinality(Node) = Cardinality(Node \ AliveNodes(nodes)) =>
            Node \ AliveNodes(nodes) = Node
  BY <1>1, <1>2, FS_Subset, FS_CardinalityType
<1>4. Node \ AliveNodes(nodes) = Node
  BY <1>1, <1>3 DEF CountDeadNodes
<1> QED
  BY <1>4 DEF AliveNodes

(* The round loop keeps the invariant of the heads. *)
LEMMA RunHeads ==
  ASSUME TypeInv, HeadInv, BeginRound \/ EndRun \/ Record
  PROVE  HeadInv'
<1>0. HeadsInv /\ HeadsFound /\ nodes \in [Node -> NodeState]
  BY DEF HeadInv, TypeInv, TypeOK
<1>1. CASE BeginRound
  <2>1. /\ nodes' = ResetRoles(nodes) /\ chs' = <<>> /\ pc' = "draw" /\ round' = round
        /\ round <= MaxRounds /\ CountDeadNodes(nodes) < N
    BY <1>1 DEF BeginRound, MoreRounds, runVars
  <2>2. \A n \in Node : /\ nodes'[n].isClusterHead = FALSE
                        /\ nodes'[n].alive = nodes[n].alive
    BY <1>0, <2>1 DEF ResetRoles, NodeState
  <2>3. Heads' = {} /\ IsInjective(chs')
    BY <2>1 DEF Heads, Range, IsInjective
  <2>4. AliveNodes(nodes)' # {}
    BY <2>1, <2>2, SomebodyAlive DEF AliveNodes
  <2> QED
    BY <2>1, <2>2, <2>3, <2>4
    DEF HeadInv, HeadsInv, NotYetHeads, HeadsFound, Electing, Quiet, DataPhases
<1>2. CASE EndRun
  BY <1>0, <1>2 DEF EndRun, HeadInv, HeadsInv, NotYetHeads, HeadsFound, Electing, Quiet,
     DataPhases, Heads, AliveNodes, runVars
<1>3. CASE Record
  <2>1. /\ UNCHANGED <<nodes, chs>> /\ pc' \in {"run", "done"}
        /\ pc' = "run" => ~(CountDeadNodes(nodes) >= N)
    BY <1>3 DEF Record
  <2>2. pc' = "run" => AliveNodes(nodes)' # {}
    BY <2>1, CountTypes, StateAssumption, SomebodyAlive DEF AliveNodes
  <2> QED
    BY <1>0, <2>1, <2>2 DEF HeadInv, HeadsInv, NotYetHeads, HeadsFound, Electing, Quiet,
       DataPhases, Heads, AliveNodes
<1> QED
  BY <1>1, <1>2, <1>3

(* At the start there are no heads. *)
LEMMA InitHeads == Init => HeadInv
<1> SUFFICES ASSUME Init PROVE HeadInv
  OBVIOUS
<1>1. nodes = [n \in Node |-> FreshNode] /\ chs = <<>> /\ pc = "run" /\ 0 \in Node
  BY StateAssumption DEF Init, Node
<1>2. \A n \in Node : nodes[n].alive = TRUE /\ nodes[n].isClusterHead = FALSE
  BY <1>1 DEF FreshNode
<1>3. Heads = {} /\ IsInjective(chs)
  BY <1>1 DEF Heads, Range, IsInjective
<1> QED
  BY <1>1, <1>2, <1>3
  DEF HeadInv, HeadsInv, NotYetHeads, HeadsFound, Electing, Quiet, DataPhases, AliveNodes

(* The invariant of the heads is inductive. *)
LEMMA NextHeads == TypeInv /\ HeadInv /\ [Next]_vars => HeadInv'
<1> SUFFICES ASSUME TypeInv, HeadInv, [Next]_vars PROVE HeadInv'
  OBVIOUS
<1>1. CASE BeginRound \/ EndRun \/ Record
  BY <1>1, RunHeads
<1>2. CASE ElectionNext
  BY <1>2, ElectionHeads
<1>3. CASE FormationNext
  BY <1>3, FormationHeads
<1>4. CASE DataPhaseNext
  BY <1>4, DataPhaseHeads
<1>5. CASE UNCHANGED vars
  BY <1>5 DEF vars, runVars, HeadInv, HeadsInv, NotYetHeads, HeadsFound, Electing, Quiet,
     Heads, AliveNodes
<1> QED
  BY <1>1, <1>2, <1>3, <1>4, <1>5 DEF Next, Done

(* The invariant of the heads holds in every state. *)
THEOREM HeadsKept == Spec => []HeadInv
<1>1. Init => HeadInv
  BY InitHeads
<1>2. TypeInv /\ HeadInv /\ [Next]_vars => HeadInv'
  BY NextHeads
<1> QED
  BY <1>1, <1>2, Typed, PTL DEF Spec

(* The vector of the heads and their flags agree in every state of every   *)
(* run: no head is listed twice, and the flag is up exactly on the listed  *)
(* nodes still alive.                                                      *)
THEOREM HeadsCorrect == Spec => []HeadsInv
<1>1. HeadInv => HeadsInv
  BY DEF HeadInv
<1> QED
  BY <1>1, HeadsKept, PTL

-----------------------------------------------------------------------------
(***************************************************************************)
(* The back-off of LECMAC and LECMAC+, and the heads forced by the         *)
(* fallback.                                                               *)
(***************************************************************************)

(* A candidate is a head, or lost against one near it with no less energy. *)
Settled(n) ==
  \E h \in Heads :
    /\ h = n \/ Distance2(n, h) < PT2
    /\ nodes[h].energy >= nodes[n].energy

HeadsApart == \A g, h \in Heads : g # h => Distance2(g, h) >= PT2

(* How far the candidates have been gone through: those that are left have *)
(* no more energy than the heads found, and all of them passed the test of *)
(* the threshold.                                                          *)
BackOffInv ==
  Lecmac =>
    /\ HeadsApart
    /\ pc \in {"elect", "fallback"} => \A n \in candidates \ todo : Settled(n)
    /\ pc = "elect" => \A h \in Heads, n \in todo : nodes[h].energy >= nodes[n].energy
    /\ pc = "fallback" => todo = {}
    /\ Electing => \A n \in candidates \cup Heads : Eligible(n)
    /\ WeakHeadInv

NoBackOff == pc = "elect" => Lecmac
CandidatesInv == ~Lecmac => candidates = {}

ElectInv == BackOffInv /\ NoBackOff /\ CandidatesInv

(* Distances are the same both ways. *)
LEMMA Dist2Symmetric ==
  ASSUME NEW p \in Point, NEW q \in Point
  PROVE  Dist2(p, q) = Dist2(q, p)
<1>1. \A a, b \in Int : (a - b) * (a - b) = (b - a) * (b - a)
  OBVIOUS
<1>2. p.x \in Int /\ p.y \in Int /\ q.x \in Int /\ q.y \in Int
  BY DEF Point
<1> QED
  BY <1>1, <1>2 DEF Dist2

(* The sum of the energies depends on nothing else of the nodes. *)
LEMMA EnergyOfSame ==
  ASSUME NEW ns, NEW ms, NEW S, \A n \in S : ns[n].energy = ms[n].energy
  PROVE  EnergyOf(ns, S) = EnergyOf(ms, S)
<1> DEFINE x(s) == CHOOSE n \in s : TRUE
           f(iter) == [s \in SUBSET S |->
                         IF s = {} THEN 0 ELSE ns[x(s)].energy + iter[s \ {x(s)}]]
           g(iter) == [s \in SUBSET S |->
                         IF s = {} THEN 0 ELSE ms[x(s)].energy + iter[s \ {x(s)}]]
           F == CHOOSE iter : iter = f(iter)
           G == CHOOSE iter : iter = g(iter)
<1>1. \A s \in SUBSET S : s # {} => x(s) \in S
  OBVIOUS
<1>2. ASSUME NEW iter PROVE f(iter) = g(iter)
  BY <1>1
<1>3. F = G
  <2> HIDE DEF f, g
  <2> QED
    BY <1>2
<1>4. EnergyOf(ns, S) = F[S] /\ EnergyOf(ms, S) = G[S]
  BY DEF EnergyOf, MapThenSumSet, MapThenFoldSet
<1> HIDE DEF F, G
<1> QED
  BY <1>3, <1>4

(* Who may be drawn in LECMAC and LECMAC+ depends on energy and life only. *)
LEMMA EligibleSame ==
  ASSUME Lecmac, NEW n \in Node,
         \A m \in Node : /\ nodes'[m].energy = nodes[m].energy
                         /\ nodes'[m].alive = nodes[m].alive
  PROVE  Eligible(n)' <=> Eligible(n)
<1>1. AliveNodes(nodes') = AliveNodes(nodes) /\ AliveNodes(nodes) \subseteq Node
  BY DEF AliveNodes
<1>2. EnergyOf(nodes', AliveNodes(nodes')) = EnergyOf(nodes, AliveNodes(nodes))
  BY <1>1, EnergyOfSame
<1>3. AboveAdaptiveTE(nodes[n].energy)' <=> AboveAdaptiveTE(nodes[n].energy)
  BY <1>1, <1>2 DEF AboveAdaptiveTE
<1>4. Protocol # "LEACH"
  BY DEF Lecmac
<1> QED
  BY <1>3, <1>4 DEF Eligible

(* A head that is made keeps its energy. *)
LEMMA MakeHeadEnergy ==
  ASSUME TypeInv, NEW n \in Node, MakeHead(n), NEW m \in Node
  PROVE  nodes'[m].energy = nodes[m].energy /\ nodes'[m].alive = nodes[m].alive
BY DEF TypeInv, TypeOK, NodeState, MakeHead

(* A step of the election keeps the invariant of the back-off. *)
LEMMA ElectionBackOff ==
  ASSUME TypeInv, HeadInv, ElectInv, ElectionNext
  PROVE  ElectInv'
<1>0. /\ nodes \in [Node -> NodeState] /\ pos \in [Node -> Point] /\ PT2 \in Nat
      /\ candidates \subseteq Node /\ todo \subseteq Node /\ i \in Nat
      /\ Heads \subseteq Node /\ chs \in Seq(Node)
      /\ pc = "elect" => todo \subseteq candidates
      /\ pos' = pos
  <2>1. pos' = pos
    BY DEF ElectionNext, PassOver, LoseDraw, WinDraw, BecomeCandidate, EndDraw, BackOff,
       Elect, EndElect, ForceHead, KeepHeads
  <2>2. chs \in Seq(Node) /\ Heads \subseteq Node
    BY DEF TypeInv, TypeOK, Heads, Range
  <2> QED
    BY <2>1, <2>2, StateAssumption DEF TypeInv, TypeOK, CursorInv
<1>1. NoBackOff' /\ CandidatesInv'
  <2>1. (pc' = "elect" => pc = "elect" \/ Lecmac) /\ Lecmac' = Lecmac
    BY DEF ElectionNext, PassOver, LoseDraw, WinDraw, BecomeCandidate, EndDraw, BackOff,
       Elect, EndElect, ForceHead, KeepHeads, ReturnHeads, Lecmac
  <2>2. candidates' = candidates \/ candidates' = {} \/ Lecmac
    BY DEF ElectionNext, PassOver, LoseDraw, WinDraw, BecomeCandidate, EndDraw, BackOff,
       Elect, EndElect, ForceHead, KeepHeads, ReturnHeads, electVars
  <2> QED
    BY <2>1, <2>2 DEF ElectInv, NoBackOff, CandidatesInv
<1>2. Lecmac' = Lecmac
  BY DEF Lecmac
<1> SUFFICES ASSUME Lecmac PROVE BackOffInv'
  BY <1>1, <1>2 DEF ElectInv, BackOffInv
<1>3. /\ HeadsApart
      /\ pc \in {"elect", "fallback"} => \A n \in candidates \ todo : Settled(n)
      /\ pc = "elect" => \A h \in Heads, n \in todo : nodes[h].energy >= nodes[n].energy
      /\ pc = "fallback" => todo = {}
      /\ \A n \in candidates \cup Heads : Eligible(n)
      /\ Electing
      /\ pc = "draw" => Heads = {}
  <2>1. Electing
    BY DEF ElectionNext, PassOver, LoseDraw, WinDraw, BecomeCandidate, EndDraw, BackOff,
       Elect, EndElect, ForceHead, KeepHeads, Electing
  <2>2. pc = "draw" => Heads = {}
    BY DEF HeadInv, NotYetHeads, Heads, Range
  <2> QED
    BY <2>1, <2>2 DEF ElectInv, BackOffInv
<1>4. ASSUME UNCHANGED <<nodes, chs>>
      PROVE  /\ Heads' = Heads /\ HeadsApart' = HeadsApart
             /\ \A n : Settled(n)' <=> Settled(n)
             /\ \A n \in Node : Eligible(n)' <=> Eligible(n)
  <2>1. Heads' = Heads
    BY <1>4 DEF Heads
  <2> QED
    BY <1>0, <1>4, <2>1, EligibleSame DEF HeadsApart, Settled, Distance2
<1>5. CASE PassOver \/ LoseDraw
  <2>1. pc = "draw" /\ pc' = "draw" /\ UNCHANGED <<nodes, chs, candidates>>
    BY <1>5 DEF PassOver, LoseDraw, electVars
  <2> QED
    BY <1>0, <1>3, <1>4, <2>1 DEF BackOffInv, WeakHeadInv, Electing
<1>6. CASE BecomeCandidate
  <2>1. /\ pc = "draw" /\ pc' = "draw" /\ UNCHANGED <<nodes, chs>>
        /\ candidates' = candidates \cup {i} /\ Eligible(i) /\ i \in Node
    BY <1>6 DEF BecomeCandidate
  <2> QED
    BY <1>0, <1>3, <1>4, <2>1 DEF BackOffInv, WeakHeadInv, Electing
<1>7. CASE WinDraw
  BY <1>7 DEF WinDraw
<1>8. CASE EndDraw
  <2>1. /\ pc = "draw" /\ pc' = "elect" /\ UNCHANGED <<nodes, chs, candidates>>
        /\ todo' = candidates
    BY <1>8 DEF EndDraw, electVars
  <2> QED
    BY <1>0, <1>3, <1>4, <2>1 DEF BackOffInv, WeakHeadInv, Electing
<1>9. ASSUME NEW n \in Node, BackOff(n)
      PROVE  BackOffInv'
  <2>1. /\ pc = "elect" /\ pc' = "elect" /\ UNCHANGED <<nodes, chs, candidates>>
        /\ todo' = todo \ {n} /\ n \in todo /\ TooClose(n)
    BY <1>9 DEF BackOff, NextCandidate, electVars
  <2>2. Settled(n)
    BY <1>3, <2>1 DEF TooClose, Settled, Heads
  <2> QED
    BY <1>0, <1>3, <1>4, <2>1, <2>2 DEF BackOffInv, WeakHeadInv, Electing
<1>10. ASSUME NEW n \in Node, Elect(n)
       PROVE  BackOffInv'
  <2>1. /\ pc = "elect" /\ pc' = "elect" /\ candidates' = candidates
        /\ todo' = todo \ {n} /\ n \in todo /\ ~TooClose(n) /\ MakeHead(n)
        /\ \A m \in todo : nodes[m].energy <= nodes[n].energy
    BY <1>10 DEF Elect, NextCandidate, electVars
  <2>2. Heads' = Heads \cup {n}
    <3>1. nodes[n].alive /\ n \notin Heads
      BY <1>0, <2>1 DEF TypeInv, CursorInv, AliveNodes, HeadInv, NotYetHeads
    <3> QED
      BY <2>1, <3>1, MakeHeadFacts DEF HeadInv
  <2>3. \A m \in Node : nodes'[m].energy = nodes[m].energy /\ nodes'[m].alive = nodes[m].alive
    BY <2>1, MakeHeadEnergy
  <2>4. \A m \in Node : nodes[m].energy \in Int
    BY <1>0, StateAssumption DEF NodeState
  <2>5. HeadsApart'
    <3>1. \A h \in Heads : /\ Distance2(n, h) >= PT2
                           /\ Distance2(h, n) = Distance2(n, h)
      BY <1>0, <2>1, Distance2Type, Dist2Symmetric DEF TooClose, Heads, Distance2
    <3> QED
      BY <1>0, <1>3, <2>2, <3>1 DEF HeadsApart, Distance2
  <2>6. \A m \in candidates' \ todo' : Settled(m)'
    <3>1. Settled(n)'
      BY <2>2, <2>3, <2>4 DEF Settled
    <3>2. \A m \in Node : Settled(m) => Settled(m)'
      BY <1>0, <2>2, <2>3 DEF Settled, Distance2
    <3> QED
      BY <1>0, <1>3, <2>1, <3>1, <3>2
  <2>7. \A h \in Heads', m \in todo' : nodes'[h].energy >= nodes'[m].energy
    <3>1. \A m \in todo : nodes[n].energy >= nodes[m].energy
      BY <1>0, <2>1, <2>4
    <3> QED
      BY <1>0, <1>3, <2>1, <2>2, <2>3, <3>1
  <2>8. \A m \in candidates' \cup Heads' : Eligible(m)'
    BY <1>0, <1>3, <2>1, <2>2, <2>3, EligibleSame
  <2> QED
    BY <2>1, <2>5, <2>6, <2>7, <2>8 DEF BackOffInv, WeakHeadInv
<1>11. CASE EndElect
  <2>1. /\ pc = "elect" /\ pc' = "fallback" /\ UNCHANGED <<nodes, chs, candidates, todo>>
        /\ todo = {}
    BY <1>11 DEF EndElect, electVars
  <2> QED
    BY <1>0, <1>3, <1>4, <2>1 DEF BackOffInv, WeakHeadInv, Electing
<1>12. ASSUME NEW n \in Node, ForceHead(n)
       PROVE  BackOffInv'
  <2>1. /\ pc' = "join" /\ chs = <<>> /\ MakeHead(n) /\ MostEnergetic(n)
    BY <1>12 DEF ForceHead, ReturnHeads
  <2>2. Heads' = {n}
    <3>1. Heads = {} /\ nodes[n].alive
      BY <2>1 DEF Heads, Range, MostEnergetic
    <3> QED
      BY <2>1, <3>1, MakeHeadFacts DEF HeadInv
  <2>3. \A m \in Node : nodes'[m].energy = nodes[m].energy /\ nodes'[m].alive = nodes[m].alive
    BY <2>1, MakeHeadEnergy
  <2>4. \A m \in AliveNodes(nodes)' : nodes'[m].energy <= nodes'[n].energy
    <3>1. \A m \in Node : nodes[m].energy \in Int
      BY <1>0, StateAssumption DEF NodeState
    <3>2. AliveNodes(nodes)' = AliveNodes(nodes) /\ AliveNodes(nodes) \subseteq Node
      BY <2>3 DEF AliveNodes
    <3> QED
      BY <2>1, <2>3, <3>1, <3>2 DEF MostEnergetic
  <2> QED
    BY <2>1, <2>2, <2>4 DEF BackOffInv, WeakHeadInv, HeadsApart, Electing
<1>13. CASE KeepHeads
  <2>1. pc' = "join" /\ UNCHANGED <<nodes, chs>>
    BY <1>13 DEF KeepHeads, ReturnHeads
  <2> QED
    BY <1>0, <1>3, <1>4, <2>1 DEF BackOffInv, WeakHeadInv, Electing
<1> QED
  BY <1>5, <1>6, <1>7, <1>8, <1>9, <1>10, <1>11, <1>12, <1>13 DEF ElectionNext

(* The invariant of the back-off is inductive. *)
LEMMA NextBackOff == TypeInv /\ HeadInv /\ ElectInv /\ [Next]_vars => ElectInv'
<1> SUFFICES ASSUME TypeInv, HeadInv, ElectInv, [Next]_vars PROVE ElectInv'
  OBVIOUS
<1>0. /\ nodes \in [Node -> NodeState] /\ Lecmac' = Lecmac
      /\ Heads \subseteq Node
  BY DEF TypeInv, TypeOK, Lecmac, Heads, Range
<1>1. CASE ElectionNext
  BY <1>1, ElectionBackOff
<1>2. CASE BeginRound
  <2>1. chs' = <<>> /\ pc' = "draw" /\ candidates' = candidates /\ candidates = {}
    BY <1>2 DEF BeginRound, TypeInv, CursorInv, electVars
  <2>2. Heads' = {}
    BY <2>1 DEF Heads, Range
  <2> QED
    BY <2>1, <2>2 DEF ElectInv, BackOffInv, NoBackOff, CandidatesInv, HeadsApart, WeakHeadInv
<1>3. CASE EndRun \/ Record \/ DataPhaseNext \/ UNCHANGED vars \/ EndJoin \/ EndRelay
           \/ \E s \in Node : AssignRelay(s) \/ NoRelay(s)
  <2>1. /\ chs' = chs /\ pos' = pos /\ candidates' = candidates
        /\ pc' \notin {"draw", "elect", "fallback", "join"} \/ UNCHANGED vars
    BY <1>3 DEF EndRun, Record, EndJoin, EndRelay, AssignRelay, NoRelay, DataPhaseNext,
       Advertise, EndAdvertise, NotAMember, SetupMember, EndSetup, BeginFrame, EndFrames,
       SkipCluster, EnterCluster, EndFrame, InSlot, EmptySlot, SuppressedSlot, DataSlot,
       EndSlots, ForwardRelay, ForwardDirect, HeadLost, NextCluster, electVars, vars
  <2>2. Heads' = Heads /\ HeadsApart' = HeadsApart
    BY <2>1 DEF Heads, HeadsApart, Distance2
  <2>3. CASE pc' \notin {"draw", "elect", "fallback", "join"}
    BY <1>0, <2>1, <2>2, <2>3
    DEF ElectInv, BackOffInv, NoBackOff, CandidatesInv, WeakHeadInv, Electing
  <2>4. CASE UNCHANGED vars
    <3>1. UNCHANGED <<pc, round, nodes, chs, pos, candidates, todo>>
      BY <2>4 DEF vars, runVars, electVars
    <3> QED
      BY <3>1 DEF ElectInv, BackOffInv, NoBackOff, CandidatesInv, WeakHeadInv, Electing,
         HeadsApart, Heads, Settled, Eligible, AboveAdaptiveTE, Epoch, Distance2, AliveNodes
  <2> QED
    BY <2>1, <2>3, <2>4
<1>4. CASE StayOut \/ Join
  <2>1. /\ chs' = chs /\ pos' = pos /\ candidates' = candidates /\ pc = "join" /\ pc' = "join"
        /\ \A m \in Node : /\ nodes'[m].energy = nodes[m].energy
                           /\ nodes'[m].alive = nodes[m].alive
    BY <1>4, JoinKeepsRoles DEF StayOut, Join, electVars
  <2>2. Heads' = Heads /\ HeadsApart' = HeadsApart /\ AliveNodes(nodes)' = AliveNodes(nodes)
    BY <2>1 DEF Heads, HeadsApart, Distance2, AliveNodes
  <2>3. Lecmac => WeakHeadInv'
    <3> SUFFICES ASSUME Lecmac, NEW h \in Heads, ~Eligible(h)'
                 PROVE  /\ Heads = {h}
                        /\ \A n \in AliveNodes(nodes) : nodes'[n].energy <= nodes'[h].energy
      BY <2>2 DEF WeakHeadInv
    <3>1. ~Eligible(h)
      BY <1>0, <2>1, EligibleSame
    <3> QED
      BY <1>0, <2>1, <3>1 DEF ElectInv, BackOffInv, WeakHeadInv, AliveNodes
  <2> QED
    BY <1>0, <2>1, <2>2, <2>3 DEF ElectInv, BackOffInv, NoBackOff, CandidatesInv, Electing
<1> QED
  BY <1>1, <1>2, <1>3, <1>4 DEF Next, FormationNext, Done

(* The invariant of the back-off holds in every state. *)
THEOREM BackOffKept == Spec => []ElectInv
<1>1. Init => ElectInv
  <2> SUFFICES ASSUME Init PROVE ElectInv
    OBVIOUS
  <2>1. pc = "run" /\ candidates = {} /\ Heads = {}
    BY DEF Init, Heads, Range
  <2> QED
    BY <2>1 DEF ElectInv, BackOffInv, NoBackOff, CandidatesInv, HeadsApart, WeakHeadInv, Electing
<1>2. TypeInv /\ HeadInv /\ ElectInv /\ [Next]_vars => ElectInv'
  BY NextBackOff
<1> QED
  BY <1>1, <1>2, Typed, HeadsKept, PTL DEF Spec

(* LECMAC, LECMAC+: heads are PT apart, and a candidate was turned away    *)
(* only by a head near it with at least its energy, in whatever order      *)
(* std::sort leaves candidates of equal energy (lines 438-464, 497-520).   *)
THEOREM ProximityCorrect == Spec => []ProximityInv
<1>1. ElectInv => ProximityInv
  BY DEF ElectInv, BackOffInv, CandidatesInv, ProximityInv, HeadsApart, Settled
<1> QED
  BY <1>1, BackOffKept, PTL

(* LECMAC, LECMAC+: a head that did not pass the (adaptive) threshold is   *)
(* the only one, and nobody alive has more energy (lines 523-545).         *)
THEOREM WeakHeadsCorrect == Spec => []WeakHeadInv
<1>1. ElectInv => WeakHeadInv
  BY DEF ElectInv, BackOffInv, WeakHeadInv
<1> QED
  BY <1>1, BackOffKept, PTL

-----------------------------------------------------------------------------
(***************************************************************************)
(* The rotation of LEACH: in the last round of an epoch no node that has   *)
(* not been a head is passed over.                                         *)
(***************************************************************************)
LastOfEpoch == Protocol = "LEACH" /\ EpochRound = EpochLen - 1

RotationInv ==
  LastOfEpoch =>
    \A n \in AliveNodes(nodes) :
      (pc = "draw" /\ n < i) \/ pc \in {"fallback", "join"} => nodes[n].lastChEpoch = Epoch

(* Becoming a head of LEACH is noted, for that node alone. *)
LEMMA MakeHeadEpoch ==
  ASSUME TypeInv, Protocol = "LEACH", NEW n \in Node, MakeHead(n), NEW m \in Node
  PROVE  /\ nodes'[m].lastChEpoch = IF m = n THEN Epoch ELSE nodes[m].lastChEpoch
         /\ nodes'[m].alive = nodes[m].alive
BY DEF TypeInv, TypeOK, NodeState, MakeHead

(* The invariant of the rotation is inductive. *)
LEMMA NextRotation ==
  TypeInv /\ ElectInv /\ RotationInv /\ [Next]_vars => RotationInv'
<1> SUFFICES ASSUME TypeInv, ElectInv, RotationInv, [Next]_vars, LastOfEpoch',
                    NEW n \in AliveNodes(nodes)',
                    (pc' = "draw" /\ n < i') \/ pc' \in {"fallback", "join"}
             PROVE  nodes'[n].lastChEpoch = Epoch'
  BY DEF RotationInv
<1>0. /\ nodes \in [Node -> NodeState] /\ i \in Nat /\ Protocol = "LEACH" /\ ~Lecmac
      /\ n \in Node /\ nodes'[n].alive
      /\ \A m \in Node : m \in Int
      /\ pc # "elect"
  BY DEF TypeInv, TypeOK, LastOfEpoch, AliveNodes, Node, Lecmac, ElectInv, NoBackOff
<1>1. CASE round' = round
  <2>1. Epoch' = Epoch /\ LastOfEpoch
    BY <1>1 DEF Epoch, EpochRound, LastOfEpoch
  <2>2. \A m \in Node : nodes[m].alive =>
          ((pc = "draw" /\ m < i) \/ pc \in {"fallback", "join"} => nodes[m].lastChEpoch = Epoch)
    BY <2>1 DEF RotationInv, AliveNodes
  <2>3. CASE PassOver
    BY <1>0, <2>1, <2>2, <2>3 DEF PassOver, Eligible
  <2>4. CASE LoseDraw
    BY <1>0, <2>1, <2>4 DEF LoseDraw, DrawOutcomes, LastOfEpoch
  <2>5. CASE WinDraw
    <3>1. pc = "draw" /\ pc' = "draw" /\ i \in Node /\ MakeHead(i) /\ i' = i + 1
      BY <2>5 DEF WinDraw
    <3> QED
      BY <1>0, <2>1, <2>2, <3>1, MakeHeadEpoch
  <2>6. CASE EndDraw
    <3>1. pc = "draw" /\ i \notin Node /\ nodes' = nodes
      BY <2>6 DEF EndDraw
    <3>2. n < i
      BY <1>0, <3>1, StateAssumption DEF Node
    <3> QED
      BY <1>0, <2>1, <2>2, <3>1, <3>2
  <2>7. ASSUME NEW m \in Node, ForceHead(m)
        PROVE  nodes'[n].lastChEpoch = Epoch'
    <3>1. pc = "fallback" /\ MakeHead(m)
      BY <2>7 DEF ForceHead
    <3> QED
      BY <1>0, <2>1, <2>2, <3>1, MakeHeadEpoch
  <2>8. CASE KeepHeads \/ StayOut \/ UNCHANGED vars
    <3>1. pc \in {"draw", "fallback", "join"} /\ nodes' = nodes
          /\ (pc = "draw" => i' = i /\ pc' = "draw")
      BY <2>8 DEF KeepHeads, StayOut, vars
    <3> QED
      BY <1>0, <2>1, <2>2, <3>1
  <2>9. CASE Join
    <3>1. pc = "join" /\ nodes[n].alive /\ nodes'[n].lastChEpoch = nodes[n].lastChEpoch
      BY <1>0, <2>9, JoinKeepsRoles DEF Join
    <3> QED
      BY <1>0, <2>1, <2>2, <3>1
  <2>10. CASE BeginRound
    BY <1>0, <2>10 DEF BeginRound, Node
  <2>11. CASE EndRun \/ Record \/ DataPhaseNext \/ EndJoin \/ EndRelay
              \/ \E s \in Node : AssignRelay(s) \/ NoRelay(s)
    BY <2>11 DEF EndRun, Record, EndJoin, EndRelay, AssignRelay, NoRelay, DataPhaseNext,
       Advertise, EndAdvertise, NotAMember, SetupMember, EndSetup, BeginFrame, EndFrames,
       SkipCluster, EnterCluster, EndFrame, InSlot, EmptySlot, SuppressedSlot, DataSlot,
       EndSlots, ForwardRelay, ForwardDirect, HeadLost, NextCluster
  <2>12. ~BecomeCandidate /\ ~EndElect /\ \A m \in Node : ~BackOff(m) /\ ~Elect(m)
    BY <1>0 DEF BecomeCandidate, EndElect, BackOff, Elect
  <2> QED
    BY <2>3, <2>4, <2>5, <2>6, <2>7, <2>8, <2>9, <2>10, <2>11, <2>12
    DEF Next, ElectionNext, FormationNext, Done
<1>2. CASE round' # round
  <2>1. Record
    BY <1>2 DEF Next, BeginRound, EndRun, ElectionNext, PassOver, LoseDraw, WinDraw,
       BecomeCandidate, EndDraw, BackOff, Elect, EndElect, ForceHead, KeepHeads,
       FormationNext, StayOut, Join, EndJoin, AssignRelay, NoRelay, EndRelay, DataPhaseNext,
       Advertise, EndAdvertise, NotAMember, SetupMember, EndSetup, BeginFrame, EndFrames,
       SkipCluster, EnterCluster, EndFrame, EmptySlot, SuppressedSlot, DataSlot,
       EndSlots, ForwardRelay, ForwardDirect, HeadLost, Done, vars, runVars
  <2> QED
    BY <2>1 DEF Record
<1> QED
  BY <1>1, <1>2

(* LEACH: in the last round of an epoch every node alive has been a head   *)
(* in that epoch once the heads are known, whatever was drawn and whoever  *)
(* was forced in the rounds before (lines 354-410, 523-545).               *)
THEOREM RotationCorrect == Spec => []EpochRotation
<1>1. Init => RotationInv
  BY DEF Init, RotationInv
<1>2. TypeInv /\ ElectInv /\ RotationInv /\ [Next]_vars => RotationInv'
  BY NextRotation
<1>3. RotationInv => EpochRotation
  BY DEF RotationInv, EpochRotation, LastOfEpoch
<1> QED
  BY <1>1, <1>2, <1>3, Typed, BackOffKept, PTL DEF Spec

=============================================================================
