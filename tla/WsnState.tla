------------------------------ MODULE WsnState ------------------------------
(***************************************************************************)
(* The state of WsnRoundSimulator and the operations on a node.            *)
(*                                                                         *)
(* The simulator is one sequential program: pc names the loop that is      *)
(* being executed and an action is one iteration of it.  The modules that  *)
(* extend this one hold the actions of one member function each:           *)
(*   WsnElection    SelectClusterHeads                                     *)
(*   WsnFormation   JoinClusters, BuildRelayMap                            *)
(*   WsnDataPhase   SetupPhase, SteadyStateFrame, SteadyStatePhase         *)
(*   WsnEngine      PrepareNodes, Run, SimulateRound                       *)
(***************************************************************************)
EXTENDS WsnRadio, Sequences, FiniteSets, FiniteSetsExt

CONSTANTS
  Protocol,         \* m_protocol
  N,                \* m_nodesCount
  InitialEnergy,    \* kInitialEnergy
  MaxRounds,        \* m_rounds
  FramesPerRound,   \* kFramesPerRound
  EpochLen,         \* 1 / kLeachP
  ThresholdEnergy,  \* kThresholdEnergy
  MinTE,            \* kMinTE
  PT2,              \* kProximityThreshold, squared
  DE2,              \* m_deThreshold, squared
  MaxClusterSize,   \* kMaxClusterSize
  MaxRelayLoad,     \* kMaxRelayLoad
  UintRange,        \* 2^32, the range of the casts to uint32_t
  Placements,       \* the node placements PrepareNodes may draw
  EventSites        \* the event locations SimulateRound may draw

Node == 0 .. N - 1
None == -1

Protocols == {"LEACH", "ESMAC", "LECMAC", "LECMAC_PLUS"}

(* The protocols with TE, PT, MCS and DE. *)
Lecmac == Protocol \in {"LECMAC", "LECMAC_PLUS"}

ASSUME StateAssumption ==
  /\ Protocol \in Protocols
  /\ N \in Nat \ {0}
  /\ InitialEnergy \in Nat \ {0}
  /\ MaxRounds \in Nat
  /\ FramesPerRound \in Nat
  /\ EpochLen \in Nat \ {0}
  /\ ThresholdEnergy \in Nat
  /\ MinTE \in Nat
  /\ PT2 \in Nat
  /\ DE2 \in Nat
  /\ MaxClusterSize \in Nat \ {0}
  /\ MaxRelayLoad \in Nat
  /\ UintRange \in Nat /\ UintRange > N
  /\ Placements \subseteq [Node -> Point]
  /\ EventSites \subseteq Point

VARIABLES
  pc,          \* the loop being executed
  round,       \* Run: the round counter
  firstDead,   \* Run: firstDeadRound
  lastDead,    \* Run: lastDeadRound
  row,         \* Run: the last line appended to the output file
  pos,         \* the x, y of every node
  nodes,       \* m_nodes
  event,       \* SimulateRound: evX, evY
  chs,         \* the cluster heads of the round, in order of election
  candidates,  \* SelectClusterHeads: candidates, as a set
  todo,        \* what is left of the sorted vector being iterated
  relayMap,    \* m_relayMap; None stands for -1 and for an absent key
  gwLoad,      \* BuildRelayMap: gwLoad
  i,           \* the index of the loop being executed
  slot,        \* SteadyStateFrame: position in the member list of head i
  frame        \* SteadyStatePhase: f

runVars == <<round, firstDead, lastDead, row>>
electVars == <<candidates>>
relayVars == <<relayMap, gwLoad>>
frameVars == <<slot, frame>>
vars == <<pc, runVars, pos, nodes, event, chs, electVars, todo, relayVars, i, frameVars>>

Phases == {"run", "draw", "elect", "fallback", "join", "relay", "advertise",
           "setup", "frame", "cluster", "slot", "forward", "record", "done"}

NodeState ==
  [energy : 0 .. InitialEnergy, alive : BOOLEAN, isClusterHead : BOOLEAN,
   clusterHeadId : Node \cup {None}, members : Seq(Node), lastChEpoch : Nat]

FreshNode ==
  [energy |-> InitialEnergy, alive |-> TRUE, isClusterHead |-> FALSE,
   clusterHeadId |-> None, members |-> <<>>, lastChEpoch |-> 0]

-----------------------------------------------------------------------------
(***************************************************************************)
(* Operations on the node vector.                                          *)
(***************************************************************************)
AliveNodes(ns) == {n \in Node : ns[n].alive}
CountDeadNodes(ns) == Cardinality(Node \ AliveNodes(ns))
CountClusterHeads(ns) == Cardinality({n \in AliveNodes(ns) : ns[n].isClusterHead})
EnergyOf(ns, S) == MapThenSumSet(LAMBDA n : ns[n].energy, S)
TotalEnergy(ns) == EnergyOf(ns, Node)

Distance2(m, n) == Dist2(pos[m], pos[n])
ToBase2(n) == Dist2(pos[n], BaseStation)

(* static_cast<uint32_t>(k) *)
AsUint(k) == k % UintRange

(* Mutations of Dead: a field is not reset, the clamp at 0 is missing. *)
DeadStaysHead(state) ==
  [state EXCEPT !.energy = 0, !.alive = FALSE, !.clusterHeadId = None]
DeadStaysMember(state) ==
  [state EXCEPT !.energy = 0, !.alive = FALSE, !.isClusterHead = FALSE]
DeadOverdrawn(state) ==
  [state EXCEPT !.energy = -1, !.alive = FALSE, !.isClusterHead = FALSE,
                !.clusterHeadId = None]

Dead(state) ==
  [state EXCEPT !.energy = 0, !.alive = FALSE, !.isClusterHead = FALSE,
                !.clusterHeadId = None]

(* What paying makes of a node. *)
Charge(state, joules) ==
  IF state.energy <= joules THEN Dead(state)
  ELSE [state EXCEPT !.energy = state.energy - joules]

(* Consume(id, joules): charge a node that is alive, which dies when it    *)
(* has nothing left and then gives up its role in the cluster.  An id      *)
(* beyond the vector, AsUint(-1) among them, is charged nothing.           *)
Consume(ns, id, joules) ==
  IF id \notin Node \/ ~ns[id].alive THEN ns
  ELSE [ns EXCEPT ![id] = Charge(ns[id], joules)]

(* Mutation of ResetRoles: the member lists survive. *)
ResetRolesOnly(ns) ==
  [n \in Node |-> [ns[n] EXCEPT !.isClusterHead = FALSE, !.clusterHeadId = None]]

(* The first loop of SelectClusterHeads. *)
ResetRoles(ns) ==
  [n \in Node |-> [ns[n] EXCEPT !.isClusterHead = FALSE,
                                !.clusterHeadId = None, !.members = <<>>]]

(* The members of a set of cluster heads at which cost is least and, of    *)
(* those, the one the scan of chs meets first: `if (d < best)` keeps the   *)
(* earlier of two equals.  A singleton, or empty when S is.                *)
FirstCheapest(S, cost(_)) ==
  {chs[k] : k \in {k \in DOMAIN chs :
     /\ chs[k] \in S
     /\ \A j \in DOMAIN chs : chs[j] \in S =>
          \/ cost(chs[k]) < cost(chs[j])
          \/ cost(chs[k]) = cost(chs[j]) /\ k <= j}}

-----------------------------------------------------------------------------
(***************************************************************************)
(* The types of the variables.                                             *)
(***************************************************************************)
TypeOK ==
  /\ pc \in Phases
  /\ round \in Nat \ {0}
  /\ firstDead \in Nat /\ lastDead \in Nat
  /\ row.round \in Nat /\ row.dead \in Nat /\ row.alive \in Int /\ row.chs \in Nat
  /\ pos \in [Node -> Point]
  /\ nodes \in [Node -> NodeState]
  /\ event \in Point
  /\ chs \in Seq(Node)
  /\ candidates \subseteq Node
  /\ todo \subseteq Node
  /\ relayMap \in [Node -> Node \cup {None}]
  /\ gwLoad \in [Node -> Nat]
  /\ i \in Nat /\ slot \in Nat /\ frame \in Nat

=============================================================================
