--------------------------- MODULE WsnProperties ---------------------------
(***************************************************************************)
(* The correctness properties of the simulator engine.                     *)
(***************************************************************************)
EXTENDS WsnEngine

Heads == Range(chs)

(* The phases in which the clusters of the round exist. *)
DataPhases == {"advertise", "setup", "frame", "cluster", "slot", "forward", "record"}
Clustered == pc \in DataPhases \cup {"relay"}

MembersOf(h) == Range(nodes[h].members)

-----------------------------------------------------------------------------
(***************************************************************************)
(* Batteries and roles.                                                    *)
(***************************************************************************)

(* A node is alive exactly while it has energy, and a dead one holds no    *)
(* role: the four fields Consume (lines 310-324) and the reset and the     *)
(* election write at different times never disagree.                       *)
BatteryInv ==
  \A n \in Node :
    /\ nodes[n].alive <=> nodes[n].energy > 0
    /\ ~nodes[n].alive => ~nodes[n].isClusterHead /\ nodes[n].clusterHeadId = None

(* The vector chs handed from SelectClusterHeads to the other phases and   *)
(* the flag isClusterHead tell the same story, although only the flag is   *)
(* taken back when a head dies: no head is listed twice, every flagged     *)
(* node is listed, and every listed node still alive is flagged.           *)
HeadsInv ==
  /\ IsInjective(chs)
  /\ \A n \in Node : nodes[n].isClusterHead <=> n \in Heads /\ nodes[n].alive

-----------------------------------------------------------------------------
(***************************************************************************)
(* Cluster formation.                                                      *)
(***************************************************************************)

(* While clusters exist every live node that is not a head has one, so the *)
(* branch of SteadyStateFrame for unassigned members (lines 681-690) never *)
(* charges anybody.                                                        *)
NoUnassigned == Clustered => Unassigned(nodes) = {}

(* The member lists and clusterHeadId agree: a list holds a node at most   *)
(* once, no two lists share one, heads are in none, a live member points   *)
(* at its head and a node that points at a head is in its list.  Each live *)
(* member of a live head thus has exactly one slot in a frame.             *)
MembershipInv ==
  /\ \A h \in Node : IsInjective(nodes[h].members)
  /\ \A g, h \in Node : g # h => MembersOf(g) \cap MembersOf(h) = {}
  /\ \A h, n \in Node :
       /\ n \in MembersOf(h) =>
            /\ h \in Heads /\ n \notin Heads
            /\ nodes[n].alive => nodes[n].clusterHeadId = h
       /\ nodes[n].clusterHeadId = h => n \in MembersOf(h)

(* Nobody joined a head although another was nearer, unless the nearer one *)
(* had filled up to MCS with nodes of smaller ids first (LECMAC, LECMAC+): *)
(* both passes of JoinClusters (lines 564-605) together.                   *)
NearestHead ==
  Clustered =>
    \A h, g \in Heads : \A n \in MembersOf(h) :
      Distance2(n, g) < Distance2(n, h) =>
        /\ Lecmac
        /\ Len(nodes[g].members) >= MaxClusterSize
        /\ \A k \in 1 .. MaxClusterSize : nodes[g].members[k] < n

(* A cluster is larger than MCS only when all of them are full: the second *)
(* pass of JoinClusters is the last resort.                                *)
CapLastResort ==
  Clustered /\ Lecmac =>
    \A g, h \in Heads :
      Len(nodes[h].members) > MaxClusterSize => Len(nodes[g].members) >= MaxClusterSize

-----------------------------------------------------------------------------
(***************************************************************************)
(* Election.                                                               *)
(***************************************************************************)

(* LEACH: when the heads of the last round of an epoch are known, every    *)
(* node alive has been a head in that epoch.  The threshold T(n), the      *)
(* epoch arithmetic and lastChEpoch (lines 354-393) have to work together  *)
(* over a whole epoch for this.                                            *)
EpochRotation ==
  Protocol = "LEACH" /\ pc = "join" /\ EpochRound = EpochLen - 1 =>
    \A n \in AliveNodes(nodes) : nodes[n].lastChEpoch = Epoch

(* LECMAC, LECMAC+: the back-off (lines 441-464, 497-520) keeps the heads  *)
(* PT apart, and a candidate was turned away only by a head within PT of   *)
(* it that has at least its energy.                                        *)
ProximityInv ==
  /\ Lecmac => \A g, h \in Heads : g # h => Distance2(g, h) >= PT2
  /\ pc = "fallback" => \A n \in candidates :
       \E h \in Heads :
         /\ h = n \/ Distance2(n, h) < PT2
         /\ nodes[h].energy >= nodes[n].energy

(* LECMAC, LECMAC+: a head whose energy does not exceed the (adaptive)     *)
(* threshold is the only head, and nobody alive has more energy.           *)
WeakHeadInv ==
  pc = "join" /\ Lecmac =>
    \A h \in Heads : ~Eligible(h) =>
      /\ Heads = {h}
      /\ \A n \in AliveNodes(nodes) : nodes[n].energy <= nodes[h].energy

-----------------------------------------------------------------------------
(***************************************************************************)
(* The relay map of LECMAC+.                                               *)
(***************************************************************************)
RelayedBy(g) == {s \in Node : relayMap[s] = g}

(* A gateway relays for at most kMaxRelayLoad heads.  *)
RelayLoad == \A g \in Node : Cardinality(RelayedBy(g)) <= MaxRelayLoad

(* A gateway is a head of the round strictly nearer to the base station    *)
(* than its source, so following gateways never comes back, and the        *)
(* two-hop path is strictly cheaper than the direct one.                   *)
RelayPaths ==
  Protocol = "LECMAC_PLUS" /\ pc \in DataPhases =>
    \A s \in Node : relayMap[s] # None =>
      /\ s \in Heads /\ relayMap[s] \in Heads
      /\ ToBase2(relayMap[s]) < ToBase2(s)
      /\ RelayCost(s, relayMap[s]) < DirectCost(s)

(* The greedy choice of BuildRelayMap (lines 917-955), farthest first: a   *)
(* head goes without a gateway that would be cheaper than what it got only *)
(* if that one is full with heads at least as far from the base station.   *)
RelayPriority ==
  Protocol = "LECMAC_PLUS" /\ pc = "advertise" /\ i = 1 =>
    \A s \in AliveHeads : \A g \in Cheaper(s) :
      (relayMap[s] = None \/ RelayCost(s, g) < RelayCost(s, relayMap[s])) =>
        /\ Cardinality(RelayedBy(g)) = MaxRelayLoad
        /\ \A t \in RelayedBy(g) : ToBase2(t) >= ToBase2(s)

-----------------------------------------------------------------------------
(***************************************************************************)
(* The data phase and the run.                                             *)
(***************************************************************************)

(* A member whose head is dead goes on spending only to the end of the     *)
(* slots of that head's cluster in the frame of its death; after them it   *)
(* is silent until the next round (lines 692-752 skip the cluster).        *)
StrandedSilent ==
  [][\A n \in Node :
       /\ pc \in {"frame", "cluster", "slot", "forward"}
       /\ nodes[n].clusterHeadId # None
       /\ ~nodes[nodes[n].clusterHeadId].alive
       /\ ~(pc = "slot" /\ i = nodes[n].clusterHeadId)
       => nodes'[n].energy = nodes[n].energy]_vars

(* The data of a frame is never sent to nobody.  When a cluster has a live *)
(* head at the end of its slots, a head of this round that is alive pays   *)
(* for the hop to the base station, or spends its last energy on the way:  *)
(* the head itself, or the gateway it was given before anybody had paid,   *)
(* which slots and relaying of other clusters may have killed since, also  *)
(* in an earlier frame (lines 755-784).                                    *)
PaysLastHop(h) ==
  /\ nodes[h].alive
  /\ \/ nodes'[h].energy = 0
     \/ nodes'[h].energy <= nodes[h].energy - TxCost(DataBits, ToBase2(h))
DataReachesBase ==
  [][pc = "forward" /\ nodes[i].alive => \E h \in Heads : PaysLastHop(h)]_vars

(* Line by line the output file is one round further, reports no fewer     *)
(* dead and less energy, accounts for every node, is written only while    *)
(* somebody was alive, FND is the round of the first line with a dead      *)
(* node, and LND, when all have died, the round in which the last did.     *)
RowsFollow ==
  [][row' # row =>
       /\ row'.round = row.round + 1
       /\ row.alive > 0
       /\ row'.dead >= row.dead
       /\ row'.energy < row.energy
       /\ row'.dead + row'.alive = N
       /\ row'.chs <= row'.alive
       /\ firstDead' # firstDead <=> row.dead = 0 /\ row'.dead > 0
       /\ firstDead' # firstDead => firstDead' = row'.round
       /\ row'.alive = 0 => lastDead' = row'.round /\ row'.dead > row.dead]_vars

(* The energy runs out: with MaxRounds beyond what the batteries can pay   *)
(* for, every run ends because nobody is left.                             *)
NetworkDies == <>[](pc = "done" /\ AliveNodes(nodes) = {})

(* The run ends, at MaxRounds or because all are dead. *)
Termination == <>(pc = "done" /\ (row.round = MaxRounds \/ row.alive = 0))

-----------------------------------------------------------------------------
(***************************************************************************)
(* Abstract specifications.                                                *)
(***************************************************************************)

(* The first head that advertises makes the round cost something. *)
Lifetime ==
  INSTANCE WsnLifetime WITH
    energy <- [n \in Node |-> nodes[n].energy],
    alive <- AliveNodes(nodes),
    spent <- pc \in DataPhases \ {"advertise"} \/ (pc = "advertise" /\ i > 1)
             \/ (pc = "done" /\ AliveNodes(nodes) = {}),
    stopped <- pc = "done"

(* Batteries only drain, death is final, and every round that passes has   *)
(* cost energy: a cluster head is found and alive when it advertises.      *)
LifetimeSpec == Lifetime!Spec

(* The clusters become visible when JoinClusters has returned. *)
Clustering ==
  INSTANCE WsnClustering WITH
    formed <- Clustered,
    alive <- AliveNodes(nodes),
    heads <- IF Clustered THEN {n \in Node : nodes[n].isClusterHead} ELSE {},
    home <- [n \in Node |-> IF Clustered THEN nodes[n].clusterHeadId ELSE None]

(* At the end of cluster formation every live node is a head or belongs to *)
(* one, and from then on to the end of the round clusters only erode.      *)
ClusteringSpec == Clustering!Spec

=============================================================================
