-------------------------- MODULE WsnClusterProofs --------------------------
(***************************************************************************)
(* What the engine does with the heads, for every value of the constants:  *)
(* the clusters and their members, the abstract specifications, the relay  *)
(* map and the silent members, the lines of the output file.               *)
(***************************************************************************)
EXTENDS WsnElectionProofs, InductionLemmas

-----------------------------------------------------------------------------
(***************************************************************************)
(* The members of the clusters: lists and clusterHeadId agree, every node  *)
(* alive finds a place, and it is the right one.                           *)
(***************************************************************************)
(* Nodes from m on have not joined anybody. *)
NotJoinedFrom(m) ==
  \A n \in Node : n >= m =>
    nodes[n].clusterHeadId = None /\ \A h \in Node : n \notin MembersOf(h)

(* How far the nodes have been placed. *)
JoinProgress ==
  /\ Electing => NotJoinedFrom(0)
  /\ pc = "join" => NotJoinedFrom(i)
  /\ pc = "join" => \A n \in Unassigned(nodes) : n >= i

MemberInv == MembershipInv /\ JoinProgress /\ NoUnassigned

-----------------------------------------------------------------------------
(* Paying moves nobody to another cluster. *)
LEMMA PaidKeepsMembers ==
  ASSUME TypeInv, nodes' \in Ledger, Paid(nodes, nodes'), MembershipInv, chs' = chs
  PROVE  MembershipInv'
<1>1. /\ nodes \in Ledger
      /\ \A n \in Node : MembersOf(n)' = MembersOf(n) /\ nodes'[n].members = nodes[n].members
  BY DEF TypeInv, Paid, Spends, MembersOf
<1>2. \A n \in Node : nodes'[n].alive =>
        nodes[n].alive /\ nodes'[n].clusterHeadId = nodes[n].clusterHeadId
  BY DEF Paid, Spends
<1>3. \A n, h \in Node : nodes'[n].clusterHeadId = h => nodes[n].clusterHeadId = h
  <2>1. \A n \in Node : ~nodes'[n].alive => nodes'[n].clusterHeadId = None
    BY DEF Ledger, Battery
  <2>2. None \notin Node
    BY DEF None, Node
  <2> QED
    BY <1>2, <2>1, <2>2
<1>4. \A h \in Node : IsInjective(nodes'[h].members)
  BY <1>1 DEF MembershipInv
<1>5. \A g, h \in Node : g # h => MembersOf(g)' \cap MembersOf(h)' = {}
  BY <1>1 DEF MembershipInv
<1>6. \A h, n \in Node :
        /\ n \in MembersOf(h)' =>
             /\ h \in Heads' /\ n \notin Heads'
             /\ nodes'[n].alive => nodes'[n].clusterHeadId = h
        /\ nodes'[n].clusterHeadId = h => n \in MembersOf(h)'
  BY <1>1, <1>2, <1>3 DEF MembershipInv, Heads
<1> QED
  BY <1>4, <1>5, <1>6 DEF MembershipInv

(* The data phase keeps the invariant of the members. *)
LEMMA DataPhaseMembers ==
  ASSUME TypeInv, MemberInv, DataPhaseNext
  PROVE  MemberInv'
<1>1. nodes' \in Ledger /\ Paid(nodes, nodes') /\ nodes \in Ledger
  BY DataPhasePays DEF TypeInv
<1>2. chs' = chs /\ pc \in DataPhases /\ pc' \in DataPhases
  BY DEF DataPhaseNext, Advertise, EndAdvertise, NotAMember, SetupMember,
     EndSetup, BeginFrame, EndFrames, SkipCluster, EnterCluster, EndFrame, InSlot, EmptySlot,
     SuppressedSlot, DataSlot, EndSlots, ForwardRelay, ForwardDirect, HeadLost, NextCluster,
     DataPhases
<1>3. MembershipInv'
  BY <1>1, <1>2, PaidKeepsMembers DEF MemberInv
<1>4. JoinProgress'
  BY <1>2 DEF JoinProgress, Electing, DataPhases
<1>5. Unassigned(nodes)' \subseteq Unassigned(nodes)
  BY <1>1 DEF Unassigned, Paid, Spends
<1>6. NoUnassigned'
  BY <1>2, <1>5 DEF MemberInv, NoUnassigned, Clustered
<1> QED
  BY <1>3, <1>4, <1>6 DEF MemberInv

-----------------------------------------------------------------------------
(* During the election the clusters are empty. *)
LEMMA EmptyClusters ==
  ASSUME nodes \in [Node -> NodeState], NotJoinedFrom(0)
  PROVE  \A n \in Node : nodes[n].clusterHeadId = None /\ MembersOf(n) = {}
<1> SUFFICES ASSUME NEW n \in Node
             PROVE  nodes[n].clusterHeadId = None /\ MembersOf(n) = {}
  OBVIOUS
<1>1. \A m \in Node : m >= 0
  BY DEF Node
<1>2. MembersOf(n) \subseteq Node
  BY DEF MembersOf, Range, NodeState
<1> QED
  BY <1>1, <1>2 DEF NotJoinedFrom

(* The election keeps it: nobody is in a cluster yet. *)
LEMMA ElectionMembers ==
  ASSUME TypeInv, MemberInv, ElectionNext
  PROVE  MemberInv'
<1>0. nodes \in [Node -> NodeState]
  BY DEF TypeInv, TypeOK
<1>1. /\ Electing
      /\ Electing' \/ (pc' = "join" /\ i' = 0)
  BY DEF ElectionNext, PassOver, LoseDraw, WinDraw, BecomeCandidate, EndDraw, BackOff,
     Elect, EndElect, ForceHead, KeepHeads, ReturnHeads, Electing
<1>2. \A n \in Node : nodes[n].clusterHeadId = None /\ MembersOf(n) = {}
  BY <1>0, <1>1, EmptyClusters DEF MemberInv, JoinProgress
<1>3. \A n \in Node : nodes'[n].clusterHeadId = nodes[n].clusterHeadId
                      /\ nodes'[n].members = nodes[n].members
  <2>1. ASSUME NEW m \in Node, MakeHead(m)
        PROVE  \A n \in Node : nodes'[n].clusterHeadId = nodes[n].clusterHeadId
                               /\ nodes'[n].members = nodes[n].members
    BY <1>0, <2>1 DEF MakeHead, NodeState
  <2> QED
    BY <2>1 DEF ElectionNext, PassOver, LoseDraw, WinDraw, BecomeCandidate, EndDraw, BackOff,
     Elect, EndElect, ForceHead, KeepHeads
<1>4. \A n \in Node : nodes'[n].clusterHeadId = None /\ MembersOf(n)' = {}
  BY <1>2, <1>3 DEF MembersOf
<1>5. MembershipInv' /\ NotJoinedFrom(0)'
  <2>1. \A h \in Node : IsInjective(nodes'[h].members)
    BY <1>4 DEF MembersOf, Range, IsInjective
  <2>2. None \notin Node
    BY DEF None, Node
  <2> QED
    BY <1>4, <2>1, <2>2 DEF MembershipInv, NotJoinedFrom
<1>6. JoinProgress'
  BY <1>1, <1>5 DEF JoinProgress, Electing, NotJoinedFrom, Unassigned, Node
<1>7. NoUnassigned'
  BY <1>1 DEF NoUnassigned, Clustered, Electing, DataPhases
<1> QED
  BY <1>5, <1>6, <1>7 DEF MemberInv

-----------------------------------------------------------------------------
(* Joining: one node enters one list. *)
LEMMA JoinMembers ==
  ASSUME TypeInv, HeadInv, MemberInv, Join
  PROVE  MemberInv'
<1>0. /\ nodes \in [Node -> NodeState] /\ nodes \in Ledger /\ chs \in Seq(Node)
      /\ pc = "join" /\ pc' = "join" /\ i' = i + 1 /\ chs' = chs /\ i \in Node /\ i \in Nat
      /\ nodes[i].alive /\ ~nodes[i].isClusterHead
      /\ MembershipInv /\ NotJoinedFrom(i) /\ \A n \in Unassigned(nodes) : n >= i
      /\ Heads \subseteq AliveNodes(nodes) /\ chs # <<>> /\ HeadsInv
  BY DEF TypeInv, TypeOK, Join, MemberInv, JoinProgress, HeadInv, HeadsFound, Quiet
<1>1. AliveHeads # {}
  BY <1>0 DEF AliveHeads, Heads, Range, AliveNodes
<1>2. JoinTargets # {}
  BY <1>1 DEF JoinTargets
<1>3. PICK h \in NearestTarget(i) : nodes' = JoinTo(nodes, i, h)
  BY <1>2 DEF Join
<1>4. h \in Node /\ h \in Heads /\ nodes[h].alive
  BY <1>0, <1>3, NearestTargetIn DEF AliveHeads, Heads
<1>5. i \notin Heads /\ h # i
  BY <1>0, <1>4 DEF HeadsInv
<1>6. /\ nodes[i].clusterHeadId = None
      /\ \A g \in Node : i \notin MembersOf(g)
  BY <1>0 DEF NotJoinedFrom
<1>7. nodes' = [m \in Node |->
                  IF m = i THEN [nodes[i] EXCEPT !.clusterHeadId = h]
                  ELSE IF m = h THEN [nodes[h] EXCEPT !.members = Append(nodes[h].members, i)]
                  ELSE nodes[m]]
  BY <1>3 DEF JoinTo
<1>8. \A m \in Node :
        /\ nodes'[m].clusterHeadId = IF m = i THEN h ELSE nodes[m].clusterHeadId
        /\ nodes'[m].members =
             IF m = h THEN Append(nodes[m].members, i) ELSE nodes[m].members
  <2> SUFFICES ASSUME NEW m \in Node
               PROVE  /\ nodes'[m].clusterHeadId = IF m = i THEN h ELSE nodes[m].clusterHeadId
                      /\ nodes'[m].members =
                           IF m = h THEN Append(nodes[m].members, i) ELSE nodes[m].members
    OBVIOUS
  <2>1. nodes[m] \in NodeState
    BY <1>0
  <2>2. CASE m = i
    BY <1>5, <1>7, <2>1, <2>2 DEF NodeState
  <2>3. CASE m = h
    BY <1>5, <1>7, <2>1, <2>3 DEF NodeState
  <2>4. CASE m # i /\ m # h
    BY <1>7, <2>4
  <2> QED
    BY <2>2, <2>3, <2>4
<1>9. /\ IsInjective(nodes'[h].members)
      /\ MembersOf(h)' = MembersOf(h) \cup {i}
  <2>1. nodes[h].members \in Seq(Node) /\ IsInjective(nodes[h].members)
        /\ i \notin Range(nodes[h].members)
    BY <1>0, <1>4, <1>6 DEF NodeState, MembershipInv, MembersOf
  <2> QED
    BY <1>0, <1>4, <1>8, <2>1, AppendNew DEF MembersOf
<1>10. \A g \in Node : g # h => MembersOf(g)' = MembersOf(g)
  BY <1>8 DEF MembersOf
<1>11. \A m \in Node : /\ nodes'[m].alive = nodes[m].alive
                       /\ nodes'[m].isClusterHead = nodes[m].isClusterHead
  BY JoinKeepsRoles
<1>12. \A g \in Node : IsInjective(nodes'[g].members)
  BY <1>0, <1>8, <1>9 DEF MembershipInv
<1>13. \A f, g \in Node : f # g => MembersOf(f)' \cap MembersOf(g)' = {}
  BY <1>0, <1>6, <1>9, <1>10 DEF MembershipInv
<1>14. ASSUME NEW g \in Node, NEW n \in Node
       PROVE  /\ n \in MembersOf(g)' =>
                   /\ g \in Heads' /\ n \notin Heads'
                   /\ nodes'[n].alive => nodes'[n].clusterHeadId = g
              /\ nodes'[n].clusterHeadId = g => n \in MembersOf(g)'
  <2>0. Heads' = Heads
    BY <1>0 DEF Heads
  <2>1. CASE n = i
    BY <1>4, <1>5, <1>6, <1>8, <1>9, <1>10, <2>0, <2>1
  <2>2. CASE n # i
    BY <1>0, <1>8, <1>9, <1>10, <1>11, <2>0, <2>2 DEF MembershipInv
  <2> QED
    BY <2>1, <2>2
<1>15. MembershipInv'
  BY <1>12, <1>13, <1>14 DEF MembershipInv
<1>16. NotJoinedFrom(i)' /\ \A n \in Unassigned(nodes)' : n >= i'
  <2>1. \A n \in Node : n >= i' => n >= i /\ n # i
    BY <1>0 DEF Node
  <2>2. \A n \in Node : n >= i' =>
          nodes'[n].clusterHeadId = None /\ \A g \in Node : n \notin MembersOf(g)'
    <3> SUFFICES ASSUME NEW n \in Node, n >= i', NEW g \in Node
                 PROVE  nodes'[n].clusterHeadId = None /\ n \notin MembersOf(g)'
      OBVIOUS
    <3>1. n # i /\ nodes[n].clusterHeadId = None /\ n \notin MembersOf(g)
      BY <1>0, <2>1 DEF NotJoinedFrom
    <3>2. MembersOf(g)' \subseteq MembersOf(g) \cup {i}
      BY <1>9, <1>10
    <3> QED
      BY <1>8, <3>1, <3>2
  <2>3. None \notin Node
    BY DEF None, Node
  <2>4. Unassigned(nodes)' \subseteq Unassigned(nodes) \ {i}
    BY <1>4, <1>8, <1>11, <2>3 DEF Unassigned
  <2>5. \A n \in Unassigned(nodes)' : n >= i'
    BY <1>0, <2>4 DEF Node, Unassigned
  <2> QED
    BY <2>2, <2>5 DEF NotJoinedFrom
<1>17. JoinProgress' /\ NoUnassigned'
  BY <1>0, <1>16 DEF JoinProgress, NoUnassigned, Clustered, Electing, DataPhases
<1> QED
  BY <1>15, <1>17 DEF MemberInv

(* The join keeps it, and the relay map leaves the members alone. *)
LEMMA FormationMembers ==
  ASSUME TypeInv, HeadInv, MemberInv, FormationNext
  PROVE  MemberInv'
<1>0. nodes \in [Node -> NodeState] /\ i \in Nat
  BY DEF TypeInv, TypeOK
<1>1. CASE Join
  BY <1>1, JoinMembers
<1>2. ASSUME UNCHANGED <<nodes, chs>>
      PROVE  MembershipInv' /\ Unassigned(nodes)' = Unassigned(nodes)
  BY <1>2 DEF MemberInv, MembershipInv, MembersOf, Heads, Unassigned
<1>3. CASE StayOut
  <2>1. /\ pc = "join" /\ pc' = "join" /\ i' = i + 1 /\ UNCHANGED <<nodes, chs>>
        /\ ~nodes[i].alive \/ nodes[i].isClusterHead
    BY <1>3 DEF StayOut
  <2>2. NotJoinedFrom(i)'
    BY <1>0, <2>1 DEF MemberInv, JoinProgress, NotJoinedFrom, MembersOf, Node
  <2>3. \A n \in Unassigned(nodes)' : n >= i'
    BY <1>0, <2>1 DEF MemberInv, JoinProgress, Unassigned, Node
  <2> QED
    BY <1>2, <2>1, <2>2, <2>3
    DEF MemberInv, JoinProgress, NoUnassigned, Clustered, Electing, DataPhases
<1>4. CASE EndJoin
  <2>1. pc = "join" /\ i \notin Node /\ pc' \in {"relay", "advertise"} /\ UNCHANGED <<nodes, chs>>
    BY <1>4 DEF EndJoin
  <2>2. Unassigned(nodes) = {}
    <3>1. \A n \in Unassigned(nodes) : n >= i /\ n \in Node
      BY <2>1 DEF MemberInv, JoinProgress, Unassigned
    <3>2. \A n \in Node : ~(n >= i)
      BY <1>0, <2>1, StateAssumption DEF Node
    <3> QED
      BY <3>1, <3>2
  <2> QED
    BY <1>2, <2>1, <2>2 DEF MemberInv, JoinProgress, NoUnassigned, Electing
<1>5. CASE EndRelay \/ \E s \in Node : AssignRelay(s) \/ NoRelay(s)
  <2>1. pc = "relay" /\ pc' \in {"relay", "advertise"} /\ UNCHANGED <<nodes, chs>>
    BY <1>5 DEF EndRelay, AssignRelay, NoRelay
  <2> QED
    BY <1>2, <2>1 DEF MemberInv, JoinProgress, NoUnassigned, Clustered, Electing
<1> QED
  BY <1>1, <1>3, <1>4, <1>5 DEF FormationNext

(* The round loop keeps it. *)
LEMMA RunMembers ==
  ASSUME TypeInv, MemberInv, BeginRound \/ EndRun \/ Record
  PROVE  MemberInv'
<1>1. CASE BeginRound
  <2>1. nodes' = ResetRoles(nodes) /\ pc' = "draw" /\ nodes \in [Node -> NodeState]
    BY <1>1 DEF BeginRound, TypeInv, TypeOK
  <2>2. \A n \in Node : nodes'[n].clusterHeadId = None /\ nodes'[n].members = <<>>
    BY <2>1 DEF ResetRoles, NodeState
  <2>3. \A n \in Node : MembersOf(n)' = {} /\ IsInjective(nodes'[n].members)
    BY <2>2 DEF MembersOf, Range, IsInjective
  <2>4. None \notin Node
    BY DEF None, Node
  <2>5. MembershipInv' /\ NotJoinedFrom(0)'
    BY <2>2, <2>3, <2>4 DEF MembershipInv, NotJoinedFrom
  <2> QED
    BY <2>1, <2>5 DEF MemberInv, JoinProgress, NoUnassigned, Clustered, Electing, DataPhases
<1>2. CASE EndRun \/ Record
  <2>1. UNCHANGED <<nodes, chs>> /\ pc' \in {"run", "done"}
    BY <1>2 DEF EndRun, Record
  <2> QED
    BY <2>1 DEF MemberInv, MembershipInv, MembersOf, Heads, JoinProgress, NoUnassigned,
       Clustered, Electing, DataPhases
<1> QED
  BY <1>1, <1>2

(* At the start nobody is in a cluster. *)
LEMMA InitMembers == Init => MemberInv
<1> SUFFICES ASSUME Init PROVE MemberInv
  OBVIOUS
<1>1. \A n \in Node : nodes[n].clusterHeadId = None /\ nodes[n].members = <<>>
  BY DEF Init, FreshNode
<1>2. \A n \in Node : MembersOf(n) = {} /\ IsInjective(nodes[n].members)
  BY <1>1 DEF MembersOf, Range, IsInjective
<1>3. None \notin Node /\ pc = "run"
  BY DEF None, Node, Init
<1> QED
  BY <1>1, <1>2, <1>3
  DEF MemberInv, MembershipInv, JoinProgress, NoUnassigned, Clustered, Electing, DataPhases

(* The invariant of the members is inductive. *)
LEMMA NextMembers == TypeInv /\ HeadInv /\ MemberInv /\ [Next]_vars => MemberInv'
<1> SUFFICES ASSUME TypeInv, HeadInv, MemberInv, [Next]_vars PROVE MemberInv'
  OBVIOUS
<1>1. CASE BeginRound \/ EndRun \/ Record
  BY <1>1, RunMembers
<1>2. CASE ElectionNext
  BY <1>2, ElectionMembers
<1>3. CASE FormationNext
  BY <1>3, FormationMembers
<1>4. CASE DataPhaseNext
  BY <1>4, DataPhaseMembers
<1>5. CASE UNCHANGED vars
  BY <1>5 DEF vars, MemberInv, MembershipInv, MembersOf, Heads, JoinProgress, NotJoinedFrom,
     NoUnassigned, Unassigned, Clustered, Electing
<1> QED
  BY <1>1, <1>2, <1>3, <1>4, <1>5 DEF Next, Done

(* The invariant of the members holds in every state. *)
THEOREM MembersKept == Spec => []MemberInv
<1>1. Init => MemberInv
  BY InitMembers
<1>2. TypeInv /\ HeadInv /\ MemberInv /\ [Next]_vars => MemberInv'
  BY NextMembers
<1> QED
  BY <1>1, <1>2, Typed, HeadsKept, PTL DEF Spec

(* Lists and clusterHeadId agree in every state of every run: each live    *)
(* member of a live head has exactly one slot in a frame.                  *)
THEOREM MembershipCorrect == Spec => []MembershipInv
<1>1. MemberInv => MembershipInv
  BY DEF MemberInv
<1> QED
  BY <1>1, MembersKept, PTL

(* Once clusters exist every live node is a head or has one: the branch of *)
(* SteadyStateFrame for unassigned members never charges anybody.          *)
THEOREM EverybodyAssigned == Spec => []NoUnassigned
<1>1. MemberInv => NoUnassigned
  BY DEF MemberInv
<1> QED
  BY <1>1, MembersKept, PTL

-----------------------------------------------------------------------------
(***************************************************************************)
(* The two passes of the join: who is nearest, and who is full.            *)
(***************************************************************************)
PlacedNear ==
  \A h, g \in Heads : \A n \in MembersOf(h) :
    Distance2(n, g) < Distance2(n, h) =>
      /\ Lecmac
      /\ Len(nodes[g].members) >= MaxClusterSize
      /\ \A k \in 1 .. MaxClusterSize : nodes[g].members[k] < n

CapHolds ==
  Lecmac => \A g, h \in Heads :
    Len(nodes[h].members) > MaxClusterSize => Len(nodes[g].members) >= MaxClusterSize

PlacedInv == pc = "join" \/ Clustered => PlacedNear /\ CapHolds

(* Join appends the node to the list of a nearest target. *)
LEMMA JoinAppends ==
  ASSUME TypeInv, HeadInv, MemberInv, Join
  PROVE  \E h \in Heads :
           /\ h \in JoinTargets
           /\ \A g \in JoinTargets : Distance2(i, h) <= Distance2(i, g)
           /\ \A m \in Node : nodes'[m].members =
                IF m = h THEN Append(nodes[m].members, i) ELSE nodes[m].members
<1>0. /\ nodes \in [Node -> NodeState] /\ chs \in Seq(Node) /\ i \in Node
      /\ pos \in [Node -> Point]
      /\ nodes[i].alive /\ ~nodes[i].isClusterHead
      /\ Heads \subseteq AliveNodes(nodes) /\ chs # <<>> /\ HeadsInv
  BY DEF TypeInv, TypeOK, Join, HeadInv, HeadsFound, Quiet
<1>1. JoinTargets # {} /\ JoinTargets \subseteq Heads /\ Heads \subseteq Node
  BY <1>0 DEF AliveHeads, OpenHeads, JoinTargets, Heads, Range, AliveNodes
<1>2. PICK h \in NearestTarget(i) : nodes' = JoinTo(nodes, i, h)
  BY <1>1 DEF Join
<1>3. h \in JoinTargets /\ \A g \in JoinTargets : Distance2(i, h) <= Distance2(i, g)
  <2>1. h \in JoinTargets
    BY <1>2 DEF NearestTarget, FirstCheapest
  <2>2. PICK k \in DOMAIN chs :
          /\ h = chs[k]
          /\ \A j \in DOMAIN chs : chs[j] \in JoinTargets =>
               \/ Distance2(i, chs[k]) < Distance2(i, chs[j])
               \/ Distance2(i, chs[k]) = Distance2(i, chs[j]) /\ k <= j
    BY <1>2 DEF NearestTarget, FirstCheapest
  <2>3. ASSUME NEW g \in JoinTargets PROVE Distance2(i, h) <= Distance2(i, g)
    <3>1. PICK j \in DOMAIN chs : g = chs[j]
      BY <1>1 DEF Heads, Range
    <3>2. Distance2(i, h) \in Nat /\ Distance2(i, g) \in Nat
      BY <1>0, <1>1, <2>1, Distance2Type
    <3> QED
      BY <2>2, <3>1, <3>2
  <2> QED
    BY <2>1, <2>3
<1>4. h \in Heads /\ h \in Node /\ h # i
  BY <1>0, <1>1, <1>3 DEF HeadsInv
<1>5. \A m \in Node : nodes'[m].members =
        IF m = h THEN Append(nodes[m].members, i) ELSE nodes[m].members
  <2> SUFFICES ASSUME NEW m \in Node
               PROVE  nodes'[m].members =
                        IF m = h THEN Append(nodes[m].members, i) ELSE nodes[m].members
    OBVIOUS
  <2>1. nodes'[m] = IF m = i THEN [nodes[i] EXCEPT !.clusterHeadId = h]
                    ELSE IF m = h THEN [nodes[h] EXCEPT !.members = Append(nodes[h].members, i)]
                    ELSE nodes[m]
    BY <1>2 DEF JoinTo
  <2>2. nodes[m] \in NodeState
    BY <1>0
  <2> QED
    BY <1>4, <2>1, <2>2 DEF NodeState
<1> QED
  BY <1>3, <1>4, <1>5

(* A node that joins leaves the others where they are.  A nearer head      *)
(* that it does not join is no target: it is full, with nodes before it.   *)
LEMMA JoinPlaced ==
  ASSUME TypeInv, HeadInv, MemberInv, PlacedInv, Join
  PROVE  PlacedInv'
<1>0. /\ nodes \in [Node -> NodeState] /\ chs \in Seq(Node) /\ i \in Node /\ i \in Nat
      /\ pos \in [Node -> Point] /\ pos' = pos /\ chs' = chs /\ pc = "join"
      /\ MaxClusterSize \in Nat \ {0}
      /\ PlacedNear /\ CapHolds
      /\ NotJoinedFrom(i) /\ MembershipInv
      /\ Heads \subseteq AliveNodes(nodes) /\ Heads \subseteq Node
  BY StateAssumption DEF TypeInv, TypeOK, Join, PlacedInv, MemberInv, JoinProgress, HeadInv,
     HeadsFound, Quiet, AliveNodes
<1>1. PICK h \in Heads :
           /\ h \in JoinTargets
           /\ \A g \in JoinTargets : Distance2(i, h) <= Distance2(i, g)
           /\ \A m \in Node : nodes'[m].members =
                IF m = h THEN Append(nodes[m].members, i) ELSE nodes[m].members
  BY JoinAppends
<1>2. Heads' = Heads /\ h \in Node
  BY <1>0 DEF Heads
<1>3. \A m \in Node :
        /\ nodes[m].members \in Seq(Node) /\ Len(nodes[m].members) \in Nat
        /\ Len(nodes'[m].members) >= Len(nodes[m].members)
        /\ \A k \in 1 .. Len(nodes[m].members) : nodes'[m].members[k] = nodes[m].members[k]
        /\ MembersOf(m)' \subseteq MembersOf(m) \cup (IF m = h THEN {i} ELSE {})
  <2> SUFFICES ASSUME NEW m \in Node
      PROVE
        /\ nodes[m].members \in Seq(Node) /\ Len(nodes[m].members) \in Nat
        /\ Len(nodes'[m].members) >= Len(nodes[m].members)
        /\ \A k \in 1 .. Len(nodes[m].members) : nodes'[m].members[k] = nodes[m].members[k]
        /\ MembersOf(m)' \subseteq MembersOf(m) \cup (IF m = h THEN {i} ELSE {})
    OBVIOUS
  <2>1. nodes[m].members \in Seq(Node)
    BY <1>0 DEF NodeState
  <2>2. CASE m = h
    <3> DEFINE t == nodes[m].members
    <3>1. nodes'[m].members = Append(t, i) /\ t \in Seq(Node)
      BY <1>1, <2>1, <2>2
    <3>2. /\ Len(t) \in Nat /\ Len(Append(t, i)) = Len(t) + 1
          /\ \A k \in 1 .. Len(t) : Append(t, i)[k] = t[k]
      BY <1>0, <2>1
    <3>3. Range(Append(t, i)) \subseteq Range(t) \cup {i}
      BY <1>0, <2>1 DEF Range
    <3> QED
      BY <2>1, <2>2, <3>1, <3>2, <3>3 DEF MembersOf
  <2>3. CASE m # h
    BY <1>0, <1>1, <2>1, <2>3 DEF MembersOf
  <2> QED
    BY <2>1, <2>2, <2>3
<1>4. AliveHeads = Heads
  BY <1>0 DEF AliveHeads, Heads, AliveNodes
<1>5. \A g \in Heads : g \notin JoinTargets =>
        Lecmac /\ Len(nodes[g].members) >= MaxClusterSize
  BY <1>0, <1>3, <1>4 DEF JoinTargets, OpenHeads
<1>6. \A g \in Node : \A k \in 1 .. Len(nodes[g].members) : nodes[g].members[k] < i
  <2> SUFFICES ASSUME NEW g \in Node, NEW k \in 1 .. Len(nodes[g].members)
               PROVE  nodes[g].members[k] < i
    OBVIOUS
  <2>1. nodes[g].members[k] \in MembersOf(g) /\ nodes[g].members[k] \in Node
    BY <1>3 DEF MembersOf, Range
  <2>2. ~(nodes[g].members[k] >= i)
    BY <1>0, <2>1 DEF NotJoinedFrom
  <2> QED
    BY <1>0, <2>1, <2>2 DEF Node
<1>7. ASSUME NEW f \in Heads, NEW g \in Heads, NEW n \in MembersOf(f)',
             Distance2(n, g) < Distance2(n, f)
      PROVE  /\ Lecmac
             /\ Len(nodes'[g].members) >= MaxClusterSize
             /\ \A k \in 1 .. MaxClusterSize : nodes'[g].members[k] < n
  <2>1. /\ Lecmac /\ Len(nodes[g].members) >= MaxClusterSize
        /\ \A k \in 1 .. MaxClusterSize : nodes[g].members[k] < n
    <3>1. CASE n \in MembersOf(f)
      BY <1>0, <1>7, <3>1 DEF PlacedNear
    <3>2. CASE n \notin MembersOf(f)
      <4>1. f = h /\ n = i
        BY <1>0, <1>3, <1>7, <3>2
      <4>2. g \notin JoinTargets
        <5>1. Distance2(i, h) \in Nat /\ Distance2(i, g) \in Nat
          BY <1>0, <1>2, Distance2Type
        <5> QED
          BY <1>1, <1>7, <4>1, <5>1
      <4>3. Lecmac /\ Len(nodes[g].members) >= MaxClusterSize /\ g \in Node
        BY <1>0, <1>5, <4>2
      <4>4. \A k \in 1 .. MaxClusterSize : nodes[g].members[k] < i
        BY <1>0, <1>3, <1>6, <4>3
      <4> QED
        BY <4>1, <4>3, <4>4
    <3> QED
      BY <3>1, <3>2
  <2>2. g \in Node
    BY <1>0
  <2>3. Len(nodes'[g].members) >= Len(nodes[g].members) /\ Len(nodes[g].members) \in Nat
        /\ \A k \in 1 .. Len(nodes[g].members) : nodes'[g].members[k] = nodes[g].members[k]
    BY <1>3, <2>2
  <2>4. Len(nodes'[g].members) \in Nat
    BY <1>0, <1>1, <1>3, <2>2
  <2>5. \A k \in 1 .. MaxClusterSize : nodes'[g].members[k] < n
    BY <1>0, <2>1, <2>3
  <2> QED
    BY <1>0, <2>1, <2>3, <2>4, <2>5
<1>8. PlacedNear'
  BY <1>0, <1>2, <1>7 DEF PlacedNear, Distance2, Lecmac
<1>9. CapHolds'
  <2> SUFFICES ASSUME Lecmac, NEW g \in Heads, NEW f \in Heads,
                      Len(nodes'[f].members) > MaxClusterSize
               PROVE  Len(nodes'[g].members) >= MaxClusterSize
    BY <1>2 DEF CapHolds, Lecmac
  <2>0. g \in Node /\ f \in Node
    BY <1>0
  <2>1. /\ Len(nodes[g].members) \in Nat /\ Len(nodes[f].members) \in Nat
        /\ Len(nodes'[g].members) >= Len(nodes[g].members) /\ Len(nodes'[g].members) \in Nat
    BY <1>0, <1>1, <1>3, <2>0
  <2>2. Len(nodes[g].members) >= MaxClusterSize
    <3>1. CASE Len(nodes[f].members) > MaxClusterSize
      BY <1>0, <3>1 DEF CapHolds
    <3>2. CASE ~(Len(nodes[f].members) > MaxClusterSize)
      <4>1. f = h /\ nodes'[f].members = Append(nodes[f].members, i)
        BY <1>1, <2>0, <3>2
      <4>2. Len(nodes'[f].members) = Len(nodes[f].members) + 1
        BY <1>0, <1>3, <2>0, <4>1
      <4>3. ~(Len(nodes[f].members) < MaxClusterSize)
        BY <1>0, <2>1, <3>2, <4>2
      <4>4. OpenHeads = {}
        BY <1>1, <4>1, <4>3 DEF JoinTargets, OpenHeads
      <4> QED
        BY <1>0, <1>4, <2>1, <4>4 DEF OpenHeads
    <3> QED
      BY <3>1, <3>2
  <2> QED
    BY <1>0, <2>1, <2>2
<1> QED
  BY <1>8, <1>9 DEF PlacedInv

(* Lists, heads and places stay as they are once the clusters are formed. *)
LEMMA NextPlaced == TypeInv /\ HeadInv /\ MemberInv /\ PlacedInv /\ [Next]_vars => PlacedInv'
<1> SUFFICES ASSUME TypeInv, HeadInv, MemberInv, PlacedInv, [Next]_vars PROVE PlacedInv'
  OBVIOUS
<1>0. nodes \in [Node -> NodeState] /\ Heads \subseteq Node /\ MaxClusterSize \in Nat \ {0}
  BY StateAssumption DEF TypeInv, TypeOK, Heads, Range
<1>1. CASE Join
  BY <1>1, JoinPlaced
<1>2. ASSUME pc = "join" \/ Clustered, UNCHANGED <<chs, pos>>,
             \A m \in Node : nodes'[m].members = nodes[m].members
      PROVE  PlacedInv'
  <2>1. Heads' = Heads /\ \A m \in Node : MembersOf(m)' = MembersOf(m)
    BY <1>2 DEF Heads, MembersOf
  <2>2. PlacedNear'
    BY <1>0, <1>2, <2>1 DEF PlacedInv, PlacedNear, Distance2, Lecmac
  <2>3. CapHolds'
    BY <1>0, <1>2, <2>1 DEF PlacedInv, CapHolds, Lecmac
  <2> QED
    BY <2>2, <2>3 DEF PlacedInv
<1>3. CASE DataPhaseNext
  <2>1. Paid(nodes, nodes')
    BY <1>3, DataPhasePays
  <2>2. pc \in DataPhases /\ UNCHANGED <<chs, pos>>
    BY <1>3 DEF DataPhaseNext, Advertise, EndAdvertise, NotAMember, SetupMember, EndSetup,
       BeginFrame, EndFrames, SkipCluster, EnterCluster, EndFrame, InSlot, EmptySlot,
       SuppressedSlot, DataSlot, EndSlots, ForwardRelay, ForwardDirect, HeadLost, DataPhases
  <2> QED
    BY <1>2, <2>1, <2>2 DEF Paid, Spends, Clustered
<1>4. CASE StayOut \/ EndJoin \/ EndRelay \/ \E s \in Node : AssignRelay(s) \/ NoRelay(s)
  BY <1>2, <1>4 DEF StayOut, EndJoin, EndRelay, AssignRelay, NoRelay, Clustered
<1>5. CASE ElectionNext
  <2>1. Electing
    BY <1>5 DEF ElectionNext, PassOver, LoseDraw, WinDraw, BecomeCandidate, EndDraw, BackOff,
       Elect, EndElect, ForceHead, KeepHeads, Electing
  <2>2. MemberInv' /\ TypeInv'
    BY NextMembers, NextTypes
  <2>3. pc' = "join" => NotJoinedFrom(0)'
    BY <1>5, <2>2 DEF ElectionNext, PassOver, LoseDraw, WinDraw, BecomeCandidate, EndDraw,
       BackOff, Elect, EndElect, ForceHead, KeepHeads, ReturnHeads, MemberInv, JoinProgress
  <2>4. pc' \in {"draw", "elect", "fallback", "join"}
    BY <1>5 DEF ElectionNext, PassOver, LoseDraw, WinDraw, BecomeCandidate, EndDraw, BackOff,
       Elect, EndElect, ForceHead, KeepHeads, ReturnHeads
  <2>5. CASE pc' = "join"
    <3>1. nodes' \in [Node -> NodeState] /\ chs' \in Seq(Node)
      BY <2>2 DEF TypeInv, TypeOK
    <3>2. \A m \in Node : MembersOf(m)' = {}
      <4>1. \A m \in Node : MembersOf(m)' \subseteq Node
        BY <3>1 DEF MembersOf, Range, NodeState
      <4>2. \A n \in Node : n >= 0
        BY DEF Node
      <4> QED
        BY <2>3, <2>5, <4>1, <4>2 DEF NotJoinedFrom
    <3>3. \A m \in Node : ~(Len(nodes'[m].members) > MaxClusterSize)
      <4> SUFFICES ASSUME NEW m \in Node PROVE ~(Len(nodes'[m].members) > MaxClusterSize)
        OBVIOUS
      <4>1. nodes'[m].members \in Seq(Node)
        BY <3>1 DEF NodeState
      <4>2. 1 \notin DOMAIN (nodes'[m].members)
        BY <3>2 DEF MembersOf, Range
      <4>3. Len(nodes'[m].members) = 0
        BY <4>1, <4>2
      <4> QED
        BY <1>0, <4>3
    <3>4. Heads' \subseteq Node
      BY <3>1 DEF Heads, Range
    <3> QED
      BY <3>2, <3>3, <3>4 DEF PlacedInv, PlacedNear, CapHolds
  <2> QED
    BY <2>4, <2>5 DEF PlacedInv, Clustered, DataPhases
<1>6. CASE BeginRound \/ EndRun \/ Record
  <2>1. pc' \in {"draw", "run", "done"}
    BY <1>6 DEF BeginRound, EndRun, Record
  <2> QED
    BY <2>1 DEF PlacedInv, Clustered, DataPhases
<1>7. CASE UNCHANGED vars
  BY <1>7 DEF vars, PlacedInv, PlacedNear, CapHolds, Clustered, Heads, MembersOf, Distance2,
     Lecmac
<1> QED
  BY <1>1, <1>3, <1>4, <1>5, <1>6, <1>7 DEF Next, FormationNext, Done

(* The invariant of the order of joining holds in every state. *)
THEOREM PlacedKept == Spec => []PlacedInv
<1>1. Init => PlacedInv
  BY DEF Init, PlacedInv, Clustered, DataPhases
<1>2. TypeInv /\ HeadInv /\ MemberInv /\ PlacedInv /\ [Next]_vars => PlacedInv'
  BY NextPlaced
<1> QED
  BY <1>1, <1>2, Typed, HeadsKept, MembersKept, PTL DEF Spec

(* Nobody belongs to a head although another is nearer, unless that one    *)
(* had filled up to MCS with nodes of smaller ids (lines 564-605).         *)
THEOREM NearestCorrect == Spec => []NearestHead
<1>1. PlacedInv => NearestHead
  BY DEF PlacedInv, PlacedNear, NearestHead
<1> QED
  BY <1>1, PlacedKept, PTL

(* A cluster is larger than MCS only when all clusters are full.           *)
THEOREM CapCorrect == Spec => []CapLastResort
<1>1. PlacedInv => CapLastResort
  BY DEF PlacedInv, CapHolds, CapLastResort
<1> QED
  BY <1>1, PlacedKept, PTL

-----------------------------------------------------------------------------
(***************************************************************************)
(* The engine implements the abstract specifications of clustering and of  *)
(* lifetime.                                                               *)
(***************************************************************************)
EngineInv == TypeInv /\ HeadInv /\ MemberInv

(* The invariants of the engine hold together. *)
LEMMA EngineKept == Spec => []EngineInv
<1>1. TypeInv /\ HeadInv /\ MemberInv => EngineInv
  BY DEF EngineInv
<1> QED
  BY <1>1, Typed, HeadsKept, MembersKept, PTL

(* The values the abstract variables of clustering take. *)
FlaggedHeads == {n \in Node : nodes[n].isClusterHead}
Homes == [n \in Node |-> nodes[n].clusterHeadId]

-----------------------------------------------------------------------------
(***************************************************************************)
(* Clustering.                                                             *)
(***************************************************************************)
LEMMA ClusteringInit == Init => Clustering!Init
<1> SUFFICES ASSUME Init PROVE Clustering!Init
  OBVIOUS
<1>1. pc = "run" /\ nodes = [n \in Node |-> FreshNode]
  BY DEF Init
<1>2. AliveNodes(nodes) = Node
  BY <1>1 DEF AliveNodes, FreshNode
<1>3. ~Clustered
  BY <1>1 DEF Clustered, DataPhases
<1> QED
  BY <1>2, <1>3 DEF Clustering!Init, Clustering!NoHome

(* Steps outside the clustered phases that keep everybody alive. *)
LEMMA ClusteringStutterOutside ==
  ASSUME ~Clustered, ~Clustered', AliveNodes(nodes)' = AliveNodes(nodes)
  PROVE  UNCHANGED Clustering!vars
<1>1. Clustered' = Clustered
  BY DEF Clustered
<1> QED
  BY <1>1 DEF Clustering!vars

(* While clusters stand, a step that leaves the nodes alone is a stutter. *)
LEMMA ClusteringStutterInside ==
  ASSUME Clustered, Clustered', UNCHANGED nodes
  PROVE  UNCHANGED Clustering!vars
<1>1. AliveNodes(nodes)' = AliveNodes(nodes) /\ Clustered' = Clustered
  BY DEF AliveNodes, Clustered
<1>2. /\ {n \in Node : nodes[n].isClusterHead}' = {n \in Node : nodes[n].isClusterHead}
      /\ [n \in Node |-> nodes[n].clusterHeadId]' = [n \in Node |-> nodes[n].clusterHeadId]
  OBVIOUS
<1> QED
  BY <1>1, <1>2 DEF Clustering!vars

(* The end of JoinClusters is the formation of clusters. *)
LEMMA ClusteringForms ==
  ASSUME EngineInv, EndJoin
  PROVE  Clustering!Form
<1>1. /\ nodes \in [Node -> NodeState] /\ nodes \in Ledger
      /\ pc = "join" /\ UNCHANGED <<nodes, chs>> /\ pc' \in {"relay", "advertise"}
      /\ Heads \subseteq AliveNodes(nodes) /\ chs # <<>> /\ chs \in Seq(Node)
      /\ HeadsInv /\ MembershipInv
  BY DEF EngineInv, TypeInv, TypeOK, HeadInv, HeadsFound, Quiet, MemberInv, EndJoin
<1>2. ~Clustered /\ Clustered'
  BY <1>1 DEF Clustered, DataPhases
<1>3. FlaggedHeads = Heads
  BY <1>1 DEF FlaggedHeads, HeadsInv, AliveNodes
<1>4. Heads # {}
  <2>1. 1 \in DOMAIN chs
    BY <1>1
  <2> QED
    BY <2>1 DEF Heads, Range
<1>5. NoUnassigned'
  BY NextMembers DEF EngineInv, MemberInv, Next, FormationNext
<1>6. Unassigned(nodes) = {}
  BY <1>1, <1>2, <1>5 DEF NoUnassigned, Unassigned
<1>7. \A n \in Node : nodes[n].clusterHeadId \in Heads \cup {None}
  BY <1>1 DEF NodeState, MembershipInv
<1>8. \A n \in Node : nodes[n].clusterHeadId # None <=> n \in AliveNodes(nodes) \ Heads
  <2> SUFFICES ASSUME NEW n \in Node
               PROVE  nodes[n].clusterHeadId # None <=> n \in AliveNodes(nodes) \ Heads
    OBVIOUS
  <2>1. nodes[n].clusterHeadId # None => nodes[n].alive /\ n \notin Heads
    BY <1>1, <1>7 DEF Ledger, Battery, NodeState, MembershipInv
  <2>2. nodes[n].alive /\ n \notin Heads => nodes[n].clusterHeadId # None
    BY <1>1, <1>6 DEF Unassigned, HeadsInv
  <2> QED
    BY <2>1, <2>2 DEF AliveNodes
<1> DEFINE heads == IF Clustered THEN {n \in Node : nodes[n].isClusterHead} ELSE {}
           home == [n \in Node |-> IF Clustered THEN nodes[n].clusterHeadId ELSE None]
<1>9. /\ heads' = Heads
      /\ home' = [n \in Node |-> nodes[n].clusterHeadId]
      /\ AliveNodes(nodes)' = AliveNodes(nodes)
  BY <1>1, <1>2, <1>3 DEF FlaggedHeads, AliveNodes
<1> HIDE DEF heads, home
<1>10. AliveNodes(nodes) # {}
  BY <1>1, <1>4
<1>11. /\ heads' \subseteq AliveNodes(nodes) /\ heads' # {}
       /\ home' \in [Node -> heads' \cup {None}]
       /\ \A n \in Node : home'[n] # None <=> n \in AliveNodes(nodes) \ heads'
  BY <1>1, <1>4, <1>7, <1>8, <1>9
<1> QED
  BY <1>2, <1>9, <1>10, <1>11 DEF Clustering!Form, heads, home

(* Paying erodes the clusters. *)
LEMMA ClusteringErodes ==
  ASSUME EngineInv, DataPhaseNext
  PROVE  Clustering!Erode
<1>1. nodes' \in Ledger /\ Paid(nodes, nodes') /\ nodes \in Ledger
  BY DataPhasePays DEF EngineInv, TypeInv
<1>2. Clustered /\ Clustered'
  BY DEF Clustered, DataPhaseNext, Advertise, EndAdvertise, NotAMember, SetupMember,
     EndSetup, BeginFrame, EndFrames, SkipCluster, EnterCluster, EndFrame, InSlot, EmptySlot,
     SuppressedSlot, DataSlot, EndSlots, ForwardRelay, ForwardDirect, HeadLost, NextCluster,
     DataPhases
<1>3. \A n \in Node :
        /\ nodes'[n].alive => nodes[n].alive
        /\ nodes'[n].isClusterHead <=> nodes[n].isClusterHead /\ nodes'[n].alive
        /\ nodes'[n].clusterHeadId = IF nodes'[n].alive THEN nodes[n].clusterHeadId ELSE None
  BY <1>1 DEF Ledger, Battery, NodeState, Paid, Spends
<1>4. AliveNodes(nodes)' \subseteq AliveNodes(nodes)
  BY <1>3 DEF AliveNodes
<1>5. FlaggedHeads' = FlaggedHeads \cap AliveNodes(nodes)'
  BY <1>3 DEF FlaggedHeads, AliveNodes
<1>6. Homes' = [n \in Node |-> IF n \in AliveNodes(nodes)' THEN Homes[n] ELSE None]
  BY <1>3 DEF Homes, AliveNodes
<1> QED
  BY <1>2, <1>4, <1>5, <1>6 DEF Clustering!Erode, FlaggedHeads, Homes

(* The end of a round is the end of its clusters. *)
LEMMA ClusteringDissolves ==
  ASSUME Record
  PROVE  Clustering!Dissolve
<1>1. Clustered /\ ~Clustered' /\ UNCHANGED nodes
  BY DEF Record, Clustered, DataPhases
<1> QED
  BY <1>1 DEF Clustering!Dissolve, Clustering!NoHome, AliveNodes

(* Every step of the engine is one of WsnClustering or a stutter. *)
LEMMA ClusteringStep == EngineInv /\ [Next]_vars => [Clustering!Next]_(Clustering!vars)
<1> SUFFICES ASSUME EngineInv, [Next]_vars
             PROVE  Clustering!Next \/ UNCHANGED Clustering!vars
  OBVIOUS
<1>0. nodes \in [Node -> NodeState]
  BY DEF EngineInv, TypeInv, TypeOK
<1>1. CASE BeginRound
  <2>1. \A n \in Node : nodes'[n].alive = nodes[n].alive
    BY <1>0, <1>1 DEF BeginRound, ResetRoles, NodeState
  <2> QED
    BY <1>1, <2>1, ClusteringStutterOutside
    DEF BeginRound, Clustered, DataPhases, AliveNodes
<1>2. CASE EndRun
  BY <1>2, ClusteringStutterOutside DEF EndRun, Clustered, DataPhases, AliveNodes
<1>3. CASE Record
  BY <1>3, ClusteringDissolves DEF Clustering!Next
<1>4. CASE ElectionNext
  <2>1. ASSUME NEW m \in Node, MakeHead(m)
        PROVE  \A n \in Node : nodes'[n].alive = nodes[n].alive
    BY <1>0, <2>1 DEF MakeHead, NodeState
  <2>2. AliveNodes(nodes)' = AliveNodes(nodes)
    BY <1>4, <2>1 DEF ElectionNext, PassOver, LoseDraw, WinDraw, BecomeCandidate, EndDraw,
       BackOff, Elect, EndElect, ForceHead, KeepHeads, AliveNodes
  <2>3. ~Clustered /\ ~Clustered'
    BY <1>4 DEF ElectionNext, PassOver, LoseDraw, WinDraw, BecomeCandidate, EndDraw,
       BackOff, Elect, EndElect, ForceHead, KeepHeads, ReturnHeads, Clustered, DataPhases
  <2> QED
    BY <2>2, <2>3, ClusteringStutterOutside
<1>5. CASE StayOut \/ Join
  <2>1. AliveNodes(nodes)' = AliveNodes(nodes)
    BY <1>5, JoinFacts DEF StayOut, AliveNodes, EngineInv
  <2>2. ~Clustered /\ ~Clustered'
    BY <1>5 DEF StayOut, Join, Clustered, DataPhases
  <2> QED
    BY <2>1, <2>2, ClusteringStutterOutside
<1>6. CASE EndJoin
  BY <1>6, ClusteringForms DEF Clustering!Next
<1>7. CASE EndRelay \/ \E s \in Node : AssignRelay(s) \/ NoRelay(s)
  BY <1>7, ClusteringStutterInside
  DEF EndRelay, AssignRelay, NoRelay, Clustered, DataPhases
<1>8. CASE DataPhaseNext
  BY <1>8, ClusteringErodes DEF Clustering!Next
<1>9. CASE UNCHANGED vars
  BY <1>9 DEF vars, Clustering!vars, Clustered, AliveNodes
<1> QED
  BY <1>1, <1>2, <1>3, <1>4, <1>5, <1>6, <1>7, <1>8, <1>9 DEF Next, FormationNext, Done

(* Clusters are formed all at once, complete and around heads that are     *)
(* alive, and from then on to the end of the round only erode.             *)
THEOREM ClusteringCorrect == Spec => ClusteringSpec
<1>1. Init => Clustering!Init
  BY ClusteringInit
<1>2. EngineInv /\ [Next]_vars => [Clustering!Next]_(Clustering!vars)
  BY ClusteringStep
<1> QED
  BY <1>1, <1>2, EngineKept, PTL DEF Spec, ClusteringSpec, Clustering!Spec

-----------------------------------------------------------------------------
(***************************************************************************)
(* Lifetime.                                                               *)
(***************************************************************************)
(* The values the abstract variables of lifetime take. *)
Batteries == [n \in Node |-> nodes[n].energy]
Spent ==
  \/ pc \in DataPhases \ {"advertise"}
  \/ pc = "advertise" /\ i > 1
  \/ pc = "done" /\ AliveNodes(nodes) = {}

-----------------------------------------------------------------------------
(* A cost that is not zero takes something from a node that is alive. *)
LEMMA ConsumeStrict ==
  ASSUME NEW ns \in Ledger, NEW id \in Node, ns[id].alive, NEW joules \in Nat \ {0}
  PROVE  Consume(ns, id, joules)[id].energy < ns[id].energy
<1>1. /\ ns[id] \in NodeState /\ ns[id].energy > 0 /\ ns[id].energy \in Nat
      /\ ns \in [Node -> NodeState]
  BY StateAssumption DEF Ledger, Battery, NodeState
<1>2. Consume(ns, id, joules)[id] = Charge(ns[id], joules)
  BY <1>1 DEF Consume
<1>3. CASE ns[id].energy <= joules
  <2>1. Charge(ns[id], joules) = Dead(ns[id])
    BY <1>3 DEF Charge
  <2>2. Dead(ns[id]).energy = 0
    BY <1>1, DeadFields
  <2> QED
    BY <1>1, <1>2, <2>1, <2>2
<1>4. CASE ~(ns[id].energy <= joules)
  <2>1. Charge(ns[id], joules) = [ns[id] EXCEPT !.energy = ns[id].energy - joules]
    BY <1>4 DEF Charge
  <2>2. Charge(ns[id], joules).energy = ns[id].energy - joules
    BY <1>1, <2>1 DEF NodeState
  <2> QED
    BY <1>1, <1>2, <2>2
<1> QED
  BY <1>3, <1>4

(* An advertisement is never free. *)
LEMMA BroadcastCosts == TxCost(ControlBits, BcastDist2) \in Nat \ {0}
<1>1. \A a, b \in Nat \ {0} : a * b \in Nat \ {0}
  OBVIOUS
<1>2. ControlBits * Eelec \in Nat \ {0}
  BY <1>1, RadioAssumption
<1>3. ControlBits * (Eamp * BcastDist2) \in Nat
  BY BcastDist2Type, ProductType, RadioAssumption
<1> QED
  BY <1>2, <1>3 DEF TxCost

(* The first head that advertises is alive and pays. *)
LEMMA FirstAdvertiserPays ==
  ASSUME EngineInv, Advertise, i = 1
  PROVE  \E n \in AliveNodes(nodes) : nodes'[n].energy < nodes[n].energy
<1> DEFINE h == chs[1]
           first == Consume(nodes, h, TxCost(ControlBits, BcastDist2))
           second == Consume(first, h, TxCost(ControlBits, BcastDist2))
           third == Consume(second, h, TxCost(DataBits, BcastDist2))
<1>1. /\ chs \in Seq(Node) /\ 1 \in DOMAIN chs /\ nodes \in Ledger
      /\ Heads \subseteq AliveNodes(nodes)
  BY DEF EngineInv, TypeInv, TypeOK, HeadInv, HeadsFound, Quiet, Advertise
<1>2. h \in Node /\ h \in AliveNodes(nodes)
  BY <1>1 DEF Heads, Range
<1>3. first[h].energy < nodes[h].energy
  BY <1>1, <1>2, BroadcastCosts, ConsumeStrict DEF AliveNodes
<1>4. first \in Ledger
  BY <1>1, BroadcastCosts, ConsumeFacts
<1>5. third \in Ledger /\ Paid(first, third)
  BY <1>4, BroadcastCosts, TxCostType, BcastDist2Type, BitsType, ConsumeTwice
<1>6. nodes' = third
  BY DEF Advertise
<1> HIDE DEF h, first, third
<1>7. nodes[h].energy \in Int /\ first[h].energy \in Int /\ third[h].energy \in Int
  <2>1. \A ms \in Ledger : ms[h].energy \in Int
    BY <1>2, StateAssumption DEF Ledger, NodeState
  <2> QED
    BY <1>1, <1>4, <1>5, <2>1
<1>8. third[h].energy <= first[h].energy
  BY <1>2, <1>5 DEF Paid, Spends
<1> QED
  BY <1>2, <1>3, <1>6, <1>7, <1>8

-----------------------------------------------------------------------------
(* The initial states of the engine are those of WsnLifetime. *)
LEMMA LifetimeInit == Init => Lifetime!Init
<1> SUFFICES ASSUME Init PROVE Lifetime!Init
  OBVIOUS
<1>1. pc = "run" /\ round = 1 /\ nodes = [n \in Node |-> FreshNode]
  BY DEF Init
<1>2. \A n \in Node : nodes[n].energy = InitialEnergy /\ nodes[n].alive = TRUE
  BY <1>1 DEF FreshNode
<1>3. AliveNodes(nodes) = Node
  BY <1>2 DEF AliveNodes
<1>4. [n \in Node |-> nodes[n].energy] = [n \in Node |-> InitialEnergy]
  BY <1>2
<1> QED
  BY <1>1, <1>3, <1>4 DEF Lifetime!Init, DataPhases

(* A step that touches no battery and no stage of the round. *)
LEMMA LifetimeStutter ==
  ASSUME \A n \in Node : /\ nodes'[n].energy = nodes[n].energy
                         /\ nodes'[n].alive = nodes[n].alive,
         round' = round, Spent' <=> Spent, pc # "done", pc' # "done"
  PROVE  UNCHANGED Lifetime!vars
<1>1. AliveNodes(nodes)' = AliveNodes(nodes)
  BY DEF AliveNodes
<1>2. Batteries' = Batteries
  BY DEF Batteries
<1>3. Spent' = Spent
  BY DEF Spent
<1>4. (pc = "done")' = (pc = "done")
  OBVIOUS
<1> QED
  BY <1>1, <1>2, <1>3, <1>4 DEF Lifetime!vars, Batteries, Spent

(* Every step of the data phase spends, or changes nothing that counts. *)
LEMMA DataPhaseSpends ==
  ASSUME EngineInv, DataPhaseNext
  PROVE  Lifetime!Spend \/ UNCHANGED Lifetime!vars
<1>1. nodes' \in Ledger /\ Paid(nodes, nodes') /\ nodes \in Ledger
      /\ i \in Nat /\ chs \in Seq(Node)
  BY DataPhasePays DEF EngineInv, TypeInv, TypeOK
<1>2. /\ pc \in DataPhases /\ pc' \in DataPhases /\ round' = round
      /\ ~(pc' = "advertise" /\ i' = 1)
      /\ round <= MaxRounds /\ chs # <<>>
      /\ pc = "advertise" => i >= 1
  BY DEF DataPhaseNext, Advertise, EndAdvertise, NotAMember, SetupMember,
     EndSetup, BeginFrame, EndFrames, SkipCluster, EnterCluster, EndFrame, InSlot, EmptySlot,
     SuppressedSlot, DataSlot, EndSlots, ForwardRelay, ForwardDirect, HeadLost, NextCluster,
     DataPhases, runVars, EngineInv, TypeInv, CursorInv, TypeOK, HeadInv, HeadsFound
<1>3. \A n \in Node :
        /\ nodes'[n].energy \in 0 .. InitialEnergy
        /\ nodes'[n].energy <= nodes[n].energy
        /\ nodes'[n].alive <=> nodes[n].alive /\ nodes'[n].energy > 0
  BY <1>1 DEF Ledger, Battery, NodeState, Paid, Spends
<1>4. Spent'
  <2>1. pc' = "advertise" => i' > 1
    BY <1>1, <1>2 DEF DataPhaseNext, Advertise, EndAdvertise, NotAMember, SetupMember,
       EndSetup, BeginFrame, EndFrames, SkipCluster, EnterCluster, EndFrame, InSlot,
       EmptySlot, SuppressedSlot, DataSlot, EndSlots, ForwardRelay, ForwardDirect, HeadLost,
       NextCluster
  <2> QED
    BY <1>2, <2>1 DEF Spent
<1>5. CASE \E n \in AliveNodes(nodes) : nodes'[n].energy < nodes[n].energy
  <2>1. Batteries' \in [Node -> 0 .. InitialEnergy]
    BY <1>3 DEF Batteries
  <2>2. \A n \in Node : Batteries'[n] <= Batteries[n]
    BY <1>3 DEF Batteries
  <2>3. AliveNodes(nodes)' = {n \in AliveNodes(nodes) : Batteries'[n] > 0}
    BY <1>3 DEF AliveNodes, Batteries
  <2>4. \E n \in AliveNodes(nodes) : Batteries'[n] < Batteries[n]
    BY <1>5 DEF AliveNodes, Batteries
  <2>5. pc # "done" /\ pc' # "done"
    BY <1>2 DEF DataPhases
  <2>6. Lifetime!Spend
    BY <1>2, <1>4, <2>1, <2>2, <2>3, <2>4, <2>5 DEF Lifetime!Spend, Batteries, Spent
  <2> QED
    BY <2>6
<1>6. CASE ~ \E n \in AliveNodes(nodes) : nodes'[n].energy < nodes[n].energy
  <2>1. Spent
    <3>1. ~(pc = "advertise" /\ i = 1 /\ Advertise)
      BY <1>6, FirstAdvertiserPays
    <3>2. ~(pc = "advertise" /\ i = 1 /\ ~Advertise)
      <4> SUFFICES ASSUME pc = "advertise", i = 1, ~Advertise PROVE FALSE
        OBVIOUS
      <4>1. EndAdvertise
        BY DEF DataPhaseNext, NotAMember, SetupMember, EndSetup, BeginFrame, EndFrames,
           SkipCluster, EnterCluster, EndFrame, InSlot, EmptySlot, SuppressedSlot, DataSlot,
           EndSlots, ForwardRelay, ForwardDirect, HeadLost
      <4>2. ~(1 > Len(chs))
        BY <1>1, <1>2
      <4> QED
        BY <4>1, <4>2 DEF EndAdvertise
    <3> QED
      BY <1>1, <1>2, <3>1, <3>2 DEF Spent, DataPhases
  <2>2. \A n \in Node : nodes'[n].energy = nodes[n].energy /\ nodes'[n].alive = nodes[n].alive
    <3> SUFFICES ASSUME NEW n \in Node
                 PROVE  nodes'[n].energy = nodes[n].energy /\ nodes'[n].alive = nodes[n].alive
      OBVIOUS
    <3>1. /\ nodes[n].energy \in 0 .. InitialEnergy
          /\ nodes[n].alive \in BOOLEAN /\ nodes'[n].alive \in BOOLEAN
          /\ nodes[n].alive <=> nodes[n].energy > 0
      BY <1>1 DEF Ledger, Battery, NodeState
    <3>2. nodes[n].alive => ~(nodes'[n].energy < nodes[n].energy)
      BY <1>6 DEF AliveNodes
    <3>3. nodes'[n].energy = nodes[n].energy
      BY <1>3, <3>1, <3>2, StateAssumption
    <3> QED
      BY <1>3, <3>1, <3>3
  <2>3. pc # "done" /\ pc' # "done"
    BY <1>2 DEF DataPhases
  <2> QED
    BY <1>2, <1>4, <2>1, <2>2, <2>3, LifetimeStutter
<1> QED
  BY <1>5, <1>6

(* The end of a round is the next one or the end of the run. *)
LEMMA RecordEnds ==
  ASSUME EngineInv, Record
  PROVE  Lifetime!NextRound \/ Lifetime!Stop
<1>1. /\ pc = "record" /\ UNCHANGED nodes /\ round <= MaxRounds
      /\ CountDeadNodes(nodes) \in 0 .. N /\ N \in Nat
  BY CountTypes, StateAssumption DEF Record, EngineInv, HeadInv, HeadsFound
<1>2. /\ Spent /\ UNCHANGED Batteries /\ AliveNodes(nodes)' = AliveNodes(nodes)
  BY <1>1 DEF Spent, DataPhases, Batteries, AliveNodes
<1>3. CASE CountDeadNodes(nodes) >= N
  <2>1. pc' = "done" /\ round' = round /\ AliveNodes(nodes) = {}
    BY <1>3, NobodyAlive DEF Record
  <2>2. Spent'
    BY <1>2, <2>1 DEF Spent
  <2>3. Spent' = Spent
    BY <1>2, <2>2 DEF Spent
  <2>4. Lifetime!Stop
    BY <1>1, <1>2, <2>1, <2>3 DEF Lifetime!Stop, Batteries, Spent
  <2> QED
    BY <2>4
<1>4. CASE ~(CountDeadNodes(nodes) >= N)
  <2>1. pc' = "run" /\ round' = round + 1 /\ AliveNodes(nodes) # {}
    BY <1>1, <1>4, SomebodyAlive DEF Record
  <2>2. ~Spent'
    BY <2>1 DEF Spent, DataPhases
  <2>3. Lifetime!NextRound
    BY <1>1, <1>2, <2>1, <2>2 DEF Lifetime!NextRound, Batteries, Spent, DataPhases
  <2> QED
    BY <2>3
<1> QED
  BY <1>3, <1>4

(* The end of the loop is Stop of WsnLifetime. *)
LEMMA RunStops ==
  ASSUME EngineInv, EndRun
  PROVE  Lifetime!Stop
<1>1. /\ pc = "run" /\ pc' = "done" /\ UNCHANGED <<nodes, round>>
      /\ AliveNodes(nodes) # {} /\ round \in Nat /\ MaxRounds \in Nat
  BY StateAssumption
  DEF EndRun, runVars, EngineInv, TypeInv, TypeOK, HeadInv, HeadsFound
<1>2. ~(CountDeadNodes(nodes) >= N)
  BY <1>1, NobodyAlive
<1>3. round > MaxRounds
  BY <1>1, <1>2, CountTypes, StateAssumption DEF EndRun, MoreRounds
<1>4. Spent' = Spent /\ UNCHANGED Batteries /\ AliveNodes(nodes)' = AliveNodes(nodes)
  BY <1>1 DEF Spent, DataPhases, Batteries, AliveNodes
<1> QED
  BY <1>1, <1>3, <1>4 DEF Lifetime!Stop, Batteries, Spent

(* Every step of the engine is one of WsnLifetime or a stutter. *)
LEMMA LifetimeStep == EngineInv /\ [Next]_vars => [Lifetime!Next]_(Lifetime!vars)
<1> SUFFICES ASSUME EngineInv, [Next]_vars
             PROVE  Lifetime!Next \/ UNCHANGED Lifetime!vars
  OBVIOUS
<1>0. nodes \in [Node -> NodeState]
  BY DEF EngineInv, TypeInv, TypeOK
<1>1. CASE BeginRound
  <2>1. \A n \in Node : nodes'[n].energy = nodes[n].energy /\ nodes'[n].alive = nodes[n].alive
    BY <1>0, <1>1 DEF BeginRound, ResetRoles, NodeState
  <2>2. /\ pc # "done" /\ pc' # "done" /\ round' = round /\ ~Spent /\ ~Spent'
    BY <1>1 DEF BeginRound, Spent, DataPhases, runVars
  <2> QED
    BY <2>1, <2>2, LifetimeStutter
<1>2. CASE EndRun
  BY <1>2, RunStops DEF Lifetime!Next
<1>3. CASE Record
  BY <1>3, RecordEnds DEF Lifetime!Next
<1>4. CASE ElectionNext
  <2>1. ASSUME NEW m \in Node, MakeHead(m)
        PROVE  \A n \in Node : nodes'[n].energy = nodes[n].energy
                               /\ nodes'[n].alive = nodes[n].alive
    BY <1>0, <2>1 DEF MakeHead, NodeState
  <2>2. \A n \in Node : nodes'[n].energy = nodes[n].energy /\ nodes'[n].alive = nodes[n].alive
    BY <1>4, <2>1 DEF ElectionNext, PassOver, LoseDraw, WinDraw, BecomeCandidate, EndDraw,
       BackOff, Elect, EndElect, ForceHead, KeepHeads
  <2>3. pc # "done" /\ pc' # "done" /\ round' = round /\ ~Spent /\ ~Spent'
    BY <1>4 DEF ElectionNext, PassOver, LoseDraw, WinDraw, BecomeCandidate, EndDraw,
       BackOff, Elect, EndElect, ForceHead, KeepHeads, ReturnHeads, Spent, DataPhases, runVars
  <2> QED
    BY <2>2, <2>3, LifetimeStutter
<1>5. CASE FormationNext
  <2>1. \A n \in Node : nodes'[n].energy = nodes[n].energy /\ nodes'[n].alive = nodes[n].alive
    BY <1>5, JoinKeepsRoles DEF EngineInv, FormationNext, StayOut, EndJoin, AssignRelay,
       NoRelay, EndRelay
  <2>2. pc # "done" /\ pc' # "done" /\ round' = round /\ ~Spent /\ ~Spent'
    <3>1. pc' = "advertise" => i' = 1
      BY <1>5 DEF FormationNext, StayOut, Join, EndJoin, AssignRelay, NoRelay, EndRelay,
         EngineInv, TypeInv, CursorInv
    <3> QED
      BY <1>5, <3>1 DEF FormationNext, StayOut, Join, EndJoin, AssignRelay, NoRelay, EndRelay,
         Spent, DataPhases, runVars
  <2> QED
    BY <2>1, <2>2, LifetimeStutter
<1>6. CASE DataPhaseNext
  BY <1>6, DataPhaseSpends DEF Lifetime!Next
<1>7. CASE UNCHANGED vars
  BY <1>7 DEF vars, runVars, Lifetime!vars, AliveNodes
<1> QED
  BY <1>1, <1>2, <1>3, <1>4, <1>5, <1>6, <1>7 DEF Next, Done

(* Batteries only drain, nobody comes back, rounds go on while somebody is *)
(* alive, and every round that passes has cost energy.                     *)
THEOREM LifetimeCorrect == Spec => LifetimeSpec
<1>1. Init => Lifetime!Init
  BY LifetimeInit
<1>2. EngineInv /\ [Next]_vars => [Lifetime!Next]_(Lifetime!vars)
  BY LifetimeStep
<1> QED
  BY <1>1, <1>2, EngineKept, PTL DEF Spec, LifetimeSpec, Lifetime!Spec

-----------------------------------------------------------------------------
(***************************************************************************)
(* The relay map of LECMAC+, and who is silent in a frame.                 *)
(***************************************************************************)
(* An entry of the relay map names two heads and saves energy. *)
GoodRelay(s, g) ==
  /\ s \in Heads /\ g \in Heads
  /\ ToBase2(g) < ToBase2(s)
  /\ RelayCost(s, g) < DirectCost(s)

(* While the map is built its loads are counted and what is still to do    *)
(* has no gateway; it is good from the first entry to the end of the round.*)
RelayInv ==
  /\ RelayLoad
  /\ Protocol = "LECMAC_PLUS" /\ pc \in DataPhases \cup {"relay"} =>
       \A s \in Node : relayMap[s] # None => GoodRelay(s, relayMap[s])
  /\ pc = "relay" =>
       /\ Protocol = "LECMAC_PLUS"
       /\ todo \subseteq Heads
       /\ \A s \in todo : relayMap[s] = None
       /\ \A g \in Node : gwLoad[g] = Cardinality(RelayedBy(g))

(* The cluster whose slots are running is that of a head of the round. *)
SlotOfHead == pc \in {"slot", "forward"} => i \in Heads

-----------------------------------------------------------------------------
(* A gateway relays for finitely many heads. *)
LEMMA RelayedByFinite ==
  \A g \in Node : IsFiniteSet(RelayedBy(g)) /\ Cardinality(RelayedBy(g)) \in Nat
<1>1. \A g \in Node : RelayedBy(g) \subseteq Node
  BY DEF RelayedBy
<1> QED
  BY <1>1, NodeFinite, FS_Subset, FS_CardinalityType

(* One more source for a gateway that has room. *)
LEMMA AssignRelayKeeps ==
  ASSUME TypeInv, RelayInv, NEW s \in Node, AssignRelay(s)
  PROVE  RelayInv'
<1>1. PICK g \in BestGateway(s) : /\ relayMap' = [relayMap EXCEPT ![s] = g]
                                  /\ gwLoad' = [gwLoad EXCEPT ![g] = gwLoad[g] + 1]
  BY DEF AssignRelay
<1>2. g \in Node /\ g \in Gateways(s)
  BY <1>1, BestGatewayIn
<1>3. /\ pc = "relay" /\ pc' = "relay" /\ s \in todo /\ todo' = todo \ {s}
      /\ UNCHANGED <<pos, nodes, chs>>
      /\ relayMap \in [Node -> Node \cup {None}] /\ gwLoad \in [Node -> Nat]
  BY DEF AssignRelay, Farthest, TypeInv, TypeOK
<1>4. /\ relayMap[s] = None /\ s \in Heads
      /\ \A t \in todo : relayMap[t] = None
      /\ \A h \in Node : gwLoad[h] = Cardinality(RelayedBy(h))
      /\ \A t \in Node : relayMap[t] # None => GoodRelay(t, relayMap[t])
      /\ Protocol = "LECMAC_PLUS" /\ todo \subseteq Heads
  BY <1>3 DEF RelayInv
<1>5. None \notin Node
  BY DEF None, Node
<1>6. RelayedBy(g)' = RelayedBy(g) \cup {s} /\ s \notin RelayedBy(g)
  BY <1>1, <1>2, <1>3, <1>4, <1>5 DEF RelayedBy
<1>7. \A h \in Node : h # g => RelayedBy(h)' = RelayedBy(h)
  BY <1>1, <1>3, <1>4, <1>5 DEF RelayedBy
<1>8. Cardinality(RelayedBy(g)') = Cardinality(RelayedBy(g)) + 1
  BY <1>2, <1>6, RelayedByFinite, FS_AddElement
<1>9. \A h \in Node : gwLoad'[h] = Cardinality(RelayedBy(h)')
  BY <1>1, <1>2, <1>3, <1>4, <1>7, <1>8
<1>10. RelayLoad'
  <2>1. gwLoad[g] < MaxRelayLoad
    BY <1>2 DEF Gateways, HasRoom
  <2>2. Cardinality(RelayedBy(g)') <= MaxRelayLoad
    BY <1>2, <1>3, <1>4, <1>8, <2>1, StateAssumption
  <2> QED
    BY <1>7, <2>2 DEF RelayInv, RelayLoad
<1>11. GoodRelay(s, g)
  BY <1>2, <1>4 DEF GoodRelay, Gateways, Cheaper, AliveHeads, Heads
<1>12. \A t \in Node : relayMap'[t] # None => GoodRelay(t, relayMap'[t])
  BY <1>1, <1>3, <1>4, <1>11
<1>13. \A t, h : GoodRelay(t, h)' <=> GoodRelay(t, h)
  BY <1>3 DEF GoodRelay, Heads, ToBase2, RelayCost, DirectCost, Distance2
<1>14. \A t \in todo' : relayMap'[t] = None
  BY <1>1, <1>3, <1>4
<1> QED
  BY <1>3, <1>4, <1>9, <1>10, <1>12, <1>13, <1>14 DEF RelayInv, Heads, RelayedBy

(* Joins and the relay map keep the invariant of the relay map. *)
LEMMA FormationRelay ==
  ASSUME TypeInv, RelayInv, FormationNext
  PROVE  RelayInv'
<1>0. /\ relayMap \in [Node -> Node \cup {None}] /\ gwLoad \in [Node -> Nat]
      /\ None \notin Node
  BY DEF TypeInv, TypeOK, None, Node
<1>1. CASE StayOut \/ Join
  BY <1>1 DEF StayOut, Join, relayVars, RelayInv, RelayLoad, RelayedBy, DataPhases
<1>2. CASE EndJoin
  <2>1. CASE Protocol = "LECMAC_PLUS"
    <3>1. /\ pc' = "relay" /\ relayMap' = [n \in Node |-> None]
          /\ gwLoad' = [n \in Node |-> 0] /\ todo' = AliveHeads /\ chs' = chs
      BY <1>2, <2>1 DEF EndJoin
    <3>2. \A g \in Node : RelayedBy(g)' = {}
      BY <1>0, <3>1 DEF RelayedBy
    <3>3. \A g \in Node : Cardinality(RelayedBy(g)') = 0
      BY <3>2, FS_EmptySet
    <3>4. RelayLoad'
      BY <3>3, StateAssumption DEF RelayLoad
    <3>5. todo' \subseteq Heads' /\ todo' \subseteq Node
      BY <3>1 DEF AliveHeads, Heads, TypeInv, TypeOK, Range
    <3> QED
      BY <2>1, <3>1, <3>3, <3>4, <3>5 DEF RelayInv
  <2>2. CASE Protocol # "LECMAC_PLUS"
    <3>1. pc' = "advertise" /\ relayMap' = relayMap
      BY <1>2, <2>2 DEF EndJoin, relayVars
    <3> QED
      BY <2>2, <3>1 DEF RelayInv, RelayLoad, RelayedBy
  <2> QED
    BY <2>1, <2>2
<1>3. ASSUME NEW s \in Node, AssignRelay(s)
      PROVE  RelayInv'
  BY <1>3, AssignRelayKeeps
<1>4. ASSUME NEW s \in Node, NoRelay(s)
      PROVE  RelayInv'
  <2>1. /\ pc = "relay" /\ pc' = "relay" /\ s \in todo /\ todo' = todo \ {s}
        /\ relayMap' = [relayMap EXCEPT ![s] = None] /\ UNCHANGED <<pos, chs, gwLoad>>
    BY <1>4 DEF NoRelay, Farthest
  <2>2. relayMap[s] = None
    BY <2>1 DEF RelayInv
  <2>3. relayMap' = relayMap
    BY <1>0, <2>1, <2>2
  <2> QED
    BY <2>1, <2>3 DEF RelayInv, RelayLoad, RelayedBy, GoodRelay, Heads, ToBase2, RelayCost,
       DirectCost, Distance2
<1>5. CASE EndRelay
  BY <1>5 DEF EndRelay, relayVars, RelayInv, RelayLoad, RelayedBy, GoodRelay, Heads, ToBase2,
     RelayCost, DirectCost, Distance2, DataPhases
<1> QED
  BY <1>1, <1>2, <1>3, <1>4, <1>5 DEF FormationNext

(* The data phase keeps the invariant of the relay map. *)
LEMMA DataPhaseRelay ==
  ASSUME RelayInv, DataPhaseNext
  PROVE  RelayInv'
<1>1. /\ UNCHANGED <<pos, chs, relayMap>> /\ pc \in DataPhases /\ pc' \in DataPhases
  BY DEF DataPhaseNext, Advertise, EndAdvertise, NotAMember, SetupMember,
     EndSetup, BeginFrame, EndFrames, SkipCluster, EnterCluster, EndFrame, InSlot, EmptySlot,
     SuppressedSlot, DataSlot, EndSlots, ForwardRelay, ForwardDirect, HeadLost, NextCluster,
     DataPhases, relayVars
<1> QED
  BY <1>1 DEF RelayInv, RelayLoad, RelayedBy, GoodRelay, Heads, ToBase2, RelayCost,
     DirectCost, Distance2, DataPhases

(* The invariant of the relay map is inductive. *)
LEMMA NextRelay == TypeInv /\ RelayInv /\ [Next]_vars => RelayInv'
<1> SUFFICES ASSUME TypeInv, RelayInv, [Next]_vars PROVE RelayInv'
  OBVIOUS
<1>1. CASE BeginRound \/ EndRun \/ Record \/ ElectionNext
  <2>1. relayMap' = relayMap /\ pc' \in Phases \ (DataPhases \cup {"relay"})
    BY <1>1 DEF BeginRound, EndRun, Record, ElectionNext, PassOver, LoseDraw, WinDraw,
       BecomeCandidate, EndDraw, BackOff, Elect, EndElect, ForceHead, KeepHeads, ReturnHeads,
       relayVars, Phases, DataPhases
  <2> QED
    BY <2>1 DEF RelayInv, RelayLoad, RelayedBy
<1>2. CASE FormationNext
  BY <1>2, FormationRelay
<1>3. CASE DataPhaseNext
  BY <1>3, DataPhaseRelay
<1>4. CASE UNCHANGED vars
  BY <1>4 DEF vars, relayVars, RelayInv, RelayLoad, RelayedBy, GoodRelay, Heads, ToBase2,
     RelayCost, DirectCost, Distance2
<1> QED
  BY <1>1, <1>2, <1>3, <1>4 DEF Next, Done

(* At the start no head is relayed. *)
LEMMA InitRelay == Init => RelayInv
<1> SUFFICES ASSUME Init PROVE RelayInv
  OBVIOUS
<1>1. pc = "run" /\ relayMap = [n \in Node |-> None] /\ None \notin Node
  BY DEF Init, None, Node
<1>2. \A g \in Node : RelayedBy(g) = {}
  BY <1>1 DEF RelayedBy
<1>3. RelayLoad
  BY <1>2, FS_EmptySet, StateAssumption DEF RelayLoad
<1> QED
  BY <1>1, <1>3 DEF RelayInv, DataPhases

(* The invariant of the relay map holds in every state. *)
THEOREM RelayKept == Spec => []RelayInv
<1>1. Init => RelayInv
  BY InitRelay
<1>2. TypeInv /\ RelayInv /\ [Next]_vars => RelayInv'
  BY NextRelay
<1> QED
  BY <1>1, <1>2, Typed, PTL DEF Spec

(* No gateway ever relays for more heads than kMaxRelayLoad.               *)
THEOREM RelayLoadCorrect == Spec => []RelayLoad
<1>1. RelayInv => RelayLoad
  BY DEF RelayInv
<1> QED
  BY <1>1, RelayKept, PTL

(* Every entry of the relay map names a head of the round strictly nearer  *)
(* to the base station and a strictly cheaper path, so that following      *)
(* gateways never comes back.                                              *)
THEOREM RelayPathsCorrect == Spec => []RelayPaths
<1>1. RelayInv => RelayPaths
  BY DEF RelayInv, RelayPaths, GoodRelay
<1> QED
  BY <1>1, RelayKept, PTL

-----------------------------------------------------------------------------
(***************************************************************************)
(* The greedy choice of the gateways.                                      *)
(***************************************************************************)

(* Nothing that s would rather have still has room for it. *)
Satisfied(s) ==
  \A g \in Cheaper(s) :
    (relayMap[s] = None \/ RelayCost(s, g) < RelayCost(s, relayMap[s])) =>
      /\ Cardinality(RelayedBy(g)) = MaxRelayLoad
      /\ \A t \in RelayedBy(g) : ToBase2(t) >= ToBase2(s)

(* The heads are served from the farthest to the nearest, and whoever has  *)
(* been served is satisfied.                                               *)
FarthestFirst == \A s \in Heads \ todo : \A t \in todo : ToBase2(t) <= ToBase2(s)

PriorityInv ==
  /\ pc = "relay" => FarthestFirst /\ \A s \in Heads \ todo : Satisfied(s)
  /\ Protocol = "LECMAC_PLUS" /\ pc = "advertise" /\ i = 1 => \A s \in Heads : Satisfied(s)

(* Being satisfied is a matter of the places, the heads and the map. *)
LEMMA SameSatisfied ==
  ASSUME UNCHANGED <<pos, nodes, chs, relayMap>>
  PROVE  \A s : Satisfied(s)' <=> Satisfied(s)
<1>1. \A s, g : /\ ToBase2(s)' = ToBase2(s) /\ DirectCost(s)' = DirectCost(s)
                /\ RelayCost(s, g)' = RelayCost(s, g)
  BY DEF ToBase2, RelayCost, Distance2, DirectCost
<1>2. AliveHeads' = AliveHeads /\ \A g : RelayedBy(g)' = RelayedBy(g)
  BY DEF AliveHeads, RelayedBy
<1>3. \A s : Cheaper(s)' = Cheaper(s)
  BY <1>1, <1>2 DEF Cheaper
<1> QED
  BY <1>1, <1>2, <1>3 DEF Satisfied

(* A gateway without room has all its sources already, and they are at     *)
(* least as far away as the head whose turn it is.                         *)
LEMMA FullGateway ==
  ASSUME TypeInv, RelayInv, PriorityInv, pc = "relay", NEW s \in todo,
         NEW g \in Node, ~HasRoom(g)
  PROVE  /\ Cardinality(RelayedBy(g)) = MaxRelayLoad
         /\ \A t \in RelayedBy(g) : ToBase2(t) >= ToBase2(s)
<1>0. /\ todo \subseteq Node /\ pos \in [Node -> Point] /\ None \notin Node
      /\ MaxRelayLoad \in Nat /\ Cardinality(RelayedBy(g)) \in Nat
  BY RelayedByFinite, StateAssumption DEF TypeInv, TypeOK, None, Node
<1>1. /\ gwLoad[g] = Cardinality(RelayedBy(g)) /\ Cardinality(RelayedBy(g)) <= MaxRelayLoad
      /\ \A t \in todo : relayMap[t] = None
      /\ \A t \in Node : relayMap[t] # None => t \in Heads
      /\ FarthestFirst
  BY DEF RelayInv, RelayLoad, GoodRelay, PriorityInv, DataPhases
<1>2. ASSUME NEW t \in RelayedBy(g) PROVE ToBase2(t) >= ToBase2(s)
  <2>1. t \in Node /\ relayMap[t] = g
    BY DEF RelayedBy
  <2>2. t \in Heads \ todo
    BY <1>0, <1>1, <2>1
  <2>3. ToBase2(t) \in Nat /\ ToBase2(s) \in Nat
    BY <1>0, <2>1, Distance2Type
  <2> QED
    BY <1>1, <2>2, <2>3 DEF FarthestFirst
<1> QED
  BY <1>0, <1>1, <1>2 DEF HasRoom

(* The cost by which gateways are compared is a number. *)
LEMMA RelayCostType ==
  ASSUME TypeInv, NEW s \in Node, NEW g \in Node
  PROVE  RelayCost(s, g) \in Nat
<1>1. pos \in [Node -> Point]
  BY DEF TypeInv, TypeOK
<1>2. /\ TxCost(DataBits, Distance2(s, g)) \in Nat /\ RxCost(DataBits) \in Nat
      /\ TxCost(DataBits, ToBase2(g)) \in Nat
  BY <1>1, Distance2Type, TxCostType, RxCostType, BitsType
<1> QED
  BY <1>2 DEF RelayCost

(* The head whose turn it is takes the best gateway with room. *)
LEMMA AssignSatisfies ==
  ASSUME TypeInv, HeadInv, RelayInv, PriorityInv, NEW s \in Node, AssignRelay(s)
  PROVE  PriorityInv'
<1>1. PICK h \in BestGateway(s) : relayMap' = [relayMap EXCEPT ![s] = h]
  BY DEF AssignRelay
<1>2. h \in Node /\ h \in Gateways(s)
  BY <1>1, BestGatewayIn
<1>0. /\ pc = "relay" /\ pc' = "relay" /\ s \in todo /\ todo' = todo \ {s} /\ Farthest(s)
      /\ UNCHANGED <<pos, nodes, chs>>
      /\ relayMap \in [Node -> Node \cup {None}] /\ None \notin Node
      /\ chs \in Seq(Node) /\ Heads \subseteq Node /\ todo \subseteq Node
      /\ pos \in [Node -> Point] /\ gwLoad[h] < MaxRelayLoad
      /\ relayMap[s] = None /\ s \in Heads
  <2>1. /\ pc = "relay" /\ pc' = "relay" /\ Farthest(s) /\ todo' = todo \ {s}
        /\ UNCHANGED <<pos, nodes, chs>>
    BY DEF AssignRelay
  <2>2. s \in todo
    BY <2>1 DEF Farthest
  <2>3. /\ relayMap \in [Node -> Node \cup {None}] /\ chs \in Seq(Node)
        /\ todo \subseteq Node /\ pos \in [Node -> Point]
    BY DEF TypeInv, TypeOK
  <2>4. Heads \subseteq Node
    BY <2>3 DEF Heads, Range
  <2>5. relayMap[s] = None /\ s \in Heads
    BY <2>1, <2>2 DEF RelayInv
  <2>6. gwLoad[h] < MaxRelayLoad
    BY <1>2 DEF Gateways, HasRoom
  <2>7. None \notin Node
    BY DEF None, Node
  <2> QED
    BY <2>1, <2>2, <2>3, <2>4, <2>5, <2>6, <2>7
<1>3. \A t, g : /\ ToBase2(t)' = ToBase2(t) /\ RelayCost(t, g)' = RelayCost(t, g)
                /\ Cheaper(t)' = Cheaper(t)
  BY <1>0 DEF ToBase2, RelayCost, Distance2, Cheaper, AliveHeads, DirectCost
<1>4. Heads' = Heads /\ AliveHeads \subseteq Node
  BY <1>0 DEF Heads, AliveHeads
<1>5. \A g \in Node : g # h => RelayedBy(g)' = RelayedBy(g)
  BY <1>0, <1>1, <1>2 DEF RelayedBy
<1>6. Cardinality(RelayedBy(h)) # MaxRelayLoad
  <2>1. gwLoad[h] = Cardinality(RelayedBy(h))
    BY <1>0, <1>2 DEF RelayInv
  <2> QED
    BY <1>0, <1>2, <2>1, RelayedByFinite, StateAssumption
<1>7. ASSUME NEW u \in Heads \ todo PROVE Satisfied(u)'
  <2>1. Satisfied(u) /\ u \in Node /\ relayMap'[u] = relayMap[u]
    BY <1>0, <1>1 DEF PriorityInv
  <2> SUFFICES ASSUME NEW g \in Cheaper(u),
                      relayMap[u] = None \/ RelayCost(u, g) < RelayCost(u, relayMap[u])
               PROVE  /\ Cardinality(RelayedBy(g)') = MaxRelayLoad
                      /\ \A t \in RelayedBy(g)' : ToBase2(t) >= ToBase2(u)
    BY <1>3, <2>1 DEF Satisfied
  <2>2. /\ Cardinality(RelayedBy(g)) = MaxRelayLoad
        /\ \A t \in RelayedBy(g) : ToBase2(t) >= ToBase2(u)
    BY <2>1 DEF Satisfied
  <2>3. g \in Node /\ g # h
    BY <1>4, <1>6, <2>2 DEF Cheaper
  <2> QED
    BY <1>5, <2>2, <2>3
<1>8. Satisfied(s)'
  <2>1. relayMap'[s] = h /\ h # None
    BY <1>0, <1>1, <1>2
  <2> SUFFICES ASSUME NEW g \in Cheaper(s), RelayCost(s, g) < RelayCost(s, h)
               PROVE  /\ Cardinality(RelayedBy(g)') = MaxRelayLoad
                      /\ \A t \in RelayedBy(g)' : ToBase2(t) >= ToBase2(s)
    BY <1>3, <2>1 DEF Satisfied
  <2>2. g \in AliveHeads /\ g \in Node
    BY <1>4 DEF Cheaper
  <2>3. RelayCost(s, g) \in Nat /\ RelayCost(s, h) \in Nat
    BY <1>2, <2>2, RelayCostType
  <2>4. g # h
    BY <2>3
  <2>5. g \notin Gateways(s)
    <3>1. PICK k \in DOMAIN chs :
            /\ h = chs[k]
            /\ \A j \in DOMAIN chs : chs[j] \in Gateways(s) =>
                 \/ RelayCost(s, chs[k]) < RelayCost(s, chs[j])
                 \/ RelayCost(s, chs[k]) = RelayCost(s, chs[j]) /\ k <= j
      BY <1>1 DEF BestGateway, FirstCheapest
    <3>2. PICK j \in DOMAIN chs : g = chs[j]
      BY <2>2 DEF AliveHeads, Range
    <3> QED
      BY <2>3, <3>1, <3>2
  <2>6. ~HasRoom(g)
    BY <2>5 DEF Gateways
  <2>7. /\ Cardinality(RelayedBy(g)) = MaxRelayLoad
        /\ \A t \in RelayedBy(g) : ToBase2(t) >= ToBase2(s)
    BY <1>0, <2>2, <2>6, FullGateway
  <2> QED
    BY <1>5, <2>2, <2>4, <2>7
<1>9. FarthestFirst'
  <2>1. \A t \in todo : ToBase2(t) <= ToBase2(s)
    <3> SUFFICES ASSUME NEW t \in todo PROVE ToBase2(t) <= ToBase2(s)
      OBVIOUS
    <3>1. ToBase2(t) \in Nat /\ ToBase2(s) \in Nat
      BY <1>0, Distance2Type
    <3> QED
      BY <1>0, <3>1 DEF Farthest
  <2>2. FarthestFirst
    BY <1>0 DEF PriorityInv
  <2> QED
    BY <1>0, <1>3, <1>4, <2>1, <2>2 DEF FarthestFirst
<1> QED
  BY <1>0, <1>4, <1>7, <1>8, <1>9 DEF PriorityInv

(* Without a gateway with room there is nothing to be had. *)
LEMMA NoRelaySatisfies ==
  ASSUME TypeInv, HeadInv, RelayInv, PriorityInv, NEW s \in Node, NoRelay(s)
  PROVE  PriorityInv'
<1>0. /\ pc = "relay" /\ pc' = "relay" /\ s \in todo /\ todo' = todo \ {s} /\ Farthest(s)
      /\ UNCHANGED <<pos, nodes, chs>> /\ Gateways(s) = {}
      /\ relayMap' = [relayMap EXCEPT ![s] = None]
      /\ relayMap \in [Node -> Node \cup {None}]
      /\ chs \in Seq(Node) /\ Heads \subseteq Node /\ todo \subseteq Node
      /\ pos \in [Node -> Point] /\ relayMap[s] = None
  BY DEF NoRelay, Farthest, TypeInv, TypeOK, RelayInv, Heads, Range
<1>1. relayMap' = relayMap
  BY <1>0
<1>2. Heads' = Heads /\ AliveHeads \subseteq Node
  BY <1>0 DEF Heads, AliveHeads
<1>3. \A u : Satisfied(u)' <=> Satisfied(u)
  BY <1>0, <1>1, SameSatisfied
<1>4. Satisfied(s)
  <2> SUFFICES ASSUME NEW g \in Cheaper(s)
               PROVE  /\ Cardinality(RelayedBy(g)) = MaxRelayLoad
                      /\ \A t \in RelayedBy(g) : ToBase2(t) >= ToBase2(s)
    BY DEF Satisfied
  <2>1. g \in Node /\ ~HasRoom(g)
    BY <1>0, <1>2 DEF Cheaper, Gateways
  <2> QED
    BY <1>0, <2>1, FullGateway
<1>5. \A u \in Heads \ todo : Satisfied(u)
  BY <1>0 DEF PriorityInv
<1>6. FarthestFirst'
  <2>1. \A t \in todo : ToBase2(t) <= ToBase2(s)
    <3> SUFFICES ASSUME NEW t \in todo PROVE ToBase2(t) <= ToBase2(s)
      OBVIOUS
    <3>1. ToBase2(t) \in Nat /\ ToBase2(s) \in Nat
      BY <1>0, Distance2Type
    <3> QED
      BY <1>0, <3>1 DEF Farthest
  <2>2. FarthestFirst /\ \A t : ToBase2(t)' = ToBase2(t)
    BY <1>0 DEF PriorityInv, ToBase2
  <2> QED
    BY <1>0, <1>2, <2>1, <2>2 DEF FarthestFirst
<1> QED
  BY <1>0, <1>2, <1>3, <1>4, <1>5, <1>6 DEF PriorityInv

(* The invariant of the order of relaying is inductive. *)
LEMMA NextPriority ==
  EngineInv /\ RelayInv /\ PriorityInv /\ [Next]_vars => PriorityInv'
<1> SUFFICES ASSUME EngineInv, RelayInv, PriorityInv, [Next]_vars PROVE PriorityInv'
  OBVIOUS
<1>0. TypeInv /\ HeadInv /\ CursorInv
  BY DEF EngineInv, TypeInv
<1>1. ASSUME NEW s \in Node, AssignRelay(s) PROVE PriorityInv'
  BY <1>0, <1>1, AssignSatisfies
<1>2. ASSUME NEW s \in Node, NoRelay(s) PROVE PriorityInv'
  BY <1>0, <1>2, NoRelaySatisfies
<1>3. CASE EndJoin
  <2>1. /\ pc = "join" /\ UNCHANGED <<chs, nodes>>
        /\ Protocol = "LECMAC_PLUS" => pc' = "relay" /\ todo' = AliveHeads
        /\ Protocol # "LECMAC_PLUS" => pc' = "advertise"
    BY <1>3 DEF EndJoin
  <2>2. AliveHeads = Heads
    BY <1>0, <2>1 DEF HeadInv, HeadsFound, Quiet, AliveHeads, Heads, AliveNodes
  <2>3. Protocol = "LECMAC_PLUS" => Heads' \ todo' = {}
    BY <2>1, <2>2 DEF Heads
  <2> QED
    BY <2>1, <2>3 DEF PriorityInv, FarthestFirst
<1>4. CASE EndRelay
  <2>1. /\ pc = "relay" /\ pc' = "advertise" /\ todo = {}
        /\ UNCHANGED <<pos, nodes, chs, relayMap>>
    BY <1>4 DEF EndRelay, relayVars
  <2>2. \A s \in Heads : Satisfied(s)
    BY <2>1 DEF PriorityInv
  <2>3. Heads' = Heads /\ \A s : Satisfied(s)' <=> Satisfied(s)
    BY <2>1, SameSatisfied DEF Heads
  <2> QED
    BY <2>1, <2>2, <2>3 DEF PriorityInv
<1>5. CASE Advertise
  <2>1. pc' = "advertise" /\ i' = i + 1 /\ i >= 1 /\ i \in Nat
    BY <1>0, <1>5 DEF Advertise, CursorInv, TypeInv, TypeOK
  <2> QED
    BY <2>1 DEF PriorityInv
<1>6. CASE UNCHANGED vars
  <2>1. /\ UNCHANGED <<pc, i, todo, pos, nodes, chs, relayMap>>
    BY <1>6 DEF vars, relayVars
  <2>2. Heads' = Heads /\ \A s : Satisfied(s)' <=> Satisfied(s)
    BY <2>1, SameSatisfied DEF Heads
  <2>3. FarthestFirst' <=> FarthestFirst
    BY <2>1, <2>2 DEF FarthestFirst, ToBase2
  <2> QED
    BY <2>1, <2>2, <2>3 DEF PriorityInv
<1>7. ASSUME ~EndJoin, ~EndRelay, ~Advertise, ~UNCHANGED vars,
             \A s \in Node : ~AssignRelay(s) /\ ~NoRelay(s)
      PROVE  PriorityInv'
  <2>1. pc' \notin {"relay", "advertise"}
    BY <1>7 DEF Next, BeginRound, EndRun, Record, ElectionNext, PassOver, LoseDraw, WinDraw,
       BecomeCandidate, EndDraw, BackOff, Elect, EndElect, ForceHead, KeepHeads, ReturnHeads,
       FormationNext, StayOut, Join, DataPhaseNext, EndAdvertise, NotAMember, SetupMember,
       EndSetup, BeginFrame, EndFrames, SkipCluster, EnterCluster, EndFrame, EmptySlot,
       SuppressedSlot, DataSlot, EndSlots, ForwardRelay, ForwardDirect, HeadLost, NextCluster,
       InSlot, Done
  <2> QED
    BY <2>1 DEF PriorityInv
<1> QED
  BY <1>1, <1>2, <1>3, <1>4, <1>5, <1>6, <1>7

(* A head goes without a gateway that would be cheaper than what it got    *)
(* only if that one is full with heads at least as far from the base       *)
(* station (lines 917-955).                                                *)
THEOREM RelayPriorityCorrect == Spec => []RelayPriority
<1>1. Init => PriorityInv
  BY DEF Init, PriorityInv
<1>2. EngineInv /\ RelayInv /\ PriorityInv /\ [Next]_vars => PriorityInv'
  BY NextPriority
<1>3. PriorityInv => RelayPriority
  BY DEF PriorityInv, RelayPriority, Satisfied, AliveHeads, Heads
<1> QED
  BY <1>1, <1>2, <1>3, EngineKept, RelayKept, PTL DEF Spec

-----------------------------------------------------------------------------
(***************************************************************************)
(* Stranded members.                                                       *)
(***************************************************************************)
LEMMA NextSlotOfHead == EngineInv /\ SlotOfHead /\ [Next]_vars => SlotOfHead'
<1> SUFFICES ASSUME EngineInv, SlotOfHead, [Next]_vars PROVE SlotOfHead'
  OBVIOUS
<1>1. CASE EnterCluster
  BY <1>1 DEF EnterCluster, SlotOfHead, EngineInv, HeadInv, HeadsInv, Heads
<1>2. CASE EmptySlot \/ SuppressedSlot \/ DataSlot \/ EndSlots
  BY <1>2 DEF EmptySlot, SuppressedSlot, DataSlot, EndSlots, InSlot, SlotOfHead, Heads
<1>3. CASE UNCHANGED vars
  BY <1>3 DEF vars, SlotOfHead, Heads
<1>4. CASE ~EnterCluster /\ ~(EmptySlot \/ SuppressedSlot \/ DataSlot \/ EndSlots) /\ ~UNCHANGED vars
  <2>1. pc' \notin {"slot", "forward"}
    BY <1>4 DEF Next, BeginRound, EndRun, Record, ElectionNext, PassOver, LoseDraw, WinDraw,
       BecomeCandidate, EndDraw, BackOff, Elect, EndElect, ForceHead, KeepHeads, ReturnHeads,
       FormationNext, StayOut, Join, EndJoin, AssignRelay, NoRelay, EndRelay,
       DataPhaseNext, Advertise, EndAdvertise, NotAMember, SetupMember, EndSetup, BeginFrame,
       EndFrames, SkipCluster, EndFrame, ForwardRelay, ForwardDirect, HeadLost, NextCluster, Done
  <2> QED
    BY <2>1 DEF SlotOfHead
<1> QED
  BY <1>1, <1>2, <1>3, <1>4

(* Consume charges one node and no other. *)
LEMMA OthersDoNotPay ==
  ASSUME NEW ns \in [Node -> NodeState], NEW id, NEW joules, NEW n \in Node, n # id
  PROVE  Consume(ns, id, joules)[n] = ns[n]
BY DEF Consume

(* The frame charges heads, the member whose slot it is and the            *)
(* unassigned; a stranded member is none of them.                          *)
LEMMA StrandedStep ==
  ASSUME EngineInv, RelayInv, SlotOfHead, Next,
         pc \in {"frame", "cluster", "slot", "forward"},
         NEW n \in Node, nodes[n].clusterHeadId # None,
         ~nodes[nodes[n].clusterHeadId].alive,
         ~(pc = "slot" /\ i = nodes[n].clusterHeadId)
  PROVE  nodes'[n].energy = nodes[n].energy
<1> DEFINE c == nodes[n].clusterHeadId
<1>0. /\ nodes \in [Node -> NodeState] /\ nodes \in Ledger /\ pos \in [Node -> Point]
      /\ MembershipInv /\ HeadsInv /\ c \in Node
      /\ relayMap \in [Node -> Node \cup {None}]
      /\ pc \in {"slot", "forward"} => i \in Node
  BY DEF EngineInv, TypeInv, TypeOK, CursorInv, HeadInv, MemberInv, NodeState
<1>1. n \in MembersOf(c) /\ n \notin Heads
  BY <1>0 DEF MembershipInv
<1>2. pc \in {"slot", "forward"} => n # i
  BY <1>1 DEF SlotOfHead
<1>3. ASSUME InSlot
      PROVE  n # SlotMember /\ SlotMember \in Node
  <2>1. /\ pc = "slot" /\ i \in Node /\ i # c
        /\ slot \in 1 .. Len(nodes[i].members) /\ nodes[i].members \in Seq(Node)
    BY <1>0, <1>3 DEF InSlot, EngineInv, TypeInv, TypeOK, CursorInv, NodeState
  <2>2. SlotMember \in MembersOf(i) /\ SlotMember \in Node
    BY <2>1 DEF SlotMember, MembersOf, Range
  <2>3. MembersOf(i) \cap MembersOf(c) = {}
    BY <1>0, <2>1 DEF MembershipInv
  <2> QED
    BY <1>1, <2>2, <2>3
<1>4. CASE BeginFrame
  <2>1. n \notin Unassigned(nodes)
    BY DEF Unassigned
  <2> QED
    BY <1>0, <1>4, <2>1 DEF BeginFrame, SendDirect
<1>5. CASE EmptySlot
  BY <1>0, <1>2, <1>5, OthersDoNotPay DEF EmptySlot, InSlot
<1>6. VpListen(nodes) \in [Node -> NodeState]
      /\ (InSlot => VpListen(nodes)[n] = nodes[n])
  <2>1. IdleCost(ControlBits) \in Nat
    BY IdleCostType, BitsType
  <2>2. VpListen(nodes) \in Ledger
    BY <1>0, <2>1, ConsumeFacts DEF VpListen
  <2> QED
    BY <1>0, <1>2, <2>2, OthersDoNotPay DEF VpListen, InSlot, Ledger
<1>7. CASE SuppressedSlot
  BY <1>3, <1>6, <1>7, OthersDoNotPay DEF SuppressedSlot
<1>8. CASE DataSlot
  <2> DEFINE sent == Consume(VpListen(nodes), SlotMember, TxCost(DataBits, Distance2(SlotMember, i)))
  <2>1. InSlot /\ i \in Node /\ n # i /\ nodes' = Consume(sent, i, RxCost(DataBits))
    BY <1>0, <1>2, <1>8 DEF DataSlot, InSlot
  <2>2. TxCost(DataBits, Distance2(SlotMember, i)) \in Nat
    BY <1>0, <1>3, <2>1, Distance2Type, TxCostType, BitsType
  <2>3. VpListen(nodes) \in Ledger
    BY <1>0, ConsumeFacts, IdleCostType, BitsType DEF VpListen
  <2>4. sent \in [Node -> NodeState] /\ sent[n] = nodes[n]
    BY <1>3, <1>6, <2>1, <2>2, <2>3, ConsumeFacts, OthersDoNotPay DEF Ledger
  <2> HIDE DEF sent
  <2> QED
    BY <2>1, <2>4, OthersDoNotPay
<1>9. CASE ForwardDirect
  BY <1>0, <1>2, <1>9, OthersDoNotPay DEF ForwardDirect
<1>10. CASE ForwardRelay
  <2> DEFINE g == Gateway
             sent == Consume(nodes, i, TxCost(DataBits, Distance2(i, g)))
             received == Consume(sent, g, RxCost(DataBits))
  <2>1. /\ pc = "forward" /\ i \in Node /\ g \in Node /\ n # i
        /\ nodes' = Consume(received, g, TxCost(DataBits, ToBase2(g)))
    BY <1>0, <1>2, <1>10 DEF ForwardRelay, SendOver
  <2>2. g \in Heads
    <3>1. Protocol = "LECMAC_PLUS" /\ relayMap[i] = g /\ g # None
      BY <2>1 DEF Gateway, None, Node
    <3> QED
      BY <2>1, <3>1 DEF RelayInv, GoodRelay, DataPhases
  <2>3. n # g
    BY <1>1, <2>2
  <2>4. /\ TxCost(DataBits, Distance2(i, g)) \in Nat /\ RxCost(DataBits) \in Nat
    BY <1>0, <2>1, Distance2Type, TxCostType, RxCostType, BitsType
  <2>5. sent \in Ledger /\ sent[n] = nodes[n]
    BY <1>0, <2>1, <2>4, ConsumeFacts, OthersDoNotPay
  <2>6. received \in Ledger /\ received[n] = sent[n]
    <3> HIDE DEF sent
    <3> QED
      BY <2>3, <2>4, <2>5, ConsumeFacts, OthersDoNotPay DEF Ledger
  <2> HIDE DEF sent, received, g
  <2> QED
    BY <2>1, <2>3, <2>5, <2>6, OthersDoNotPay DEF Ledger
<1>11. CASE UNCHANGED nodes
  BY <1>11
<1> QED
  BY <1>4, <1>5, <1>7, <1>8, <1>9, <1>10, <1>11
  DEF Next, BeginRound, EndRun, Record, ElectionNext, PassOver, LoseDraw, WinDraw,
      BecomeCandidate, EndDraw, BackOff, Elect, EndElect, ForceHead, KeepHeads,
      FormationNext, StayOut, Join, EndJoin, AssignRelay, NoRelay, EndRelay,
      DataPhaseNext, Advertise, EndAdvertise, NotAMember, SetupMember, EndSetup,
      EndFrames, SkipCluster, EnterCluster, EndFrame, EndSlots, HeadLost, Done, vars

(* A member whose head is dead spends nothing outside the slots of that    *)
(* head's cluster.                                                         *)
THEOREM StrandedCorrect == Spec => StrandedSilent
<1> DEFINE Silent == \A n \in Node :
       /\ pc \in {"frame", "cluster", "slot", "forward"}
       /\ nodes[n].clusterHeadId # None
       /\ ~nodes[nodes[n].clusterHeadId].alive
       /\ ~(pc = "slot" /\ i = nodes[n].clusterHeadId)
       => nodes'[n].energy = nodes[n].energy
<1>1. Init => SlotOfHead
  BY DEF Init, SlotOfHead
<1>2. EngineInv /\ SlotOfHead /\ [Next]_vars => SlotOfHead'
  BY NextSlotOfHead
<1>3. EngineInv /\ RelayInv /\ SlotOfHead /\ [Next]_vars => [Silent]_vars
  BY StrandedStep
<1> QED
  BY <1>1, <1>2, <1>3, EngineKept, RelayKept, PTL DEF Spec, StrandedSilent

-----------------------------------------------------------------------------
(***************************************************************************)
(* The last hop.                                                           *)
(***************************************************************************)
(* Who is charged pays in full or has nothing left.                        *)
LEMMA ConsumeInFull ==
  ASSUME NEW ns \in Ledger, NEW id \in Node, NEW joules \in Nat
  PROVE  \/ Consume(ns, id, joules)[id].energy = 0
         \/ Consume(ns, id, joules)[id].energy = ns[id].energy - joules
<1>1. ns \in [Node -> NodeState] /\ ns[id] \in NodeState /\ Battery(ns[id])
  BY DEF Ledger
<1>2. ns[id].energy \in Nat
  BY <1>1, StateAssumption DEF NodeState
<1>3. CASE ~ns[id].alive
  BY <1>1, <1>2, <1>3 DEF Consume, Battery
<1>4. CASE ns[id].alive
  <2>1. Consume(ns, id, joules)[id] = Charge(ns[id], joules)
    BY <1>1, <1>4 DEF Consume
  <2>2. CASE ns[id].energy <= joules
    BY <1>1, <2>1, <2>2, DeadFields DEF Charge
  <2>3. CASE ~(ns[id].energy <= joules)
    BY <1>1, <2>1, <2>3 DEF Charge, NodeState
  <2> QED
    BY <2>2, <2>3
<1> QED
  BY <1>3, <1>4

(* A head that forwards pays the last hop itself or has it paid.           *)
LEMMA LastHopStep ==
  ASSUME EngineInv, RelayInv, SlotOfHead, Next, pc = "forward", nodes[i].alive
  PROVE  \E h \in Heads : PaysLastHop(h)
<1>0. /\ nodes \in [Node -> NodeState] /\ nodes \in Ledger /\ pos \in [Node -> Point]
      /\ relayMap \in [Node -> Node \cup {None}]
      /\ i \in Node /\ i \in Heads
  BY DEF EngineInv, TypeInv, TypeOK, CursorInv, SlotOfHead
<1>1. \A n \in Node : ToBase2(n) \in Nat /\ TxCost(DataBits, ToBase2(n)) \in Nat
  BY <1>0, Distance2Type, TxCostType, BitsType
<1>2. CASE ForwardDirect
  <2> DEFINE cost == TxCost(DataBits, ToBase2(i))
  <2>1. nodes' = Consume(nodes, i, cost)
    BY <1>2 DEF ForwardDirect
  <2>2. cost \in Nat
    BY <1>0, <1>1
  <2> HIDE DEF cost
  <2>3. nodes'[i].energy = 0 \/ nodes'[i].energy = nodes[i].energy - cost
    BY <1>0, <2>1, <2>2, ConsumeInFull
  <2>4. nodes[i].energy \in Int
    BY <1>0, StateAssumption DEF NodeState
  <2>5. PaysLastHop(i)
    BY <2>2, <2>3, <2>4 DEF PaysLastHop, cost
  <2> QED
    BY <1>0, <2>5
<1>3. CASE ForwardRelay
  <2> DEFINE g == Gateway
             sent == Consume(nodes, i, TxCost(DataBits, Distance2(i, g)))
             received == Consume(sent, g, RxCost(DataBits))
             last == TxCost(DataBits, ToBase2(g))
  <2>1. /\ g \in Node /\ nodes[g].alive
        /\ nodes' = Consume(received, g, last)
    BY <1>3 DEF ForwardRelay, SendOver
  <2>2. g \in Heads
    <3>1. Protocol = "LECMAC_PLUS" /\ relayMap[i] = g /\ g # None
      BY <2>1 DEF Gateway, None, Node
    <3> QED
      BY <1>0, <2>1, <3>1 DEF RelayInv, GoodRelay, DataPhases
  <2>3. TxCost(DataBits, Distance2(i, g)) \in Nat /\ RxCost(DataBits) \in Nat /\ last \in Nat
    BY <1>0, <1>1, <2>1, Distance2Type, TxCostType, RxCostType, BitsType
  <2>4. sent \in Ledger /\ Paid(nodes, sent)
    BY <1>0, <2>3, ConsumeFacts
  <2>5. received \in Ledger /\ Paid(sent, received)
    <3> HIDE DEF sent
    <3> QED
      BY <2>3, <2>4, ConsumeFacts
  <2> HIDE DEF sent, received, last, g
  <2>6. received[g].energy <= nodes[g].energy
    <3>1. Paid(nodes, received)
      BY <1>0, <2>4, <2>5, PaidTransitive DEF Ledger
    <3> QED
      BY <2>1, <3>1 DEF Paid, Spends
  <2>7. nodes'[g].energy = 0 \/ nodes'[g].energy = received[g].energy - last
    BY <2>1, <2>3, <2>5, ConsumeInFull
  <2>8. received[g].energy \in Int /\ nodes[g].energy \in Int
    BY <1>0, <2>1, <2>5, StateAssumption DEF Ledger, NodeState
  <2>9. nodes'[g].energy = 0 \/ nodes'[g].energy <= nodes[g].energy - last
    BY <2>3, <2>6, <2>7, <2>8
  <2> QED
    BY <2>1, <2>2, <2>9 DEF PaysLastHop, last
<1>4. ForwardDirect \/ ForwardRelay
  BY DEF Next, BeginRound, EndRun, Record, ElectionNext, PassOver, LoseDraw, WinDraw,
      BecomeCandidate, EndDraw, BackOff, Elect, EndElect, ForceHead, KeepHeads, ReturnHeads,
      FormationNext, StayOut, Join, EndJoin, AssignRelay, NoRelay, EndRelay,
      DataPhaseNext, Advertise, EndAdvertise, NotAMember, SetupMember, EndSetup, BeginFrame,
      EndFrames, SkipCluster, EnterCluster, EndFrame, EmptySlot, SuppressedSlot, DataSlot,
      InSlot, EndSlots, HeadLost, Done
<1> QED
  BY <1>2, <1>3, <1>4

(* The data of a cluster with a live head is never sent to a dead gateway: *)
(* a live head pays for the hop to the base station, whoever died before.  *)
THEOREM DataReachesBaseCorrect == Spec => DataReachesBase
<1> DEFINE Reaches == pc = "forward" /\ nodes[i].alive => \E h \in Heads : PaysLastHop(h)
<1>1. Init => SlotOfHead
  BY DEF Init, SlotOfHead
<1>2. EngineInv /\ SlotOfHead /\ [Next]_vars => SlotOfHead'
  BY NextSlotOfHead
<1>3. EngineInv /\ RelayInv /\ SlotOfHead /\ [Next]_vars => [Reaches]_vars
  BY LastHopStep
<1> QED
  BY <1>1, <1>2, <1>3, EngineKept, RelayKept, PTL DEF Spec, DataReachesBase

-----------------------------------------------------------------------------
(***************************************************************************)
(* The lines of the output file.                                           *)
(***************************************************************************)
(* The element a fold over a set takes first. *)
PickOf(s) == CHOOSE n \in s : TRUE

(* The sums of the energies of the subsets of S. *)
EnergySums(ns, S) ==
  {F \in [SUBSET S -> Nat] :
     /\ F[{}] = 0
     /\ \A s \in SUBSET S : s # {} => F[s] = ns[PickOf(s)].energy + F[s \ {PickOf(s)}]}

(* The sum of the energies obeys the recursion it is defined by. *)
LEMMA EnergyRecursion ==
  ASSUME NEW ns, NEW S, IsFiniteSet(S), \A n \in S : ns[n].energy \in Nat
  PROVE  \E F \in EnergySums(ns, S) : EnergyOf(ns, S) = F[S]
<1> DEFINE op == [p \in S \X Nat |-> ns[p[1]].energy + p[2]]
           x == [s \in (SUBSET S) \ {{}} |-> PickOf(s)]
           f(iter) == [s \in SUBSET S |->
                         IF s = {} THEN 0 ELSE ns[PickOf(s)].energy + iter[s \ {PickOf(s)}]]
           F == CHOOSE iter : iter = f(iter)
<1>1. op \in [S \X Nat -> Nat]
  OBVIOUS
<1>2. \A s \in SUBSET S : s # {} => x[s] = PickOf(s) /\ PickOf(s) \in s
  BY DEF PickOf
<1>3. PICK G \in FoldsOf(S, Nat, 0, op, x) : TRUE
  <2>1. x \in Choosers(S)
    BY <1>2 DEF Choosers
  <2> HIDE DEF op, x
  <2>2. 0 \in Nat /\ IsFiniteSet(S) /\ op \in [S \X Nat -> Nat]
    BY <1>1
  <2> QED
    BY <2>1, <2>2, SubsetRecursion
<1>4. G \in [SUBSET S -> Nat] /\ G[{}] = 0
      /\ \A s \in SUBSET S : s # {} => G[s] = ns[PickOf(s)].energy + G[s \ {PickOf(s)}]
  <2>1. G \in [SUBSET S -> Nat] /\ G[{}] = 0
        /\ \A s \in SUBSET S : s # {} => G[s] = op[<<x[s], G[s \ {x[s]}]>>]
    BY <1>3 DEF FoldsOf
  <2> SUFFICES ASSUME NEW s \in SUBSET S, s # {}
               PROVE  G[s] = ns[PickOf(s)].energy + G[s \ {PickOf(s)}]
    BY <2>1
  <2>2. x[s] = PickOf(s) /\ PickOf(s) \in S /\ G[s \ {PickOf(s)}] \in Nat
    BY <1>2, <2>1
  <2> HIDE DEF x
  <2> QED
    BY <2>1, <2>2
<1>5. G = f(G)
  BY <1>4
<1>6. F = f(F)
  <2> HIDE DEF f
  <2> QED
    BY <1>5
<1>7. EnergyOf(ns, S) = F[S]
  BY DEF EnergyOf, MapThenSumSet, MapThenFoldSet, PickOf
<1> HIDE DEF F, op, x
<1>8. /\ F[{}] = 0
      /\ \A s \in SUBSET S : s # {} => F[s] = ns[PickOf(s)].energy + F[s \ {PickOf(s)}]
  BY <1>6
<1> DEFINE T == {s \in SUBSET S : F[s] \in Nat}
<1>9. SUBSET S \subseteq T
  <2>1. {} \in T
    BY <1>8
  <2>2. ASSUME NEW s \in SUBSET S, s # {}, \A e \in s : s \ {e} \in T
        PROVE  s \in T
    <3>1. PickOf(s) \in s /\ PickOf(s) \in S
      BY <1>2, <2>2
    <3>2. F[s \ {PickOf(s)}] \in Nat
      BY <2>2, <3>1
    <3> QED
      BY <1>8, <2>2, <3>1, <3>2
  <2> HIDE DEF T
  <2> QED
    BY <2>1, <2>2, SubsetInduction
<1>10. F \in [SUBSET S -> Nat]
  <2>1. F = [s \in SUBSET S |-> F[s]]
    BY <1>6
  <2> QED
    BY <1>9, <2>1
<1> QED
  BY <1>7, <1>8, <1>10 DEF EnergySums

(* Who has no more of anything has no more in all. *)
LEMMA EnergyLess ==
  ASSUME NEW ns, NEW ms, NEW S, IsFiniteSet(S),
         \A n \in S : ns[n].energy \in Nat /\ ms[n].energy \in Nat
                      /\ ns[n].energy <= ms[n].energy
  PROVE  /\ EnergyOf(ns, S) \in Nat /\ EnergyOf(ms, S) \in Nat
         /\ EnergyOf(ns, S) <= EnergyOf(ms, S)
         /\ (\E n \in S : ns[n].energy < ms[n].energy) => EnergyOf(ns, S) < EnergyOf(ms, S)
<1>0. (\A n \in S : ns[n].energy \in Nat) /\ (\A n \in S : ms[n].energy \in Nat)
  OBVIOUS
<1>1. PICK F \in EnergySums(ns, S) : EnergyOf(ns, S) = F[S]
  BY <1>0, EnergyRecursion
<1>2. PICK G \in EnergySums(ms, S) : EnergyOf(ms, S) = G[S]
  BY <1>0, EnergyRecursion
<1> DEFINE T == {s \in SUBSET S :
                   /\ F[s] <= G[s]
                   /\ (\E n \in s : ns[n].energy < ms[n].energy) => F[s] < G[s]}
<1>3. {} \in T
  BY <1>1, <1>2 DEF EnergySums
<1>4. ASSUME NEW s \in SUBSET S, s # {}, \A e \in s : s \ {e} \in T
      PROVE  s \in T
  <2> DEFINE p == PickOf(s)
             r == s \ {p}
  <2>1. p \in s /\ p \in S /\ r \in SUBSET S
    BY <1>4 DEF PickOf
  <2>2. r \in T
    BY <1>4, <2>1
  <2>3. F[s] = ns[p].energy + F[r] /\ G[s] = ms[p].energy + G[r]
    BY <1>1, <1>2, <1>4 DEF EnergySums
  <2>4. /\ F[r] \in Nat /\ G[r] \in Nat /\ F[r] <= G[r]
        /\ ns[p].energy \in Nat /\ ms[p].energy \in Nat /\ ns[p].energy <= ms[p].energy
        /\ (\E n \in r : ns[n].energy < ms[n].energy) => F[r] < G[r]
    BY <1>1, <1>2, <2>1, <2>2 DEF EnergySums
  <2> HIDE DEF r, p
  <2>5. F[s] <= G[s]
    BY <2>3, <2>4
  <2>6. ASSUME NEW n \in s, ns[n].energy < ms[n].energy
        PROVE  F[s] < G[s]
    <3>1. CASE n = p
      BY <2>3, <2>4, <2>6, <3>1
    <3>2. CASE n # p
      <4>1. n \in r
        BY <3>2 DEF r
      <4>2. F[r] < G[r]
        BY <2>4, <2>6, <4>1
      <4> QED
        BY <2>3, <2>4, <4>2
    <3> QED
      BY <3>1, <3>2
  <2> QED
    BY <2>5, <2>6
<1>5. SUBSET S \subseteq T
  <2> HIDE DEF T
  <2> QED
    BY <1>3, <1>4, SubsetInduction
<1>6. S \in T
  BY <1>5
<1> QED
  BY <1>1, <1>2, <1>6 DEF EnergySums

(* The energy before the first round. *)
LEMMA EnergyAtStart ==
  ASSUME nodes = [n \in Node |-> FreshNode]
  PROVE  TotalEnergy(nodes) = N * InitialEnergy /\ N * InitialEnergy \in Nat
<1>0. /\ \A n \in Node : nodes[n].energy = InitialEnergy
      /\ InitialEnergy \in Nat /\ IsFiniteSet(Node) /\ Cardinality(Node) = N /\ N \in Nat
  BY StateAssumption, NodeFinite DEF FreshNode
<1>9. \A n \in Node : nodes[n].energy \in Nat
  BY <1>0
<1>1. PICK F \in EnergySums(nodes, Node) : EnergyOf(nodes, Node) = F[Node]
  BY <1>0, <1>9, EnergyRecursion
<1> DEFINE T == {s \in SUBSET Node : F[s] = Cardinality(s) * InitialEnergy}
<1>2. {} \in T
  BY <1>0, <1>1, FS_EmptySet DEF EnergySums
<1>3. ASSUME NEW s \in SUBSET Node, s # {}, \A e \in s : s \ {e} \in T
      PROVE  s \in T
  <2> DEFINE p == PickOf(s)
             r == s \ {p}
  <2>1. p \in s /\ p \in Node /\ r \in SUBSET Node
    BY <1>3 DEF PickOf
  <2>2. r \in T
    BY <1>3, <2>1
  <2>3. F[s] = InitialEnergy + F[r]
    BY <1>0, <1>1, <1>3, <2>1 DEF EnergySums
  <2>4. Cardinality(r) = Cardinality(s) - 1 /\ Cardinality(s) \in Nat
    BY <1>0, <2>1, FS_Subset, FS_RemoveElement, FS_CardinalityType
  <2>5. F[r] = (Cardinality(s) - 1) * InitialEnergy
    BY <2>2, <2>4
  <2> HIDE DEF r, p
  <2>6. \A a, e \in Int : e + (a - 1) * e = a * e
    OBVIOUS
  <2> QED
    BY <1>0, <2>3, <2>4, <2>5, <2>6
<1>4. SUBSET Node \subseteq T
  <2> HIDE DEF T
  <2> QED
    BY <1>0, <1>2, <1>3, SubsetInduction
<1>5. Node \in T
  BY <1>4
<1> QED
  BY <1>0, <1>1, <1>5, ProductType DEF TotalEnergy

-----------------------------------------------------------------------------
(* Has this round cost anything yet? *)
RoundSpent ==
  \/ pc \in DataPhases \ {"advertise"}
  \/ pc = "advertise" /\ i > 1

(* Before the run is over the last line is that of the round before,       *)
(* somebody was alive in it, it counts every node, and since then nobody   *)
(* came back and no battery was filled; it had no dead node exactly if FND *)
(* is not known.                                                           *)
RowInv ==
  pc # "done" =>
    /\ row.round = round - 1 /\ row.alive > 0 /\ row.dead + row.alive = N
    /\ row.dead <= CountDeadNodes(nodes)
    /\ row.energy \in Nat /\ TotalEnergy(nodes) <= row.energy
    /\ RoundSpent => TotalEnergy(nodes) < row.energy
    /\ firstDead = 0 <=> row.dead = 0

(* A step that leaves the batteries, the lives and the record alone, and   *)
(* spends nothing.                                                         *)
LEMMA RowStutter ==
  ASSUME EngineInv, RowInv, pc # "done", ~RoundSpent', UNCHANGED runVars,
         \A n \in Node : nodes'[n].energy = nodes[n].energy /\ nodes'[n].alive = nodes[n].alive
  PROVE  RowInv'
<1>1. /\ row' = row /\ round' = round /\ firstDead' = firstDead
  BY DEF runVars
<1>2. CountDeadNodes(nodes') = CountDeadNodes(nodes)
  BY DEF CountDeadNodes, AliveNodes
<1>3. TotalEnergy(nodes') = TotalEnergy(nodes)
  BY EnergyOfSame DEF TotalEnergy
<1> QED
  BY <1>1, <1>2, <1>3 DEF RowInv

(* The dead do not become fewer and the energy does not become more. *)
LEMMA PaidTotals ==
  ASSUME NEW ns \in Ledger, NEW ms \in Ledger, Paid(ns, ms)
  PROVE  /\ CountDeadNodes(ns) <= CountDeadNodes(ms)
         /\ TotalEnergy(ns) \in Nat /\ TotalEnergy(ms) \in Nat
         /\ TotalEnergy(ms) <= TotalEnergy(ns)
         /\ (\E n \in Node : ms[n].energy < ns[n].energy) => TotalEnergy(ms) < TotalEnergy(ns)
<1>1. \A n \in Node :
        /\ ns[n].energy \in Nat /\ ms[n].energy \in Nat
        /\ ms[n].energy <= ns[n].energy
        /\ ms[n].alive => ns[n].alive
  BY StateAssumption DEF Ledger, NodeState, Paid, Spends
<1>2. CountDeadNodes(ns) <= CountDeadNodes(ms)
  <2>1. Node \ AliveNodes(ns) \in SUBSET (Node \ AliveNodes(ms))
    BY <1>1 DEF AliveNodes
  <2>2. IsFiniteSet(Node \ AliveNodes(ms))
    BY NodeFinite, FS_Difference
  <2> QED
    BY <2>1, <2>2, FS_Subset DEF CountDeadNodes
<1> QED
  BY <1>1, <1>2, NodeFinite, EnergyLess DEF TotalEnergy

(* The data phase keeps the invariant of the last row: energy only falls. *)
LEMMA DataPhaseRow ==
  ASSUME EngineInv, RowInv, DataPhaseNext
  PROVE  RowInv'
<1>1. nodes' \in Ledger /\ Paid(nodes, nodes') /\ nodes \in Ledger
      /\ i \in Nat /\ chs \in Seq(Node)
  BY DataPhasePays DEF EngineInv, TypeInv, TypeOK
<1>2. /\ pc \in DataPhases /\ pc # "done" /\ UNCHANGED <<round, firstDead, row>>
      /\ chs # <<>> /\ (pc = "advertise" => i >= 1)
  BY DEF DataPhaseNext, Advertise, EndAdvertise, NotAMember, SetupMember,
     EndSetup, BeginFrame, EndFrames, SkipCluster, EnterCluster, EndFrame, InSlot, EmptySlot,
     SuppressedSlot, DataSlot, EndSlots, ForwardRelay, ForwardDirect, HeadLost, NextCluster,
     DataPhases, runVars, EngineInv, TypeInv, CursorInv, TypeOK, HeadInv, HeadsFound
<1>3. CASE \E n \in AliveNodes(nodes) : nodes'[n].energy < nodes[n].energy
  <2>1. \E n \in Node : nodes'[n].energy < nodes[n].energy
    BY <1>3 DEF AliveNodes
  <2>2. /\ CountDeadNodes(nodes) <= CountDeadNodes(nodes')
        /\ CountDeadNodes(nodes) \in Int /\ CountDeadNodes(nodes') \in Int
        /\ TotalEnergy(nodes) \in Nat /\ TotalEnergy(nodes') \in Nat
        /\ TotalEnergy(nodes') < TotalEnergy(nodes)
    BY <1>1, <2>1, PaidTotals, CountTypes
  <2> QED
    BY <1>2, <2>2 DEF RowInv, EngineInv, TypeInv, TypeOK
<1>4. CASE ~ \E n \in AliveNodes(nodes) : nodes'[n].energy < nodes[n].energy
  <2>1. RoundSpent
    <3>1. ~(pc = "advertise" /\ i = 1 /\ Advertise)
      BY <1>4, FirstAdvertiserPays
    <3>2. ~(pc = "advertise" /\ i = 1 /\ ~Advertise)
      <4> SUFFICES ASSUME pc = "advertise", i = 1, ~Advertise PROVE FALSE
        OBVIOUS
      <4>1. EndAdvertise
        BY DEF DataPhaseNext, NotAMember, SetupMember, EndSetup, BeginFrame, EndFrames,
           SkipCluster, EnterCluster, EndFrame, InSlot, EmptySlot, SuppressedSlot, DataSlot,
           EndSlots, ForwardRelay, ForwardDirect, HeadLost
      <4>2. ~(1 > Len(chs))
        BY <1>1, <1>2
      <4> QED
        BY <4>1, <4>2 DEF EndAdvertise
    <3> QED
      BY <1>1, <1>2, <3>1, <3>2 DEF RoundSpent, DataPhases
  <2>2. /\ CountDeadNodes(nodes) <= CountDeadNodes(nodes')
        /\ CountDeadNodes(nodes) \in Int /\ CountDeadNodes(nodes') \in Int
        /\ TotalEnergy(nodes) \in Nat /\ TotalEnergy(nodes') \in Nat
        /\ TotalEnergy(nodes') <= TotalEnergy(nodes)
    BY <1>1, PaidTotals, CountTypes
  <2> QED
    BY <1>2, <2>1, <2>2 DEF RowInv, EngineInv, TypeInv, TypeOK
<1> QED
  BY <1>3, <1>4

(* The line a round ends with. *)
LEMMA RecordFacts ==
  ASSUME EngineInv, RowInv, Record
  PROVE  /\ row'.round = row.round + 1
         /\ row.alive > 0
         /\ row'.dead >= row.dead
         /\ row'.energy < row.energy
         /\ row'.dead + row'.alive = N
         /\ row'.chs <= row'.alive
         /\ firstDead' # firstDead <=> row.dead = 0 /\ row'.dead > 0
         /\ firstDead' # firstDead => firstDead' = row'.round
         /\ row'.alive = 0 => lastDead' = row'.round /\ row'.dead > row.dead
<1> DEFINE dead == CountDeadNodes(nodes)
<1>1. /\ row'.round = round /\ row'.dead = dead /\ row'.alive = N - dead
      /\ row'.chs = CountClusterHeads(nodes) /\ row'.energy = TotalEnergy(nodes)
      /\ firstDead' = IF dead > 0 /\ firstDead = 0 THEN round ELSE firstDead
      /\ lastDead' = IF dead > 0 THEN round ELSE lastDead
      /\ pc = "record"
  BY DEF Record
<1>2. dead \in 0 .. N /\ N \in Nat /\ round \in Nat \ {0} /\ row.dead \in Nat
      /\ row.round \in Nat /\ row.alive \in Int /\ firstDead \in Nat
  BY CountTypes, StateAssumption DEF EngineInv, TypeInv, TypeOK
<1>3. RoundSpent
  BY <1>1 DEF RoundSpent, DataPhases
<1>4. /\ row.round = round - 1 /\ row.alive > 0 /\ row.dead + row.alive = N
      /\ row.dead <= dead
      /\ TotalEnergy(nodes) < row.energy
      /\ firstDead = 0 <=> row.dead = 0
  BY <1>1, <1>3 DEF RowInv
<1>5. CountClusterHeads(nodes) <= N - dead
  <2>1. {n \in AliveNodes(nodes) : nodes[n].isClusterHead} \in SUBSET AliveNodes(nodes)
    OBVIOUS
  <2>2. IsFiniteSet(AliveNodes(nodes))
    BY NodeFinite, FS_Subset DEF AliveNodes
  <2>3. CountClusterHeads(nodes) <= Cardinality(AliveNodes(nodes))
    BY <2>1, <2>2, FS_Subset DEF CountClusterHeads
  <2>4. dead = N - Cardinality(AliveNodes(nodes))
    <3>1. Node \cap AliveNodes(nodes) = AliveNodes(nodes)
      BY DEF AliveNodes
    <3> QED
      BY <3>1, NodeFinite, FS_Difference DEF CountDeadNodes
  <2>5. Cardinality(AliveNodes(nodes)) \in Nat /\ CountClusterHeads(nodes) \in Nat
    BY <2>2, FS_CardinalityType, CountTypes
  <2> QED
    BY <1>2, <2>3, <2>4, <2>5
<1> HIDE DEF dead
<1> QED
  BY <1>1, <1>2, <1>4, <1>5

(* Record keeps it: the row written is that of the nodes. *)
LEMMA RecordRow ==
  ASSUME EngineInv, RowInv, Record
  PROVE  RowInv'
<1> SUFFICES ASSUME pc' # "done" PROVE RowInv'
  BY DEF RowInv
<1>1. /\ CountDeadNodes(nodes) < N /\ round' = round + 1 /\ pc' = "run" /\ nodes' = nodes
      /\ row' = [round |-> round, dead |-> CountDeadNodes(nodes),
                 alive |-> N - CountDeadNodes(nodes), chs |-> CountClusterHeads(nodes),
                 energy |-> TotalEnergy(nodes)]
      /\ firstDead' = IF CountDeadNodes(nodes) > 0 /\ firstDead = 0 THEN round ELSE firstDead
  <2>1. CountDeadNodes(nodes) \in Int /\ N \in Int
    BY CountTypes, StateAssumption
  <2> QED
    BY <2>1 DEF Record
<1>2. CountDeadNodes(nodes) \in 0 .. N /\ N \in Nat /\ round \in Nat \ {0} /\ row.dead \in Nat
      /\ TotalEnergy(nodes) \in Nat
  <2>1. nodes \in Ledger
    BY DEF EngineInv, TypeInv
  <2>2. Paid(nodes, nodes)
    BY <2>1, PaidReflexive DEF Ledger
  <2> QED
    BY <2>1, <2>2, PaidTotals, CountTypes, StateAssumption DEF EngineInv, TypeInv, TypeOK
<1>3. ~RoundSpent'
  BY <1>1 DEF RoundSpent, DataPhases
<1>4. row.dead <= CountDeadNodes(nodes) /\ (firstDead = 0 <=> row.dead = 0)
  BY DEF RowInv, Record
<1>5. firstDead' = 0 <=> CountDeadNodes(nodes) = 0
  BY <1>1, <1>2, <1>4
<1>6. CountDeadNodes(nodes') = CountDeadNodes(nodes) /\ TotalEnergy(nodes') = TotalEnergy(nodes)
  BY <1>1
<1> QED
  BY <1>1, <1>2, <1>3, <1>5, <1>6 DEF RowInv

(* Before the first row there is nothing to tie. *)
LEMMA InitRow == Init => RowInv
<1> SUFFICES ASSUME Init PROVE RowInv
  OBVIOUS
<1>1. /\ pc = "run" /\ round = 1 /\ firstDead = 0 /\ row = Header
      /\ nodes = [n \in Node |-> FreshNode]
  BY DEF Init
<1>2. TotalEnergy(nodes) = N * InitialEnergy /\ N * InitialEnergy \in Nat
  BY <1>1, EnergyAtStart
<1>3. ~RoundSpent
  BY <1>1 DEF RoundSpent, DataPhases
<1>4. CountDeadNodes(nodes) \in 0 .. N /\ N \in Nat \ {0}
  BY CountTypes, StateAssumption
<1> QED
  BY <1>1, <1>2, <1>3, <1>4 DEF RowInv, Header

(* The invariant of the last row is inductive. *)
LEMMA NextRow == EngineInv /\ RowInv /\ [Next]_vars => RowInv'
<1> SUFFICES ASSUME EngineInv, RowInv, [Next]_vars
             PROVE  RowInv'
  OBVIOUS
<1>0. nodes \in [Node -> NodeState]
  BY DEF EngineInv, TypeInv, TypeOK
<1>1. CASE BeginRound
  <2>1. \A n \in Node : nodes'[n].energy = nodes[n].energy /\ nodes'[n].alive = nodes[n].alive
    BY <1>0, <1>1 DEF BeginRound, ResetRoles, NodeState
  <2>2. pc # "done" /\ UNCHANGED runVars /\ ~RoundSpent'
    BY <1>1 DEF BeginRound, RoundSpent, DataPhases
  <2> QED
    BY <2>1, <2>2, RowStutter
<1>2. CASE EndRun \/ Done
  BY <1>2 DEF EndRun, Done, vars, RowInv
<1>3. CASE Record
  BY <1>3, RecordRow
<1>4. CASE ElectionNext
  <2>1. ASSUME NEW m \in Node, MakeHead(m)
        PROVE  \A n \in Node : nodes'[n].energy = nodes[n].energy
                               /\ nodes'[n].alive = nodes[n].alive
    BY <1>0, <2>1 DEF MakeHead, NodeState
  <2>2. \A n \in Node : nodes'[n].energy = nodes[n].energy /\ nodes'[n].alive = nodes[n].alive
    BY <1>4, <2>1 DEF ElectionNext, PassOver, LoseDraw, WinDraw, BecomeCandidate, EndDraw,
       BackOff, Elect, EndElect, ForceHead, KeepHeads
  <2>3. pc # "done" /\ UNCHANGED runVars /\ ~RoundSpent'
    BY <1>4 DEF ElectionNext, PassOver, LoseDraw, WinDraw, BecomeCandidate, EndDraw,
       BackOff, Elect, EndElect, ForceHead, KeepHeads, ReturnHeads, RoundSpent, DataPhases
  <2> QED
    BY <2>2, <2>3, RowStutter
<1>5. CASE FormationNext
  <2>1. \A n \in Node : nodes'[n].energy = nodes[n].energy /\ nodes'[n].alive = nodes[n].alive
    BY <1>5, JoinKeepsRoles DEF EngineInv, FormationNext, StayOut, EndJoin, AssignRelay,
       NoRelay, EndRelay
  <2>2. pc # "done" /\ UNCHANGED runVars /\ ~RoundSpent'
    <3>1. pc' = "advertise" => i' = 1
      BY <1>5 DEF FormationNext, StayOut, Join, EndJoin, AssignRelay, NoRelay, EndRelay,
         EngineInv, TypeInv, CursorInv
    <3> QED
      BY <1>5, <3>1 DEF FormationNext, StayOut, Join, EndJoin, AssignRelay, NoRelay, EndRelay,
         RoundSpent, DataPhases
  <2> QED
    BY <2>1, <2>2, RowStutter
<1>6. CASE DataPhaseNext
  BY <1>6, DataPhaseRow
<1>7. CASE UNCHANGED vars
  BY <1>7 DEF vars, runVars, RowInv, RoundSpent, TotalEnergy, CountDeadNodes
<1> QED
  BY <1>1, <1>2, <1>3, <1>4, <1>5, <1>6, <1>7 DEF Next

(* From one row to the next the dead do not fall and the energy does. *)
LEMMA RowStep ==
  EngineInv /\ RowInv /\ [Next]_vars =>
    (row' # row =>
       /\ row'.round = row.round + 1
       /\ row.alive > 0
       /\ row'.dead >= row.dead
       /\ row'.energy < row.energy
       /\ row'.dead + row'.alive = N
       /\ row'.chs <= row'.alive
       /\ firstDead' # firstDead <=> row.dead = 0 /\ row'.dead > 0
       /\ firstDead' # firstDead => firstDead' = row'.round
       /\ row'.alive = 0 => lastDead' = row'.round /\ row'.dead > row.dead)
<1> SUFFICES ASSUME EngineInv, RowInv, [Next]_vars, row' # row PROVE Record
  BY RecordFacts
<1> QED
  BY DEF Next, vars, runVars, BeginRound, EndRun, ElectionNext, PassOver, LoseDraw, WinDraw,
     BecomeCandidate, EndDraw, BackOff, Elect, EndElect, ForceHead, KeepHeads, ReturnHeads,
     FormationNext, StayOut, Join, EndJoin, AssignRelay, NoRelay, EndRelay,
     DataPhaseNext, Advertise, EndAdvertise, NotAMember, SetupMember, EndSetup, BeginFrame,
     EndFrames, SkipCluster, EnterCluster, EndFrame, InSlot, EmptySlot, SuppressedSlot,
     DataSlot, EndSlots, ForwardRelay, ForwardDirect, HeadLost, NextCluster, Done

(* The invariant of the last row holds in every state. *)
THEOREM RowsKept == Spec => []RowInv
<1>1. Init => RowInv
  BY InitRow
<1>2. EngineInv /\ RowInv /\ [Next]_vars => RowInv'
  BY NextRow
<1> QED
  BY <1>1, <1>2, EngineKept, PTL DEF Spec

(* The lines of the output file of Run (lines 188-236) follow one another, *)
(* count every node, never lose a death or gain energy, FND is the round   *)
(* of the first line with a dead node, and LND that in which the last node *)
(* died, once it has.                                                      *)
THEOREM RowsCorrect == Spec => RowsFollow
<1>1. EngineInv /\ RowInv /\ [Next]_vars =>
        [row' # row =>
           /\ row'.round = row.round + 1
           /\ row.alive > 0
           /\ row'.dead >= row.dead
           /\ row'.energy < row.energy
           /\ row'.dead + row'.alive = N
           /\ row'.chs <= row'.alive
           /\ firstDead' # firstDead <=> row.dead = 0 /\ row'.dead > 0
           /\ firstDead' # firstDead => firstDead' = row'.round
           /\ row'.alive = 0 => lastDead' = row'.round /\ row'.dead > row.dead]_vars
  BY RowStep
<1> QED
  BY <1>1, EngineKept, RowsKept, PTL DEF Spec, RowsFollow

=============================================================================
