---------------------------- MODULE WsnDataPhase ----------------------------
(***************************************************************************)
(* SetupPhase, SteadyStateFrame and SteadyStatePhase: where the energy is  *)
(* spent.  Any charge may kill the node that pays, in the middle of a loop *)
(* that goes on to use it.                                                 *)
(***************************************************************************)
EXTENDS WsnState

(* First loop of SetupPhase, over chs: pc = "advertise", i counts from 1.  *)
Advertise ==
  /\ pc = "advertise" /\ i <= Len(chs)
  /\ LET h == chs[i]
         bcast(ns, bits) == Consume(ns, h, TxCost(bits, BcastDist2))
     IN  nodes' = bcast(bcast(bcast(nodes, ControlBits), ControlBits), DataBits)
  /\ i' = i + 1
  /\ UNCHANGED <<pc, runVars, pos, event, chs, electVars, todo, relayVars, frameVars>>

EndAdvertise ==
  /\ pc = "advertise" /\ i > Len(chs)
  /\ i' = 0
  /\ pc' = "setup"
  /\ UNCHANGED <<runVars, pos, nodes, event, chs, electVars, todo, relayVars, frameVars>>

(* The member n receives ADV and INV.                                      *)
HearAdverts(ns, n) ==
  LET rx(ms) == Consume(ms, n, RxCost(ControlBits)) IN rx(rx(ns))

(* JOIN-REQ and the reception of the schedule.  clusterHeadId is read      *)
(* again, through the reference n, after each charge: it is None once n is *)
(* dead, and no head then receives the JOIN-REQ.                           *)
JoinRequest(ns, n) ==
  LET sent == Consume(ns, n, TxCost(ControlBits, Distance2(n, ns[n].clusterHeadId)))
      heard == Consume(sent, AsUint(sent[n].clusterHeadId), RxCost(ControlBits))
  IN  Consume(heard, n, RxCost(DataBits))

NotAMember ==
  /\ pc = "setup" /\ i \in Node
  /\ ~nodes[i].alive \/ nodes[i].isClusterHead
  /\ i' = i + 1
  /\ UNCHANGED <<pc, runVars, pos, nodes, event, chs, electVars, todo, relayVars, frameVars>>

SetupMember ==
  /\ pc = "setup" /\ i \in Node
  /\ nodes[i].alive /\ ~nodes[i].isClusterHead
  /\ LET heard == HearAdverts(nodes, i)
     IN  nodes' = IF heard[i].clusterHeadId >= 0 THEN JoinRequest(heard, i) ELSE heard
  /\ i' = i + 1
  /\ UNCHANGED <<pc, runVars, pos, event, chs, electVars, todo, relayVars, frameVars>>

EndSetup ==
  /\ pc = "setup" /\ i \notin Node
  /\ pc' = "frame"
  /\ frame' = 0
  /\ UNCHANGED <<runVars, pos, nodes, event, chs, electVars, todo, relayVars, i, slot>>

-----------------------------------------------------------------------------
(* Mutation of Unassigned: members whose head is dead count as well. *)
UnassignedOrStranded(ns) ==
  {n \in Node : /\ ns[n].alive /\ ~ns[n].isClusterHead
                /\ ns[n].clusterHeadId # None => ~ns[ns[n].clusterHeadId].alive}

(* Nodes without a cluster send to the base station themselves. *)
Unassigned(ns) ==
  {n \in Node : ns[n].alive /\ ~ns[n].isClusterHead /\ ns[n].clusterHeadId = None}

SendDirect(ns) ==
  [n \in Node |-> IF n \in Unassigned(ns)
                    THEN Consume(ns, n, TxCost(DataBits, ToBase2(n)))[n] ELSE ns[n]]

BeginFrame ==
  /\ pc = "frame" /\ frame < FramesPerRound
  /\ nodes' = SendDirect(nodes)
  /\ pc' = "cluster"
  /\ i' = 0
  /\ UNCHANGED <<runVars, pos, event, chs, electVars, todo, relayVars, frameVars>>

EndFrames ==
  /\ pc = "frame" /\ frame = FramesPerRound
  /\ pc' = "record"
  /\ UNCHANGED <<runVars, pos, nodes, event, chs, electVars, todo, relayVars, i, frameVars>>

SkipCluster ==
  /\ pc = "cluster" /\ i \in Node
  /\ ~nodes[i].alive \/ ~nodes[i].isClusterHead
  /\ i' = i + 1
  /\ UNCHANGED <<pc, runVars, pos, nodes, event, chs, electVars, todo, relayVars, frameVars>>

EnterCluster ==
  /\ pc = "cluster" /\ i \in Node
  /\ nodes[i].alive /\ nodes[i].isClusterHead
  /\ pc' = "slot"
  /\ slot' = 1
  /\ UNCHANGED <<runVars, pos, nodes, event, chs, electVars, todo, relayVars, i, frame>>

EndFrame ==
  /\ pc = "cluster" /\ i \notin Node
  /\ pc' = "frame"
  /\ frame' = frame + 1
  /\ UNCHANGED <<runVars, pos, nodes, event, chs, electVars, todo, relayVars, i, slot>>

-----------------------------------------------------------------------------
(* The member loop of cluster head i.  It is not left when the head dies.  *)
InSlot == pc = "slot" /\ slot <= Len(nodes[i].members)
SlotMember == nodes[i].members[slot]

TooFar(m) == Lecmac /\ Dist2(pos[m], event) > DE2

(* LEACH keeps the radio on; the others listen for a VP window at the      *)
(* start of every slot.                                                    *)
VpListen(ns) ==
  IF Protocol = "LEACH" THEN ns ELSE Consume(ns, i, IdleCost(ControlBits))

(* Mutation of EmptySlot: the loop does not move on. *)
EmptySlotStuck ==
  /\ InSlot
  /\ ~nodes[SlotMember].alive
  /\ nodes' = Consume(nodes, i,
                IdleCost(IF Protocol = "LEACH" THEN DataBits ELSE ControlBits))
  /\ UNCHANGED <<pc, runVars, pos, event, chs, electVars, todo, relayVars, i, frameVars>>

EmptySlot ==
  /\ InSlot
  /\ ~nodes[SlotMember].alive
  /\ nodes' = Consume(nodes, i,
                IdleCost(IF Protocol = "LEACH" THEN DataBits ELSE ControlBits))
  /\ slot' = slot + 1
  /\ UNCHANGED <<pc, runVars, pos, event, chs, electVars, todo, relayVars, i, frame>>

SuppressedSlot ==
  /\ InSlot
  /\ nodes[SlotMember].alive /\ TooFar(SlotMember)
  /\ nodes' = Consume(VpListen(nodes), SlotMember, IdleCost(DataBits))
  /\ slot' = slot + 1
  /\ UNCHANGED <<pc, runVars, pos, event, chs, electVars, todo, relayVars, i, frame>>

DataSlot ==
  /\ InSlot
  /\ nodes[SlotMember].alive /\ ~TooFar(SlotMember)
  /\ LET sent == Consume(VpListen(nodes), SlotMember,
                         TxCost(DataBits, Distance2(SlotMember, i)))
     IN  nodes' = Consume(sent, i, RxCost(DataBits))
  /\ slot' = slot + 1
  /\ UNCHANGED <<pc, runVars, pos, event, chs, electVars, todo, relayVars, i, frame>>

EndSlots ==
  /\ pc = "slot" /\ slot > Len(nodes[i].members)
  /\ pc' = "forward"
  /\ UNCHANGED <<runVars, pos, nodes, event, chs, electVars, todo, relayVars, i, frameVars>>

-----------------------------------------------------------------------------
(* The aggregate goes to the base station, over the gateway when it is     *)
(* alive.  The gateway is charged for sending even if receiving killed it: *)
(* Consume ignores the dead.                                               *)
Gateway == IF Protocol = "LECMAC_PLUS" THEN relayMap[i] ELSE None

SendOver(ns, s, g) ==
  LET sent == Consume(ns, s, TxCost(DataBits, Distance2(s, g)))
      received == Consume(sent, g, RxCost(DataBits))
  IN  Consume(received, g, TxCost(DataBits, ToBase2(g)))

NextCluster ==
  /\ pc' = "cluster"
  /\ i' = i + 1

(* Mutation of ForwardRelay: the gateway is not asked whether it is alive. *)
ForwardRelayBlindly ==
  /\ pc = "forward"
  /\ nodes[i].alive
  /\ Gateway \in Node
  /\ nodes' = SendOver(nodes, i, Gateway)
  /\ NextCluster
  /\ UNCHANGED <<runVars, pos, event, chs, electVars, todo, relayVars, frameVars>>

ForwardRelay ==
  /\ pc = "forward"
  /\ nodes[i].alive
  /\ Gateway \in Node /\ nodes[Gateway].alive
  /\ nodes' = SendOver(nodes, i, Gateway)
  /\ NextCluster
  /\ UNCHANGED <<runVars, pos, event, chs, electVars, todo, relayVars, frameVars>>

ForwardDirect ==
  /\ pc = "forward"
  /\ nodes[i].alive
  /\ Gateway \in Node => ~nodes[Gateway].alive
  /\ nodes' = Consume(nodes, i, TxCost(DataBits, ToBase2(i)))
  /\ NextCluster
  /\ UNCHANGED <<runVars, pos, event, chs, electVars, todo, relayVars, frameVars>>

HeadLost ==
  /\ pc = "forward"
  /\ ~nodes[i].alive
  /\ NextCluster
  /\ UNCHANGED <<runVars, pos, nodes, event, chs, electVars, todo, relayVars, frameVars>>

DataPhaseNext ==
  \/ Advertise \/ EndAdvertise
  \/ NotAMember \/ SetupMember \/ EndSetup
  \/ BeginFrame \/ EndFrames
  \/ SkipCluster \/ EnterCluster \/ EndFrame
  \/ EmptySlot \/ SuppressedSlot \/ DataSlot \/ EndSlots
  \/ ForwardRelay \/ ForwardDirect \/ HeadLost

=============================================================================
