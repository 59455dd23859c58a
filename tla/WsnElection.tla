---------------------------- MODULE WsnElection ----------------------------
(***************************************************************************)
(* SelectClusterHeads.  Three loops follow one another: every node is      *)
(* offered a draw (pc = "draw"); LECMAC and LECMAC+ go through the winners *)
(* in descending order of energy and apply the proximity back-off          *)
(* (pc = "elect"); when nobody was elected the most energetic node is      *)
(* forced (pc = "fallback").                                               *)
(*                                                                         *)
(* A draw of the random generator is a nondeterministic choice between the *)
(* outcomes it can have.                                                   *)
(***************************************************************************)
EXTENDS WsnState

Epoch == (round - 1) \div EpochLen + 1
EpochRound == (round - 1) % EpochLen

(* ComputeAdaptiveTE is                                                    *)
(*    max(kMinTE, kThresholdEnergy * ((total / alive) / kInitialEnergy)),  *)
(* and e lies above it.                                                    *)
AboveAdaptiveTE(e) ==
  LET alive == AliveNodes(nodes) IN
  /\ e > MinTE
  /\ e * Cardinality(alive) * InitialEnergy > ThresholdEnergy * EnergyOf(nodes, alive)

(* The nodes for which the random generator is asked.                      *)
Eligible(n) ==
  /\ nodes[n].alive
  /\ Protocol = "LEACH" => nodes[n].lastChEpoch # Epoch
  /\ Protocol = "LECMAC" => nodes[n].energy > ThresholdEnergy
  /\ Protocol = "LECMAC_PLUS" => AboveAdaptiveTE(nodes[n].energy)

(* Mutation of DrawOutcomes: a flat probability in every round. *)
FlatOutcomes == BOOLEAN

(* Whether the draw wins.  The threshold of LEACH is                       *)
(* p / (1 - p * epRound) = 1 / (EpochLen - epRound): 1 in the last round   *)
(* of an epoch, so that no draw reaches it.  ES-MAC and LECMAC have a      *)
(* fixed probability, and that of LECMAC+ is proportional to the energy;   *)
(* all lie strictly between 0 and 1.                                       *)
DrawOutcomes ==
  IF Protocol = "LEACH" /\ EpochRound = EpochLen - 1 THEN {TRUE} ELSE BOOLEAN

TooClose(n) == \E h \in Range(chs) : Distance2(n, h) < PT2

MakeHead(n) ==
  /\ nodes' = [nodes EXCEPT ![n].isClusterHead = TRUE,
                            ![n].lastChEpoch = IF Protocol = "LEACH" THEN Epoch ELSE @]
  /\ chs' = Append(chs, n)

-----------------------------------------------------------------------------
PassOver ==
  /\ pc = "draw" /\ i \in Node
  /\ ~Eligible(i)
  /\ i' = i + 1
  /\ UNCHANGED <<pc, runVars, pos, nodes, event, chs, electVars, todo, relayVars, frameVars>>

LoseDraw ==
  /\ pc = "draw" /\ i \in Node
  /\ Eligible(i) /\ FALSE \in DrawOutcomes
  /\ i' = i + 1
  /\ UNCHANGED <<pc, runVars, pos, nodes, event, chs, electVars, todo, relayVars, frameVars>>

(* LEACH and ES-MAC: a winner is cluster head at once. *)
WinDraw ==
  /\ pc = "draw" /\ i \in Node
  /\ Eligible(i) /\ ~Lecmac
  /\ MakeHead(i)
  /\ i' = i + 1
  /\ UNCHANGED <<pc, runVars, pos, event, electVars, todo, relayVars, frameVars>>

(* LECMAC and LECMAC+: a winner is a candidate. *)
BecomeCandidate ==
  /\ pc = "draw" /\ i \in Node
  /\ Eligible(i) /\ Lecmac
  /\ candidates' = candidates \cup {i}
  /\ i' = i + 1
  /\ UNCHANGED <<pc, runVars, pos, nodes, event, chs, todo, relayVars, frameVars>>

EndDraw ==
  /\ pc = "draw" /\ i \notin Node
  /\ todo' = candidates
  /\ pc' = IF Lecmac THEN "elect" ELSE "fallback"
  /\ UNCHANGED <<runVars, pos, nodes, event, chs, electVars, relayVars, i, frameVars>>

-----------------------------------------------------------------------------
(* Mutation of NextCandidate: sorted the wrong way round. *)
WeakestCandidate(n) ==
  /\ n \in todo
  /\ \A m \in todo : nodes[m].energy >= nodes[n].energy

(* The next candidate of the vector sorted by descending energy.  The      *)
(* comparison looks at the energy alone and std::sort is not stable, so    *)
(* candidates of equal energy come in any order.                           *)
NextCandidate(n) ==
  /\ n \in todo
  /\ \A m \in todo : nodes[m].energy <= nodes[n].energy

BackOff(n) ==
  /\ pc = "elect"
  /\ NextCandidate(n)
  /\ TooClose(n)
  /\ todo' = todo \ {n}
  /\ UNCHANGED <<pc, runVars, pos, nodes, event, chs, electVars, relayVars, i, frameVars>>

Elect(n) ==
  /\ pc = "elect"
  /\ NextCandidate(n)
  /\ ~TooClose(n)
  /\ MakeHead(n)
  /\ todo' = todo \ {n}
  /\ UNCHANGED <<pc, runVars, pos, event, electVars, relayVars, i, frameVars>>

EndElect ==
  /\ pc = "elect" /\ todo = {}
  /\ pc' = "fallback"
  /\ UNCHANGED <<runVars, pos, nodes, event, chs, electVars, todo, relayVars, i, frameVars>>

-----------------------------------------------------------------------------
(* Mutation of MostEnergetic: the comparison with best is lost. *)
FirstAlive(n) == nodes[n].alive /\ \A m \in AliveNodes(nodes) : n <= m

(* The alive node with the most energy, the lowest id among equals. *)
MostEnergetic(n) ==
  /\ nodes[n].alive
  /\ \A m \in AliveNodes(nodes) :
       \/ nodes[m].energy < nodes[n].energy
       \/ nodes[m].energy = nodes[n].energy /\ n <= m

(* SelectClusterHeads returns: its candidates go out of scope. *)
ReturnHeads ==
  /\ candidates' = {}
  /\ i' = 0
  /\ pc' = "join"

ForceHead(n) ==
  /\ pc = "fallback" /\ chs = <<>>
  /\ MostEnergetic(n)
  /\ MakeHead(n)
  /\ ReturnHeads
  /\ UNCHANGED <<runVars, pos, event, todo, relayVars, frameVars>>

(* Mutation of KeepHeads: the election may end without a head. *)
KeepAnyHeads ==
  /\ pc = "fallback"
  /\ ReturnHeads
  /\ UNCHANGED <<runVars, pos, nodes, event, chs, todo, relayVars, frameVars>>

KeepHeads ==
  /\ pc = "fallback"
  /\ chs # <<>> \/ AliveNodes(nodes) = {}
  /\ ReturnHeads
  /\ UNCHANGED <<runVars, pos, nodes, event, chs, todo, relayVars, frameVars>>

ElectionNext ==
  \/ PassOver \/ LoseDraw \/ WinDraw \/ BecomeCandidate \/ EndDraw
  \/ \E n \in Node : BackOff(n) \/ Elect(n)
  \/ EndElect
  \/ \E n \in Node : ForceHead(n)
  \/ KeepHeads

=============================================================================
