----------------------------- MODULE WsnEngine -----------------------------
(***************************************************************************)
(* WsnRoundSimulator: PrepareNodes, Run and SimulateRound, composed of the *)
(* election, the formation of clusters and the data phase.                 *)
(*                                                                         *)
(*   run -> draw -> [elect] -> fallback -> join -> [relay] -> advertise    *)
(*       -> setup -> frame -> (cluster -> (slot)* -> forward)* -> ...      *)
(*       -> record -> run ... done                                         *)
(***************************************************************************)
EXTENDS WsnElection, WsnFormation, WsnDataPhase

(* The line of the output file for a round; the header line before it.     *)
Header == [round |-> 0, dead |-> 0, alive |-> N, chs |-> 0, energy |-> N * InitialEnergy]

(* PrepareNodes, and the locals of Run. *)
Init ==
  /\ pc = "run"
  /\ round = 1 /\ firstDead = 0 /\ lastDead = 0
  /\ row = Header
  /\ pos \in Placements
  /\ nodes = [n \in Node |-> FreshNode]
  /\ event = BaseStation
  /\ chs = <<>>
  /\ candidates = {} /\ todo = {}
  /\ relayMap = [n \in Node |-> None]
  /\ gwLoad = [n \in Node |-> 0]
  /\ i = 0 /\ slot = 0 /\ frame = 0

(* Mutation of MoreRounds: the last survivor ends the run. *)
MoreRoundsForTwo == round <= MaxRounds /\ CountDeadNodes(nodes) < N - 1

MoreRounds == round <= MaxRounds /\ CountDeadNodes(nodes) < N

(* SimulateRound draws the event and enters SelectClusterHeads. *)
BeginRound ==
  /\ pc = "run" /\ MoreRounds
  /\ event' \in EventSites
  /\ nodes' = ResetRoles(nodes)
  /\ chs' = <<>>
  /\ i' = 0 /\ slot' = 0 /\ frame' = 0
  /\ pc' = "draw"
  /\ UNCHANGED <<runVars, pos, electVars, todo, relayVars>>

EndRun ==
  /\ pc = "run" /\ ~MoreRounds
  /\ pc' = "done"
  /\ UNCHANGED <<runVars, pos, nodes, event, chs, electVars, todo, relayVars, i, frameVars>>

(* Mutation of Record: every round with a dead node is the first. *)
RecordAnyDead ==
  /\ pc = "record"
  /\ LET dead == CountDeadNodes(nodes) IN
     /\ firstDead' = IF dead > 0 THEN round ELSE firstDead
     /\ lastDead' = IF dead > 0 THEN round ELSE lastDead
     /\ row' = [round |-> round, dead |-> dead, alive |-> N - dead,
                chs |-> CountClusterHeads(nodes), energy |-> TotalEnergy(nodes)]
     /\ IF dead >= N THEN pc' = "done" /\ round' = round
                     ELSE pc' = "run" /\ round' = round + 1
  /\ UNCHANGED <<pos, nodes, event, chs, electVars, todo, relayVars, i, frameVars>>

(* The end of the body of the loop of Run: the statistics of the round. *)
Record ==
  /\ pc = "record"
  /\ LET dead == CountDeadNodes(nodes) IN
     /\ firstDead' = IF dead > 0 /\ firstDead = 0 THEN round ELSE firstDead
     /\ lastDead' = IF dead > 0 THEN round ELSE lastDead
     /\ row' = [round |-> round, dead |-> dead, alive |-> N - dead,
                chs |-> CountClusterHeads(nodes), energy |-> TotalEnergy(nodes)]
     /\ IF dead >= N THEN pc' = "done" /\ round' = round
                     ELSE pc' = "run" /\ round' = round + 1
  /\ UNCHANGED <<pos, nodes, event, chs, electVars, todo, relayVars, i, frameVars>>

Done == pc = "done" /\ UNCHANGED vars

Next ==
  \/ BeginRound \/ EndRun \/ Record
  \/ ElectionNext
  \/ FormationNext
  \/ DataPhaseNext
  \/ Done

(* One process that nothing suspends. *)
Spec == Init /\ [][Next]_vars /\ WF_vars(Next)

=============================================================================
