---------------------------- MODULE WsnLifetime ----------------------------
(***************************************************************************)
(* What a run of the simulator promises about batteries and rounds,        *)
(* whatever the protocol: energy is only ever spent, a node is alive       *)
(* exactly as long as it has some, rounds follow one another while a node  *)
(* is alive, and no round is free of charge.                               *)
(***************************************************************************)
EXTENDS Integers

CONSTANTS Node, InitialEnergy, MaxRounds

VARIABLES
  energy,   \* what is left in every battery
  alive,    \* the nodes that are alive
  round,    \* the round being simulated
  spent,    \* has this round cost anything yet?
  stopped   \* has the run ended?

Init ==
  /\ energy = [n \in Node |-> InitialEnergy]
  /\ alive = Node
  /\ round = 1
  /\ spent = FALSE
  /\ stopped = FALSE

(* Some nodes pay; those that run out die, and nobody comes back.          *)
Spend ==
  /\ ~stopped
  /\ round <= MaxRounds
  /\ energy' \in [Node -> 0 .. InitialEnergy]
  /\ \A n \in Node : energy'[n] <= energy[n]
  /\ alive' = {n \in alive : energy'[n] > 0}
  /\ \E n \in alive : energy'[n] < energy[n]
  /\ spent' = TRUE
  /\ UNCHANGED <<round, stopped>>

NextRound ==
  /\ ~stopped
  /\ spent
  /\ alive # {}
  /\ round <= MaxRounds
  /\ round' = round + 1
  /\ spent' = FALSE
  /\ UNCHANGED <<energy, alive, stopped>>

Stop ==
  /\ ~stopped
  /\ alive = {} \/ round > MaxRounds
  /\ stopped' = TRUE
  /\ UNCHANGED <<energy, alive, round, spent>>

Next == Spend \/ NextRound \/ Stop

vars == <<energy, alive, round, spent, stopped>>

Spec == Init /\ [][Next]_vars

=============================================================================
